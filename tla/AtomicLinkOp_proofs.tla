------------------------ MODULE AtomicLinkOp_proofs ------------------------
(***************************************************************************)
(* Lemmas about the words and the engine of AtomicLinkOp, for every width   *)
(* and number of registers: the operations on words give words, each call   *)
(* of an engine gives an engine, made twice it is made once, and the calls  *)
(* of one operation together do what its test expects.  The modules about   *)
(* engines that talk to each other cite them.                               *)
(***************************************************************************)
EXTENDS AtomicLinkOp, AloTests, WellFoundedInduction, TLAPS

(* Words *)

(* Induction, of a set of numbers. *)
LEMMA NatInduct ==
  ASSUME NEW S, 0 \in S, \A n \in Nat : n \in S => n + 1 \in S
  PROVE  Nat \subseteq S
PROOF
  <1>. DEFINE T == Nat \ S
              R == OpToRel(<, Nat)
  <1>1. SUFFICES ASSUME T # {} PROVE FALSE
    OBVIOUS
  <1>2. IsWellFoundedOn(R, Nat)
    BY NatLessThanWellFounded
  <1>3. \A x, y \in Nat : <<y, x>> \in R <=> y < x
    BY DEF OpToRel
  <1>. HIDE DEF R
  <1>4. PICK x \in T : \A y \in T : ~ (<<y, x>> \in R)
    BY <1>1, <1>2, WFMin
  <1>5. x \in Nat /\ x # 0 /\ x - 1 \in Nat /\ x - 1 < x
    BY <1>4
  <1>6. x - 1 \notin T
    BY <1>3, <1>4, <1>5
  <1>7. (x - 1) + 1 \in S
    BY <1>5, <1>6
  <1>. QED  BY <1>4, <1>5, <1>7

(* Powers of two are positive, and a larger one is an even multiple of a    *)
(* smaller one.                                                             *)
LEMMA Powers ==
  /\ \A n \in 0 .. W : 2^n \in Nat \ {0}
  /\ \A n \in 0 .. W : \A i \in 0 .. (n - 1) : \E h \in Nat : 2^n = 2^i * (2 * h)
PROOF
  <1>0. 2^0 = 1 /\ W \in Nat
    BY SizesAssumption
  <1>1. \A n \in 0 .. W : 2^n \in Nat \ {0}
    <2>. DEFINE S == {n \in Nat : n <= W => 2^n \in Nat \ {0}}
    <2>1. 0 \in S
      BY <1>0
    <2>2. ASSUME NEW n \in Nat, n \in S PROVE n + 1 \in S
      <3>1. CASE n + 1 <= W
        <4>1. 2^(n + 1) = 2 * 2^n /\ 2^n \in Nat \ {0}
          BY <2>2, <3>1, <1>0, PowersAssumption
        <4>. QED BY <4>1
      <3>. QED  BY <3>1, <1>0
    <2>. HIDE DEF S
    <2>3. Nat \subseteq S
      BY <2>1, <2>2, NatInduct
    <2>. QED  BY <2>3 DEF S
  <1>2. ASSUME NEW i \in 0 .. W, NEW n \in 0 .. W, i < n
        PROVE  \E h \in Nat : 2^n = 2^i * (2 * h)
    <2>. DEFINE P(x) == \E h \in Nat : x = 2^i * (2 * h)
                S == {m \in Nat : i + m + 1 <= W => P(2^(i + m + 1))}
    <2>1. 0 \in S
      <3>1. i + 1 <= W => 2^(i + 1) = 2^i * (2 * 1)
        BY <1>0, <1>1, PowersAssumption
      <3>. QED  BY <3>1
    <2>2. ASSUME NEW m \in Nat, m \in S PROVE m + 1 \in S
      <3>. SUFFICES ASSUME i + (m + 1) + 1 <= W PROVE P(2^(i + (m + 1) + 1))
        OBVIOUS
      <3>1. PICK h \in Nat : 2^(i + m + 1) = 2^i * (2 * h)
        BY <2>2, <1>0
      <3>2. 2^(i + (m + 1) + 1) = 2 * 2^(i + m + 1)
        <4>1. i + m + 1 \in 0 .. (W - 1) /\ i + (m + 1) + 1 = (i + m + 1) + 1
          BY <1>0
        <4>. QED  BY <4>1, PowersAssumption
      <3>3. 2^(i + (m + 1) + 1) = 2^i * (2 * (2 * h))
        BY <3>1, <3>2, <1>1
      <3>4. \A x : x = 2^i * (2 * (2 * h)) => P(x)
        OBVIOUS
      <3>. HIDE DEF P
      <3>. QED  BY <3>3, <3>4
    <2>. HIDE DEF S
    <2>3. Nat \subseteq S
      BY <2>1, <2>2, NatInduct
    <2>4. n - i - 1 \in Nat /\ i + (n - i - 1) + 1 = n
      BY <1>2
    <2>5. n - i - 1 \in S
      BY <2>3, <2>4
    <2>. QED  BY <1>0, <2>4, <2>5 DEF S
  <1>3. ASSUME NEW n \in 0 .. W, NEW i \in 0 .. (n - 1)
        PROVE  \E h \in Nat : 2^n = 2^i * (2 * h)
    <2>1. i \in 0 .. W /\ i < n
      BY <1>0
    <2>. QED  BY <2>1, <1>2
  <1>. QED  BY <1>1, <1>3

(* Division by a positive number.                                          *)
LEMMA Quotients ==
  ASSUME NEW d \in Nat \ {0}
  PROVE  /\ \A a \in Int : a % d \in 0 .. (d - 1)
         /\ \A a \in Nat : a \div d \in Nat /\ (a < d => a \div d = 0)
         /\ \A a, q \in Nat : (a + d * q) \div d = (a \div d) + q
OBVIOUS

(* An even number more or less.                                             *)
LEMMA Parity ==
  ASSUME NEW a \in Nat, NEW h \in Nat
  PROVE  (a + 2 * h) % 2 = a % 2
OBVIOUS

(* Adding a power of two to a smaller word sets its bit and no other. *)
LEMMA BitsOfSum ==
  ASSUME NEW n \in 0 .. (W - 1), NEW w \in 0 .. (2^n - 1)
  PROVE  /\ BitAt(w, n) = 0 /\ BitAt(w + 2^n, n) = 1
         /\ \A i \in 0 .. (n - 1) : BitAt(w + 2^n, i) = BitAt(w, i)
PROOF
  <1>1. n \in 0 .. W /\ 2^n \in Nat \ {0} /\ w \in Nat /\ w < 2^n
    BY Powers, SizesAssumption
  <1>2. w \div 2^n = 0 /\ (w + 2^n * 1) \div 2^n = (w \div 2^n) + 1
    BY <1>1, Quotients
  <1>3. BitAt(w, n) = 0 /\ BitAt(w + 2^n, n) = 1
    BY <1>1, <1>2 DEF BitAt
  <1>4. ASSUME NEW i \in 0 .. (n - 1)
        PROVE  BitAt(w + 2^n, i) = BitAt(w, i)
    <2>1. i \in 0 .. W /\ 2^i \in Nat \ {0}
      BY Powers, SizesAssumption
    <2>2. PICK h \in Nat : 2^n = 2^i * (2 * h)
      BY <1>1, Powers
    <2>3. PICK q \in Nat : q = 2 * h
      OBVIOUS
    <2>4. (w + 2^i * q) \div 2^i = (w \div 2^i) + q /\ w \div 2^i \in Nat
      BY <1>1, <2>1, Quotients
    <2>. QED  BY <2>2, <2>3, <2>4, Parity DEF BitAt
  <1>. QED  BY <1>3, <1>4

(* Every choice of bits is a word. *)
LEMMA SomeWord ==
  ASSUME NEW g \in [0 .. (W - 1) -> {0, 1}]
  PROVE  \E w \in Word : \A i \in 0 .. (W - 1) : BitAt(w, i) = g[i]
PROOF
  <1>. DEFINE Fits(w, n) == w \in 0 .. (2^n - 1) /\ \A i \in 0 .. (n - 1) : BitAt(w, i) = g[i]
              S == {n \in Nat : n <= W => \E w : Fits(w, n)}
  <1>1. 0 \in S
    <2>1. 0 \in 0 .. (2^0 - 1)
      OBVIOUS
    <2>2. Fits(0, 0)
      BY <2>1
    <2>. QED  BY <2>2
  <1>2. ASSUME NEW n \in Nat, n \in S
        PROVE  n + 1 \in S
    <2>. SUFFICES ASSUME n + 1 <= W PROVE \E w : Fits(w, n + 1)
      OBVIOUS
    <2>1. n \in 0 .. (W - 1) /\ n <= W
      BY SizesAssumption
    <2>2. PICK w : Fits(w, n)
      BY <1>2, <2>1
    <2>3. 2^(n + 1) = 2 * 2^n /\ 2^n \in Nat \ {0}
      BY <2>1, Powers, PowersAssumption, SizesAssumption
    <2>4. /\ BitAt(w, n) = 0 /\ BitAt(w + 2^n, n) = 1
          /\ \A i \in 0 .. (n - 1) : BitAt(w + 2^n, i) = BitAt(w, i)
      BY <2>1, <2>2, BitsOfSum
    <2>5. g[n] \in {0, 1} /\ \A i \in 0 .. ((n + 1) - 1) : i = n \/ i \in 0 .. (n - 1)
      BY <2>1
    <2>6. CASE g[n] = 0
      <3>1. w \in 0 .. (2^(n + 1) - 1)
        BY <2>2, <2>3
      <3>2. Fits(w, n + 1)
        BY <3>1, <2>2, <2>4, <2>5, <2>6
      <3>. QED  BY <3>2
    <2>7. CASE g[n] = 1
      <3>1. w + 2^n \in 0 .. (2^(n + 1) - 1)
        BY <2>2, <2>3
      <3>2. Fits(w + 2^n, n + 1)
        BY <3>1, <2>2, <2>4, <2>5, <2>7
      <3>. QED  BY <3>2
    <2>. QED  BY <2>5, <2>6, <2>7
  <1>. HIDE DEF S
  <1>3. Nat \subseteq S
    BY <1>1, <1>2, NatInduct
  <1>4. W \in S /\ W \in Nat
    BY <1>3, SizesAssumption
  <1>. QED  BY <1>4 DEF S, Word

(* A bit is 0 or 1.                                                         *)
LEMMA BitIsBit ==
  ASSUME NEW a \in Nat, NEW i \in 0 .. W
  PROVE  BitAt(a, i) \in {0, 1}
BY Powers, Quotients DEF BitAt

(* The operations on words are operations on words. *)
LEMMA WordsAreClosed ==
  /\ 0 \in Word /\ Word \subseteq Nat
  /\ \A a, b \in Int : Plus(a, b) \in Word /\ Minus(a, b) \in Word
  /\ \A a, b \in Nat : And(a, b) \in Word /\ Or(a, b) \in Word /\ Xor(a, b) \in Word
  /\ \A i \in 0 .. W : 2^i \in Nat
PROOF
  <1>1. 2^W \in Nat \ {0} /\ \A i \in 0 .. W : 2^i \in Nat
    BY Powers, SizesAssumption
  <1>2. 0 \in Word /\ Word \subseteq Nat
    BY <1>1 DEF Word
  <1>3. \A a, b \in Int : Plus(a, b) \in Word /\ Minus(a, b) \in Word
    <2>. SUFFICES ASSUME NEW a \in Int, NEW b \in Int
                  PROVE  Plus(a, b) \in Word /\ Minus(a, b) \in Word
      OBVIOUS
    <2>1. a + b \in Int /\ a + 2^W - b \in Int
      BY <1>1
    <2>. QED  BY <1>1, <2>1, Quotients DEF Plus, Minus, Word
  <1>4. ASSUME NEW a \in Nat, NEW b \in Nat
        PROVE  And(a, b) \in Word /\ Or(a, b) \in Word /\ Xor(a, b) \in Word
    <2>1. \A i \in 0 .. (W - 1) : BitAt(a, i) \in {0, 1} /\ BitAt(b, i) \in {0, 1}
      BY BitIsBit, SizesAssumption
    <2>3. And(a, b) \in Word
      <3>. DEFINE g == [i \in 0 .. (W - 1) |-> BitAt(a, i) * BitAt(b, i)]
      <3>1. g \in [0 .. (W - 1) -> {0, 1}]
        BY <2>1
      <3>2. PICK w \in Word : \A i \in 0 .. (W - 1) : BitAt(w, i) = g[i]
        BY <3>1, SomeWord
      <3>. QED  BY <3>2 DEF And, ByBits
    <2>4. Or(a, b) \in Word
      <3>. DEFINE g == [i \in 0 .. (W - 1) |-> IF BitAt(a, i) + BitAt(b, i) = 0 THEN 0 ELSE 1]
      <3>1. g \in [0 .. (W - 1) -> {0, 1}]
        BY <2>1
      <3>2. PICK w \in Word : \A i \in 0 .. (W - 1) : BitAt(w, i) = g[i]
        BY <3>1, SomeWord
      <3>. QED  BY <3>2 DEF Or, ByBits
    <2>5. Xor(a, b) \in Word
      <3>. DEFINE g == [i \in 0 .. (W - 1) |-> (BitAt(a, i) + BitAt(b, i)) % 2]
      <3>1. g \in [0 .. (W - 1) -> {0, 1}]
        BY <2>1
      <3>2. PICK w \in Word : \A i \in 0 .. (W - 1) : BitAt(w, i) = g[i]
        BY <3>1, SomeWord
      <3>. QED  BY <3>2 DEF Xor, ByBits
    <2>. QED  BY <2>3, <2>4, <2>5
  <1>. QED  BY <1>1, <1>2, <1>3, <1>4

-----------------------------------------------------------------------------
(* Values *)

(* The opcodes, class by class. *)
LEMMA OpcodeFacts ==
  ASSUME NEW op \in Opcode
  PROVE  /\ op.name \in CondOp => op.arg \in 0 .. 6
         /\ op.name \in BitOp => op.arg \in 0 .. (W - 1)
         /\ \/ op.name \in NeedsReply \/ op.name \in CountsAtSource
            \/ op.name \in {"INC", "DEC"} \/ op.name \in {"WR", "NOP", "BAD"}
            \/ op.name \in BitOp
  <1>1. CASE op \in Op(NoFieldOp \cup {"NOP", "BAD"}, {0})
    BY <1>1 DEF Op, NoFieldOp, CondOp, BitOp, NeedsReply, CountsAtSource
  <1>2. CASE op \in Op(CondOp, 0 .. 6)
    BY <1>2 DEF Op, CondOp, BitOp, NeedsReply, CountsAtSource
  <1>3. CASE op \in Op(BitOp, 0 .. (W - 1))
    BY <1>3 DEF Op, CondOp, BitOp
  <1>. QED  BY <1>1, <1>2, <1>3 DEF Opcode

(* Whatever an end computes for a register or for the other end is a word. *)
LEMMA ValueTypes ==
  ASSUME NEW op \in Opcode, NEW d \in Word, NEW s \in Word
  PROVE  /\ Counted(op, d) \in Word
         /\ op.name \in BitOp => BitResult(op, d) \in Word
         /\ Reply(op, d, s) \in Word /\ Kept(op, d, s) \in Word
  <1>1. d \in Nat /\ s \in Nat
    BY WordsAreClosed
  <1>2. Counted(op, d) \in Word
    BY <1>1, WordsAreClosed DEF Counted
  <1>3. op.name \in BitOp => BitResult(op, d) \in Word
    <2>1. op.name \in BitOp => op.arg \in 0 .. W
      BY OpcodeFacts, SizesAssumption
    <2>. QED  BY <1>1, <2>1, WordsAreClosed DEF BitResult
  <1>4. Reply(op, d, s) \in Word
    <2>1. /\ Plus(s, d) \in Word /\ Minus(d, s) \in Word /\ Minus(s, d) \in Word
          /\ Plus(d, 1) \in Word /\ Minus(d, 1) \in Word
      BY <1>1, WordsAreClosed
    <2>2. And(s, d) \in Word /\ Or(s, d) \in Word
      BY <1>1, WordsAreClosed
    <2>. QED  BY <2>1, <2>2 DEF Reply
  <1>. QED  BY <1>2, <1>3, <1>4 DEF Kept

\* What alo_initiate begins, what it sends, and what the source will write if
\* the destination agrees.  junk is what the caller's buffer held.
Begun(op, s) == \/ op.name \in NeedsReply \/ op.name \in CountsAtSource \/ op.name = "WR"
                \/ op.name \in BitOp /\ BitAllows(op, s)
Sent(op, s, junk) == IF op.name \in CountsAtSource THEN Counted(op, s)
                     ELSE IF op.name \in NeedsReply \cup {"WR"} THEN s ELSE junk
SourceKeeps(op, s, d) == IF op.name \in CountsAtSource THEN Counted(op, s)
                         ELSE IF op.name \in BitOp THEN BitResult(op, s)
                         ELSE Reply(op, d, s)

\* Register contents after an operation: <<source, destination>>.
Effect(op, s, d) ==
  LET done == Begun(op, s) /\ Executes(op, d, Sent(op, s, 0))
  IN  <<IF done /\ op.name # "WR" THEN Writes(SourceKeeps(op, s, d)) ELSE Leaves(s),
        IF done /\ op.name # "RD" THEN Writes(Kept(op, d, Sent(op, s, 0))) ELSE Leaves(d)>>

(* The buffer is not looked at by the operations that do not write it. *)
LEMMA JunkIsIgnored ==
  ASSUME NEW op \in Opcode, NEW s, NEW d, NEW junk
  PROVE  /\ Executes(op, d, Sent(op, s, junk)) <=> Executes(op, d, Sent(op, s, 0))
         /\ Executes(op, d, Sent(op, s, 0)) =>
              Kept(op, d, Sent(op, s, junk)) = Kept(op, d, Sent(op, s, 0))
  <1>1. CASE op.name \in CountsAtSource \cup NeedsReply \cup {"WR"}
    BY <1>1 DEF Sent
  <1>2. CASE op.name \in {"INC", "DEC"}
    BY <1>2 DEF CountsAtSource, Sent
  <1>3. CASE op.name \in BitOp
    BY <1>3 DEF Executes, Kept, BitOp, NoFieldOp, CondOp
  <1>4. CASE op.name \in {"NOP", "BAD"}
    BY <1>4 DEF Executes, BitOp, NoFieldOp, CondOp
  <1>. QED  BY <1>1, <1>2, <1>3, <1>4, OpcodeFacts

(* The condition codes are the columns of the table test_values. *)
LEMMA ConditionIsTested ==
  ASSUME NEW c \in 0 .. 6, NEW s, NEW d
  PROVE  TestValues(s, d, c) <=> Condition(c, d, s)
  <1>. DEFINE t == <<TRUE, s = d, d < s, d <= s, d > s, d >= s, FALSE>>
  <1>1. t[1] /\ t[2] = (s = d) /\ t[3] = (d < s) /\ t[4] = (d <= s)
    OBVIOUS
  <1>2. t[5] = (d > s) /\ t[6] = (d >= s) /\ ~t[7]
    OBVIOUS
  <1>3. TestValues(s, d, c) = t[c + 1]
    BY DEF TestValues
  <1>. HIDE DEF t
  <1>4. CASE c = 0
    <2>1. Condition(c, d, s) <=> TRUE
      BY <1>4 DEF Condition
    <2>2. c + 1 = 1
      BY <1>4
    <2>. QED  BY <1>1, <1>2, <1>3, <2>1, <2>2
  <1>5. CASE c = 1
    <2>1. Condition(c, d, s) <=> d = s
      BY <1>5 DEF Condition
    <2>2. c + 1 = 2
      BY <1>5
    <2>. QED  BY <1>1, <1>2, <1>3, <2>1, <2>2
  <1>6. CASE c = 2
    <2>1. Condition(c, d, s) <=> d < s
      BY <1>6 DEF Condition
    <2>2. c + 1 = 3
      BY <1>6
    <2>. QED  BY <1>1, <1>2, <1>3, <2>1, <2>2
  <1>7. CASE c = 3
    <2>1. Condition(c, d, s) <=> d <= s
      BY <1>7 DEF Condition
    <2>2. c + 1 = 4
      BY <1>7
    <2>. QED  BY <1>1, <1>2, <1>3, <2>1, <2>2
  <1>8. CASE c = 4
    <2>1. Condition(c, d, s) <=> d > s
      BY <1>8 DEF Condition
    <2>2. c + 1 = 5
      BY <1>8
    <2>. QED  BY <1>1, <1>2, <1>3, <2>1, <2>2
  <1>9. CASE c = 5
    <2>1. Condition(c, d, s) <=> d >= s
      BY <1>9 DEF Condition
    <2>2. c + 1 = 6
      BY <1>9
    <2>. QED  BY <1>1, <1>2, <1>3, <2>1, <2>2
  <1>10. CASE c = 6
    <2>1. Condition(c, d, s) <=> FALSE
      BY <1>10 DEF Condition
    <2>2. c + 1 = 7
      BY <1>10
    <2>. QED  BY <1>1, <1>2, <1>3, <2>1, <2>2
  <1>. QED  BY <1>4, <1>5, <1>6, <1>7, <1>8, <1>9, <1>10

(* What alo_initiate and alo_exec compute is what the tests expect. *)
LEMMA EffectIsTested ==
  ASSUME NEW op \in Opcode, NEW s, NEW d
  PROVE  Effect(op, s, d) = Expected(op, s, d)
  <1>. USE DEF Effect, Begun, Sent, SourceKeeps, Executes, Kept, Reply, Counted, NeedsReply,
               CountsAtSource, NoFieldOp, CondOp, BitOp, Expected, Both, Untouched
  <1>1. CASE op.name \in {"ADD", "SUBS", "SUBD"}
    BY <1>1 DEF AloAddTest, AloSubsTest, AloSubdTest
  <1>2. CASE op.name \in {"AND", "OR"}
    BY <1>2 DEF AloAndTest, AloOrTest
  <1>3. CASE op.name \in {"INC", "DEC"}
    BY <1>3 DEF AloIncTest, AloDecTest
  <1>4. CASE op.name \in {"INCS", "DECS"}
    BY <1>4 DEF AloIncsTest, AloDecsTest
  <1>5. CASE op.name \in {"INCD", "DECD"}
    BY <1>5 DEF AloIncdTest, AloDecdTest
  <1>6. CASE op.name = "RD"
    BY <1>6, ConditionIsTested, OpcodeFacts DEF AloRdTest
  <1>7. CASE op.name = "WR"
    BY <1>7, ConditionIsTested, OpcodeFacts DEF AloWrTest
  <1>8. CASE op.name = "SWAP"
    BY <1>8, ConditionIsTested, OpcodeFacts DEF AloSwapTest
  <1>9. CASE op.name \in {"BSET", "BRESET"}
    BY <1>9 DEF BitResult, BitAllows, AloBsetTest, AloBresetTest
  <1>10. CASE op.name = "BTESTSET"
    BY <1>10 DEF BitResult, BitAllows, AloBsetTest, AloBtestsetTest
  <1>11. CASE op.name = "BTESTRESET"
    BY <1>11 DEF BitResult, BitAllows, AloBresetTest, AloBtestresetTest
  <1>12. CASE op.name \in {"NOP", "BAD"}
    BY <1>12 DEF AloNopTest
  <1>. QED
    BY <1>1, <1>2, <1>3, <1>4, <1>5, <1>6, <1>7, <1>8, <1>9, <1>10, <1>11, <1>12, OpcodeFacts

-----------------------------------------------------------------------------
(* Calls.  Each of them, done twice with the same arguments, is done once:  *)
(* so what a step has done can be read off the engines while the operation  *)
(* goes on.                                                                 *)

\* The engine b, about to write w into its register r.
Own(b, w, r) == Pending([b EXCEPT !.result = w], "result", r)

(* There is a register 0, which an idle engine points to. *)
LEMMA ZeroReg == 0 \in RegNo
BY SizesAssumption DEF RegNo

(* Marking an engine as idle or as about to write. *)
LEMMA IdleFacts ==
  ASSUME NEW a \in Alo
  PROVE  /\ Idle(a) \in Alo
         /\ Idle(a).reg = a.reg /\ Idle(a).flags = a.flags
         /\ Idle(Idle(a)) = Idle(a)
BY ZeroReg DEF Alo, Idle

\* Marking twice with the same mark is marking once.
LEMMA PendingFacts ==
  ASSUME NEW a \in Alo, NEW r \in RegNo, NEW how \in {"result", "reply"}
  PROVE  /\ Pending(a, how, r) \in Alo
         /\ Pending(a, how, r).reg = a.reg /\ Pending(a, how, r).flags = a.flags
         /\ Pending(Pending(a, how, r), how, r) = Pending(a, how, r)
BY DEF Alo, Pending

\* An engine about to write its own result: what that sets and what it leaves.
LEMMA OwnFacts ==
  ASSUME NEW a \in Alo, NEW r \in RegNo, NEW w \in Word
  PROVE  /\ Own(a, w, r) \in Alo
         /\ Own(a, w, r).reg = a.reg /\ Own(a, w, r).flags = a.flags
         /\ Own(Own(a, w, r), w, r) = Own(a, w, r)
  <1>1. /\ Own(a, w, r) \in Alo
        /\ Own(a, w, r).reg = a.reg /\ Own(a, w, r).flags = a.flags
    BY DEF Alo, Pending, Own
  <1>2. Own(Own(a, w, r), w, r) = Own(a, w, r)
    BY DEF Alo, Pending, Own
  <1>. QED  BY <1>1, <1>2

(* alo_initiate in its four successful cases. *)
LEMMA InitiateCases ==
  ASSUME NEW b, NEW op, NEW sr, NEW junk
  PROVE  LET v == b.reg[sr]
             call == Initiate(b, op, sr, junk)
         IN  /\ op.name \in NeedsReply =>
                  call = [alo |-> Pending(b, "reply", sr), ret |-> 1, data |-> v]
             /\ op.name \in CountsAtSource =>
                  call = [alo |-> Own(b, Counted(op, v), sr), ret |-> 1, data |-> Counted(op, v)]
             /\ op.name = "WR" => call = [alo |-> Idle(b), ret |-> 1, data |-> v]
             /\ op.name \in BitOp /\ BitAllows(op, v) =>
                  call = [alo |-> Own(b, BitResult(op, v), sr), ret |-> 1, data |-> junk]
             /\ \/ op.name \in NeedsReply \/ op.name \in CountsAtSource \/ op.name = "WR"
                \/ op.name \in BitOp /\ BitAllows(op, v)
                \/ call = [alo |-> Idle(b), ret |-> 0, data |-> junk]
  <1>1. CASE op.name \in NeedsReply
    <2>1. op.name \notin CountsAtSource /\ op.name # "WR" /\ op.name \notin BitOp
      BY <1>1 DEF NeedsReply, CountsAtSource, BitOp
    <2>. QED  BY <1>1, <2>1 DEF Initiate, Own
  <1>2. CASE op.name \in CountsAtSource
    <2>1. op.name \notin NeedsReply /\ op.name # "WR" /\ op.name \notin BitOp
      BY <1>2 DEF NeedsReply, CountsAtSource, BitOp
    <2>. QED  BY <1>2, <2>1 DEF Initiate, Own
  <1>3. CASE op.name = "WR"
    <2>1. op.name \notin NeedsReply /\ op.name \notin CountsAtSource /\ op.name \notin BitOp
      BY <1>3 DEF NeedsReply, CountsAtSource, BitOp
    <2>. QED  BY <1>3, <2>1 DEF Initiate, Own
  <1>4. CASE ~ \/ op.name \in NeedsReply \/ op.name \in CountsAtSource \/ op.name = "WR"
    BY <1>4 DEF Initiate, Own
  <1>. QED  BY <1>1, <1>2, <1>3, <1>4

(* alo_initiate only marks the engine, so that made again it changes        *)
(* nothing; what it returns depends on the register that it reads.          *)
LEMMA InitiateFacts ==
  ASSUME NEW a \in Alo, NEW op \in Opcode, NEW sr \in RegNo, NEW junk \in Word
  PROVE  LET call == Initiate(a, op, sr, junk)
         IN  /\ call.alo \in Alo
             /\ call.alo.reg = a.reg /\ call.alo.flags = a.flags
             /\ call.ret = Truth(Begun(op, a.reg[sr]))
             /\ call.data = Sent(op, a.reg[sr], junk) /\ call.data \in Word
             /\ Initiate(call.alo, op, sr, junk).alo = call.alo
  <1>. DEFINE v == a.reg[sr]
              Good(call) == /\ call.alo \in Alo
                            /\ call.alo.reg = a.reg /\ call.alo.flags = a.flags
                            /\ call.ret = Truth(Begun(op, v))
                            /\ call.data = Sent(op, v, junk) /\ call.data \in Word
                            /\ Initiate(call.alo, op, sr, junk).alo = call.alo
  <1>0. v \in Word /\ Truth(TRUE) = 1 /\ Truth(FALSE) = 0
    BY DEF Alo, Truth
  <1>1. CASE op.name \in NeedsReply
    <2>. DEFINE b == Pending(a, "reply", sr)
    <2>1. b \in Alo /\ b.reg = a.reg /\ b.flags = a.flags /\ Pending(b, "reply", sr) = b
      BY PendingFacts
    <2>2. /\ Initiate(a, op, sr, junk) = [alo |-> b, ret |-> 1, data |-> v]
          /\ Initiate(b, op, sr, junk).alo = Pending(b, "reply", sr)
      BY <1>1, InitiateCases
    <2>3. Begun(op, v) /\ Sent(op, v, junk) = v
      BY <1>1 DEF Begun, Sent, NeedsReply, CountsAtSource
    <2>. HIDE DEF b, v
    <2>4. Good([alo |-> b, ret |-> 1, data |-> v])
      BY <1>0, <2>1, <2>2, <2>3
    <2>. QED  BY <2>2, <2>4 DEF v
  <1>2. ASSUME NEW w \in Word, NEW data \in Word, Begun(op, v), data = Sent(op, v, junk),
               \A c : c.reg = a.reg =>
                 Initiate(c, op, sr, junk) = [alo |-> Own(c, w, sr), ret |-> 1, data |-> data]
        PROVE  Good(Initiate(a, op, sr, junk))
    <2>. DEFINE b == Own(a, w, sr)
    <2>1. b \in Alo /\ b.reg = a.reg /\ b.flags = a.flags /\ Own(b, w, sr) = b
      BY OwnFacts
    <2>2. /\ Initiate(a, op, sr, junk) = [alo |-> b, ret |-> 1, data |-> data]
          /\ Initiate(b, op, sr, junk).alo = Own(b, w, sr)
      BY <1>2, <2>1
    <2>. HIDE DEF b, v
    <2>3. Good([alo |-> b, ret |-> 1, data |-> data])
      BY <1>0, <1>2, <2>1, <2>2
    <2>. QED  BY <2>2, <2>3
  <1>3. CASE op.name \in CountsAtSource
    <2>. DEFINE w == Counted(op, v)
    <2>1. ASSUME NEW c, c.reg = a.reg
          PROVE  Initiate(c, op, sr, junk) = [alo |-> Own(c, w, sr), ret |-> 1, data |-> w]
      <3>1. c.reg[sr] = v
        BY <2>1
      <3>2. Initiate(c, op, sr, junk) = [alo |-> Own(c, Counted(op, c.reg[sr]), sr), ret |-> 1,
                                         data |-> Counted(op, c.reg[sr])]
        BY <1>3, InitiateCases
      <3>. QED  BY <3>1, <3>2
    <2>2. w \in Word
      BY <1>0, ValueTypes
    <2>3. Begun(op, v) /\ w = Sent(op, v, junk)
      BY <1>3 DEF Begun, Sent
    <2>. HIDE DEF w, Good
    <2>4. Good(Initiate(a, op, sr, junk))
      BY <1>2, <2>1, <2>2, <2>3
    <2>. QED  BY <2>4 DEF Good
  <1>4. ASSUME NEW data \in Word, NEW ret, ret = Truth(Begun(op, v)), data = Sent(op, v, junk),
               \A c : c.reg = a.reg =>
                 Initiate(c, op, sr, junk) = [alo |-> Idle(c), ret |-> ret, data |-> data]
        PROVE  Good(Initiate(a, op, sr, junk))
    <2>. DEFINE b == Idle(a)
    <2>1. b \in Alo /\ b.reg = a.reg /\ b.flags = a.flags /\ Idle(b) = b
      BY IdleFacts
    <2>2. /\ Initiate(a, op, sr, junk) = [alo |-> b, ret |-> ret, data |-> data]
          /\ Initiate(b, op, sr, junk).alo = Idle(b)
      BY <1>4, <2>1
    <2>. HIDE DEF b, v
    <2>3. Good([alo |-> b, ret |-> ret, data |-> data])
      BY <1>0, <1>4, <2>1, <2>2
    <2>. QED  BY <2>2, <2>3
  <1>5. CASE op.name = "WR"
    <2>1. ASSUME NEW c, c.reg = a.reg
          PROVE  Initiate(c, op, sr, junk) = [alo |-> Idle(c), ret |-> 1, data |-> v]
      <3>1. c.reg[sr] = v
        BY <2>1
      <3>2. Initiate(c, op, sr, junk) = [alo |-> Idle(c), ret |-> 1, data |-> c.reg[sr]]
        BY <1>5, InitiateCases
      <3>. QED  BY <3>1, <3>2
    <2>2. Begun(op, v) /\ v = Sent(op, v, junk)
      BY <1>5 DEF Begun, Sent, CountsAtSource
    <2>. HIDE DEF Good, v
    <2>3. Good(Initiate(a, op, sr, junk))
      BY <1>0, <1>4, <2>1, <2>2
    <2>. QED  BY <2>3 DEF Good, v
  <1>6. CASE op.name \in BitOp /\ BitAllows(op, v)
    <2>. DEFINE w == BitResult(op, v)
    <2>1. ASSUME NEW c, c.reg = a.reg
          PROVE  Initiate(c, op, sr, junk) = [alo |-> Own(c, w, sr), ret |-> 1, data |-> junk]
      <3>1. c.reg[sr] = v
        BY <2>1
      <3>2. BitAllows(op, c.reg[sr])
        BY <1>6, <3>1
      <3>3. Initiate(c, op, sr, junk) = [alo |-> Own(c, BitResult(op, c.reg[sr]), sr), ret |-> 1,
                                         data |-> junk]
        BY <1>6, <3>2, InitiateCases
      <3>. QED  BY <3>1, <3>3
    <2>2. w \in Word
      BY <1>0, <1>6, ValueTypes
    <2>3. Begun(op, v) /\ junk = Sent(op, v, junk)
      BY <1>6 DEF Begun, Sent, BitOp, CountsAtSource, NeedsReply
    <2>. HIDE DEF w, Good
    <2>4. Good(Initiate(a, op, sr, junk))
      BY <1>2, <2>1, <2>2, <2>3
    <2>. QED  BY <2>4 DEF Good
  <1>7. CASE ~Begun(op, v)
    <2>1. ASSUME NEW c, c.reg = a.reg
          PROVE  Initiate(c, op, sr, junk) = [alo |-> Idle(c), ret |-> 0, data |-> junk]
      <3>1. c.reg[sr] = v
        BY <2>1
      <3>2. ~Begun(op, c.reg[sr])
        BY <1>7, <3>1
      <3>. QED  BY <3>2, InitiateCases DEF Begun
    <2>2. junk = Sent(op, v, junk) /\ Truth(Begun(op, v)) = 0
      BY <1>7 DEF Begun, Sent, Truth
    <2>. HIDE DEF Good, v
    <2>3. Good(Initiate(a, op, sr, junk))
      BY <1>0, <1>4, <1>7, <2>1, <2>2
    <2>. QED  BY <2>3 DEF Good, v
  <1>. QED  BY <1>1, <1>3, <1>5, <1>6, <1>7 DEF Begun

(* alo_exec too only marks the engine; what it returns is what it keeps for *)
(* the answer.                                                              *)
LEMMA ExecFacts ==
  ASSUME NEW a \in Alo, NEW op \in Opcode, NEW dt \in RegNo, NEW s \in Word, NEW junk
  PROVE  LET call == Exec(a, op, dt, s, junk)
         IN  /\ call.alo \in Alo
             /\ call.alo.reg = a.reg /\ call.alo.flags = a.flags
             /\ call.ret = Truth(Executes(op, a.reg[dt], s)) /\ call.alo.rflag.ok = call.ret
             /\ call.ret = 1 => call.data = call.alo.retval
             /\ junk \in Word => call.data \in Word
             /\ Exec(call.alo, op, dt, s, junk).alo = call.alo
  <1>. DEFINE d == a.reg[dt]
              does == Executes(op, d, s)
              replies == does \/ op.name \in BitOp
              r == Reply(op, d, s)
              k == Kept(op, d, s)
              b(x) == [x EXCEPT !.retval = IF replies THEN r ELSE @,
                                !.rflag = [ok |-> Truth(does), zero |-> 0]]
              after(x) == IF does /\ op.name # "RD" THEN Own(b(x), k, dt) ELSE Idle(b(x))
  <1>1. \A x \in Alo : x.reg = a.reg => Exec(x, op, dt, s, junk).alo = after(x)
    BY DEF Exec, Own
  <1>2. Truth(does) \in {0, 1} /\ (Truth(does) = 1 => replies)
    BY DEF Truth
  <1>3. r \in Word /\ k \in Word
    <2>1. d \in Word
      BY DEF Alo
    <2>. QED  BY <2>1, ValueTypes
  <1>4. Exec(a, op, dt, s, junk) = [alo |-> after(a), ret |-> Truth(does),
                                    data |-> IF replies THEN r ELSE junk]
    BY DEF Exec, Own
  <1>. HIDE DEF d, does, replies, k, r
  <1>5. \A x \in Alo : /\ b(x) \in Alo /\ b(x).reg = x.reg /\ b(x).flags = x.flags
                        /\ b(x).rflag.ok = Truth(does) /\ (replies => b(x).retval = r)
    BY <1>2, <1>3 DEF Alo
  <1>6. /\ after(a) \in Alo
        /\ after(a).reg = a.reg /\ after(a).flags = a.flags
        /\ after(a).rflag.ok = Truth(does) /\ (replies => after(a).retval = r)
    <2>. HIDE DEF b
    <2>1. \A x \in Alo : /\ Idle(x).rflag = x.rflag /\ Idle(x).retval = x.retval
                          /\ Own(x, k, dt).rflag = x.rflag /\ Own(x, k, dt).retval = x.retval
      BY DEF Idle, Own, Pending, Alo
    <2>2. PICK e \in Alo : /\ e = b(a) /\ e.reg = a.reg /\ e.flags = a.flags
                           /\ e.rflag.ok = Truth(does) /\ (replies => e.retval = r)
      BY <1>5
    <2>3. /\ Own(e, k, dt) \in Alo /\ Own(e, k, dt).reg = e.reg /\ Own(e, k, dt).flags = e.flags
          /\ Idle(e) \in Alo /\ Idle(e).reg = e.reg /\ Idle(e).flags = e.flags
      BY <1>3, OwnFacts, IdleFacts
    <2>4. after(a) = IF does /\ op.name # "RD" THEN Own(e, k, dt) ELSE Idle(e)
      BY <2>2
    <2>. QED  BY <2>1, <2>2, <2>3, <2>4
  <1>7. after(after(a)) = after(a)
    <2>1. CASE does /\ op.name # "RD"
      <3>1. Own(b(Own(b(a), k, dt)), k, dt) = Own(b(a), k, dt)
        BY DEF Own, Pending, Alo
      <3>. QED  BY <2>1, <3>1
    <2>2. CASE ~(does /\ op.name # "RD")
      <3>1. Idle(b(Idle(b(a)))) = Idle(b(a))
        BY DEF Idle, Alo
      <3>. QED  BY <2>2, <3>1
    <2>. QED  BY <2>1, <2>2
  <1>8. Exec(after(a), op, dt, s, junk).alo = after(a)
    BY <1>1, <1>6, <1>7
  <1>. HIDE DEF after
  <1>9. LET call == [alo |-> after(a), ret |-> Truth(does), data |-> IF replies THEN r ELSE junk]
        IN  /\ call.alo \in Alo
            /\ call.alo.reg = a.reg /\ call.alo.flags = a.flags
            /\ call.ret = Truth(does) /\ call.alo.rflag.ok = call.ret
            /\ call.ret = 1 => call.data = call.alo.retval
            /\ junk \in Word => call.data \in Word
            /\ Exec(call.alo, op, dt, s, junk).alo = call.alo
    BY <1>2, <1>3, <1>6, <1>8
  <1>. QED  BY <1>4, <1>9 DEF does, d

\* The engine that alo_exec leaves does not depend on the caller's buffer.
LEMMA ExecIgnoresJunk ==
  ASSUME NEW a, NEW op, NEW dt, NEW s, NEW j, NEW k
  PROVE  Exec(a, op, dt, s, j).alo = Exec(a, op, dt, s, k).alo
BY DEF Exec

(* alo_next keeps the destination's answer. *)
LEMMA NextStepFacts ==
  ASSUME NEW a \in Alo, NEW status \in {0, 1}, NEW v \in Word
  PROVE  LET b == NextStep(a, status, v)
         IN  /\ b \in Alo
             /\ b.reg = a.reg /\ b.flags = a.flags
             /\ b.pend = a.pend /\ b.at = a.at /\ b.result = a.result
             /\ b.rflag.ok = status
             /\ NextStep(b, status, v) = b
BY DEF NextStep, Answered, Alo, Truth

(* alo_complete and alo_update leave the engine idle. *)
LEMMA CompleteFacts ==
  ASSUME NEW a \in Alo
  PROVE  /\ Complete(a).alo \in Alo
         /\ Complete(a).ret = a.rflag.ok
         /\ Complete(a).alo.pend = "none"
         /\ (a.pend = "none" \/ a.rflag.ok = 0) =>
              Complete(a).alo.reg = a.reg /\ Complete(a).alo.flags = a.flags
  <1>1. CASE a.pend # "none" /\ a.rflag.ok = 1
    <2>. DEFINE x == [a.reg EXCEPT ![a.at] = a.retval]
                y == [ok |-> 1, zero |-> a.rflag.zero, changed |-> 1, at |-> a.at]
    <2>1. /\ x \in [RegNo -> Word]
          /\ y \in [ok : {0, 1}, zero : {0, 1}, changed : {0, 1}, at : RegNo]
      BY DEF Alo
    <2>2. /\ Complete(a).ret = 1
          /\ Complete(a).alo = Idle([a EXCEPT !.reg = x, !.flags = y])
      BY <1>1 DEF Complete, Alo
    <2>. HIDE DEF x, y
    <2>3. PICK z \in Alo : z = [a EXCEPT !.reg = x, !.flags = y]
      BY <2>1 DEF Alo
    <2>4. Idle(z) \in Alo /\ Idle(z).pend = "none"
      BY ZeroReg DEF Alo, Idle
    <2>. QED  BY <1>1, <2>2, <2>3, <2>4
  <1>2. CASE ~(a.pend # "none" /\ a.rflag.ok = 1)
    BY <1>2, ZeroReg DEF Complete, Alo, Idle
  <1>. QED  BY <1>1, <1>2

\* alo_update leaves a well formed and idle engine.
LEMMA UpdateFacts ==
  ASSUME NEW a \in Alo, NEW status
  PROVE  /\ Update(a, status).alo \in Alo
         /\ Update(a, status).alo.pend = "none"
BY ZeroReg DEF Update, Alo, Idle, Truth

\* A flags word with its change bit and register number taken down.
Lowered(f) == [f EXCEPT !.changed = 0, !.at = 0]

(* alo_update with nothing to write takes the change flag down and no more. *)
LEMMA UpdateOfNothing ==
  ASSUME NEW b \in Alo, NEW status, ~(b.pend # "none" /\ status = 1)
  PROVE  /\ Update(b, status).alo.reg = b.reg
         /\ Update(b, status).alo.flags = Lowered(b.flags)
  <1>1. Update(b, status).alo = Idle([b EXCEPT !.flags.changed = 0, !.flags.at = 0])
    BY DEF Update
  <1>2. Update(b, status).alo.reg = b.reg
    BY <1>1 DEF Idle, Alo
  <1>3. Update(b, status).alo.flags = [b.flags EXCEPT !.changed = 0, !.at = 0]
    BY <1>1 DEF Idle, Alo
  <1>. QED  BY <1>2, <1>3 DEF Lowered

(* What an initiated operation has made of its engine. *)
LEMMA InitiatedFacts ==
  ASSUME NEW a \in Alo, NEW op \in Opcode, NEW sr \in RegNo, NEW junk,
         Initiate(a, op, sr, junk).alo = a
  PROVE  LET s == a.reg[sr]
         IN  /\ op.name = "WR" \/ ~Begun(op, s) => a.pend = "none"
             /\ Begun(op, s) /\ op.name # "WR" => a.at = sr /\ a.pend # "none"
             /\ op.name \in NeedsReply => a.pend = "reply"
             /\ Begun(op, s) /\ op.name \in CountsAtSource \cup BitOp =>
                  a.pend = "result" /\ a.result = SourceKeeps(op, s, 0)
  <1>. DEFINE s == a.reg[sr]
  <1>1. CASE op.name \in NeedsReply
    <2>1. Pending(a, "reply", sr) = a
      BY <1>1, InitiateCases
    <2>2. a.pend = "reply" /\ a.at = sr
      BY <2>1 DEF Pending, Alo
    <2>3. op.name \notin CountsAtSource /\ op.name \notin BitOp /\ op.name # "WR"
      BY <1>1 DEF NeedsReply, CountsAtSource, BitOp
    <2>. QED  BY <1>1, <2>2, <2>3 DEF Begun
  <1>2. ASSUME NEW w, Own(a, w, sr) = a
        PROVE  a.pend = "result" /\ a.at = sr /\ a.result = w
    <2>1. a = [[[a EXCEPT !.result = w] EXCEPT !.pend = "result"] EXCEPT !.at = sr]
      BY <1>2, Zenon DEF Own, Pending
    <2>. QED  BY <2>1 DEF Alo
  <1>3. CASE op.name \in CountsAtSource
    <2>1. Own(a, Counted(op, s), sr) = a
      BY <1>3, InitiateCases
    <2>2. a.pend = "result" /\ a.at = sr /\ a.result = Counted(op, s)
      BY <1>2, <2>1
    <2>3. op.name \notin NeedsReply /\ op.name \notin BitOp /\ op.name # "WR"
      BY <1>3 DEF NeedsReply, CountsAtSource, BitOp
    <2>. QED  BY <1>3, <2>2, <2>3 DEF Begun, SourceKeeps
  <1>4. CASE op.name = "WR" \/ ~Begun(op, s)
    <2>1. Idle(a) = a
      BY <1>4, InitiateCases DEF Begun
    <2>2. a.pend = "none"
      BY <2>1 DEF Idle, Alo
    <2>3. op.name \notin NeedsReply
      BY <1>4 DEF NeedsReply, Begun
    <2>4. op.name = "WR" => op.name \notin CountsAtSource \cup BitOp
      BY DEF CountsAtSource, BitOp
    <2>. QED  BY <1>4, <2>2, <2>3, <2>4
  <1>5. CASE op.name \in BitOp /\ BitAllows(op, s)
    <2>1. Own(a, BitResult(op, s), sr) = a
      BY <1>5, InitiateCases
    <2>2. a.pend = "result" /\ a.at = sr /\ a.result = BitResult(op, s)
      BY <1>2, <2>1
    <2>3. op.name \notin NeedsReply /\ op.name \notin CountsAtSource /\ op.name # "WR"
      BY <1>5 DEF NeedsReply, CountsAtSource, BitOp
    <2>. QED  BY <1>5, <2>2, <2>3 DEF Begun, SourceKeeps
  <1>. QED  BY <1>1, <1>3, <1>4, <1>5 DEF Begun

(* alo_next changes nothing of what alo_initiate did. *)
LEMMA NextKeepsInitiated ==
  ASSUME NEW a \in Alo, NEW op, NEW sr \in RegNo, NEW junk,
         NEW status \in {0, 1}, NEW v \in Word,
         Initiate(a, op, sr, junk).alo = a
  PROVE  LET b == NextStep(a, status, v)
         IN  Initiate(b, op, sr, junk).alo = b
  <1>1. PICK b \in Alo : /\ b = NextStep(a, status, v)
                         /\ b.reg = a.reg /\ b.pend = a.pend /\ b.at = a.at
                         /\ b.result = a.result
    BY NextStepFacts
  <1>2. b.reg[sr] = a.reg[sr]
    BY <1>1
  <1>a. ASSUME NEW x, x = Pending(a, "reply", sr), x = a
        PROVE  Pending(b, "reply", sr) = b
    <2>1. a.pend = "reply" /\ a.at = sr
      BY <1>a DEF Pending, Alo
    <2>. QED  BY <1>1, <2>1 DEF Pending, Alo
  <1>b. ASSUME Idle(a) = a
        PROVE  Idle(b) = b
    <2>1. a.pend = "none" /\ a.at = 0
      BY <1>b DEF Idle, Alo
    <2>. QED  BY <1>1, <2>1 DEF Idle, Alo
  <1>3. /\ Pending(a, "reply", sr) = a => Pending(b, "reply", sr) = b
        /\ Idle(a) = a => Idle(b) = b
    BY <1>a, <1>b
  <1>4. ASSUME NEW w, Own(a, w, sr) = a
        PROVE  Own(b, w, sr) = b
    <2>1. a.pend = "result" /\ a.at = sr /\ a.result = w
      <3>1. a = [[[a EXCEPT !.result = w] EXCEPT !.pend = "result"] EXCEPT !.at = sr]
        BY <1>4, Zenon DEF Own, Pending
      <3>. QED  BY <3>1 DEF Alo
    <2>. QED  BY <1>1, <2>1 DEF Own, Pending, Alo
  <1>5. CASE op.name \in NeedsReply
    BY <1>3, <1>5, InitiateCases, <1>1
  <1>6. CASE op.name \in CountsAtSource
    <2>1. Own(a, Counted(op, a.reg[sr]), sr) = a
      BY <1>6, InitiateCases
    <2>2. Initiate(b, op, sr, junk).alo = Own(b, Counted(op, b.reg[sr]), sr)
      BY <1>6, InitiateCases
    <2>. QED  BY <1>1, <1>2, <1>4, <2>1, <2>2
  <1>7. CASE op.name = "WR"
    BY <1>3, <1>7, InitiateCases, <1>1
  <1>8. CASE op.name \in BitOp /\ BitAllows(op, a.reg[sr])
    <2>1. Own(a, BitResult(op, a.reg[sr]), sr) = a
      BY <1>8, InitiateCases
    <2>2. BitAllows(op, b.reg[sr])
      BY <1>2, <1>8
    <2>3. Initiate(b, op, sr, junk).alo = Own(b, BitResult(op, b.reg[sr]), sr)
      BY <1>8, <2>2, InitiateCases
    <2>. QED  BY <1>1, <1>2, <1>4, <2>1, <2>3
  <1>9. CASE ~Begun(op, a.reg[sr])
    <2>1. ~Begun(op, b.reg[sr])
      BY <1>2, <1>9
    <2>2. Initiate(a, op, sr, junk).alo = Idle(a) /\ Initiate(b, op, sr, junk).alo = Idle(b)
      BY <1>9, <2>1, InitiateCases DEF Begun
    <2>. QED  BY <1>1, <1>3, <2>2
  <1>. QED  BY <1>5, <1>6, <1>7, <1>8, <1>9 DEF Begun

-----------------------------------------------------------------------------
(* What an operation does *)

\* What the test of an operation says of one engine after it: x is what it
\* expects of the register at, and the engine was before.
AsExpected(after, before, at, x) ==
  /\ after.reg = [before.reg EXCEPT ![at] = x.value]
  /\ x.written => after.flags = [ok |-> 1, zero |-> Truth(x.value = 0), changed |-> 1,
                                 at |-> at]
  /\ ~x.written => /\ after.reg = before.reg
                   /\ after.flags \in {before.flags, Lowered(before.flags)}

(* A register that is left alone. *)
LEMMA LeftAlone ==
  ASSUME NEW b \in Alo, NEW a, NEW r \in RegNo,
         a.reg = b.reg, a.flags \in {b.flags, Lowered(b.flags)}
  PROVE  AsExpected(a, b, r, Leaves(b.reg[r]))
  <1>1. b.reg \in [RegNo -> Word]
    BY DEF Alo
  <1>2. b.reg = [b.reg EXCEPT ![r] = b.reg[r]]
    BY <1>1
  <1>. QED  BY <1>2 DEF AsExpected, Leaves

(* The destination answers as the operation says, and alo_update writes its *)
(* register as the operation says if it is told to write what is pending.   *)
LEMMA DestinationDone ==
  ASSUME NEW b \in Alo, NEW op \in Opcode, NEW dt \in RegNo, NEW s, NEW junk, NEW j,
         op.name \in BitOp => BitAllows(op, s),
         Exec(b, op, dt, Sent(op, s, junk), j).alo = b
  PROVE  LET d == b.reg[dt]
             does == Executes(op, d, Sent(op, s, 0))
         IN  /\ b.rflag.ok = Truth(does)
             /\ does /\ op.name \in NeedsReply => b.retval = SourceKeeps(op, s, d)
             /\ b.pend # "none" => b.rflag.ok = 1
             /\ \A st : (b.pend # "none" => st = 1) =>
                  AsExpected(Update(b, st).alo, b, dt, Effect(op, s, d)[2])
  <1>. DEFINE d == b.reg[dt]
              v == Sent(op, s, junk)
              does == Executes(op, d, v)
              k == Kept(op, d, v)
              answer(e, w, f) == [e EXCEPT !.retval = w, !.rflag = f]
  <1>a. ASSUME NEW e \in Alo, NEW w, NEW f, NEW x
        PROVE  LET y == Own(answer(e, w, f), x, dt)
               IN  /\ y.retval = w /\ y.rflag = f /\ y.result = x
                   /\ y.pend = "result" /\ y.at = dt
    BY DEF Own, Pending, Alo
  <1>b. ASSUME NEW e \in Alo, NEW w, NEW f
        PROVE  LET y == Idle(answer(e, w, f))
               IN  y.retval = w /\ y.rflag = f /\ y.pend = "none"
    BY DEF Idle, Alo
  <1>c. /\ does <=> Executes(op, d, Sent(op, s, 0))
        /\ does => k = Kept(op, d, Sent(op, s, 0))
    BY JunkIsIgnored
  <1>d. op.name \in NeedsReply => Reply(op, d, v) = SourceKeeps(op, s, d)
    BY DEF NeedsReply, CountsAtSource, BitOp, SourceKeeps, Sent
  <1>e. does => Begun(op, s)
    <2>1. op.name \in {"INC", "DEC"} => op.name \in CountsAtSource
      BY DEF CountsAtSource
    <2>2. op.name \in {"NOP", "BAD"} => ~does
      BY DEF Executes, NoFieldOp, CondOp, BitOp
    <2>. QED  BY <2>1, <2>2, OpcodeFacts DEF Begun
  <1>. HIDE DEF answer, k
  <1>1. CASE does /\ op.name # "RD"
    <2>1. b = Own(answer(b, Reply(op, d, v), [ok |-> 1, zero |-> 0]), k, dt)
      BY <1>1 DEF Exec, Truth, Own, answer, k
    <2>2. /\ b.retval = Reply(op, d, v) /\ b.rflag.ok = 1
          /\ b.pend = "result" /\ b.at = dt /\ b.result = k
      BY <2>1, <1>a
    <2>3. /\ Update(b, 1).alo.reg = [b.reg EXCEPT ![dt] = k]
          /\ Update(b, 1).alo.flags = [ok |-> 1, zero |-> Truth(k = 0), changed |-> 1, at |-> dt]
      BY <2>2 DEF Update, Idle, Alo
    <2>4. Effect(op, s, d)[2] = Writes(k)
      BY <1>1, <1>c, <1>e DEF Effect
    <2>5. AsExpected(Update(b, 1).alo, b, dt, Effect(op, s, d)[2])
      BY <2>3, <2>4 DEF AsExpected, Writes
    <2>. QED  BY <1>1, <1>c, <1>d, <2>2, <2>5 DEF Truth
  <1>2. CASE does /\ op.name = "RD"
    <2>1. b = Idle(answer(b, Reply(op, d, v), [ok |-> 1, zero |-> 0]))
      BY <1>2 DEF Exec, Truth, answer
    <2>2. b.retval = Reply(op, d, v) /\ b.rflag.ok = 1 /\ b.pend = "none"
      BY <2>1, <1>b
    <2>3. \A st : /\ Update(b, st).alo.reg = b.reg
                  /\ Update(b, st).alo.flags = Lowered(b.flags)
      BY <2>2, UpdateOfNothing
    <2>4. Effect(op, s, d)[2] = Leaves(d)
      BY <1>2 DEF Effect
    <2>5. \A st : AsExpected(Update(b, st).alo, b, dt, Effect(op, s, d)[2])
      BY <2>3, <2>4, LeftAlone
    <2>. QED  BY <1>2, <1>c, <1>d, <2>2, <2>5 DEF Truth
  <1>3. CASE ~does
    <2>1. b = Idle(answer(b, IF op.name \in BitOp THEN Reply(op, d, v) ELSE b.retval,
                          [ok |-> 0, zero |-> 0]))
      BY <1>3 DEF Exec, Truth, answer
    <2>2. b.rflag.ok = 0 /\ b.pend = "none"
      BY <2>1, <1>b
    <2>3. \A st : /\ Update(b, st).alo.reg = b.reg
                  /\ Update(b, st).alo.flags = Lowered(b.flags)
      BY <2>2, UpdateOfNothing
    <2>4. Effect(op, s, d)[2] = Leaves(d)
      BY <1>3, <1>c DEF Effect
    <2>5. \A st : AsExpected(Update(b, st).alo, b, dt, Effect(op, s, d)[2])
      BY <2>3, <2>4, LeftAlone
    <2>. QED  BY <1>3, <1>c, <2>2, <2>5 DEF Truth
  <1>. QED  BY <1>1, <1>2, <1>3

(* The source writes its register as the operation says, once it knows the  *)
(* destination's answer.                                                    *)
LEMMA SourceDone ==
  ASSUME NEW a \in Alo, NEW op \in Opcode, NEW sr \in RegNo, NEW junk,
         NEW d, NEW status \in {0, 1}, NEW reply,
         op.name \in BitOp => BitAllows(op, a.reg[sr]),
         Initiate(a, op, sr, junk).alo = a,
         NextStep(a, status, reply) = a,
         a.rflag.ok = status,
         status = Truth(Executes(op, d, Sent(op, a.reg[sr], 0))),
         status = 1 /\ op.name \in NeedsReply => reply = SourceKeeps(op, a.reg[sr], d)
  PROVE  AsExpected(Complete(a).alo, a, sr, Effect(op, a.reg[sr], d)[1])
  <1>. DEFINE s == a.reg[sr]
              done == Begun(op, s) /\ Executes(op, d, Sent(op, s, 0))
  <1>1. /\ op.name = "WR" \/ ~Begun(op, s) => a.pend = "none"
        /\ Begun(op, s) /\ op.name # "WR" => a.at = sr /\ a.pend # "none"
        /\ op.name \in NeedsReply => a.pend = "reply"
        /\ Begun(op, s) /\ op.name \in CountsAtSource \cup BitOp =>
             a.pend = "result" /\ a.result = SourceKeeps(op, s, 0)
    BY InitiatedFacts
  <1>2. CASE done /\ op.name # "WR"
    <2>. DEFINE w == IF a.pend = "result" THEN a.result ELSE reply
    <2>1. status = 1 /\ a.pend # "none" /\ a.at = sr
      BY <1>1, <1>2 DEF Truth
    <2>2. w = SourceKeeps(op, s, d)
      <3>1. CASE op.name \in NeedsReply
        BY <1>1, <2>1, <3>1
      <3>2. CASE op.name \in CountsAtSource \cup BitOp
        BY <1>1, <1>2, <3>2 DEF SourceKeeps
      <3>. QED  BY <1>2, <3>1, <3>2 DEF Begun
    <2>3. [a EXCEPT !.retval = w, !.rflag = [ok |-> 1, zero |-> Truth(w = 0)]] = a
      BY <2>1 DEF NextStep, Answered
    <2>. HIDE DEF w
    <2>4. a.retval = w /\ a.rflag = [ok |-> 1, zero |-> Truth(w = 0)]
      BY <2>3 DEF Alo
    <2>5. /\ Complete(a).alo.reg = [a.reg EXCEPT ![sr] = a.retval]
          /\ Complete(a).alo.flags = [ok |-> 1, zero |-> a.rflag.zero, changed |-> 1, at |-> sr]
      BY <2>1 DEF Complete, Idle, Alo
    <2>6. Effect(op, s, d)[1] = Writes(w)
      BY <1>2, <2>2 DEF Effect
    <2>. QED  BY <2>4, <2>5, <2>6 DEF AsExpected, Writes
  <1>3. CASE ~(done /\ op.name # "WR")
    <2>1. a.pend = "none" \/ a.rflag.ok = 0
      BY <1>1, <1>3 DEF Truth
    <2>2. Complete(a).alo.reg = a.reg /\ Complete(a).alo.flags = a.flags
      BY <2>1, CompleteFacts
    <2>3. Effect(op, s, d)[1] = Leaves(s)
      BY <1>3 DEF Effect
    <2>. QED  BY <2>2, <2>3, LeftAlone
  <1>. QED  BY <1>2, <1>3

(* An operation that alo_initiate refuses leaves both registers alone. *)
LEMMA RefusedFacts ==
  ASSUME NEW a \in Alo, NEW op \in Opcode, NEW sr \in RegNo, NEW junk \in Word,
         NEW d, Initiate(a, op, sr, junk).ret = 0
  PROVE  Expected(op, a.reg[sr], d) = <<Leaves(a.reg[sr]), Leaves(d)>>
  <1>1. ~Begun(op, a.reg[sr])
    BY InitiateFacts DEF Truth
  <1>2. Effect(op, a.reg[sr], d) = <<Leaves(a.reg[sr]), Leaves(d)>>
    BY <1>1 DEF Effect
  <1>. QED  BY <1>2, EffectIsTested

-----------------------------------------------------------------------------
(* The flags word *)

\* Flags that speak of the register in rs, if there is one, and of none
\* otherwise.
SpeaksOf(b, rs) ==
  /\ rs = {} => b.flags = NoFlags
  /\ \A r \in rs : /\ b.flags.ok = 1
                   /\ b.flags.zero = Truth(b.reg[r] = 0)
                   /\ b.flags.changed = 1 => b.flags.at = r

\* Flags that are clear stay so when they are lowered.
LEMMA LoweredNoFlags == Lowered(NoFlags) = NoFlags
  <1>1. NoFlags \in [ok : {0}, zero : {0}, changed : {0}, at : {0}]
    BY DEF NoFlags
  <1>. QED  BY <1>1 DEF Lowered

(* The flags follow the register that an operation writes, and still speak  *)
(* of the one before when it writes none.                                   *)
LEMMA FlagsFollow ==
  ASSUME NEW b \in Alo, NEW a \in Alo, NEW r \in RegNo, NEW x, NEW rs,
         AsExpected(a, b, r, x), x.written \in BOOLEAN, SpeaksOf(b, rs)
  PROVE  SpeaksOf(a, IF x.written THEN {r} ELSE rs)
  <1>1. CASE x.written
    <2>1. b.reg \in [RegNo -> Word]
      BY DEF Alo
    <2>2. a.reg[r] = x.value
      BY <2>1 DEF AsExpected
    <2>3. a.flags = [ok |-> 1, zero |-> Truth(x.value = 0), changed |-> 1, at |-> r]
      BY <1>1 DEF AsExpected
    <2>. QED  BY <1>1, <2>2, <2>3 DEF SpeaksOf
  <1>2. CASE ~x.written
    <2>1. a.reg = b.reg /\ (a.flags = b.flags \/ a.flags = Lowered(b.flags))
      BY <1>2 DEF AsExpected
    <2>2. b.flags \in [ok : {0, 1}, zero : {0, 1}, changed : {0, 1}, at : RegNo]
      BY DEF Alo
    <2>3. LET f == Lowered(b.flags)
          IN  f.ok = b.flags.ok /\ f.zero = b.flags.zero /\ f.changed = 0
      BY <2>2 DEF Lowered
    <2>4. b.flags = NoFlags => Lowered(b.flags) = NoFlags
      BY LoweredNoFlags
    <2>5. CASE a.flags = b.flags
      BY <1>2, <2>1, <2>5 DEF SpeaksOf
    <2>6. CASE a.flags = Lowered(b.flags)
      BY <1>2, <2>1, <2>3, <2>4, <2>6 DEF SpeaksOf
    <2>. QED  BY <2>1, <2>5, <2>6
  <1>. QED  BY <1>1, <1>2
=============================================================================
