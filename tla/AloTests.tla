------------------------------ MODULE AloTests ------------------------------
(***************************************************************************)
(* What the tests of alo_tester.c expect of each operation: the values that  *)
(* the source register (first) and the destination register (second) have   *)
(* after it, from the values s and d that they had, and whether the end says *)
(* in its flags that the register was written.                              *)
(***************************************************************************)
EXTENDS Words

Writes(v) == [value |-> v, written |-> TRUE]
Leaves(v) == [value |-> v, written |-> FALSE]

Both(v, w) == <<Writes(v), Writes(w)>>
Untouched(s, d) == <<Leaves(s), Leaves(d)>>

AloNopTest(s, d)  == Untouched(s, d)
AloAddTest(s, d)  == Both(Plus(s, d), Plus(s, d))
AloSubsTest(s, d) == Both(Minus(d, s), Minus(d, s))
AloSubdTest(s, d) == Both(Minus(s, d), Minus(s, d))
AloAndTest(s, d)  == Both(And(s, d), And(s, d))
AloOrTest(s, d)   == Both(Or(s, d), Or(s, d))
AloIncTest(s, d)  == Both(Plus(s, 1), Plus(d, 1))
AloDecTest(s, d)  == Both(Minus(s, 1), Minus(d, 1))
AloIncsTest(s, d) == Both(Plus(s, 1), Plus(s, 1))
AloIncdTest(s, d) == Both(Plus(d, 1), Plus(d, 1))
AloDecsTest(s, d) == Both(Minus(s, 1), Minus(s, 1))
AloDecdTest(s, d) == Both(Minus(d, 1), Minus(d, 1))

\* test_values; cond 6 stands for the codes with no condition.
TestValues(s, d, cond) ==
  <<TRUE, s = d, d < s, d <= s, d > s, d >= s, FALSE>>[cond + 1]

AloRdTest(s, d, cond) ==
  IF TestValues(s, d, cond) THEN <<Writes(d), Leaves(d)>> ELSE Untouched(s, d)
AloWrTest(s, d, cond) ==
  IF TestValues(s, d, cond) THEN <<Leaves(s), Writes(s)>> ELSE Untouched(s, d)
AloSwapTest(s, d, cond) ==
  IF TestValues(s, d, cond) THEN Both(d, s) ELSE Untouched(s, d)

\* The tests of BSET and BRESET start with the bit clear and set; what is
\* said of the other values is the formula that they compare with.
AloBsetTest(s, d, bit)   == Both(Or(s, 2^bit), Or(d, 2^bit))
AloBresetTest(s, d, bit) == Both(Xor(s, 2^bit), Xor(d, 2^bit))
AloBtestsetTest(s, d, bit) ==
  IF BitAt(s, bit) = 0 /\ BitAt(d, bit) = 0 THEN AloBsetTest(s, d, bit) ELSE Untouched(s, d)
AloBtestresetTest(s, d, bit) ==
  IF BitAt(s, bit) = 1 /\ BitAt(d, bit) = 1 THEN AloBresetTest(s, d, bit) ELSE Untouched(s, d)

\* The test of an operation.
Expected(op, s, d) ==
  CASE op.name = "ADD"        -> AloAddTest(s, d)
    [] op.name = "SUBS"       -> AloSubsTest(s, d)
    [] op.name = "SUBD"       -> AloSubdTest(s, d)
    [] op.name = "AND"        -> AloAndTest(s, d)
    [] op.name = "OR"         -> AloOrTest(s, d)
    [] op.name = "INC"        -> AloIncTest(s, d)
    [] op.name = "DEC"        -> AloDecTest(s, d)
    [] op.name = "INCS"       -> AloIncsTest(s, d)
    [] op.name = "INCD"       -> AloIncdTest(s, d)
    [] op.name = "DECS"       -> AloDecsTest(s, d)
    [] op.name = "DECD"       -> AloDecdTest(s, d)
    [] op.name = "RD"         -> AloRdTest(s, d, op.arg)
    [] op.name = "WR"         -> AloWrTest(s, d, op.arg)
    [] op.name = "SWAP"       -> AloSwapTest(s, d, op.arg)
    [] op.name = "BSET"       -> AloBsetTest(s, d, op.arg)
    [] op.name = "BRESET"     -> AloBresetTest(s, d, op.arg)
    [] op.name = "BTESTSET"   -> AloBtestsetTest(s, d, op.arg)
    [] op.name = "BTESTRESET" -> AloBtestresetTest(s, d, op.arg)
    [] OTHER                  -> AloNopTest(s, d)
=============================================================================
