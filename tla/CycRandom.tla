----------------------------- MODULE CycRandom -----------------------------
(***************************************************************************)
(* The generator of cyc_random.c, from which the tests draw the registers    *)
(* and the bits that they try: a shift register that goes through every      *)
(* nonzero value of width bits from a random start (sdata), and gives zero   *)
(* once, after a random value (zdata).  A value is the set of its bits that  *)
(* are 1.  mt19937, which gives the random values, is an input here;         *)
(* swap_point stays 0, and the code it would enable is left out.            *)
(***************************************************************************)
EXTENDS Naturals

\* Widths 1 to 8 of the 96 in the table.
Primpoli == <<{0}, {1}, {1}, {1}, {2}, {1}, {1}, {2, 3, 4}>>

Width == DOMAIN Primpoli
Bits(width) == SUBSET (0 .. width - 1)
Zero == {}

AllocCycRandom(width) ==
  [width |-> width, data |-> Zero, sdata |-> Zero, zdata |-> Zero, next_zero |-> FALSE]

\* Mutant: the lowest bit of t is not brought round.
ShiftedOut(rd, t) == {b - 1 : b \in t \ {0}}

Shifted(rd, t) == {b - 1 : b \in t \ {0}} \cup (IF 0 \in t THEN {rd.width - 1} ELSE {})

\* Mutant: zero is never due.
GenCycRandomNoZero(rd) ==
  LET odd == 0 \in rd.data
      t == IF odd THEN (rd.data \ Primpoli[rd.width]) \cup (Primpoli[rd.width] \ rd.data)
           ELSE rd.data
  IN  [rd EXCEPT !.data = Shifted(rd, t)]

GenCycRandom(rd) ==
  LET odd == 0 \in rd.data
      t == IF odd THEN (rd.data \ Primpoli[rd.width]) \cup (Primpoli[rd.width] \ rd.data)
           ELSE rd.data
  IN  [rd EXCEPT !.data = Shifted(rd, t),
                 !.next_zero = @ \/ Shifted(rd, t) = rd.zdata]

\* The generator is back where it started, and owes no zero.
Exhausted(rd) == ~rd.next_zero /\ rd.data = rd.sdata

\* The random values that a call may draw for sdata and zdata.
Draws(rd) == IF Exhausted(rd) THEN Bits(rd.width) \ {Zero} ELSE {Zero}

(* cyc_random: the generator after a call that drew s and z, and its result. *)
CycRandom(rd, s, z) ==
  LET seeded == IF Exhausted(rd) THEN [rd EXCEPT !.data = s, !.sdata = s, !.zdata = z]
                ELSE rd
  IN  IF seeded.next_zero
      THEN [rd |-> [seeded EXCEPT !.next_zero = FALSE], value |-> Zero]
      ELSE [rd |-> GenCycRandom(seeded), value |-> GenCycRandom(seeded).data]
=============================================================================
