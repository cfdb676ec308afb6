--------------------------- MODULE MCAloExchange ---------------------------
(* The values of AloExchange's constants that a .cfg cannot write. *)
EXTENDS AloExchange

AllOps == Opcode

\* The same register of both ends, and different ones.
SameOrNot == {<<0, 0>>, <<0, 1>>}

\* Any value in the first register and another one in each that follows.
Staggered == {f \in [RegNo -> Word] : \A r \in RegNo : f[r] = Plus(f[0], r)}
=============================================================================
