---------------------------- MODULE AtomicMemory ----------------------------
(***************************************************************************)
(* What atomic link operations promise: the registers of the two ends       *)
(* change together and in one step, as the test of the operation expects    *)
(* (AloTests), or not at all.                                               *)
(***************************************************************************)
EXTENDS AloTests

CONSTANT End  \* the two ends of the link

VARIABLES mem,    \* mem[e][r]: register r of end e
          asked   \* asked[e]: the operations that e may have asked for, each
                  \* with its source and destination register (an input)

Init == mem \in [End -> [RegNo -> Word]]

Operate(src, dst, op, sr, dt) ==
  LET expect == Expected(op, mem[src][sr], mem[dst][dt])
  IN  mem' = [mem EXCEPT ![src][sr] = expect[1].value,
                         ![dst][dt] = expect[2].value]

Next == \E src, dst \in End : \E a \in asked[src] :
          src # dst /\ Operate(src, dst, a.op, a.sr, a.dt)

Spec == Init /\ [][Next]_mem
=============================================================================
