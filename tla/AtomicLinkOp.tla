---------------------------- MODULE AtomicLinkOp ----------------------------
(***************************************************************************)
(* The atomic link engine of atomic_link_op.c, as operators from the engine *)
(* record (alo_regs_t) to the outcome of a call, a record with the engine   *)
(* after it (alo), the value it returns (ret) and, for alo_initiate and     *)
(* alo_exec, the value it writes through its pointer argument (data).       *)
(*                                                                         *)
(* alr->state is pend and at: "none" is 0, "result" is 0x80000000 | at (the *)
(* end writes its result_buffer), "reply" is 0x40000000 | at (it writes the *)
(* value the other end returns).  sent_value and sent_flag are written and  *)
(* never read, and are left out; so are the change bit and the register     *)
(* number of return_flag, which alo_complete computes again from state.     *)
(***************************************************************************)
EXTENDS Words

Alo == [reg : [RegNo -> Word], result : Word, retval : Word,
        rflag : [ok : {0, 1}, zero : {0, 1}],
        flags : [ok : {0, 1}, zero : {0, 1}, changed : {0, 1}, at : RegNo],
        pend : {"none", "result", "reply"}, at : RegNo]

NoFlags == [ok |-> 0, zero |-> 0, changed |-> 0, at |-> 0]

\* alo_regs_init leaves return_value and return_flag as they are.
RegsInit(a) == [a EXCEPT !.reg = [r \in RegNo |-> 0], !.result = 0,
                         !.flags = NoFlags, !.pend = "none", !.at = 0]

Idle(a) == [a EXCEPT !.pend = "none", !.at = 0]
Pending(a, how, r) == [a EXCEPT !.pend = how, !.at = r]

Truth(b) == IF b THEN 1 ELSE 0

\* What a bit operation makes of value v, and whether its test allows it.
\* BRESET and BTESTRESET flip the bit.
BitResult(op, v) ==
  IF op.name \in {"BSET", "BTESTSET"} THEN Or(v, 2^op.arg) ELSE Xor(v, 2^op.arg)

BitAllows(op, v) ==
  /\ op.name = "BTESTSET" => BitAt(v, op.arg) = 0
  /\ op.name = "BTESTRESET" => BitAt(v, op.arg) = 1

-----------------------------------------------------------------------------
(* alo_initiate at the source, on register sr.  junk is what the caller's   *)
(* buffer held: bit operations and refused ones do not write it.            *)

CountsAtSource == {"INC", "INCS", "DEC", "DECS"}
NeedsReply == {"ADD", "SUBS", "SUBD", "AND", "OR", "INCD", "DECD", "RD", "SWAP"}

\* Mutant: the value grows past its word.
CountedPast(op, v) == IF op.name \in {"INC", "INCS"} THEN v + 1 ELSE Minus(v, 1)

Counted(op, v) == IF op.name \in {"INC", "INCS"} THEN Plus(v, 1) ELSE Minus(v, 1)

Initiate(a, op, sr, junk) ==
  LET v == a.reg[sr]
      own(w) == Pending([a EXCEPT !.result = w], "result", sr)
      call(alo, ret, data) == [alo |-> alo, ret |-> ret, data |-> data]
  IN  CASE op.name \in NeedsReply     -> call(Pending(a, "reply", sr), 1, v)
        [] op.name \in CountsAtSource -> call(own(Counted(op, v)), 1, Counted(op, v))
        [] op.name = "WR"             -> call(Idle(a), 1, v)
        [] op.name \in BitOp /\ BitAllows(op, v) -> call(own(BitResult(op, v)), 1, junk)
        [] OTHER                      -> call(Idle(a), 0, junk)

-----------------------------------------------------------------------------
(* alo_exec at the destination, on register dt, with the source's value.    *)

\* Whether the operation is done at all, given the two values.
Executes(op, d, s) ==
  \/ op.name \in NoFieldOp
  \/ op.name \in CondOp /\ Condition(op.arg, d, s)
  \/ op.name \in BitOp /\ BitAllows(op, d)

\* The value returned to the source.
Reply(op, d, s) ==
  CASE op.name = "ADD" -> Plus(s, d)
    [] op.name = "SUBS" -> Minus(d, s)
    [] op.name = "SUBD" -> Minus(s, d)
    [] op.name = "AND" -> And(s, d)
    [] op.name = "OR" -> Or(s, d)
    [] op.name \in {"INC", "INCD"} -> Plus(d, 1)
    [] op.name \in {"DEC", "DECD"} -> Minus(d, 1)
    [] op.name \in {"RD", "SWAP"} -> d
    [] OTHER -> s

\* Mutant: a swap keeps what it returned.
KeptOnSwap(op, d, s) == IF op.name \in BitOp THEN BitResult(op, d) ELSE Reply(op, d, s)

\* The value kept for the destination's own register.
Kept(op, d, s) == IF op.name \in BitOp THEN BitResult(op, d)
                  ELSE IF op.name = "SWAP" THEN s ELSE Reply(op, d, s)

Exec(a, op, dt, s, junk) ==
  LET d == a.reg[dt]
      \* the bit tests write their reply before they fail
      replies == Executes(op, d, s) \/ op.name \in BitOp
      b == [a EXCEPT !.retval = IF replies THEN Reply(op, d, s) ELSE @,
                     !.rflag = [ok |-> Truth(Executes(op, d, s)), zero |-> 0]]
  IN  [alo  |-> IF Executes(op, d, s) /\ op.name # "RD"
                THEN Pending([b EXCEPT !.result = Kept(op, d, s)], "result", dt)
                ELSE Idle(b),
       ret  |-> Truth(Executes(op, d, s)),
       data |-> IF replies THEN Reply(op, d, s) ELSE junk]

-----------------------------------------------------------------------------
(* alo_next at the source, with the destination's answer.  Only the case    *)
(* with something to write returns a value.                                 *)
Answered(a, status) == a.pend # "none" /\ status = 1

NextStep(a, status, value) ==
  LET w == IF a.pend = "result" THEN a.result ELSE value
  IN  IF Answered(a, status)
      THEN [a EXCEPT !.retval = w, !.rflag = [ok |-> 1, zero |-> Truth(w = 0)]]
      ELSE [a EXCEPT !.rflag = [ok |-> status, zero |-> 0]]

NextReturns(a, status) == IF Answered(a, status) THEN {1} ELSE {0, 1}

\* Mutant: the register is written whatever the destination said.
CompleteUnasked(a) ==
  IF a.pend # "none"
  THEN [alo |-> Idle([a EXCEPT !.reg[a.at] = a.retval,
                               !.flags = [ok |-> 1, zero |-> a.rflag.zero,
                                          changed |-> 1, at |-> a.at]]),
        ret |-> 1]
  ELSE [alo |-> Idle(a), ret |-> a.rflag.ok]

(* alo_complete at the source: writes what alo_next kept. *)
Complete(a) ==
  IF a.pend # "none" /\ a.rflag.ok = 1
  THEN [alo |-> Idle([a EXCEPT !.reg[a.at] = a.retval,
                               !.flags = [ok |-> 1, zero |-> a.rflag.zero,
                                          changed |-> 1, at |-> a.at]]),
        ret |-> 1]
  ELSE [alo |-> Idle(a), ret |-> a.rflag.ok]

\* Mutant: the register number of an earlier operation is not masked out.
UpdateKeepsRegister(a, status) ==
  IF a.pend # "none" /\ status = 1
  THEN [alo |-> Idle([a EXCEPT !.reg[a.at] = a.result,
                               !.flags = [ok |-> 1, zero |-> Truth(a.result = 0),
                                          changed |-> 1, at |-> Or(@.at, a.at)]]),
        ret |-> 1]
  ELSE [alo |-> Idle([a EXCEPT !.flags.changed = 0, !.flags.at = 0]), ret |-> 0]

(* alo_update at the destination: writes result_buffer if the source says so *)
(* and takes the change flag down if not.                                   *)
Update(a, status) ==
  IF a.pend # "none" /\ status = 1
  THEN [alo |-> Idle([a EXCEPT !.reg[a.at] = a.result,
                               !.flags = [ok |-> 1, zero |-> Truth(a.result = 0),
                                          changed |-> 1, at |-> a.at]]),
        ret |-> 1]
  ELSE [alo |-> Idle([a EXCEPT !.flags.changed = 0, !.flags.at = 0]), ret |-> 0]
=============================================================================
