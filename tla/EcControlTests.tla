--------------------------- MODULE EcControlTests ---------------------------
(***************************************************************************)
(* The tests of ec_control.c in ec_control_tester.c, as sequences of steps   *)
(* of two machines, mcn0 and mcn1.  wire slot 0 and wire slot 1 are daddr0    *)
(* and daddr1, the packets of their loops: a call takes the packet of one of *)
(* the slots and leaves its answer there.  A step is                         *)
(*                                                                         *)
(*   do: what is done; n: the machine; loop: the slot; ask: what the queues  *)
(*   of the machine hold; act: actions that the call must ask for; out, reg: *)
(*   the sets of packets (but for the s_value) and registers that pass.      *)
(*                                                                         *)
(* UnitTests does the steps on the machines of EcControl.                    *)
(***************************************************************************)
EXTENDS EcControl, EcLinkTests

Sr(value, entt) == Plain(SR(value, entt))
Rr(value, entt) == Plain(RR(value, entt))
TokenP(p) == [p EXCEPT !.f = Token(@)]
RevivalP(p) == [p EXCEPT !.f = Revival(@)]
Carrying(p, op) == [p EXCEPT !.op = op]
Saying(p, st) == [p EXCEPT !.st = st]

\* The two queue arguments of entl_received: a message waits, a command is on top.
Asking(ait, op) == [ait |-> ait, cmd |-> [NoCommand EXCEPT !.op = op]]
Nothing == Asking(FALSE, NOP)
Message == Asking(TRUE, NOP)
WriteIf(c) == [name |-> "WR", arg |-> c]

Step(do, n, loop, ask, acts, out, reg) ==
  [do |-> do, n |-> n, loop |-> loop, ask |-> ask, act |-> acts, out |-> out, reg |-> reg]
StateInitStep(n) == Step("init", n, n, Nothing, {}, {Sr(1, "ENTL")}, {InitReg})
Got(n, loop, ask, acts, out, reg) == Step("receive", n, loop, ask, acts, {out}, {reg})
\* What entl_recover of mcn0 sends, mcn1 gets in its own loop.
RecoverStep(out, regs) == Step("recover", 0, 1, Nothing, {}, {out}, regs)

\* rand_regs and copy_regs at both ends; unequal: registers 0 differ, as
\* random values do, and the condition of the test's write fails.
FillStep(unequal) == [do |-> "fill", unequal |-> unequal]
\* check_untouched: the registers that may have changed at each end; wrote:
\* register 0 of mcn1 must hold what register 0 of mcn0 held.
CompareStep(may0, may1, wrote) ==
  [do |-> "compare", may |-> <<may0, may1>>, wrote |-> wrote]

-----------------------------------------------------------------------------
\* Idle machines: how the first three tests begin.
Begin == <<StateInitStep(0), StateInitStep(1)>>

Waking(ask, b) ==
  <<Got(0, 1, ask, {}, Rr(1, "ENTL"), St(0, 1, 1, 0, 0, 0, "NIL", 0, 0)),
    Got(1, 0, Nothing, {}, Rr(1, "ENTL"), St(0, 1, 1, 0, 0, 0, "NIL", 0, 0)),
    Got(0, 0, ask, {"SIG_LUP"}, Sr(0, "ENTL"), St(1, 1, 0, 1, 0, 0, "NIL", b, 0))>>

\* Both loops go round once, while mcn0 asks and backs off from b to c.
Round(ask, v, b, c) ==
  <<Got(0, 1, ask, {}, Rr(v, "ENTL"), St(1 - v, v, 1, 1, 0, 0, "NIL", b, 0)),
    Got(1, 0, Nothing, {}, Rr(v, "ENTL"), St(1 - v, v, 1, 1, 0, 0, "NIL", 0, 0)),
    Got(0, 0, ask, {}, Sr(1 - v, "ENTL"), St(v, v, 0, 1, 0, 0, "NIL", c, 0)),
    Got(1, 1, Nothing, {}, Sr(1 - v, "ENTL"), St(v, v, 0, 1, 0, 0, "NIL", 0, 0))>>

\* mcn0 hears the answers of mcn1 in its own loop and no SR: k toggles.
Missing(k) ==
  [i \in 1 .. 2 * k |->
     LET t == (i + 1) \div 2
         v == (t + 1) % 2
     IN  IF i % 2 = 1
         THEN Got(1, 0, Nothing, {}, Rr(v, "ENTL"), St(0, v, 1, 0, 0, 0, "NIL", 0, 0))
         ELSE Got(0, 0, Nothing, {}, Sr(1 - v, "ENTL"), St(v, 1, 0, 1, 0, t, "NIL", 0, 0))] \o
  <<Got(1, 0, Nothing, {}, Rr(0, "ENTL"), St(0, 0, 1, 0, 0, 0, "NIL", 0, 0))>>

HealthyLoop ==
  Begin \o Waking(Nothing, 0) \o
  <<Got(1, 1, Nothing, {"SIG_LUP"}, Sr(0, "ENTL"), St(1, 1, 0, 1, 0, 0, "NIL", 0, 0))>> \o
  Round(Nothing, 0, 0, 0)

TtHiccup ==
  Begin \o Waking(Nothing, 0) \o Missing(2) \o
  <<Got(1, 1, Nothing, {"SIG_LUP"}, Sr(0, "ENTL"), St(1, 0, 0, 1, 0, 0, "NIL", 0, 0)),
    Got(0, 1, Nothing, {}, Rr(0, "ENTL"), St(1, 0, 1, 1, 0, 2, "NIL", 0, 0)),
    Got(0, 0, Nothing, {}, Sr(1, "ENTL"), St(0, 0, 0, 1, 0, 0, "NIL", 0, 0)),
    Got(1, 0, Nothing, {}, Rr(1, "ENTL"), St(1, 1, 1, 1, 0, 0, "NIL", 0, 0))>>

\* mcn0 recovers, and both loops go on.
Revived ==
  <<Got(0, 0, Nothing, {"RECOVER", "SIG_LDN"}, Sr(1, "ENTL"), St(0, 1, 0, 0, 0, 0, "NIL", 0, 0)),
    RecoverStep(RevivalP(Rr(1, "ENTL")), Reg),
    Got(1, 1, Nothing, {"SIG_LUP"}, Sr(0, "ENTL"), St(1, 0, 0, 1, 0, 0, "NIL", 0, 0)),
    Got(1, 0, Nothing, {}, Rr(1, "ENTL"), St(1, 1, 1, 1, 0, 0, "NIL", 0, 0)),
    Got(0, 1, Nothing, {}, Rr(0, "ENTL"), St(0, 0, 1, 0, 0, 0, "NIL", 0, 0)),
    Got(1, 1, Nothing, {}, Sr(1, "ENTL"), St(0, 1, 0, 1, 0, 0, "NIL", 0, 0)),
    Got(0, 0, Nothing, {}, Sr(0, "ENTL"), St(1, 0, 0, 1, 0, 0, "NIL", 0, 0)),
    Got(1, 0, Nothing, {}, Rr(0, "ENTL"), St(0, 0, 1, 1, 0, 0, "NIL", 0, 0))>>

TcResend == Begin \o Waking(Nothing, 0) \o Missing(4) \o Revived

-----------------------------------------------------------------------------
(* The transactions are tested in stages that differ in what is asked for:  *)
(* ask, and first and done in the calls that start and end the first one;   *)
(* op: the request's opcode; st: the status in the answer and in the packet  *)
(* that commits; finished: actions of the end that takes the transaction.   *)
AIT == [ask |-> Message, first |-> Message, done |-> Message, op |-> NOP,
        st |-> 0, finished |-> {"PROC_AIT", "SIG_AIT"}]
ALO == [ask |-> Asking(FALSE, WriteIf(0)), first |-> Asking(FALSE, WriteIf(0)),
        done |-> Asking(TRUE, WriteIf(0)), op |-> WriteIf(0),
        st |-> 1, finished |-> {}]
\* A write if the registers are equal, which they are not.
CondFalse == [ALO EXCEPT !.first = Asking(FALSE, WriteIf(1)), !.op = WriteIf(1), !.st = 0]

\* mcn0 has a message to send before the link is up.
Rise ==
  Waking(Message, 1) \o
  <<Got(1, 1, Nothing, {"SIG_LUP"}, Sr(0, "ENTL"), St(1, 1, 0, 1, 0, 0, "NIL", 0, 0))>>

\* Neither has the token: mcn0 backs off.
Backoff(k) ==
  Round(k.ask, 0, 1, 2) \o Round(k.ask, 1, 2, 3) \o Round(k.ask, 0, 3, 4) \o
  SubSeq(Round(k.ask, 1, 4, 4), 1, 2)

\* mcn0 starts a transaction, which is done and brings it the token.
Success(k) ==
  <<Got(0, 0, k.first, {}, Carrying(Sr(0, "ENTT"), k.op), St(1, 1, 0, 1, 0, 0, "Ra", 0, 0)),
    Got(1, 1, Nothing, {}, Sr(0, "ENTL"), St(1, 1, 0, 1, 0, 0, "NIL", 0, 0)),
    Got(0, 1, k.ask, {}, Rr(0, "ENTL"), St(1, 0, 1, 1, 0, 0, "Ra", 0, 0)),
    Got(1, 0, Nothing, {}, Saying(Rr(0, "ENTT"), k.st), St(1, 0, 1, 1, 0, 0, "Rb", 0, 0)),
    Got(0, 0, k.ask, {}, Saying(Sr(1, "ENTA"), k.st), St(0, 0, 0, 1, 0, 0, "Rp", 0, 0)),
    Got(1, 1, Nothing, {}, Sr(1, "ENTL"), St(0, 0, 0, 1, 0, 0, "Rb", 0, 0)),
    Got(0, 1, k.ask, {}, Rr(1, "ENTL"), St(0, 1, 1, 1, 0, 0, "Rp", 0, 0)),
    Got(1, 0, Nothing, k.finished, Rr(1, "ENTA"), St(0, 1, 1, 1, 0, 0, "NIL", 0, 0)),
    Got(0, 0, k.done, {}, Sr(0, "ENTL"), St(1, 1, 0, 1, 1, 0, "NIL", 0, 0))>>

\* The token goes to mcn1, which does a transaction at once.
Passed(k) ==
  <<Got(1, 1, Nothing, {}, Sr(0, "ENTL"), St(1, 1, 0, 1, 0, 0, "NIL", 0, 0)),
    Got(0, 1, Nothing, {}, TokenP(Rr(0, "ENTL")), St(1, 0, 1, 1, 0, 0, "NIL", 0, 0)),
    Got(1, 0, Nothing, {}, Rr(0, "ENTL"), St(1, 0, 1, 1, 0, 0, "NIL", 0, 0)),
    Got(0, 0, k.ask, {}, Sr(1, "ENTL"), St(0, 0, 0, 1, 0, 0, "NIL", 1, 0)),
    Got(1, 1, k.ask, {}, Carrying(Sr(1, "ENTT"), k.op), St(0, 0, 0, 1, 1, 0, "Ra", 0, 1)),
    Got(0, 1, Message, {}, Saying(Rr(1, "ENTT"), k.st), St(0, 1, 1, 1, 0, 0, "Rb", 1, 0)),
    Got(1, 0, Message, {"SEND"}, Rr(1, "ENTL"), St(0, 1, 1, 1, 1, 0, "Ra", 0, 1)),
    Got(0, 0, Message, {}, Sr(0, "ENTL"), St(1, 1, 0, 1, 0, 0, "Rb", 1, 0)),
    Got(1, 1, Message, {}, Saying(Sr(0, "ENTA"), k.st), St(1, 1, 0, 1, 1, 0, "Rp", 0, 1)),
    Got(0, 1, Message, {}, Rr(0, "ENTA"), St(1, 0, 1, 1, 0, 0, "NIL", 1, 0)),
    Got(1, 0, Message, {}, Rr(0, "ENTL"), St(1, 0, 1, 1, 1, 0, "Rp", 0, 1)),
    Got(0, 0, Message, {}, Sr(1, "ENTL"), St(0, 0, 0, 1, 0, 0, "NIL", 2, 0)),
    Got(1, 1, Message, {}, Sr(1, "ENTL"), St(0, 0, 0, 1, 1, 0, "NIL", 0, 1))>>

\* mcn1 starts another, up to its commit,
Again(k) ==
  <<Got(0, 1, Message, {}, Rr(1, "ENTL"), St(0, 1, 1, 1, 0, 0, "NIL", 2, 0)),
    Got(1, 0, Message, {}, Rr(1, "ENTL"), St(0, 1, 1, 1, 1, 0, "NIL", 0, 1)),
    Got(0, 0, Message, {}, Sr(0, "ENTL"), St(1, 1, 0, 1, 0, 0, "NIL", 3, 0)),
    Got(1, 1, k.ask, {}, Carrying(Sr(0, "ENTT"), k.op), St(1, 1, 0, 1, 1, 0, "Ra", 0, 2)),
    Got(0, 1, Message, {}, Saying(Rr(0, "ENTT"), k.st), St(1, 0, 1, 1, 0, 0, "Rb", 3, 0)),
    Got(1, 0, Message, {}, Rr(0, "ENTL"), St(1, 0, 1, 1, 1, 0, "Ra", 0, 2)),
    Got(0, 0, Message, {}, Sr(1, "ENTL"), St(0, 0, 0, 1, 0, 0, "Rb", 3, 0)),
    Got(1, 1, Message, {}, Saying(Sr(1, "ENTA"), k.st), St(0, 0, 0, 1, 1, 0, "Rp", 0, 2))>>

\* which mcn0 never gets, so that it recovers and both cancel.
Cancelled ==
  [i \in 1 .. 9 |->
     LET t == (i + 1) \div 2
     IN  IF i % 2 = 1
         THEN Got(1, 0, Message, {}, Rr(t % 2, "ENTL"), St(0, t % 2, 1, 1, 1, 0, "Rp", 0, 2))
         ELSE Got(0, 0, Message, {}, Sr((t + 1) % 2, "ENTL"), St(t % 2, 0, 0, 1, 0, t, "Rb", 3, 0))] \o
  <<Got(0, 0, Message, {}, Sr(0, "ENTL"), St(1, 0, 0, 0, 0, 0, "Rb", 3, 0)),
    RecoverStep(RevivalP(Rr(0, "ENTA")), {St(1, 0, 0, 0, 0, 0, "NIL", 3, 0)}),
    Step("receive", 1, 1, Nothing, {}, Packet, {St(0, 1, 0, 1, 1, 0, "NIL", 0, 2)})>>

EnttAitSequence ==
  Begin \o Rise \o Backoff(AIT) \o Success(AIT) \o Passed(AIT) \o Again(AIT) \o Cancelled

-----------------------------------------------------------------------------
(* Atomic writes: the same stages, and the registers are compared between    *)
(* them.  The second comparison exempts the register that mcn1's write went  *)
(* to, and compares its source with itself.                                  *)
AloBegin == Begin \o <<FillStep(FALSE)>> \o Rise
AloBackoff == Backoff(ALO)
AloSuccess == Success(ALO)
AloWritten == <<CompareStep({}, {0}, TRUE), FillStep(FALSE)>>
AloPassed == Passed(ALO)
AloReturned == <<CompareStep({0}, {}, FALSE), FillStep(FALSE)>>
AloAgain == Again(ALO)
AloCancelled == Cancelled \o <<CompareStep({}, {}, FALSE)>>

EnttAloSequence == AloBegin \o AloBackoff \o AloSuccess \o AloWritten \o AloPassed \o
                   AloReturned \o AloAgain \o AloCancelled

CondBegin == Begin \o <<FillStep(TRUE)>> \o Rise
CondBackoff == Backoff(ALO)
CondSuccess == Success(CondFalse) \o <<CompareStep({}, {}, FALSE)>>

EnttAloCondFalse == CondBegin \o CondBackoff \o CondSuccess

\* In the order of ec_control_test_main.cpp.
ControlTests == <<HealthyLoop, TtHiccup, TcResend, EnttAitSequence, EnttAloSequence,
                  EnttAloCondFalse>>
=============================================================================
