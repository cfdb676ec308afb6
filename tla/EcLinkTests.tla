---------------------------- MODULE EcLinkTests ----------------------------
(***************************************************************************)
(* The tests of ec_link.c in ec_link_tester.c, as sequences of rows.  A row  *)
(* is a call of a test and what the test accepts after it:                  *)
(*                                                                         *)
(*   call: what is called; f: the fields it may be given; entt, qfull: its   *)
(*   other arguments; flag, out, reg: the sets of results, fields sent and   *)
(*   registers that let the test go on.                                     *)
(*                                                                         *)
(* UnitTests makes the calls of the rows on the machine of EcLink.          *)
(***************************************************************************)
EXTENDS EcLink, Sequences

\* The arguments of expect_state and of check_field.
St(sr, rr, tt, tf, token, tc, state, entt_bkoff, token_bkoff) ==
  [sr |-> sr, rr |-> rr, tt |-> tt, tf |-> tf, token |-> token, tc |-> tc,
   state |-> state, entt_bkoff |-> entt_bkoff, token_bkoff |-> token_bkoff]

SR(value, entt) == [NoField EXCEPT !.valid = 1, !.s_or_r = 1, !.value = value, !.entt = entt]
RR(value, entt) == [NoField EXCEPT !.valid = 1, !.value = value, !.entt = entt]
Token(f) == [f EXCEPT !.token = 1]
Revival(f) == [f EXCEPT !.recover = 1]

AnyFlags == SUBSET LinkFlag

\* The register that a test is given, and ec_link_send.
InitRow == [call |-> "init", f |-> {NoField}, entt |-> FALSE, qfull |-> FALSE,
            flag |-> {{}}, out |-> {NoField}, reg |-> {InitReg}]
SendRow(out) == [InitRow EXCEPT !.call = "send", !.out = {out}, !.reg = Reg]
\* ec_link_recover, whose result and register not all tests look at.
RecoverRow(flags, out, regs) ==
  [InitRow EXCEPT !.call = "recover", !.flag = flags, !.out = {out}, !.reg = regs]
\* ec_link_action with and without room in the queue.
Row(f, entt, flag, out, reg) ==
  [call |-> "action", f |-> {f}, entt |-> entt = 1, qfull |-> FALSE,
   flag |-> {flag}, out |-> {out}, reg |-> {reg}]
FullRow(f, entt, flag, out, reg) ==
  [Row(f, entt, flag, out, reg) EXCEPT !.qfull = TRUE]
\* A call whose result is not compared.
Unread(row) == [row EXCEPT !.flag = AnyFlags]

\* These tests set every bit of the field but recover, which is a local
\* variable's and may be either.
EitherRecover(rows) ==
  [i \in DOMAIN rows |-> [rows[i] EXCEPT !.f = @ \cup {Revival(f) : f \in @}]]

-----------------------------------------------------------------------------
\* How every test but the last one begins: the link comes up.
LinkUp ==
  <<InitRow,
    SendRow(SR(1, "ENTL")),
    Row(SR(1, "ENTL"), 0, {}, RR(1, "ENTL"), St(0, 1, 1, 0, 0, 0, "NIL", 0, 0)),
    Row(RR(1, "ENTL"), 0, {"LKUP"}, SR(0, "ENTL"), St(1, 1, 0, 1, 0, 0, "NIL", 0, 0))>>

\* healthy_loop: both loops toggle.
LinkHealthyLoop ==
  EitherRecover(LinkUp \o
  <<Row(SR(0, "ENTL"), 0, {}, RR(0, "ENTL"), St(1, 0, 1, 1, 0, 0, "NIL", 0, 0)),
    Row(RR(0, "ENTL"), 0, {}, SR(1, "ENTL"), St(0, 0, 0, 1, 0, 0, "NIL", 0, 0))>>)

\* tt_hiccup: RRs without an SR between them, up to the threshold.
LinkTtHiccup ==
  EitherRecover(LinkUp \o
  <<Row(RR(0, "ENTL"), 0, {}, SR(1, "ENTL"), St(0, 1, 0, 1, 0, 1, "NIL", 0, 0)),
    Row(RR(1, "ENTL"), 0, {}, SR(0, "ENTL"), St(1, 1, 0, 1, 0, 2, "NIL", 0, 0)),
    Row(RR(0, "ENTL"), 0, {}, SR(1, "ENTL"), St(0, 1, 0, 1, 0, 3, "NIL", 0, 0)),
    Row(SR(1, "ENTL"), 0, {}, RR(1, "ENTL"), St(0, 1, 1, 1, 0, 3, "NIL", 0, 0)),
    Row(RR(0, "ENTL"), 0, {}, SR(1, "ENTL"), St(0, 1, 0, 1, 0, 0, "NIL", 0, 0)),
    Row(RR(1, "ENTL"), 0, {}, SR(0, "ENTL"), St(1, 1, 0, 1, 0, 1, "NIL", 0, 0)),
    Row(SR(1, "ENTL"), 0, {}, RR(1, "ENTL"), St(1, 1, 1, 1, 0, 1, "NIL", 0, 0)),
    Row(RR(1, "ENTL"), 0, {}, SR(0, "ENTL"), St(1, 1, 0, 1, 0, 0, "NIL", 0, 0))>>)

\* tc_resend: past the threshold, the link goes down
ResendDown ==
  LinkUp \o
  <<Row(RR(0, "ENTL"), 0, {}, SR(1, "ENTL"), St(0, 1, 0, 1, 0, 1, "NIL", 0, 0)),
    Row(RR(1, "ENTL"), 0, {}, SR(0, "ENTL"), St(1, 1, 0, 1, 0, 2, "NIL", 0, 0)),
    Row(RR(0, "ENTL"), 0, {}, SR(1, "ENTL"), St(0, 1, 0, 1, 0, 3, "NIL", 0, 0)),
    Row(RR(1, "ENTL"), 0, {}, SR(0, "ENTL"), St(1, 1, 0, 1, 0, 4, "NIL", 0, 0)),
    Row(RR(0, "ENTL"), 0, {"LKDN", "RECOVER"}, SR(1, "ENTL"), St(0, 1, 0, 0, 0, 0, "NIL", 0, 0))>>

\* and recovers, twice.
ResendTwice ==
  <<RecoverRow(AnyFlags, Revival(RR(1, "ENTL")), Reg),
    Row(SR(0, "ENTL"), 0, {}, RR(0, "ENTL"), St(0, 0, 1, 0, 0, 0, "NIL", 0, 0)),
    Row(RR(1, "ENTL"), 0, {"LKUP"}, SR(0, "ENTL"), St(1, 0, 0, 1, 0, 0, "NIL", 0, 0)),
    Row(RR(0, "ENTL"), 0, {}, SR(1, "ENTL"), St(0, 0, 0, 1, 0, 1, "NIL", 0, 0)),
    Row(RR(1, "ENTL"), 0, {}, SR(0, "ENTL"), St(1, 0, 0, 1, 0, 2, "NIL", 0, 0)),
    Row(RR(0, "ENTL"), 0, {}, SR(1, "ENTL"), St(0, 0, 0, 1, 0, 3, "NIL", 0, 0)),
    Row(RR(1, "ENTL"), 0, {}, SR(0, "ENTL"), St(1, 0, 0, 1, 0, 4, "NIL", 0, 0)),
    Row(RR(0, "ENTL"), 0, {"LKDN", "RECOVER"}, SR(1, "ENTL"), St(0, 0, 0, 0, 0, 0, "NIL", 0, 0)),
    Row(SR(1, "ENTL"), 0, {}, RR(1, "ENTL"), St(0, 1, 1, 0, 0, 0, "NIL", 0, 0)),
    Row(RR(1, "ENTL"), 0, {"LKUP"}, SR(0, "ENTL"), St(1, 1, 0, 1, 0, 0, "NIL", 0, 0))>>

LinkTcResend == EitherRecover(ResendDown \o ResendTwice)

\* A request of the peer is accepted and acknowledged.  Two flags are not
\* looked at: one is not compared, the other only printed.
LoopServes ==
  LinkUp \o
  <<Row(SR(0, "ENTT"), 0, {"RECV"}, RR(0, "ENTT"), St(1, 0, 1, 1, 0, 0, "Rb", 0, 0)),
    Unread(Row(RR(0, "ENTL"), 0, {}, SR(1, "ENTL"), St(0, 0, 0, 1, 0, 0, "Rb", 0, 0))),
    Unread(Row(SR(1, "ENTA"), 0, {}, RR(1, "ENTA"), St(0, 1, 1, 1, 0, 0, "NIL", 0, 0)))>>

\* "ENTT reject Sequence"
LoopRefused ==
  <<Row(Token(RR(0, "ENTL")), 1, {"STRT"}, SR(1, "ENTT"), St(0, 1, 0, 1, 1, 0, "Ra", 0, 1)),
    Row(SR(0, "ENTL"), 1, {}, RR(0, "ENTL"), St(0, 0, 1, 1, 1, 0, "Ra", 0, 1)),
    Row(RR(1, "ENTL"), 1, {"DROP"}, SR(0, "ENTL"), St(1, 0, 0, 1, 1, 0, "NIL", 0, 1))>>

\* "ENTT Accepted sequence"
LoopGranted ==
  <<Row(SR(1, "ENTL"), 1, {}, RR(1, "ENTL"), St(1, 1, 1, 1, 1, 0, "NIL", 0, 1)),
    Row(RR(0, "ENTL"), 1, {"STRT"}, SR(1, "ENTT"), St(0, 1, 0, 1, 1, 0, "Ra", 0, 2)),
    Row(SR(0, "ENTT"), 1, {}, RR(0, "ENTL"), St(0, 0, 1, 1, 1, 0, "Ra", 0, 2)),
    Row(RR(1, "ENTT"), 0, {}, SR(0, "ENTA"), St(1, 0, 0, 1, 1, 0, "Rp", 0, 2)),
    Row(SR(1, "ENTL"), 1, {}, RR(1, "ENTL"), St(1, 1, 1, 1, 1, 0, "Rp", 0, 2)),
    Row(RR(0, "ENTA"), 0, {"DONE"}, SR(1, "ENTL"), St(0, 1, 0, 1, 1, 0, "NIL", 0, 2))>>

\* "Timeover to start ENTT": the token goes, the back-off counts.
LoopWaits ==
  <<Row(SR(0, "ENTL"), 0, {}, Token(RR(0, "ENTL")), St(0, 0, 1, 1, 0, 0, "NIL", 0, 0)),
    Row(RR(1, "ENTL"), 1, {}, SR(0, "ENTL"), St(1, 0, 0, 1, 0, 0, "NIL", 1, 0)),
    Row(SR(1, "ENTL"), 1, {}, RR(1, "ENTL"), St(1, 1, 1, 1, 0, 0, "NIL", 1, 0)),
    Row(RR(0, "ENTL"), 1, {}, SR(1, "ENTL"), St(0, 1, 0, 1, 0, 0, "NIL", 2, 0)),
    Row(SR(0, "ENTL"), 1, {}, RR(0, "ENTL"), St(0, 0, 1, 1, 0, 0, "NIL", 2, 0)),
    Row(RR(1, "ENTL"), 1, {}, SR(0, "ENTL"), St(1, 0, 0, 1, 0, 0, "NIL", 3, 0)),
    Row(SR(1, "ENTL"), 1, {}, RR(1, "ENTL"), St(1, 1, 1, 1, 0, 0, "NIL", 3, 0)),
    Row(RR(0, "ENTL"), 1, {}, SR(1, "ENTL"), St(0, 1, 0, 1, 0, 0, "NIL", 4, 0)),
    Row(SR(0, "ENTL"), 1, {}, RR(0, "ENTL"), St(0, 0, 1, 1, 0, 0, "NIL", 4, 0))>>

\* The back-off ends; success brings the token back.
LoopWins ==
  <<Row(RR(1, "ENTL"), 1, {"STRT"}, SR(0, "ENTT"), St(1, 0, 0, 1, 0, 0, "Ra", 0, 0)),
    Row(SR(1, "ENTL"), 1, {}, RR(1, "ENTL"), St(1, 1, 1, 1, 0, 0, "Ra", 0, 0)),
    Row(Token(RR(0, "ENTT")), 1, {}, SR(1, "ENTA"), St(0, 1, 0, 1, 1, 0, "Rp", 0, 0)),
    Row(SR(0, "ENTL"), 1, {}, RR(0, "ENTL"), St(0, 0, 1, 1, 1, 0, "Rp", 0, 0)),
    Row(RR(1, "ENTA"), 1, {"DONE"}, SR(0, "ENTL"), St(1, 0, 0, 1, 1, 0, "NIL", 0, 0))>>

\* "Error recovery to cancell ENTT receive case", after a loop of five RRs.
LoopCancels ==
  <<Row(SR(1, "ENTT"), 0, {"RECV"}, Token(RR(1, "ENTT")), St(1, 1, 1, 1, 0, 0, "Rb", 0, 0))>> \o
  [i \in 1 .. 5 |->
     Row(RR((i - 1) % 2, "ENTL"), 0, {}, SR(i % 2, "ENTL"),
         St((i - 1) % 2, 1, 0, 1, 0, i - 1, "Rb", 0, 0))] \o
  <<Row(RR(1, "ENTL"), 0, {"LKDN", "RECOVER"}, SR(0, "ENTL"), St(1, 1, 0, 0, 0, 0, "Rb", 0, 0)),
    RecoverRow({{"DROP"}}, Revival(RR(1, "ENTA")), {St(1, 1, 0, 0, 0, 0, "NIL", 0, 0)})>>

\* "Error recovery on ENTT Initiation", drop at Ra case.
LoopRequestLost ==
  <<Row(SR(0, "ENTL"), 0, {}, RR(0, "ENTL"), St(1, 0, 1, 0, 0, 0, "NIL", 0, 0)),
    Row(RR(0, "ENTL"), 0, {"LKUP"}, SR(1, "ENTL"), St(0, 0, 0, 1, 0, 0, "NIL", 0, 0)),
    Row(SR(1, "ENTL"), 0, {}, RR(1, "ENTL"), St(0, 1, 1, 1, 0, 0, "NIL", 0, 0)),
    Row(Token(RR(1, "ENTL")), 1, {"STRT"}, SR(0, "ENTT"), St(1, 1, 0, 1, 1, 0, "Ra", 0, 1)),
    Row(SR(0, "ENTT"), 1, {}, RR(0, "ENTL"), St(1, 0, 1, 1, 1, 0, "Ra", 0, 1)),
    Row(Revival(RR(1, "ENTL")), 0, {"DROP"}, SR(0, "ENTL"), St(1, 0, 0, 1, 1, 0, "NIL", 0, 1)),
    Row(SR(1, "ENTL"), 1, {}, RR(1, "ENTL"), St(1, 1, 1, 1, 1, 0, "NIL", 0, 1))>>

\* "Error recovery on ENTT Initiation, drop at Rp case"
LoopGrantLost ==
  <<Row(Token(RR(0, "ENTL")), 1, {"STRT"}, SR(1, "ENTT"), St(0, 1, 0, 1, 1, 0, "Ra", 0, 1)),
    Row(SR(0, "ENTT"), 1, {}, RR(0, "ENTL"), St(0, 0, 1, 1, 1, 0, "Ra", 0, 1)),
    Row(RR(0, "ENTT"), 1, {}, SR(1, "ENTA"), St(0, 0, 0, 1, 1, 0, "Rp", 0, 1))>> \o
  [i \in 1 .. 6 |->
     Row(SR((i - 1) % 2, "ENTL"), 1, {}, RR((i - 1) % 2, "ENTL"),
         St(0, (i - 1) % 2, 1, 1, 1, 0, "Rp", 0, 1))] \o
  <<Row(Revival(RR(1, "ENTA")), 0, {"DROP"}, SR(0, "ENTL"), St(1, 1, 0, 1, 1, 0, "NIL", 0, 1)),
    Row(SR(0, "ENTL"), 1, {}, RR(0, "ENTL"), St(1, 0, 1, 1, 1, 0, "NIL", 0, 1))>>

\* "Error recovery on ENTT Initiation, complete at Rp case"
LoopConfirmed ==
  <<Row(RR(0, "ENTL"), 1, {"STRT"}, SR(1, "ENTT"), St(0, 0, 0, 1, 1, 0, "Ra", 0, 2)),
    Row(SR(0, "ENTL"), 1, {}, RR(0, "ENTL"), St(0, 0, 1, 1, 1, 0, "Ra", 0, 2)),
    Row(RR(0, "ENTT"), 1, {}, SR(1, "ENTA"), St(0, 0, 0, 1, 1, 0, "Rp", 0, 2))>> \o
  [i \in 1 .. 6 |->
     Row(SR((i - 1) % 2, "ENTL"), 1, {}, RR((i - 1) % 2, "ENTL"),
         St(0, (i - 1) % 2, 1, 1, 1, 0, "Rp", 0, 2))] \o
  <<Row(Revival(RR(1, "ENTL")), 1, {"DONE"}, SR(0, "ENTL"), St(1, 1, 0, 1, 1, 0, "NIL", 0, 2)),
    Row(SR(0, "ENTL"), 0, {}, Token(RR(0, "ENTL")), St(1, 0, 1, 1, 0, 0, "NIL", 0, 0))>>

\* A request that finds the queue full, and one that does not.
LoopQueueFull ==
  <<Row(RR(0, "ENTL"), 0, {}, SR(1, "ENTL"), St(0, 0, 0, 1, 0, 0, "NIL", 0, 0)),
    FullRow(SR(1, "ENTT"), 0, {}, RR(1, "ENTL"), St(0, 1, 1, 1, 0, 0, "NIL", 0, 0)),
    Row(RR(1, "ENTL"), 0, {}, SR(0, "ENTL"), St(1, 1, 0, 1, 0, 0, "NIL", 0, 0)),
    Row(SR(0, "ENTT"), 1, {"RECV"}, RR(0, "ENTT"), St(1, 0, 1, 1, 0, 0, "Rb", 0, 0)),
    Row(RR(0, "ENTL"), 1, {}, SR(1, "ENTL"), St(0, 0, 0, 1, 0, 0, "Rb", 0, 0)),
    Row(SR(0, "ENTA"), 1, {"FNSH"}, RR(0, "ENTA"), St(0, 0, 1, 1, 0, 0, "NIL", 0, 0))>>

\* The token is kept while there is something to send: the first request,
TokenFirst ==
  <<InitRow,
    SendRow(SR(1, "ENTL")),
    Row(SR(1, "ENTL"), 0, {}, RR(1, "ENTL"), St(0, 1, 1, 0, 0, 0, "NIL", 0, 0)),
    Row(Token(RR(1, "ENTL")), 0, {"LKUP"}, SR(0, "ENTL"), St(1, 1, 0, 1, 1, 0, "NIL", 0, 0)),
    Row(SR(0, "ENTL"), 1, {}, RR(0, "ENTL"), St(1, 0, 1, 1, 1, 0, "NIL", 0, 0)),
    Row(RR(0, "ENTL"), 1, {"STRT"}, SR(1, "ENTT"), St(0, 0, 0, 1, 1, 0, "Ra", 0, 1)),
    Row(SR(0, "ENTT"), 1, {}, RR(0, "ENTL"), St(0, 0, 1, 1, 1, 0, "Ra", 0, 1)),
    Row(RR(1, "ENTT"), 0, {}, SR(0, "ENTA"), St(1, 0, 0, 1, 1, 0, "Rp", 0, 1)),
    Row(SR(1, "ENTL"), 1, {}, RR(1, "ENTL"), St(1, 1, 1, 1, 1, 0, "Rp", 0, 1))>>

\* the second,
TokenSecond ==
  <<Row(RR(0, "ENTA"), 0, {"DONE"}, SR(1, "ENTL"), St(0, 1, 0, 1, 1, 0, "NIL", 0, 1)),
    Row(SR(0, "ENTL"), 1, {}, RR(0, "ENTL"), St(0, 0, 1, 1, 1, 0, "NIL", 0, 1)),
    Row(RR(1, "ENTL"), 1, {"STRT"}, SR(0, "ENTT"), St(1, 0, 0, 1, 1, 0, "Ra", 0, 2)),
    Row(SR(1, "ENTT"), 1, {}, RR(1, "ENTL"), St(1, 1, 1, 1, 1, 0, "Ra", 0, 2)),
    Row(RR(0, "ENTT"), 0, {}, SR(1, "ENTA"), St(0, 1, 0, 1, 1, 0, "Rp", 0, 2)),
    Row(SR(0, "ENTL"), 1, {}, RR(0, "ENTL"), St(0, 0, 1, 1, 1, 0, "Rp", 0, 2)),
    Row(RR(1, "ENTA"), 0, {"DONE"}, SR(0, "ENTL"), St(1, 0, 0, 1, 1, 0, "NIL", 0, 2))>>

\* and the third, after which it is passed on.
TokenThird ==
  <<Row(SR(1, "ENTL"), 1, {}, RR(1, "ENTL"), St(1, 1, 1, 1, 1, 0, "NIL", 0, 2)),
    Row(RR(0, "ENTL"), 1, {"STRT"}, SR(1, "ENTT"), St(0, 1, 0, 1, 1, 0, "Ra", 0, 3)),
    Row(SR(0, "ENTT"), 1, {}, RR(0, "ENTL"), St(0, 0, 1, 1, 1, 0, "Ra", 0, 3)),
    Row(RR(1, "ENTT"), 0, {}, SR(0, "ENTA"), St(1, 0, 0, 1, 1, 0, "Rp", 0, 3)),
    Row(SR(1, "ENTL"), 1, {}, RR(1, "ENTL"), St(1, 1, 1, 1, 1, 0, "Rp", 0, 3)),
    Row(RR(0, "ENTA"), 0, {"DONE"}, SR(1, "ENTL"), St(0, 1, 0, 1, 1, 0, "NIL", 0, 3)),
    Row(SR(0, "ENTL"), 1, {}, Token(RR(0, "ENTL")), St(0, 0, 1, 1, 0, 0, "NIL", 0, 0))>>

EnttLoop ==
  LoopServes \o LoopRefused \o LoopGranted \o LoopWaits \o LoopWins \o LoopCancels \o
  LoopRequestLost \o LoopGrantLost \o LoopConfirmed \o LoopQueueFull

EnttToken == TokenFirst \o TokenSecond \o TokenThird

\* In the order of ec_link_test_main.cpp.
LinkTests == <<LinkHealthyLoop, LinkTtHiccup, LinkTcResend, EnttLoop, EnttToken>>
=============================================================================
