----------------------------- MODULE EcControl -----------------------------
(***************************************************************************)
(* The state machine of ec_control.c: what entl_received and entl_recover   *)
(* do with the link register (EcLink), the atomic link engine (AtomicLinkOp) *)
(* and what they keep of the transaction under way.  A call is the record   *)
(*                                                                         *)
(*   [mcn |-> the machine after it, out |-> the packet to send,             *)
(*    act |-> the ENTL_ACTION_xxx flags it returns,                         *)
(*    flag |-> the flags of the link call inside it]                        *)
(*                                                                         *)
(* A packet is the destination address d_addr and the s_value beside it.    *)
(* The opcode field of d_addr holds the opcode of a request and the status  *)
(* of its answers; they are op and st here, and no packet has both.         *)
(***************************************************************************)
EXTENDS EcLink, AtomicLinkOp

Action == {"SEND", "SEND_AIT", "PROC_AIT", "CLER_AIT", "SIG_AIT", "DROP_AIT",
           "SEND_ALO", "SEND_ALO_F", "SIG_ALO", "PROPAGATE_AIT", "RECOVER",
           "SIG_LUP", "SIG_LDN"}

\* last is last_alo_command, of which only "is it 0" (AIT) is asked; fw is
\* the FW bit of last_d_addr.  entl_state_init sets neither.  The counters
\* of entl_state_t are written and never read, and are left out.
Machine == [reg : Reg, ao : Alo, last : {"AIT", "ALO"}, fw : BOOLEAN]

Packet == [f : Field, op : Opcode, dt : RegNo, fw : BOOLEAN, st : Bit, value : Word]

\* alo_command: opcode, source and destination register, forward bit.
Command == [op : Opcode, sr : RegNo, dt : RegNo, fw : BOOLEAN]
NoCommand == [op |-> NOP, sr |-> 0, dt |-> 0, fw |-> FALSE]

\* Mutants: the field is masked short of its token or its recover bit.
PlainNoToken(f) == [f |-> [f EXCEPT !.token = 0], op |-> NOP, dt |-> 0,
                    fw |-> FALSE, st |-> 0, value |-> 0]
PlainNoRecover(f) == [f |-> [f EXCEPT !.recover = 0], op |-> NOP, dt |-> 0,
                      fw |-> FALSE, st |-> 0, value |-> 0]

\* *addr = fld_out._raw
Plain(f) == [f |-> f, op |-> NOP, dt |-> 0, fw |-> FALSE, st |-> 0, value |-> 0]

\* SET_ECLP_ALO puts the 5-bit destination register at bit 37 and ALO_DT
\* takes it from bit 36.
DecodedDT(dt) == (2 * dt) % NReg

\* Memory that entl_state_init leaves as it is: fields of the machine m.
StateInit(m) ==
  [m EXCEPT !.reg = InitReg, !.ao = RegsInit(@)]

\* The flags ec_link.c raises beside the progress of a transaction.
LinkActs(flag) == When("RECOVER" \in flag, {"RECOVER"})
                    \cup When("LKUP" \in flag, {"SIG_LUP"})
                    \cup When("LKDN" \in flag, {"SIG_LDN"})

-----------------------------------------------------------------------------
(* The branches of entl_received, from the machine m after the link call    *)
(* and the plain packet out; each returns the machine, packet and actions.  *)

Result(m, out, acts) == [mcn |-> m, out |-> out, act |-> acts \cup {"SEND"}]

\* ENTT_STRT: send the head of the queue.  alo_initiate's result is not used.
Strt(m, out, cmd, junk) ==
  LET call == Initiate(m.ao, cmd.op, cmd.sr, junk)
  IN  IF cmd.op # NOP
      THEN Result([m EXCEPT !.ao = call.alo, !.last = "ALO"],
                  [out EXCEPT !.op = cmd.op, !.dt = cmd.dt, !.fw = cmd.fw,
                              !.value = call.data],
                  {"SEND_ALO"})
      ELSE Result([m EXCEPT !.last = "AIT"], [out EXCEPT !.fw = cmd.fw], {"SEND_AIT"})

\* Mutant: the packet that commits carries no T flag.
NxtNoTFlag(m, out, p, res) ==
  IF m.last = "ALO"
  THEN Result([m EXCEPT !.ao = NextStep(@, p.st, p.value)], out, {})
  ELSE Result(m, out, {})

\* ENTT_NEXT: the peer accepted; res is what alo_next returns.
Nxt(m, out, p, res) ==
  IF m.last = "ALO"
  THEN Result([m EXCEPT !.ao = NextStep(@, p.st, p.value)], [out EXCEPT !.st = res], {})
  ELSE Result(m, out, {})

\* ENTT_DONE: the transaction is over.
Done(m, out) ==
  LET call == Complete(m.ao)
  IN  IF m.last = "ALO"
      THEN Result([m EXCEPT !.ao = call.alo], out, When(call.ret = 1, {"SIG_ALO"}))
      ELSE Result(m, out, {"SIG_AIT", "DROP_AIT"})

\* Mutant: a message leaves last_d_addr as it was.
RecvKeepsForward(m, out, p, junk) ==
  LET call == Exec(m.ao, p.op, DecodedDT(p.dt), p.value, junk)
  IN  IF p.op = NOP
      THEN Result([m EXCEPT !.last = "AIT"], out, {"PROC_AIT"})
      ELSE Result([m EXCEPT !.ao = call.alo, !.last = "ALO", !.fw = p.fw],
                  [out EXCEPT !.value = call.data,
                              !.st = IF call.ret = 1 THEN call.alo.rflag.ok ELSE 0],
                  IF call.ret = 0 THEN {"SEND_ALO_F"}
                  ELSE {"SEND_ALO"} \cup When(p.fw, {"PROPAGATE_AIT"}))

\* Mutant: only operations set last_alo_command.
RecvKeepsCommand(m, out, p, junk) ==
  LET call == Exec(m.ao, p.op, DecodedDT(p.dt), p.value, junk)
  IN  IF p.op = NOP
      THEN Result([m EXCEPT !.fw = p.fw], out, {"PROC_AIT"})
      ELSE Result([m EXCEPT !.ao = call.alo, !.last = "ALO", !.fw = p.fw],
                  [out EXCEPT !.value = call.data,
                              !.st = IF call.ret = 1 THEN call.alo.rflag.ok ELSE 0],
                  IF call.ret = 0 THEN {"SEND_ALO_F"}
                  ELSE {"SEND_ALO"} \cup When(p.fw, {"PROPAGATE_AIT"}))

\* ENTT_RECV: hold the peer's transaction.
Recv(m, out, p, junk) ==
  LET call == Exec(m.ao, p.op, DecodedDT(p.dt), p.value, junk)
  IN  IF p.op = NOP
      THEN Result([m EXCEPT !.last = "AIT", !.fw = p.fw], out, {"PROC_AIT"})
      ELSE Result([m EXCEPT !.ao = call.alo, !.last = "ALO", !.fw = p.fw],
                  [out EXCEPT !.value = call.data,
                              !.st = IF call.ret = 1 THEN call.alo.rflag.ok ELSE 0],
                  IF call.ret = 0 THEN {"SEND_ALO_F"}
                  ELSE {"SEND_ALO"} \cup When(p.fw, {"PROPAGATE_AIT"}))

\* ENTT_FNSH: take it.
Fnsh(m, out, p) ==
  LET call == Update(m.ao, p.st)
      forward == When(m.fw, {"PROPAGATE_AIT"})
  IN  IF m.last = "AIT"
      THEN Result(m, out, {"SIG_AIT", "PROC_AIT"} \cup forward)
      ELSE Result([m EXCEPT !.ao = call.alo], out,
                  When(call.ret = 1, {"SIG_ALO"} \cup forward))

\* Mutant: return_flag is not cleared before alo_complete.
DropCompletes(m, out) ==
  IF m.last = "AIT" THEN Result(m, out, {})
  ELSE Result([m EXCEPT !.ao = Complete(@).alo], out, {})

\* Mutant: a transaction that is dropped leaves its operation pending.
DropForgets(m, out) == Result(m, out, {})

\* ENTT_DROP: forget it.
Drop(m, out) ==
  IF m.last = "AIT" THEN Result(m, out, {})
  ELSE Result([m EXCEPT !.ao = Complete([@ EXCEPT !.rflag = [ok |-> 0, zero |-> 0]]).alo],
              out, {})

(* entl_received.  ec_link_action sets at most one of the flags that choose *)
(* a branch.  res is alo_next's result, junk the caller's alo_data.         *)
Received(m, p, ait, cmd, qfull, res, junk) ==
  LET link == LinkAction(m.reg, p.f, ait \/ cmd.op # NOP, qfull)
      b == [m EXCEPT !.reg = link.reg]
      out == Plain(link.ret)
      branch == CASE "STRT" \in link.flag -> Strt(b, out, cmd, junk)
                  [] "NEXT" \in link.flag -> Nxt(b, out, p, res)
                  [] "DONE" \in link.flag -> Done(b, out)
                  [] "RECV" \in link.flag -> Recv(b, out, p, junk)
                  [] "FNSH" \in link.flag -> Fnsh(b, out, p)
                  [] "DROP" \in link.flag -> Drop(b, out)
                  [] OTHER -> Result(b, out, {})
  IN  [mcn |-> branch.mcn, out |-> branch.out,
       act |-> branch.act \cup LinkActs(link.flag), flag |-> link.flag]

\* Mutant: the operation that a recovery cancels stays pending.
RecoveredKeepsPending(m) ==
  LET link == Recover(m.reg)
  IN  [mcn |-> [m EXCEPT !.reg = link.reg],
       out |-> Plain(link.ret),
       act |-> {"SEND"} \cup When("CLER" \in link.flag /\ m.last = "AIT", {"CLER_AIT"}),
       flag |-> link.flag]

\* Mutant: the caller hears of the cancellation only if it has one of its own.
RecoveredUnannounced(m) ==
  LET link == Recover(m.reg)
      b == [m EXCEPT !.reg = link.reg]
  IN  [mcn |-> IF "CLER" \in link.flag /\ m.last = "ALO"
               THEN [b EXCEPT !.ao = Update(@, 0).alo] ELSE b,
       out |-> Plain(link.ret), act |-> {"SEND"}, flag |-> link.flag]

(* entl_recover *)
Recovered(m) ==
  LET link == Recover(m.reg)
      cancels == "CLER" \in link.flag
      b == [m EXCEPT !.reg = link.reg]
  IN  [mcn |-> IF cancels /\ m.last = "ALO" THEN [b EXCEPT !.ao = Update(@, 0).alo] ELSE b,
       out |-> Plain(link.ret),
       act |-> {"SEND"} \cup When(cancels /\ m.last = "AIT", {"CLER_AIT"}),
       flag |-> link.flag]
=============================================================================
