----------------------- MODULE EcControlMemory_proofs -----------------------
(***************************************************************************)
(* Theorems about the atomic link operations of two complete ends           *)
(* (EcControlPair), for every width, threshold, number of registers and     *)
(* pattern of losses.  They rest on a table of its own (OpTable): whatever   *)
(* is on the wires, what an end that has asked for an operation, the end    *)
(* that holds it and the packets between them say of it agrees.             *)
(***************************************************************************)
EXTENDS EcControlPair_proofs, AtomicLinkOp_proofs

-----------------------------------------------------------------------------
(* The branches of entl_received: c is the machine that m becomes, o the    *)
(* packet that goes out with field f, p the packet that came.               *)

DoesStrt(m, c, o, f, cmd, junk) ==
  LET call == Initiate(m.ao, cmd.op, cmd.sr, junk)
  IN  /\ c.fw = m.fw
      /\ cmd.op # NOP => /\ c.ao = call.alo /\ c.last = "ALO"
                         /\ o = [f |-> f, op |-> cmd.op, dt |-> cmd.dt, fw |-> cmd.fw,
                                 st |-> 0, value |-> call.data]
      /\ cmd.op = NOP => /\ c.ao = m.ao /\ c.last = "AIT"
                         /\ o = [f |-> f, op |-> NOP, dt |-> 0, fw |-> cmd.fw,
                                 st |-> 0, value |-> 0]

DoesNext(m, c, o, f, p, res) ==
  /\ c.last = m.last /\ c.fw = m.fw
  /\ m.last = "ALO" => /\ c.ao = NextStep(m.ao, p.st, p.value)
                       /\ o = [f |-> f, op |-> NOP, dt |-> 0, fw |-> FALSE,
                               st |-> res, value |-> 0]
  /\ m.last # "ALO" => c.ao = m.ao /\ o = Plain(f)

DoesDone(m, c, o, f) ==
  /\ c.last = m.last /\ c.fw = m.fw /\ o = Plain(f)
  /\ c.ao = IF m.last = "ALO" THEN Complete(m.ao).alo ELSE m.ao

DoesRecv(m, c, o, f, p, junk) ==
  LET call == Exec(m.ao, p.op, DecodedDT(p.dt), p.value, junk)
  IN  /\ c.fw = p.fw
      /\ p.op = NOP => c.ao = m.ao /\ c.last = "AIT" /\ o = Plain(f)
      /\ p.op # NOP => /\ c.ao = call.alo /\ c.last = "ALO"
                       /\ o = [f |-> f, op |-> NOP, dt |-> 0, fw |-> FALSE,
                               st |-> IF call.ret = 1 THEN call.alo.rflag.ok ELSE 0,
                               value |-> call.data]

DoesFnsh(m, c, o, f, p, acts) ==
  LET call == Update(m.ao, p.st)
  IN  /\ c.last = m.last /\ c.fw = m.fw /\ o = Plain(f)
      /\ m.last = "AIT" => c.ao = m.ao
      /\ m.last # "AIT" => c.ao = call.alo
      /\ "SIG_ALO" \in acts <=> m.last # "AIT" /\ call.ret = 1
      /\ "SIG_AIT" \in acts <=> m.last = "AIT"
      /\ acts \cap {"SIG_AIT", "SIG_ALO"} # {} => ("PROPAGATE_AIT" \in acts <=> m.fw)

DoesDrop(m, c, o, f) ==
  /\ c.last = m.last /\ c.fw = m.fw /\ o = Plain(f)
  /\ c.ao = IF m.last = "AIT" THEN m.ao
            ELSE Complete([m.ao EXCEPT !.rflag = [ok |-> 0, zero |-> 0]]).alo

DoesNothing(m, c, o, f) ==
  c.last = m.last /\ c.fw = m.fw /\ c.ao = m.ao /\ o = Plain(f)

(* Each branch, on a machine after the link call and a plain packet.        *)
LEMMA BranchDoes ==
  ASSUME NEW m, IsMachine(m), m.fw \in BOOLEAN, NEW f
  PROVE  LET out == Plain(f)
         IN  /\ \A cmd, junk : LET r == Strt(m, out, cmd, junk)
                               IN  /\ DoesStrt(m, r.mcn, r.out, f, cmd, junk)
                                   /\ r.act \subseteq Action
             /\ \A p, res : LET r == Nxt(m, out, p, res)
                            IN  DoesNext(m, r.mcn, r.out, f, p, res) /\ r.act \subseteq Action
             /\ LET r == Done(m, out)
                IN  DoesDone(m, r.mcn, r.out, f) /\ r.act \subseteq Action
             /\ \A p, junk : LET r == Recv(m, out, p, junk)
                             IN  /\ DoesRecv(m, r.mcn, r.out, f, p, junk)
                                 /\ r.act \subseteq Action
             /\ \A p : LET r == Fnsh(m, out, p)
                       IN  DoesFnsh(m, r.mcn, r.out, f, p, r.act) /\ r.act \subseteq Action
             /\ LET r == Drop(m, out)
                IN  DoesDrop(m, r.mcn, r.out, f) /\ r.act \subseteq Action
             /\ LET r == Result(m, out, {})
                IN  DoesNothing(m, r.mcn, r.out, f) /\ r.act \subseteq Action
  <1>. DEFINE out == Plain(f)
  <1>. USE DEF Result, Action, When
  <1>1. ASSUME NEW cmd, NEW junk
        PROVE  LET r == Strt(m, out, cmd, junk)
               IN  DoesStrt(m, r.mcn, r.out, f, cmd, junk) /\ r.act \subseteq Action
    <2>. DEFINE x == Initiate(m.ao, cmd.op, cmd.sr, junk)
    <2>. HIDE DEF x
    <2>1. Strt(m, out, cmd, junk) =
            IF cmd.op # NOP
            THEN Result([m EXCEPT !.ao = x.alo, !.last = "ALO"],
                        [out EXCEPT !.op = cmd.op, !.dt = cmd.dt, !.fw = cmd.fw,
                                    !.value = x.data], {"SEND_ALO"})
            ELSE Result([m EXCEPT !.last = "AIT"], [out EXCEPT !.fw = cmd.fw], {"SEND_AIT"})
      BY DEF Strt, x
    <2>2. CASE cmd.op # NOP
      <3>. DEFINE r == Strt(m, out, cmd, junk)
      <3>1. /\ r.mcn = [m EXCEPT !.ao = x.alo, !.last = "ALO"]
            /\ r.out = [out EXCEPT !.op = cmd.op, !.dt = cmd.dt, !.fw = cmd.fw,
                                   !.value = x.data]
            /\ r.act \subseteq Action
        BY <2>1, <2>2
      <3>. HIDE DEF r
      <3>2. /\ r.mcn.ao = x.alo /\ r.mcn.last = "ALO" /\ r.mcn.fw = m.fw
        BY <3>1 DEF IsMachine
      <3>3. r.out = [f |-> f, op |-> cmd.op, dt |-> cmd.dt, fw |-> cmd.fw,
                     st |-> 0, value |-> x.data]
        BY <3>1 DEF Plain
      <3>. QED  BY <2>2, <3>1, <3>2, <3>3 DEF DoesStrt, x, r
    <2>3. CASE cmd.op = NOP
      <3>. DEFINE r == Strt(m, out, cmd, junk)
      <3>1. /\ r.mcn = [m EXCEPT !.last = "AIT"]
            /\ r.out = [out EXCEPT !.fw = cmd.fw]
            /\ r.act \subseteq Action
        BY <2>1, <2>3
      <3>. HIDE DEF r
      <3>2. r.mcn.ao = m.ao /\ r.mcn.last = "AIT" /\ r.mcn.fw = m.fw
        BY <3>1 DEF IsMachine
      <3>3. r.out = [f |-> f, op |-> NOP, dt |-> 0, fw |-> cmd.fw, st |-> 0, value |-> 0]
        BY <3>1 DEF Plain
      <3>. QED  BY <2>3, <3>1, <3>2, <3>3 DEF DoesStrt, r
    <2>. QED  BY <2>2, <2>3
  <1>2. ASSUME NEW p, NEW res
        PROVE  LET r == Nxt(m, out, p, res)
               IN  DoesNext(m, r.mcn, r.out, f, p, res) /\ r.act \subseteq Action
    BY DEF Nxt, DoesNext, Plain, IsMachine
  <1>3. LET r == Done(m, out)
        IN  DoesDone(m, r.mcn, r.out, f) /\ r.act \subseteq Action
    BY DEF Done, DoesDone, IsMachine
  <1>4. ASSUME NEW p, NEW junk
        PROVE  LET r == Recv(m, out, p, junk)
               IN  DoesRecv(m, r.mcn, r.out, f, p, junk) /\ r.act \subseteq Action
    BY DEF Recv, DoesRecv, Plain, IsMachine
  <1>5. ASSUME NEW p
        PROVE  LET r == Fnsh(m, out, p)
               IN  DoesFnsh(m, r.mcn, r.out, f, p, r.act) /\ r.act \subseteq Action
    BY DEF Fnsh, DoesFnsh, IsMachine
  <1>6. LET r == Drop(m, out)
        IN  DoesDrop(m, r.mcn, r.out, f) /\ r.act \subseteq Action
    BY DEF Drop, DoesDrop, IsMachine
  <1>7. LET r == Result(m, out, {})
        IN  DoesNothing(m, r.mcn, r.out, f) /\ r.act \subseteq Action
    BY DEF DoesNothing
  <1>. QED  BY <1>1, <1>2, <1>3, <1>4, <1>5, <1>6, <1>7

\* What it takes for ec_link_action to set a flag, or to answer with ENTT or
\* ENTA.
Causes(call, r, f, entt) ==
  /\ "STRT" \in call.flag => f.s_or_r = 0 /\ entt
  /\ "NEXT" \in call.flag => f.s_or_r = 0 /\ f.entt = "ENTT"
  /\ "RECV" \in call.flag => f.s_or_r = 1 /\ f.entt = "ENTT"
  /\ "FNSH" \in call.flag => f.s_or_r = 1 /\ f.entt = "ENTA"
  /\ "DONE" \in call.flag => f.s_or_r = 0 /\ r.state = "Rp" /\ Completes(r, f)
  /\ "DROP" \in call.flag /\ r.state = "Rp" => f.s_or_r = 0 /\ ~Completes(r, f)
  /\ call.ret.entt = "ENTT" => \/ "STRT" \in call.flag /\ call.ret.s_or_r = 1
                               \/ "RECV" \in call.flag /\ call.ret.s_or_r = 0
  /\ call.ret.entt = "ENTA" /\ call.ret.s_or_r = 1 => "NEXT" \in call.flag

(* ec_link_action reacts to the right packets only.                         *)
LEMMA LinkCauses ==
  ASSUME NEW r \in Reg, NEW f, f.s_or_r \in {0, 1}, NEW entt \in BOOLEAN, NEW qfull
  PROVE  Causes(LinkAction(r, f, entt, qfull), r, f, entt)
  <1>. USE DEF Causes
  <1>1. CASE f.valid = 0
    BY <1>1 DEF LinkAction, NoField
  <1>2. CASE f.valid # 0 /\ f.s_or_r = 1
    <2>1. LinkAction(r, f, entt, qfull) = OnSR(r, f, entt, qfull)
      BY <1>2 DEF LinkAction
    <2>2. LET call == OnSR(r, f, entt, qfull)
          IN  /\ call.flag = When(Accepts(r, f, qfull), {"RECV"})
                               \cup When(Finishes(r, f), {"FNSH"})
                               \cup When(Aborts(r, f), {"DROP", "EROR"})
              /\ call.ret.s_or_r = 0
              /\ call.ret.entt = IF Accepts(r, f, qfull) THEN "ENTT"
                                 ELSE IF Finishes(r, f) THEN "ENTA" ELSE "ENTL"
      BY DEF OnSR
    <2>. QED  BY <1>2, <2>1, <2>2 DEF When, Accepts, Finishes, Aborts
  <1>3. CASE f.valid # 0 /\ f.s_or_r = 0
    <2>1. LinkAction(r, f, entt, qfull) = OnRR(r, f, entt)
      BY <1>3 DEF LinkAction
    <2>2. LET call == OnRR(r, f, entt)
          IN  /\ "STRT" \in call.flag <=> Starts(r, f, entt)
              /\ "NEXT" \in call.flag <=> Granted(r, f)
              /\ "DONE" \in call.flag <=> Completes(r, f)
              /\ "DROP" \in call.flag <=> Refused(r, f) \/ Fails(r, f)
              /\ "RECV" \notin call.flag /\ "FNSH" \notin call.flag
              /\ call.ret.s_or_r = 1
              /\ call.ret.entt = IF Starts(r, f, entt) THEN "ENTT"
                                 ELSE IF Granted(r, f) THEN "ENTA" ELSE "ENTL"
      BY DEF OnRR, When
    <2>. QED  BY <1>3, <2>1, <2>2 DEF Starts, Wants, Granted, Completes, Refused, Fails
  <1>. QED  BY <1>1, <1>2, <1>3

\* A call that moves the register from one of the states from to to.
Moves(x, from, to, flags, r, s) ==
  flags \cap Choosing = {x} /\ r.state \in from /\ s.state = to

(* entl_received takes the branch of the transaction's progress.            *)
LEMMA ReceivedCases ==
  ASSUME NEW m, IsMachine(m), m.fw \in BOOLEAN, m.reg \in Reg, NEW p, NEW ait, NEW cmd,
         NEW qfull, NEW res, NEW junk
  PROVE  LET call == Received(m, p, ait, cmd, qfull, res, junk)
             f == LinkAction(m.reg, p.f, ait \/ cmd.op # NOP, qfull).ret
             c == call.mcn
             o == call.out
             busy == {"Ra", "Rp", "Rb"}
         IN  /\ call.act \subseteq Action
             /\ \/ /\ Moves("STRT", {"NIL"}, "Ra", call.flag, m.reg, c.reg)
                   /\ DoesStrt(m, c, o, f, cmd, junk)
                \/ /\ Moves("RECV", {"NIL"}, "Rb", call.flag, m.reg, c.reg)
                   /\ DoesRecv(m, c, o, f, p, junk)
                \/ /\ Moves("NEXT", {"Ra"}, "Rp", call.flag, m.reg, c.reg)
                   /\ DoesNext(m, c, o, f, p, res)
                \/ /\ Moves("DONE", busy, "NIL", call.flag, m.reg, c.reg)
                   /\ DoesDone(m, c, o, f)
                \/ /\ Moves("FNSH", busy, "NIL", call.flag, m.reg, c.reg)
                   /\ DoesFnsh(m, c, o, f, p, call.act)
                \/ /\ Moves("DROP", busy, "NIL", call.flag, m.reg, c.reg)
                   /\ DoesDrop(m, c, o, f)
                \/ /\ call.flag \cap Choosing = {} /\ c.reg.state = m.reg.state
                   /\ DoesNothing(m, c, o, f)
  <1>. DEFINE call == Received(m, p, ait, cmd, qfull, res, junk)
              link == LinkAction(m.reg, p.f, ait \/ cmd.op # NOP, qfull)
              b == [m EXCEPT !.reg = link.reg]
              out == Plain(link.ret)
              branch == CASE "STRT" \in link.flag -> Strt(b, out, cmd, junk)
                          [] "NEXT" \in link.flag -> Nxt(b, out, p, res)
                          [] "DONE" \in link.flag -> Done(b, out)
                          [] "RECV" \in link.flag -> Recv(b, out, p, junk)
                          [] "FNSH" \in link.flag -> Fnsh(b, out, p)
                          [] "DROP" \in link.flag -> Drop(b, out)
                          [] OTHER -> Result(b, out, {})
              busy == {"Ra", "Rp", "Rb"}
              moves(x, from, to) == Moves(x, from, to, call.flag, m.reg, call.mcn.reg)
  <1>1. /\ call.mcn = branch.mcn /\ call.out = branch.out
        /\ call.act = branch.act \cup LinkActs(link.flag)
        /\ call.flag = link.flag
    BY DEF Received
  <1>2. call.mcn.reg = link.reg
    BY ReceivedFacts
  <1>3. \/ moves("STRT", {"NIL"}, "Ra") \/ moves("RECV", {"NIL"}, "Rb")
        \/ moves("NEXT", {"Ra"}, "Rp")
        \/ moves("DONE", busy, "NIL") \/ moves("FNSH", busy, "NIL") \/ moves("DROP", busy, "NIL")
        \/ link.flag \cap Choosing = {} /\ call.mcn.reg.state = m.reg.state
    <2>. HIDE DEF Choosing, call, link
    <2>1. link.flag = call.flag
      BY <1>1
    <2>2. \/ /\ link.flag \cap Choosing = {"STRT"}
             /\ m.reg.state = "NIL" /\ link.reg.state = "Ra"
          \/ /\ link.flag \cap Choosing = {"RECV"}
             /\ m.reg.state = "NIL" /\ link.reg.state = "Rb"
          \/ /\ link.flag \cap Choosing = {"NEXT"}
             /\ m.reg.state = "Ra" /\ link.reg.state = "Rp"
          \/ \E x \in {"DONE", "FNSH", "DROP"} :
               link.flag \cap Choosing = {x} /\ m.reg.state \in busy /\ link.reg.state = "NIL"
          \/ link.flag \cap Choosing = {} /\ link.reg.state = m.reg.state
      <3>. USE DEF link
      <3>. QED  BY LinkMoves
    <2>. QED  BY <1>2, <2>1, <2>2 DEF Moves
  <1>. HIDE DEF call, link
  <1>4. IsMachine(b) /\ b.fw = m.fw /\ b.ao = m.ao /\ b.last = m.last
    BY DEF IsMachine
  <1>5. LinkActs(link.flag) \subseteq {"RECOVER", "SIG_LUP", "SIG_LDN"}
    BY DEF LinkActs, When
  <1>6. /\ call.act \subseteq Action <=> branch.act \subseteq Action
        /\ \A x \in {"SIG_AIT", "SIG_ALO", "PROPAGATE_AIT"} : x \in call.act <=> x \in branch.act
    BY <1>1, <1>5 DEF Action
  <1>. DEFINE c == call.mcn
              o == call.out
              f == link.ret
  <1>. HIDE DEF b
  <1>7. CASE moves("STRT", {"NIL"}, "Ra")
    <2>1. branch = Strt(b, out, cmd, junk)
      BY <1>1, <1>7 DEF Moves, Choosing
    <2>2. DoesStrt(b, c, o, f, cmd, junk) /\ branch.act \subseteq Action
      BY <1>1, <1>4, <2>1, BranchDoes
    <2>. QED  BY <1>4, <1>6, <1>7, <2>2 DEF DoesStrt, call, link
  <1>8. CASE moves("RECV", {"NIL"}, "Rb")
    <2>1. branch = Recv(b, out, p, junk)
      BY <1>1, <1>8 DEF Moves, Choosing
    <2>2. DoesRecv(b, c, o, f, p, junk) /\ branch.act \subseteq Action
      BY <1>1, <1>4, <2>1, BranchDoes
    <2>. QED  BY <1>4, <1>6, <1>8, <2>2 DEF DoesRecv, call, link
  <1>9. CASE moves("NEXT", {"Ra"}, "Rp")
    <2>1. branch = Nxt(b, out, p, res)
      BY <1>1, <1>9 DEF Moves, Choosing
    <2>2. DoesNext(b, c, o, f, p, res) /\ branch.act \subseteq Action
      BY <1>1, <1>4, <2>1, BranchDoes
    <2>. QED  BY <1>4, <1>6, <1>9, <2>2 DEF DoesNext, call, link
  <1>10. CASE moves("DONE", busy, "NIL")
    <2>1. branch = Done(b, out)
      BY <1>1, <1>10 DEF Moves, Choosing
    <2>2. DoesDone(b, c, o, f) /\ branch.act \subseteq Action
      BY <1>1, <1>4, <2>1, BranchDoes
    <2>. QED  BY <1>4, <1>6, <1>10, <2>2 DEF DoesDone, call, link
  <1>11. CASE moves("FNSH", busy, "NIL")
    <2>1. branch = Fnsh(b, out, p)
      BY <1>1, <1>11 DEF Moves, Choosing
    <2>2. DoesFnsh(b, c, o, f, p, branch.act) /\ branch.act \subseteq Action
      BY <1>1, <1>4, <2>1, BranchDoes
    <2>3. call.act \cap {"SIG_AIT", "SIG_ALO"} = branch.act \cap {"SIG_AIT", "SIG_ALO"}
      BY <1>6
    <2>. QED  BY <1>4, <1>6, <1>11, <2>2, <2>3 DEF DoesFnsh, call, link
  <1>12. CASE moves("DROP", busy, "NIL")
    <2>1. branch = Drop(b, out)
      BY <1>1, <1>12 DEF Moves, Choosing
    <2>2. DoesDrop(b, c, o, f) /\ branch.act \subseteq Action
      BY <1>1, <1>4, <2>1, BranchDoes
    <2>. QED  BY <1>4, <1>6, <1>12, <2>2 DEF DoesDrop, call, link
  <1>13. CASE link.flag \cap Choosing = {} /\ call.mcn.reg.state = m.reg.state
    <2>1. branch = Result(b, out, {})
      BY <1>13 DEF Choosing
    <2>2. DoesNothing(b, c, o, f) /\ branch.act \subseteq Action
      BY <1>1, <1>4, <2>1, BranchDoes
    <2>. QED  BY <1>1, <1>4, <1>6, <1>13, <2>2 DEF DoesNothing, call, link
  <1>. QED  BY <1>3, <1>7, <1>8, <1>9, <1>10, <1>11, <1>12, <1>13 DEF call, link

-----------------------------------------------------------------------------
(* Types *)

\* What a packet carries beside its field, and what a machine keeps beside
\* its register.
IsPacket(q) ==
  /\ q = [f |-> q.f, op |-> q.op, dt |-> q.dt, fw |-> q.fw, st |-> q.st, value |-> q.value]
  /\ q.op \in Opcode /\ q.dt \in RegNo /\ q.fw \in BOOLEAN /\ q.st \in {0, 1}
  /\ q.value \in Word

IsTyped(m) == m.ao \in Alo /\ m.last \in {"AIT", "ALO"} /\ m.fw \in BOOLEAN

(* Some packets, numbers and commands. *)
LEMMA PacketFacts ==
  /\ \A f : IsPacket(Plain(f)) /\ Plain(f).f = f
  /\ NOP \in Opcode /\ 0 \in RegNo /\ 0 \in Word
  /\ \A dt \in RegNo : DecodedDT(dt) \in RegNo
  /\ \A ask \in Ask : /\ ask.cmd.op \in Opcode /\ ask.cmd.sr \in RegNo
                      /\ ask.cmd.dt \in RegNo /\ ask.cmd.fw \in BOOLEAN
                      /\ Entt(ask) \in BOOLEAN
                      /\ Entt(ask) <=> (ask.ait \/ ask.cmd.op # NOP)
  <1>1. NOP \in Opcode
    BY DEF NOP, Opcode, Op
  <1>2. 0 \in RegNo /\ 0 \in Word
    BY ZeroReg, WordsAreClosed
  <1>3. ASSUME NEW f
        PROVE  IsPacket(Plain(f)) /\ Plain(f).f = f
    BY <1>1, <1>2 DEF IsPacket, Plain
  <1>4. ASSUME NEW dt \in RegNo
        PROVE  DecodedDT(dt) \in RegNo
    <2>1. 2 * dt \in Int /\ NReg \in Nat \ {0}
      BY SizesAssumption DEF RegNo
    <2>2. (2 * dt) % NReg \in 0 .. (NReg - 1)
      BY <2>1, Quotients
    <2>. QED  BY <2>2 DEF DecodedDT, RegNo
  <1>5. ASSUME NEW ask \in Ask
        PROVE  /\ ask.cmd.op \in Opcode /\ ask.cmd.sr \in RegNo
               /\ ask.cmd.dt \in RegNo /\ ask.cmd.fw \in BOOLEAN
               /\ Entt(ask) \in BOOLEAN
               /\ Entt(ask) <=> (ask.ait \/ ask.cmd.op # NOP)
    BY DEF Ask, Command, Entt
  <1>. QED  BY <1>1, <1>2, <1>3, <1>4, <1>5

(* The branches of entl_received keep the types. *)
LEMMA BranchTypes ==
  ASSUME NEW m, IsTyped(m), NEW c, NEW o, NEW f
  PROVE  /\ \A ask \in Ask, junk \in Word :
              DoesStrt(m, c, o, f, ask.cmd, junk) => IsTyped(c) /\ IsPacket(o) /\ o.f = f
         /\ \A p : \A res \in {0, 1} : IsPacket(p) /\ DoesNext(m, c, o, f, p, res) =>
              IsTyped(c) /\ IsPacket(o) /\ o.f = f
         /\ DoesDone(m, c, o, f) => IsTyped(c) /\ IsPacket(o) /\ o.f = f
         /\ \A p : \A junk \in Word : IsPacket(p) /\ DoesRecv(m, c, o, f, p, junk) =>
              IsTyped(c) /\ IsPacket(o) /\ o.f = f
         /\ \A p, acts : DoesFnsh(m, c, o, f, p, acts) =>
              IsTyped(c) /\ IsPacket(o) /\ o.f = f
         /\ DoesDrop(m, c, o, f) => IsTyped(c) /\ IsPacket(o) /\ o.f = f
         /\ DoesNothing(m, c, o, f) => IsTyped(c) /\ IsPacket(o) /\ o.f = f
  <1>1. ASSUME NEW ask \in Ask, NEW junk \in Word, DoesStrt(m, c, o, f, ask.cmd, junk)
        PROVE  IsTyped(c) /\ IsPacket(o) /\ o.f = f
    <2>. DEFINE call == Initiate(m.ao, ask.cmd.op, ask.cmd.sr, junk)
    <2>1. call.alo \in Alo /\ call.data \in Word
      BY PacketFacts, InitiateFacts DEF IsTyped
    <2>2. c.ao \in Alo /\ c.last \in {"AIT", "ALO"} /\ c.fw \in BOOLEAN
      BY <1>1, <2>1 DEF DoesStrt, IsTyped
    <2>3. IsPacket(o) /\ o.f = f
      BY <1>1, <2>1, PacketFacts DEF DoesStrt, IsPacket
    <2>. QED  BY <2>2, <2>3 DEF IsTyped
  <1>2. ASSUME NEW p, NEW res \in {0, 1}, IsPacket(p), DoesNext(m, c, o, f, p, res)
        PROVE  IsTyped(c) /\ IsPacket(o) /\ o.f = f
    <2>1. NextStep(m.ao, p.st, p.value) \in Alo
      BY <1>2, NextStepFacts DEF IsTyped, IsPacket
    <2>2. c.ao \in Alo /\ c.last \in {"AIT", "ALO"} /\ c.fw \in BOOLEAN
      BY <1>2, <2>1 DEF DoesNext, IsTyped
    <2>3. CASE m.last = "ALO"
      <3>1. o = [f |-> f, op |-> NOP, dt |-> 0, fw |-> FALSE, st |-> res, value |-> 0]
        BY <1>2, <2>3 DEF DoesNext
      <3>2. IsPacket(o) /\ o.f = f
        BY <3>1, PacketFacts DEF IsPacket
      <3>. QED  BY <2>2, <3>2 DEF IsTyped
    <2>4. CASE m.last # "ALO"
      BY <1>2, <2>2, <2>4, PacketFacts DEF DoesNext, IsTyped
    <2>. QED  BY <2>3, <2>4
  <1>3. ASSUME DoesDone(m, c, o, f)
        PROVE  IsTyped(c) /\ IsPacket(o) /\ o.f = f
    <2>1. Complete(m.ao).alo \in Alo
      BY CompleteFacts DEF IsTyped
    <2>. QED  BY <1>3, <2>1, PacketFacts DEF DoesDone, IsTyped
  <1>4. ASSUME NEW p, NEW junk \in Word, IsPacket(p), DoesRecv(m, c, o, f, p, junk)
        PROVE  IsTyped(c) /\ IsPacket(o) /\ o.f = f
    <2>. DEFINE call == Exec(m.ao, p.op, DecodedDT(p.dt), p.value, junk)
    <2>1. call.alo \in Alo /\ call.data \in Word /\ call.alo.rflag.ok \in {0, 1}
      <3>1. DecodedDT(p.dt) \in RegNo /\ p.op \in Opcode /\ p.value \in Word
        BY <1>4, PacketFacts DEF IsPacket
      <3>2. call.alo \in Alo /\ call.data \in Word
        BY <3>1, ExecFacts DEF IsTyped
      <3>. HIDE DEF call
      <3>. QED  BY <3>2 DEF Alo
    <2>. HIDE DEF call
    <2>2. c.ao \in Alo /\ c.last \in {"AIT", "ALO"} /\ c.fw \in BOOLEAN
      BY <1>4, <2>1 DEF DoesRecv, IsTyped, IsPacket, call
    <2>3. CASE p.op # NOP
      <3>. DEFINE st == IF call.ret = 1 THEN call.alo.rflag.ok ELSE 0
      <3>1. o = [f |-> f, op |-> NOP, dt |-> 0, fw |-> FALSE, st |-> st,
                 value |-> call.data]
        BY <1>4, <2>3 DEF DoesRecv, call
      <3>2. st \in {0, 1}
        BY <2>1
      <3>. HIDE DEF st
      <3>3. IsPacket(o) /\ o.f = f
        BY <2>1, <3>1, <3>2, PacketFacts DEF IsPacket
      <3>. QED  BY <2>2, <3>3 DEF IsTyped
    <2>4. CASE p.op = NOP
      BY <1>4, <2>2, <2>4, PacketFacts DEF DoesRecv, IsTyped
    <2>. QED  BY <2>3, <2>4
  <1>5. ASSUME NEW p, NEW acts, DoesFnsh(m, c, o, f, p, acts)
        PROVE  IsTyped(c) /\ IsPacket(o) /\ o.f = f
    <2>1. Update(m.ao, p.st).alo \in Alo
      BY UpdateFacts DEF IsTyped
    <2>. QED  BY <1>5, <2>1, PacketFacts DEF DoesFnsh, IsTyped
  <1>6. ASSUME DoesDrop(m, c, o, f)
        PROVE  IsTyped(c) /\ IsPacket(o) /\ o.f = f
    <2>. DEFINE a == [m.ao EXCEPT !.rflag = [ok |-> 0, zero |-> 0]]
    <2>1. a \in Alo
      BY DEF IsTyped, Alo
    <2>2. Complete(a).alo \in Alo
      <3>. HIDE DEF a
      <3>. QED  BY <2>1, CompleteFacts
    <2>. QED  BY <1>6, <2>2, PacketFacts DEF DoesDrop, IsTyped
  <1>7. DoesNothing(m, c, o, f) => IsTyped(c) /\ IsPacket(o) /\ o.f = f
    BY PacketFacts DEF DoesNothing, IsTyped
  <1>. QED  BY <1>1, <1>2, <1>3, <1>4, <1>5, <1>6, <1>7

-----------------------------------------------------------------------------
(* Steps *)

\* The packets on their way to end k.
Carried(s) == {s[i] : i \in 1 .. Len(s)}
To(k) == Carried(chan[k])

\* A request to start a transaction, the word that it is going ahead, and the
\* grant between them.
IsRequest(q) == q.f.s_or_r = 1 /\ q.f.entt = "ENTT"
IsCommit(q)  == q.f.s_or_r = 1 /\ q.f.entt = "ENTA"
IsAnswer(q)  == q.f.s_or_r = 0 /\ q.f.entt = "ENTT"

(* Taking, adding and losing a packet of those on their way.               *)
LEMMA CarriedFacts ==
  ASSUME NEW P, NEW s \in Seq(P)
  PROVE  /\ Carried(s) \subseteq P
         /\ s # <<>> => Head(s) \in Carried(s) /\ Carried(Tail(s)) \subseteq Carried(s)
         /\ \A e : Carried(Append(s, e)) = Carried(s) \cup {e}
         /\ \A d \in 1 .. Len(s) : Carried(RemoveAt(s, d)) \subseteq Carried(s)
  <1>1. Len(s) \in Nat /\ \A i \in 1 .. Len(s) : s[i] \in P
    BY LenProperties, ElementOfSeq
  <1>2. ASSUME s # <<>>
        PROVE  Head(s) \in Carried(s) /\ Carried(Tail(s)) \subseteq Carried(s)
    <2>1. /\ Len(Tail(s)) = Len(s) - 1 /\ Len(s) \in Nat \ {0} /\ Head(s) = s[1]
          /\ \A i \in 1 .. Len(Tail(s)) : Tail(s)[i] = s[i + 1]
      BY <1>2, HeadTailProperties, EmptySeq
    <2>. QED  BY <2>1 DEF Carried
  <1>3. ASSUME NEW e
        PROVE  Carried(Append(s, e)) = Carried(s) \cup {e}
    <2>. DEFINE P2 == P \cup {e}
    <2>1. s \in Seq(P2) /\ e \in P2
      BY SeqMonotonic
    <2>. HIDE DEF P2
    <2>2. /\ Len(Append(s, e)) = Len(s) + 1
          /\ \A i \in 1 .. Len(s) : Append(s, e)[i] = s[i]
          /\ Append(s, e)[Len(s) + 1] = e
      BY <2>1, AppendProperties
    <2>. DEFINE t == Append(s, e)
    <2>. HIDE DEF t
    <2>. QED  BY <2>2, <1>1 DEF Carried, t
  <1>4. ASSUME NEW d \in 1 .. Len(s)
        PROVE  Carried(RemoveAt(s, d)) \subseteq Carried(s)
    <2>. DEFINE t == RemoveAt(s, d)
    <2>1. Len(t) = Len(s) - 1 /\ \A i \in 1 .. (Len(s) - 1) : t[i] = s[IF i < d THEN i ELSE i + 1]
      BY Removed
    <2>. HIDE DEF t
    <2>2. ASSUME NEW i \in 1 .. Len(t)
          PROVE  t[i] \in Carried(s)
      <3>1. (IF i < d THEN i ELSE i + 1) \in 1 .. Len(s)
        BY <1>1, <2>1
      <3>. QED  BY <2>1, <3>1 DEF Carried
    <2>. QED  BY <2>2 DEF Carried, t
  <1>. QED  BY <1>1, <1>2, <1>3, <1>4 DEF Carried

\* The types of what the link does not keep.
Typed == \A n \in Node : /\ IsTyped(mcn[n]) /\ act[n] \subseteq Action
                         /\ \A q \in To(n) : IsPacket(q)

\* Receive(n) took packet p and sent o, with ask in the queues of n; the
\* register went from one of the states from to to.
Turn(n, x, from, to) == Moves(x, from, to, flag'[n], mcn[n].reg, mcn'[n].reg)

Exchange(n, ask, p, o, res, junk) ==
  LET m == mcn[n]
      c == mcn'[n]
      busy == {"Ra", "Rp", "Rb"}
  IN  \/ /\ Turn(n, "STRT", {"NIL"}, "Ra") /\ p.f.s_or_r = 0 /\ Entt(ask)
         /\ DoesStrt(m, c, o, o.f, ask.cmd, junk)
      \/ /\ Turn(n, "RECV", {"NIL"}, "Rb") /\ IsRequest(p)
         /\ DoesRecv(m, c, o, o.f, p, junk)
      \/ /\ Turn(n, "NEXT", {"Ra"}, "Rp") /\ IsAnswer(p) /\ res \in NextReturns(m.ao, p.st)
         /\ DoesNext(m, c, o, o.f, p, res)
      \/ /\ Turn(n, "DONE", {"Rp"}, "NIL") /\ p.f.s_or_r = 0 /\ Completes(m.reg, p.f)
         /\ DoesDone(m, c, o, o.f)
      \/ /\ Turn(n, "FNSH", busy, "NIL") /\ IsCommit(p)
         /\ DoesFnsh(m, c, o, o.f, p, act'[n])
      \/ /\ Turn(n, "DROP", busy, "NIL")
         /\ m.reg.state = "Rp" => p.f.s_or_r = 0 /\ ~Completes(m.reg, p.f)
         /\ DoesDrop(m, c, o, o.f)
      \/ /\ flag'[n] \cap Choosing = {} /\ c.reg.state = m.reg.state
         /\ DoesNothing(m, c, o, o.f)

\* What happens at n and on the wires, and not at the other end.
Passed(n, p, o) ==
  /\ p \in To(n) /\ To(n)' \subseteq To(n) /\ To(Peer(n))' = To(Peer(n)) \cup {o}
  /\ p.f.s_or_r = 0 => \A q \in To(n)' : q.f.s_or_r # 0
  /\ mcn'[Peer(n)] = mcn[Peer(n)] /\ flag'[Peer(n)] = flag[Peer(n)]
  /\ act'[Peer(n)] = act[Peer(n)]
  /\ taken'[n] = (IF "STRT" \in flag'[n] THEN FALSE ELSE taken[n])
  /\ taken'[Peer(n)] = (taken[Peer(n)] \/ "FNSH" \in flag'[n])
  /\ IsRequest(o) => "STRT" \in flag'[n]
  /\ IsAnswer(o) => "RECV" \in flag'[n]
  /\ IsCommit(o) => "NEXT" \in flag'[n]

(* Receive(n), as far as the operation goes.                                *)
LEMMA ReceiveExchange ==
  ASSUME EInv, Typed, NEW n \in Node, Receive(n)
  PROVE  \E ask \in Asks[n], res \in {0, 1}, junk \in Word : \E p, o :
           /\ Exchange(n, ask, p, o, res, junk) /\ Passed(n, p, o)
           /\ IsPacket(p) /\ IsPacket(o)
           /\ IsTyped(mcn'[n]) /\ act'[n] \subseteq Action
  <1>. DEFINE p == Head(chan[n])
  <1>1. /\ Shape /\ LP!IInv /\ IsTyped(mcn[n])
    BY DEF EInv, Typed
  <1>2. /\ chan[n] # <<>> /\ mcn[n].reg \in Reg /\ p.f.s_or_r \in {0, 1}
        /\ IsMachine(mcn[n])
    BY <1>1, LinkTypes DEF Receive, Shape
  <1>3. PICK ask \in Asks[n], qfull \in QFull :
          \E res \in Outcomes(n, p), junk \in Junk(n, ask, p) :
            LET call == Received(mcn[n], p, ask.ait, ask.cmd, qfull, res, junk)
            IN  /\ Take(n, call)
                /\ chan' = [chan EXCEPT ![n] = Tail(@), ![Peer(n)] = Append(@, call.out)]
                /\ Record(n, call.flag)
    BY DEF Receive
  <1>4. PICK res \in Outcomes(n, p), junk \in Junk(n, ask, p) :
            LET call == Received(mcn[n], p, ask.ait, ask.cmd, qfull, res, junk)
            IN  /\ Take(n, call)
                /\ chan' = [chan EXCEPT ![n] = Tail(@), ![Peer(n)] = Append(@, call.out)]
                /\ Record(n, call.flag)
    BY <1>3
  <1>5. ask \in Ask
    BY EnvironmentAssumption
  <1>6. /\ res \in {0, 1}
        /\ mcn[n].reg.state = "Ra" /\ p.f.entt = "ENTT" => res \in NextReturns(mcn[n].ao, p.st)
    BY DEF Outcomes, NextReturns
  <1>7. junk \in Word
    BY PacketFacts DEF Junk
  <1>. DEFINE call == Received(mcn[n], p, ask.ait, ask.cmd, qfull, res, junk)
              link == LinkAction(mcn[n].reg, p.f, Entt(ask), qfull)
              o == call.out
              busy == {"Ra", "Rp", "Rb"}
              Case(x, from, to) == Moves(x, from, to, call.flag, mcn[n].reg, call.mcn.reg)
  <1>8. Entt(ask) = (ask.ait \/ ask.cmd.op # NOP) /\ Entt(ask) \in BOOLEAN
    BY DEF Entt
  <1>9. call.mcn.reg = link.reg /\ o.f = link.ret /\ call.flag = link.flag
    BY <1>2, <1>8, ReceivedFacts
  <1>10. /\ "STRT" \in link.flag => p.f.s_or_r = 0 /\ Entt(ask)
         /\ "NEXT" \in link.flag => IsAnswer(p)
         /\ "RECV" \in link.flag => IsRequest(p)
         /\ "FNSH" \in link.flag => IsCommit(p)
         /\ "DONE" \in link.flag => /\ p.f.s_or_r = 0 /\ mcn[n].reg.state = "Rp"
                                    /\ Completes(mcn[n].reg, p.f)
         /\ "DROP" \in link.flag /\ mcn[n].reg.state = "Rp" =>
              p.f.s_or_r = 0 /\ ~Completes(mcn[n].reg, p.f)
         /\ IsRequest(o) => "STRT" \in link.flag
         /\ IsAnswer(o) => "RECV" \in link.flag
         /\ IsCommit(o) => "NEXT" \in link.flag
    <2>1. PICK e \in BOOLEAN : e = Entt(ask)
      BY <1>8
    <2>2. Causes(LinkAction(mcn[n].reg, p.f, e, qfull), mcn[n].reg, p.f, e)
      BY <1>2, LinkCauses
    <2>3. Causes(link, mcn[n].reg, p.f, Entt(ask))
      BY <2>1, <2>2
    <2>. HIDE DEF call, link, p
    <2>. QED  BY <2>3, <1>9 DEF Causes, IsRequest, IsAnswer, IsCommit
  <1>11. /\ call.act \subseteq Action
         /\ \/ Case("STRT", {"NIL"}, "Ra") /\ DoesStrt(mcn[n], call.mcn, o, link.ret, ask.cmd, junk)
            \/ Case("RECV", {"NIL"}, "Rb") /\ DoesRecv(mcn[n], call.mcn, o, link.ret, p, junk)
            \/ Case("NEXT", {"Ra"}, "Rp") /\ DoesNext(mcn[n], call.mcn, o, link.ret, p, res)
            \/ Case("DONE", busy, "NIL") /\ DoesDone(mcn[n], call.mcn, o, link.ret)
            \/ Case("FNSH", busy, "NIL") /\ DoesFnsh(mcn[n], call.mcn, o, link.ret, p, call.act)
            \/ Case("DROP", busy, "NIL") /\ DoesDrop(mcn[n], call.mcn, o, link.ret)
            \/ /\ call.flag \cap Choosing = {} /\ call.mcn.reg.state = mcn[n].reg.state
               /\ DoesNothing(mcn[n], call.mcn, o, link.ret)
    BY <1>1, <1>2, <1>8, ReceivedCases DEF IsTyped
  <1>12. PICK P : chan[n] \in Seq(P)
    BY <1>1 DEF Shape
  <1>13. PICK Q : chan[Peer(n)] \in Seq(Q)
    BY <1>1, PeerFacts DEF Shape
  <1>14. p \in To(n) /\ IsPacket(p)
    BY <1>2, <1>12, CarriedFacts DEF To, Typed
  <1>. HIDE DEF call, link, p
  <1>15. IsTyped(call.mcn) /\ IsPacket(o)
    <2>1. PICK m, c, q, f : m = mcn[n] /\ c = call.mcn /\ q = o /\ f = link.ret
      OBVIOUS
    <2>2. IsTyped(m)
      BY <1>1, <2>1
    <2>3. \/ DoesStrt(m, c, q, f, ask.cmd, junk) \/ DoesRecv(m, c, q, f, p, junk)
          \/ DoesNext(m, c, q, f, p, res) \/ DoesDone(m, c, q, f)
          \/ DoesFnsh(m, c, q, f, p, call.act) \/ DoesDrop(m, c, q, f)
          \/ DoesNothing(m, c, q, f)
      BY <1>11, <2>1
    <2>4. IsTyped(c) /\ IsPacket(q)
      BY <1>5, <1>6, <1>7, <1>14, <2>2, <2>3, BranchTypes
    <2>. QED  BY <2>1, <2>4
  <1>16. /\ mcn' = [mcn EXCEPT ![n] = call.mcn]
         /\ flag' = [flag EXCEPT ![n] = call.flag]
         /\ act' = [act EXCEPT ![n] = call.act]
         /\ chan' = [chan EXCEPT ![n] = Tail(@), ![Peer(n)] = Append(@, call.out)]
    BY <1>4 DEF Take, call
  <1>17. /\ mcn'[n] = call.mcn /\ flag'[n] = call.flag /\ act'[n] = call.act
         /\ mcn'[Peer(n)] = mcn[Peer(n)] /\ flag'[Peer(n)] = flag[Peer(n)]
         /\ act'[Peer(n)] = act[Peer(n)]
         /\ chan'[n] = Tail(chan[n]) /\ chan'[Peer(n)] = Append(chan[Peer(n)], o)
    BY <1>1, <1>16, PeerFacts DEF Shape
  <1>18. To(n)' \subseteq To(n) /\ To(Peer(n))' = To(Peer(n)) \cup {o}
    <2>1. Carried(Tail(chan[n])) \subseteq Carried(chan[n])
      BY <1>2, <1>12, CarriedFacts
    <2>2. Carried(Append(chan[Peer(n)], o)) = Carried(chan[Peer(n)]) \cup {o}
      BY <1>13, CarriedFacts
    <2>. QED  BY <2>1, <2>2, <1>17 DEF To
  <1>a. ASSUME p.f.s_or_r = 0, NEW q \in To(n)'
        PROVE  q.f.s_or_r # 0
    <2>1. /\ Len(Tail(chan[n])) = Len(chan[n]) - 1 /\ Len(chan[n]) \in Nat \ {0}
          /\ \A i \in 1 .. Len(Tail(chan[n])) : Tail(chan[n])[i] = chan[n][i + 1]
          /\ Head(chan[n]) = chan[n][1]
      BY <1>2, <1>12, HeadTailProperties, EmptySeq
    <2>2. PICK i \in 1 .. (Len(chan[n]) - 1) : q = chan[n][i + 1]
      BY <2>1, <1>17 DEF To, Carried
    <2>3. i + 1 \in 1 .. Len(chan[n]) /\ i + 1 # 1 /\ 1 \in 1 .. Len(chan[n])
      BY <2>1
    <2>4. /\ Len(Wires[n]) = Len(chan[n])
          /\ Wires[n][1] = p.f /\ Wires[n][i + 1] = q.f
      <3>1. /\ Len(Wires[n]) = Len(chan[n])
            /\ \A j \in 1 .. Len(chan[n]) : Wires[n][j] = chan[n][j].f
        BY <1>12, FieldsFacts DEF Wires
      <3>. QED  BY <2>1, <2>2, <2>3, <3>1 DEF p
    <2>5. LP!OnePacketPerLoop
      BY <1>1 DEF LP!IInv, LP!Watchdog
    <2>6. ASSUME q.f.s_or_r = 0
          PROVE  FALSE
      BY <1>a, <2>3, <2>4, <2>5, <2>6, SameNode DEF LP!OnePacketPerLoop, LP!LoopOf
    <2>. QED  BY <2>6
  <1>b. /\ taken'[n] = (IF "STRT" \in flag'[n] THEN FALSE ELSE taken[n])
        /\ taken'[Peer(n)] = (taken[Peer(n)] \/ "FNSH" \in flag'[n])
    <2>1. /\ taken'[n] = (IF "STRT" \in call.flag THEN FALSE
                         ELSE taken[n] \/ (n = Peer(n) /\ "FNSH" \in call.flag))
          /\ taken'[Peer(n)] = (IF Peer(n) = n /\ "STRT" \in call.flag THEN FALSE
                               ELSE taken[Peer(n)] \/ "FNSH" \in call.flag)
      BY <1>4, PeerFacts DEF Record, call
    <2>2. taken[n] \in BOOLEAN
      BY <1>1, SameNode DEF LP!IInv, LP!TypeOK
    <2>. QED  BY <2>1, <2>2, <1>17, PeerFacts
  <1>19. Passed(n, p, o)
    BY <1>9, <1>10, <1>14, <1>17, <1>18, <1>a, <1>b DEF Passed
  <1>20. Exchange(n, ask, p, o, res, junk)
    <2>. DEFINE m == mcn[n]
                c == mcn'[n]
    <2>1. /\ Case("STRT", {"NIL"}, "Ra") => Turn(n, "STRT", {"NIL"}, "Ra") /\ "STRT" \in link.flag
          /\ Case("RECV", {"NIL"}, "Rb") => Turn(n, "RECV", {"NIL"}, "Rb") /\ "RECV" \in link.flag
          /\ Case("NEXT", {"Ra"}, "Rp") => /\ Turn(n, "NEXT", {"Ra"}, "Rp") /\ "NEXT" \in link.flag
                                           /\ m.reg.state = "Ra"
          /\ Case("DONE", busy, "NIL") => Turn(n, "DONE", busy, "NIL") /\ "DONE" \in link.flag
          /\ Case("FNSH", busy, "NIL") => Turn(n, "FNSH", busy, "NIL") /\ "FNSH" \in link.flag
          /\ Case("DROP", busy, "NIL") => Turn(n, "DROP", busy, "NIL") /\ "DROP" \in link.flag
      BY <1>9, <1>17 DEF Turn, Moves, Choosing
    <2>2. "NEXT" \in link.flag /\ m.reg.state = "Ra" => res \in NextReturns(m.ao, p.st)
      BY <1>6, <1>10 DEF IsAnswer
    <2>3. Turn(n, "DONE", busy, "NIL") /\ m.reg.state = "Rp" => Turn(n, "DONE", {"Rp"}, "NIL")
      BY DEF Turn, Moves
    <2>. HIDE DEF busy
    <2>4. \/ Case("STRT", {"NIL"}, "Ra") /\ DoesStrt(m, c, o, o.f, ask.cmd, junk)
          \/ Case("RECV", {"NIL"}, "Rb") /\ DoesRecv(m, c, o, o.f, p, junk)
          \/ Case("NEXT", {"Ra"}, "Rp") /\ DoesNext(m, c, o, o.f, p, res)
          \/ Case("DONE", busy, "NIL") /\ DoesDone(m, c, o, o.f)
          \/ Case("FNSH", busy, "NIL") /\ DoesFnsh(m, c, o, o.f, p, act'[n])
          \/ Case("DROP", busy, "NIL") /\ DoesDrop(m, c, o, o.f)
          \/ /\ flag'[n] \cap Choosing = {} /\ c.reg.state = m.reg.state
             /\ DoesNothing(m, c, o, o.f)
      BY <1>9, <1>11, <1>17
    <2>. HIDE DEF Case
    <2>. QED  BY <2>1, <2>2, <2>3, <2>4, <1>10 DEF Exchange, busy
  <1>. QED  BY <1>5, <1>6, <1>7, <1>11, <1>14, <1>15, <1>17, <1>19, <1>20

\* SendRecover(n) sent o, and dropped what n was held for.
Resumes(n, o) ==
  LET m == mcn[n]
      c == mcn'[n]
  IN  /\ c.last = m.last /\ c.fw = m.fw
      /\ c.reg.state = IF m.reg.state = "Rb" THEN "NIL" ELSE m.reg.state
      /\ c.ao = IF m.reg.state = "Rb" /\ m.last = "ALO" THEN Update(m.ao, 0).alo ELSE m.ao
      /\ To(n)' = To(n) /\ To(Peer(n))' = To(Peer(n)) \cup {o}
      /\ mcn'[Peer(n)] = mcn[Peer(n)] /\ act'[Peer(n)] = act[Peer(n)]
      /\ flag'[Peer(n)] = flag[Peer(n)] /\ "FNSH" \notin flag'[n]
      /\ taken' = taken
      /\ ~IsRequest(o) /\ ~IsAnswer(o) /\ ~IsCommit(o)

(* entl_recover, as far as the operation goes.                              *)
LEMMA SendRecoverResumes ==
  ASSUME EInv, Typed, NEW n \in Node, SendRecover(n)
  PROVE  \E o : /\ Resumes(n, o) /\ IsPacket(o)
                /\ IsTyped(mcn'[n]) /\ act'[n] \subseteq Action
  <1>. DEFINE call == Recovered(mcn[n])
              link == Recover(mcn[n].reg)
              o == call.out
  <1>1. /\ Shape /\ LP!IInv /\ IsTyped(mcn[n])
    BY DEF EInv, Typed
  <1>2. mcn[n].reg \in Reg /\ IsMachine(mcn[n])
    BY <1>1, LinkTypes DEF Shape
  <1>. DEFINE cancels == "CLER" \in link.flag
              b == [mcn[n] EXCEPT !.reg = link.reg]
              drops == cancels /\ mcn[n].last = "ALO"
  <1>3. /\ call.mcn = IF drops THEN [b EXCEPT !.ao = Update(@, 0).alo] ELSE b
        /\ o = Plain(link.ret) /\ call.flag = link.flag
        /\ call.act = {"SEND"} \cup When(cancels /\ mcn[n].last = "AIT", {"CLER_AIT"})
    BY DEF Recovered
  <1>4. /\ cancels <=> mcn[n].reg.state = "Rb"
        /\ link.reg.state = IF mcn[n].reg.state = "Rb" THEN "NIL" ELSE mcn[n].reg.state
        /\ link.ret.s_or_r = 0 /\ link.ret.entt # "ENTT" /\ "FNSH" \notin link.flag
    BY <1>2 DEF Recover, RecoverField, When, Reg
  <1>5. call.mcn.reg = link.reg /\ o.f = link.ret
    BY <1>2, RecoveredFacts
  <1>. HIDE DEF link, call, cancels
  <1>6. /\ b.ao = mcn[n].ao /\ b.last = mcn[n].last /\ b.fw = mcn[n].fw
        /\ b = [reg |-> b.reg, ao |-> b.ao, last |-> b.last, fw |-> b.fw]
    BY <1>2 DEF IsMachine
  <1>. HIDE DEF b
  <1>7. /\ call.mcn.last = mcn[n].last /\ call.mcn.fw = mcn[n].fw
        /\ call.mcn.ao = IF drops THEN Update(mcn[n].ao, 0).alo ELSE mcn[n].ao
    BY <1>3, <1>6
  <1>8. Update(mcn[n].ao, 0).alo \in Alo
    BY <1>1, UpdateFacts DEF IsTyped
  <1>9. IsTyped(call.mcn) /\ IsPacket(o) /\ call.act \subseteq Action
    BY <1>1, <1>3, <1>7, <1>8, PacketFacts DEF IsTyped, Action, When
  <1>10. /\ mcn'[n] = call.mcn /\ mcn'[Peer(n)] = mcn[Peer(n)]
         /\ flag'[n] = call.flag /\ flag'[Peer(n)] = flag[Peer(n)]
         /\ act'[n] = call.act /\ act'[Peer(n)] = act[Peer(n)]
         /\ chan'[n] = chan[n] /\ chan'[Peer(n)] = Append(chan[Peer(n)], o)
    BY <1>1, PeerFacts DEF SendRecover, Take, Shape, call
  <1>11. To(n)' = To(n) /\ To(Peer(n))' = To(Peer(n)) \cup {o}
    <2>1. PICK Q : chan[Peer(n)] \in Seq(Q)
      BY <1>1, PeerFacts DEF Shape
    <2>2. Carried(Append(chan[Peer(n)], o)) = Carried(chan[Peer(n)]) \cup {o}
      BY <2>1, CarriedFacts
    <2>. QED  BY <2>2, <1>10 DEF To
  <1>12. taken' = taken
    BY DEF SendRecover
  <1>13. Resumes(n, o)
    BY <1>3, <1>4, <1>5, <1>7, <1>10, <1>11, <1>12
       DEF Resumes, IsRequest, IsAnswer, IsCommit
  <1>. QED  BY <1>9, <1>10, <1>13

(* A packet less changes nothing else. *)
LEMMA LoseLeaves ==
  ASSUME EInv, NEW n \in Node, Lose(n)
  PROVE  /\ UNCHANGED <<mcn, flag, act, taken>>
         /\ \A k \in Node : To(k)' \subseteq To(k)
  <1>1. Shape
    BY DEF EInv
  <1>2. PICK i \in 1 .. Len(chan[n]) : chan' = [chan EXCEPT ![n] = RemoveAt(@, i)]
    BY DEF Lose
  <1>3. chan'[n] = RemoveAt(chan[n], i) /\ chan'[Peer(n)] = chan[Peer(n)]
    BY <1>1, <1>2, PeerFacts DEF Shape
  <1>4. PICK P : chan[n] \in Seq(P)
    BY <1>1 DEF Shape
  <1>5. Carried(RemoveAt(chan[n], i)) \subseteq Carried(chan[n])
    BY <1>4, CarriedFacts
  <1>6. To(n)' \subseteq To(n) /\ To(Peer(n))' \subseteq To(Peer(n))
    BY <1>3, <1>5 DEF To
  <1>. QED  BY <1>6, PeerFacts DEF Lose

(* Types are kept. *)
LEMMA InitTyped == Init => Typed
  <1>. SUFFICES ASSUME Init PROVE Typed
    OBVIOUS
  <1>1. PICK start \in [Node -> Stale], g \in [Node -> [RegNo -> Word]] :
          mcn = [n \in Node |-> [StateInit(start[n]) EXCEPT !.ao.reg = g[n]]]
    BY DEF Init
  <1>2. ASSUME NEW n \in Node
        PROVE  IsTyped(mcn[n])
    <2>1. PICK m : m = start[n]
      OBVIOUS
    <2>2. PICK last \in {"AIT", "ALO"}, fw \in BOOLEAN, retval \in Word,
               ok \in Bit, zero \in Bit :
            m = [reg |-> InitReg, last |-> last, fw |-> fw,
                 ao |-> [reg |-> [r \in RegNo |-> 0], result |-> 0, retval |-> retval,
                         rflag |-> [ok |-> ok, zero |-> zero], flags |-> NoFlags,
                         pend |-> "none", at |-> 0]]
      <3>1. m \in Memories
        BY <2>1, EnvironmentAssumption
      <3>. QED  BY <3>1 DEF Memories
    <2>. DEFINE x == [r \in RegNo |-> 0]
                y == [reg |-> x, result |-> 0, retval |-> retval,
                      rflag |-> [ok |-> ok, zero |-> zero], flags |-> NoFlags,
                      pend |-> "none", at |-> 0]
    <2>3. x \in [RegNo -> Word]
      BY PacketFacts
    <2>4. m = [reg |-> InitReg, last |-> last, fw |-> fw, ao |-> y]
      BY <2>2
    <2>. HIDE DEF x
    <2>5. y \in Alo
      BY <2>3, PacketFacts DEF Alo, NoFlags, Bit
    <2>. HIDE DEF y
    <2>. DEFINE a == RegsInit(y)
                z == StateInit(m)
    <2>6. a \in Alo /\ z = [reg |-> InitReg, ao |-> a, last |-> last, fw |-> fw]
      <3>1. x = [r \in RegNo |-> 0] /\ NoFlags \in [ok : {0, 1}, zero : {0, 1}, changed : {0, 1}, at : RegNo]
        BY PacketFacts DEF x, NoFlags
      <3>2. a = [y EXCEPT !.reg = x, !.result = 0, !.flags = NoFlags, !.pend = "none", !.at = 0]
        BY <3>1 DEF RegsInit
      <3>3. a \in Alo
        BY <2>3, <2>5, <3>1, <3>2, PacketFacts DEF Alo
      <3>4. z = [m EXCEPT !.reg = InitReg, !.ao = a]
        BY <2>4 DEF StateInit
      <3>. HIDE DEF a
      <3>. QED  BY <2>4, <3>3, <3>4
    <2>. HIDE DEF a, z
    <2>7. mcn[n] = [z EXCEPT !.ao = [a EXCEPT !.reg = g[n]]]
      BY <1>1, <2>1, <2>6 DEF z
    <2>. DEFINE b == [a EXCEPT !.reg = g[n]]
    <2>8. b \in Alo
      BY <2>6 DEF Alo
    <2>. HIDE DEF b
    <2>9. mcn[n] = [reg |-> InitReg, ao |-> b, last |-> last, fw |-> fw]
      BY <2>6, <2>7 DEF b
    <2>. QED  BY <2>8, <2>9 DEF IsTyped
  <1>3. ASSUME NEW n \in Node
        PROVE  act[n] \subseteq Action /\ \A q \in To(n) : IsPacket(q)
    <2>1. act[n] = {} /\ chan[n] = <<Plain(SendField(InitReg))>>
      BY DEF Init
    <2>2. To(n) = {Plain(SendField(InitReg))}
      BY <2>1 DEF To, Carried
    <2>. QED  BY <2>1, <2>2, PacketFacts
  <1>. QED  BY <1>2, <1>3 DEF Typed

(* Every step keeps the types.                                              *)
LEMMA NextTyped ==
  ASSUME EInv, Typed, [Next]_vars
  PROVE  Typed'
  <1>1. CASE \E n \in Node : Receive(n)
    <2>1. PICK n \in Node : Receive(n)
      BY <1>1
    <2>2. PICK p, o : Passed(n, p, o) /\ IsPacket(o) /\ IsTyped(mcn'[n]) /\ act'[n] \subseteq Action
      BY <2>1, ReceiveExchange
    <2>. QED  BY <2>2, PeerFacts DEF Passed, Typed
  <1>2. CASE \E n \in Node : SendRecover(n)
    <2>1. PICK n \in Node : SendRecover(n)
      BY <1>2
    <2>2. PICK o : Resumes(n, o) /\ IsPacket(o) /\ IsTyped(mcn'[n]) /\ act'[n] \subseteq Action
      BY <2>1, SendRecoverResumes
    <2>. QED  BY <2>2, PeerFacts DEF Resumes, Typed
  <1>3. CASE \E n \in Node : Lose(n)
    BY <1>3, LoseLeaves DEF Typed
  <1>4. CASE UNCHANGED vars
    BY <1>4 DEF vars, Typed, To
  <1>. QED  BY <1>1, <1>2, <1>3, <1>4 DEF Next

(* With the types of the link, they are those of TypeOK.                    *)
LEMMA TypesFollow == EInv /\ Typed => TypeOK
  <1>. SUFFICES ASSUME EInv, Typed PROVE TypeOK
    OBVIOUS
  <1>1. Shape /\ LP!TypeOK
    BY DEF EInv, LP!IInv
  <1>2. ASSUME NEW n \in Node
        PROVE  mcn[n] \in Machine /\ act[n] \in SUBSET Action
    <2>1. mcn[n].reg \in Reg
      BY LinkTypes DEF EInv
    <2>2. mcn[n] = [reg |-> mcn[n].reg, ao |-> mcn[n].ao, last |-> mcn[n].last, fw |-> mcn[n].fw]
      BY <1>1 DEF Shape, IsMachine
    <2>. QED  BY <2>1, <2>2 DEF Machine, Typed, IsTyped
  <1>3. ASSUME NEW n \in Node
        PROVE  chan[n] \in Seq(Packet)
    <2>1. PICK P : chan[n] \in Seq(P)
      BY <1>1 DEF Shape
    <2>2. /\ Wires[n] \in Seq(LP!Field) /\ Len(Wires[n]) = Len(chan[n]) /\ Len(chan[n]) \in Nat
          /\ \A i \in 1 .. Len(chan[n]) : Wires[n][i] = chan[n][i].f
      BY <1>1, <2>1, SameNode, FieldsFacts DEF LP!TypeOK, Wires
    <2>3. ASSUME NEW i \in 1 .. Len(chan[n])
          PROVE  chan[n][i] \in Packet
      <3>1. Wires[n][i] \in LP!Field
        BY <2>2, ElementOfSeq
      <3>2. chan[n][i].f \in Field
        BY <2>2, <3>1 DEF LP!Field, Field, LP!Bit, Bit, LP!EnttField, EnttField
      <3>3. IsPacket(chan[n][i])
        BY DEF Typed, To, Carried
      <3>. QED  BY <3>2, <3>3 DEF IsPacket, Packet, Bit
    <2>4. chan[n] = [i \in 1 .. Len(chan[n]) |-> chan[n][i]]
      BY <2>1
    <2>. QED  BY <2>2, <2>3, <2>4
  <1>4. /\ flag \in [Node -> SUBSET LinkFlag] /\ taken \in [Node -> BOOLEAN]
        /\ told \in [Node -> {"none", "DONE", "DROP"}]
    BY <1>1, SameNode DEF LP!TypeOK, LP!LinkFlag, LinkFlag, LP!Outcome
  <1>. QED  BY <1>1, <1>2, <1>3, <1>4 DEF Shape, TypeOK

(* Whatever is lost and whatever the callers ask, the registers, packets    *)
(* and engines of both ends stay within their fields and words: no counter  *)
(* of ec_link.c leaves its bits, no operation leaves its word, and no       *)
(* engine points at a register that there is not.                           *)
THEOREM TypeCorrect == Spec => []TypeOK
  <1>1. Init => EInv /\ Typed
    BY InitStep, InitTyped
  <1>2. EInv /\ Typed /\ [Next]_vars => EInv' /\ Typed'
    BY NextStepOfLink, NextTyped
  <1>. QED  BY <1>1, <1>2, TypesFollow, PTL DEF Spec

-----------------------------------------------------------------------------
(* What the link's table says of the packets of the complete ends *)

State(n) == mcn[n].reg.state

\* An end is held by its peer's transaction, and a request, a grant and a
\* commit are on their way only while it has come that far.
Agree ==
  \A k \in Node :
    /\ State(k) = "Rb" => State(Peer(k)) \in {"Ra", "Rp"}
    /\ \A q \in To(k) :
         /\ IsRequest(q) => State(Peer(k)) = "Ra"
         /\ IsAnswer(q) => State(Peer(k)) = "Rb" /\ State(k) = "Ra"
         /\ IsCommit(q) => State(Peer(k)) = "Rp" /\ State(k) = "Rb"

(* It is what the link's table says.                                        *)
LEMMA TableAgrees == EInv /\ LP!Table => Agree
  <1>. SUFFICES ASSUME EInv, LP!Table, NEW k \in Node
                PROVE  /\ State(k) = "Rb" => State(Peer(k)) \in {"Ra", "Rp"}
                       /\ \A q \in To(k) :
                            /\ IsRequest(q) => State(Peer(k)) = "Ra"
                            /\ IsAnswer(q) => State(Peer(k)) = "Rb" /\ State(k) = "Ra"
                            /\ IsCommit(q) => State(Peer(k)) = "Rp" /\ State(k) = "Rb"
    BY DEF Agree
  <1>1. Regs[k].state = State(k) /\ Regs[Peer(k)].state = State(Peer(k))
    BY PeerFacts DEF Regs, State
  <1>2. State(k) = "Rb" => State(Peer(k)) \in {"Ra", "Rp"}
    BY <1>1, SameNode DEF LP!Table, LP!HeldByRequester
  <1>3. ASSUME NEW q \in To(k)
        PROVE  /\ IsRequest(q) => State(Peer(k)) = "Ra"
               /\ IsAnswer(q) => State(Peer(k)) = "Rb" /\ State(k) = "Ra"
               /\ IsCommit(q) => State(Peer(k)) = "Rp" /\ State(k) = "Rb"
    <2>1. PICK i \in 1 .. Len(chan[k]) : q = chan[k][i]
      BY DEF To, Carried
    <2>2. PICK P : chan[k] \in Seq(P)
      BY DEF EInv, Shape
    <2>3. Len(Wires[k]) = Len(chan[k]) /\ Wires[k][i] = q.f
      BY <2>1, <2>2, FieldsFacts DEF Wires
    <2>4. LP!Fits(k, q.f, Regs)
      BY <2>1, <2>3, SameNode DEF LP!Table, LP!AllFit
    <2>5. /\ q.f.s_or_r = 0 => LP!FitsRR(q.f, Regs[k], Regs[Peer(k)])
          /\ q.f.s_or_r = 1 => LP!FitsSR(q.f, Regs[Peer(k)], Regs[k])
      BY <2>4, SameNode DEF LP!Fits
    <2>. QED
      BY <2>5, <1>1 DEF LP!FitsSR, LP!FitsRR, IsRequest, IsAnswer, IsCommit
  <1>. QED  BY <1>2, <1>3

(* In the next state too.                                                   *)
LEMMA TableAgreesNext == EInv' /\ LP!Table' => Agree'
BY TableAgrees, PTL

-----------------------------------------------------------------------------
(* The table of operations.  a is the machine of an end that has asked for  *)
(* a transaction with command cmd, b its peer's, out the packets on their   *)
(* way from a to b and back those on their way from b to a.                 *)

\* The value that a sends with its request.
Offer(a, cmd, junk) == Sent(cmd.op, a.ao.reg[cmd.sr], junk)

\* a is where alo_initiate leaves it, whatever alo_next has done since.
Initiated(a, cmd, junk) ==
  /\ cmd.op = NOP => a.last = "AIT"
  /\ cmd.op # NOP => a.last = "ALO" /\ Initiate(a.ao, cmd.op, cmd.sr, junk).alo = a.ao

\* q asks for the command, with the value in a's register.
Requests(a, q, cmd, junk) ==
  /\ q.op = cmd.op /\ q.fw = cmd.fw
  /\ cmd.op # NOP => q.dt = cmd.dt /\ q.value = Offer(a, cmd, junk)

\* q tells b to write if a is going to.
Commits(a, q) == a.last = "ALO" /\ a.ao.pend # "none" /\ a.ao.rflag.ok = 1 => q.st = 1

\* b is where alo_exec leaves it on that request.
Executed(a, b, cmd, junk) ==
  /\ b.fw = cmd.fw
  /\ cmd.op = NOP => b.last = "AIT"
  /\ cmd.op # NOP =>
       /\ b.last = "ALO"
       /\ Exec(b.ao, cmd.op, DecodedDT(cmd.dt), Offer(a, cmd, junk), 0).alo = b.ao

\* q returns what alo_exec said.
Answers(b, q) ==
  b.last = "ALO" => q.st = b.ao.rflag.ok /\ (q.st = 1 => q.value = b.ao.retval)

\* alo_next has told a of it.
Informed(a, b) == a.last = "ALO" => NextStep(a.ao, b.ao.rflag.ok, b.ao.retval) = a.ao

Work(a, b, out, back, cmd, junk) ==
  /\ Initiated(a, cmd, junk)
  /\ \A q \in out : /\ IsRequest(q) => Requests(a, q, cmd, junk)
                    /\ IsCommit(q) => Commits(a, q)
  /\ b.reg.state = "Rb" => /\ Executed(a, b, cmd, junk)
                           /\ \A q \in back : IsAnswer(q) => Answers(b, q)
                           /\ a.reg.state = "Rp" => Informed(a, b)

\* The transaction that n has asked for.
WorkOf(n) ==
  \E ask \in Asks[n], junk \in Word :
    Entt(ask) /\ Work(mcn[n], mcn[Peer(n)], To(Peer(n)), To(n), ask.cmd, junk)

Asking(n) == State(n) \in {"Ra", "Rp"}

OpTable == \A n \in Node : Asking(n) => WorkOf(n)

(* A step leaves an operation where it is if it leaves a's part of it, adds *)
(* no word about it, and leaves b's part or ends it.                        *)
LEMMA SameWork ==
  ASSUME NEW a, NEW b, NEW out, NEW back, NEW cmd, NEW junk, NEW a2, NEW b2, NEW out2, NEW back2,
         Work(a, b, out, back, cmd, junk),
         a2.ao = a.ao, a2.last = a.last,
         \A q \in out2 : q \in out \/ (~IsRequest(q) /\ ~IsCommit(q)),
         b2.reg.state = "Rb" =>
           /\ b.reg.state = "Rb" /\ b2.ao = b.ao /\ b2.last = b.last /\ b2.fw = b.fw
           /\ a2.reg.state = "Rp" => a.reg.state = "Rp"
           /\ \A q \in back2 : q \in back \/ ~IsAnswer(q)
  PROVE  Work(a2, b2, out2, back2, cmd, junk)
  <1>1. Initiated(a2, cmd, junk) /\ Offer(a2, cmd, junk) = Offer(a, cmd, junk)
    BY DEF Work, Initiated, Offer
  <1>2. \A q \in out2 : /\ IsRequest(q) => Requests(a2, q, cmd, junk)
                        /\ IsCommit(q) => Commits(a2, q)
    BY <1>1 DEF Work, Requests, Commits
  <1>3. ASSUME b2.reg.state = "Rb"
        PROVE  /\ Executed(a2, b2, cmd, junk)
               /\ \A q \in back2 : IsAnswer(q) => Answers(b2, q)
               /\ a2.reg.state = "Rp" => Informed(a2, b2)
    BY <1>1, <1>3 DEF Work, Executed, Answers, Informed
  <1>. QED  BY <1>1, <1>2, <1>3 DEF Work

(* An end that is not held after a step leaves the other's operation alone. *)
LEMMA NotHeld ==
  ASSUME OpTable, NEW n \in Node, mcn'[Peer(n)] = mcn[Peer(n)], To(n)' \subseteq To(n),
         mcn'[n].reg.state # "Rb"
  PROVE  Asking(Peer(n))' => WorkOf(Peer(n))'
  <1>. DEFINE p == Peer(n)
  <1>0. p \in Node /\ Peer(p) = n
    BY PeerFacts
  <1>. HIDE DEF p
  <1>. SUFFICES ASSUME Asking(p)' PROVE WorkOf(p)'
    BY DEF p
  <1>1. mcn'[p] = mcn[p]
    BY DEF p
  <1>2. Asking(p)
    BY <1>1 DEF Asking, State
  <1>3. PICK ask \in Asks[p], junk \in Word :
          Entt(ask) /\ Work(mcn[p], mcn[n], To(n), To(p), ask.cmd, junk)
    BY <1>0, <1>2 DEF OpTable, WorkOf
  <1>4. Work(mcn'[p], mcn'[n], To(n)', To(p)', ask.cmd, junk)
    BY <1>1, <1>3, SameWork
  <1>. QED  BY <1>0, <1>3, <1>4 DEF WorkOf

(* ENTT_STRT *)
LEMMA StrtWork ==
  ASSUME Agree, Agree', Typed, NEW n \in Node, NEW ask \in Asks[n], NEW junk \in Word, NEW p, NEW o,
         Passed(n, p, o), Turn(n, "STRT", {"NIL"}, "Ra"), Entt(ask),
         DoesStrt(mcn[n], mcn'[n], o, o.f, ask.cmd, junk)
  PROVE  WorkOf(n)'
  <1>. DEFINE k == Peer(n)
              m == mcn[n]
              c == mcn'[n]
              call == Initiate(m.ao, ask.cmd.op, ask.cmd.sr, junk)
  <1>1. /\ k \in Node /\ State(n) = "NIL" /\ c.reg.state = "Ra" /\ Peer(k) = n
        /\ "NEXT" \notin flag'[n]
    BY PeerFacts DEF Turn, Moves, State, Choosing
  <1>2. mcn'[k].reg.state # "Rb"
    BY <1>1 DEF Agree, State, Passed
  <1>3. ask \in Ask /\ m.ao \in Alo
    BY EnvironmentAssumption DEF Typed, IsTyped
  <1>4. /\ call.alo.reg = m.ao.reg /\ call.data = Sent(ask.cmd.op, m.ao.reg[ask.cmd.sr], junk)
        /\ Initiate(call.alo, ask.cmd.op, ask.cmd.sr, junk).alo = call.alo
    BY <1>3, PacketFacts, InitiateFacts
  <1>. HIDE DEF call
  <1>5. Initiated(c, ask.cmd, junk)
    BY <1>4 DEF DoesStrt, Initiated, call
  <1>6. Requests(c, o, ask.cmd, junk)
    BY <1>4 DEF DoesStrt, Requests, Offer, call
  <1>7. ASSUME NEW q \in To(k)'
        PROVE  /\ IsRequest(q) => Requests(c, q, ask.cmd, junk)
               /\ IsCommit(q) => Commits(c, q)
    <2>1. CASE q = o
      BY <2>1, <1>1, <1>6 DEF Passed
    <2>2. CASE q \in To(k)
      BY <2>2, <1>1 DEF Agree
    <2>. QED  BY <2>1, <2>2 DEF Passed
  <1>8. Work(c, mcn'[k], To(k)', To(n)', ask.cmd, junk)
    BY <1>2, <1>5, <1>7 DEF Work
  <1>. QED  BY <1>8 DEF WorkOf

(* ENTT_RECV *)
LEMMA RecvWork ==
  ASSUME OpTable, Agree, Typed, NEW n \in Node, NEW p, NEW o, NEW junk \in Word,
         IsPacket(p), Passed(n, p, o), Turn(n, "RECV", {"NIL"}, "Rb"), IsRequest(p),
         DoesRecv(mcn[n], mcn'[n], o, o.f, p, junk)
  PROVE  WorkOf(Peer(n))'
  <1>. DEFINE k == Peer(n)
              m == mcn[n]
              c == mcn'[n]
              call == Exec(m.ao, p.op, DecodedDT(p.dt), p.value, junk)
  <1>1. /\ k \in Node /\ Peer(k) = n /\ State(n) = "NIL" /\ mcn'[k] = mcn[k]
        /\ State(k) = "Ra" /\ p \in To(n)
    BY PeerFacts DEF Turn, Moves, State, Agree, Passed
  <1>. HIDE DEF k
  <1>2. PICK ask \in Asks[k], jnk \in Word :
          Entt(ask) /\ Work(mcn[k], m, To(n), To(k), ask.cmd, jnk)
    BY <1>1 DEF OpTable, Asking, WorkOf
  <1>. DEFINE cmd == ask.cmd
              s == Offer(mcn[k], cmd, jnk)
  <1>3. /\ p.op = cmd.op /\ p.fw = cmd.fw
        /\ cmd.op # NOP => p.dt = cmd.dt /\ p.value = s
    BY <1>1, <1>2 DEF Work, Requests
  <1>4. m.ao \in Alo /\ DecodedDT(p.dt) \in RegNo /\ p.op \in Opcode /\ p.value \in Word
    BY PacketFacts DEF Typed, IsTyped, IsPacket
  <1>5. /\ call.alo.rflag.ok = call.ret /\ call.ret \in {0, 1}
        /\ call.ret = 1 => call.data = call.alo.retval
        /\ Exec(call.alo, p.op, DecodedDT(p.dt), p.value, junk).alo = call.alo
    BY <1>4, ExecFacts DEF Truth
  <1>6. Exec(call.alo, p.op, DecodedDT(p.dt), p.value, 0).alo = call.alo
    <2>. DEFINE a == call.alo
    <2>1. Exec(a, p.op, DecodedDT(p.dt), p.value, 0).alo
            = Exec(a, p.op, DecodedDT(p.dt), p.value, junk).alo
      <3>. HIDE DEF a
      <3>. QED  BY ExecIgnoresJunk
    <2>. QED  BY <2>1, <1>5
  <1>. HIDE DEF call, cmd, s
  <1>7. Executed(mcn[k], c, cmd, jnk)
    BY <1>3, <1>6 DEF DoesRecv, Executed, call, s
  <1>8. Answers(c, o)
    <2>1. CASE p.op = NOP
      BY <2>1 DEF DoesRecv, Answers
    <2>2. CASE p.op # NOP
      <3>1. /\ c.ao = call.alo /\ o.value = call.data
            /\ o.st = IF call.ret = 1 THEN call.alo.rflag.ok ELSE 0
        BY <2>2 DEF DoesRecv, call
      <3>. QED  BY <3>1, <1>5 DEF Answers
    <2>. QED  BY <2>1, <2>2
  <1>9. \A q \in To(k)' : IsAnswer(q) => Answers(c, q)
    <2>1. \A q \in To(k) : ~IsAnswer(q)
      BY <1>1 DEF Agree
    <2>. QED  BY <2>1, <1>8 DEF Passed, k
  <1>10. /\ Initiated(mcn[k], cmd, jnk)
         /\ \A q \in To(n)' : /\ IsRequest(q) => Requests(mcn[k], q, cmd, jnk)
                              /\ IsCommit(q) => Commits(mcn[k], q)
    BY <1>2 DEF Work, Passed, cmd
  <1>11. Work(mcn'[k], c, To(n)', To(k)', cmd, jnk)
    BY <1>1, <1>7, <1>9, <1>10 DEF Work, State
  <1>. QED  BY <1>1, <1>2, <1>11 DEF WorkOf, cmd, k

(* alo_next heard the same twice, and nothing of an operation that failed.  *)
LEMMA NextTwice ==
  ASSUME NEW a \in Alo, NEW st \in {0, 1}, NEW v \in Word, NEW w \in Word, st = 1 => v = w
  PROVE  NextStep(NextStep(a, st, v), st, w) = NextStep(a, st, v)
  <1>1. NextStep(a, st, v) = NextStep(a, st, w)
    BY DEF NextStep, Answered
  <1>. QED  BY <1>1, NextStepFacts

(* ENTT_NEXT *)
LEMMA NextWork ==
  ASSUME OpTable, Agree, Typed, NEW n \in Node, NEW p, NEW o, NEW res,
         IsPacket(p), Passed(n, p, o), Turn(n, "NEXT", {"Ra"}, "Rp"), IsAnswer(p),
         res \in NextReturns(mcn[n].ao, p.st),
         DoesNext(mcn[n], mcn'[n], o, o.f, p, res)
  PROVE  WorkOf(n)'
  <1>. DEFINE k == Peer(n)
              a == mcn[n]
              c == mcn'[n]
              b == mcn[k]
  <1>1. /\ k \in Node /\ Peer(k) = n /\ State(n) = "Ra" /\ mcn'[k] = b
        /\ b.reg.state = "Rb" /\ p \in To(n) /\ "STRT" \notin flag'[n]
    BY PeerFacts DEF Turn, Moves, State, Agree, Passed, Choosing
  <1>2. PICK ask \in Asks[n], junk \in Word :
          Entt(ask) /\ Work(a, b, To(k), To(n), ask.cmd, junk)
    BY <1>1 DEF OpTable, Asking, WorkOf
  <1>. DEFINE cmd == ask.cmd
  <1>3. /\ Initiated(a, cmd, junk) /\ Executed(a, b, cmd, junk) /\ Answers(b, p)
        /\ \A q \in To(n) : IsAnswer(q) => Answers(b, q)
        /\ \A q \in To(k) : IsRequest(q) => Requests(a, q, cmd, junk)
    BY <1>1, <1>2 DEF Work
  <1>4. /\ ask \in Ask /\ a.ao \in Alo /\ b.ao.rflag.ok \in {0, 1} /\ b.ao.retval \in Word
        /\ p.st \in {0, 1} /\ p.value \in Word
    <2>1. b.ao \in Alo /\ a.ao \in Alo
      BY <1>1 DEF Typed, IsTyped
    <2>. HIDE DEF a, b
    <2>. QED  BY <2>1, EnvironmentAssumption DEF Alo, IsPacket
  <1>5. cmd.op \in Opcode /\ cmd.sr \in RegNo
    BY <1>4, PacketFacts
  <1>. HIDE DEF a, b, c, k, cmd
  <1>6. c.last = a.last /\ (a.last = "ALO" => c.ao = NextStep(a.ao, p.st, p.value) /\ o.st = res)
        /\ (a.last # "ALO" => c.ao = a.ao)
    BY DEF DoesNext, a, c
  <1>7. a.last = "ALO" => /\ c.ao.reg = a.ao.reg /\ c.ao.pend = a.ao.pend
                          /\ c.ao.rflag.ok = p.st
    <2>. DEFINE d == NextStep(a.ao, p.st, p.value)
    <2>1. d.reg = a.ao.reg /\ d.pend = a.ao.pend /\ d.rflag.ok = p.st
      BY <1>4, NextStepFacts
    <2>. HIDE DEF d
    <2>. QED  BY <1>6, <2>1 DEF d
  <1>8. Initiated(c, cmd, junk)
    <2>1. CASE a.last = "ALO"
      <3>1. cmd.op # NOP /\ Initiate(a.ao, cmd.op, cmd.sr, junk).alo = a.ao
        BY <1>3, <2>1 DEF Initiated
      <3>2. Initiate(c.ao, cmd.op, cmd.sr, junk).alo = c.ao
        BY <1>4, <1>5, <1>6, <2>1, <3>1, NextKeepsInitiated
      <3>. QED  BY <1>6, <2>1, <3>1, <3>2 DEF Initiated
    <2>2. CASE a.last # "ALO"
      BY <1>3, <1>6, <2>2 DEF Initiated
    <2>. QED  BY <2>1, <2>2
  <1>9. Offer(c, cmd, junk) = Offer(a, cmd, junk)
    BY <1>6, <1>7 DEF Offer
  <1>10. Commits(c, o)
    <2>. SUFFICES ASSUME c.last = "ALO", c.ao.pend # "none", c.ao.rflag.ok = 1
                  PROVE  o.st = 1
      BY DEF Commits
    <2>1. a.last = "ALO" /\ a.ao.pend # "none" /\ p.st = 1
      BY <1>6, <1>7
    <2>2. NextReturns(a.ao, p.st) = {1}
      BY <2>1 DEF NextReturns, Answered
    <2>. QED  BY <2>1, <2>2, <1>6 DEF a
  <1>11. ASSUME NEW q \in To(k)'
         PROVE  /\ IsRequest(q) => Requests(c, q, cmd, junk)
                /\ IsCommit(q) => Commits(c, q)
    <2>1. CASE q = o
      BY <2>1, <1>1, <1>10 DEF Passed
    <2>2. CASE q \in To(k)
      <3>1. ~IsCommit(q)
        BY <2>2, <1>1 DEF Agree
      <3>. QED  BY <2>2, <3>1, <1>3, <1>9 DEF Requests
    <2>. QED  BY <2>1, <2>2 DEF Passed, k
  <1>12. Executed(c, b, cmd, junk)
    BY <1>3, <1>9 DEF Executed
  <1>13. Informed(c, b)
    <2>. SUFFICES ASSUME c.last = "ALO"
                  PROVE  NextStep(c.ao, b.ao.rflag.ok, b.ao.retval) = c.ao
      BY DEF Informed
    <2>1. b.last = "ALO"
      BY <1>3, <1>6 DEF Initiated, Executed
    <2>2. p.st = b.ao.rflag.ok /\ (p.st = 1 => p.value = b.ao.retval)
      BY <1>3, <2>1 DEF Answers
    <2>3. NextStep(NextStep(a.ao, p.st, p.value), p.st, b.ao.retval) = NextStep(a.ao, p.st, p.value)
      BY <1>4, <2>2, NextTwice
    <2>. QED  BY <1>6, <2>2, <2>3
  <1>14. \A q \in To(n)' : IsAnswer(q) => Answers(b, q)
    BY <1>3 DEF Passed
  <1>15. Work(c, b, To(k)', To(n)', cmd, junk)
    BY <1>8, <1>11, <1>12, <1>13, <1>14 DEF Work
  <1>. QED  BY <1>1, <1>2, <1>15 DEF WorkOf, c, k, cmd

(* A packet received leaves the table in order, whichever branch it takes.  *)
LEMMA ReceiveWork ==
  ASSUME EInv, Typed, Agree, Agree', OpTable, NEW n \in Node, Receive(n)
  PROVE  OpTable'
  <1>1. PICK ask \in Asks[n], res \in {0, 1}, junk \in Word : \E p, o :
          Exchange(n, ask, p, o, res, junk) /\ Passed(n, p, o) /\ IsPacket(p)
    BY ReceiveExchange
  <1>2. PICK p, o : Exchange(n, ask, p, o, res, junk) /\ Passed(n, p, o) /\ IsPacket(p)
    BY <1>1
  <1>. DEFINE k == Peer(n)
              busy == {"Ra", "Rp", "Rb"}
  <1>3. /\ k \in Node /\ Peer(k) = n /\ \A e \in Node : e = n \/ e = k
        /\ mcn'[k] = mcn[k] /\ To(n)' \subseteq To(n) /\ To(k)' = To(k) \cup {o}
    BY <1>2, PeerFacts DEF Passed
  <1>4. mcn'[n].reg.state # "Rb" => (Asking(k)' => WorkOf(k)')
    BY <1>3, NotHeld
  <1>5. mcn'[n].reg.state \notin {"Ra", "Rp"} => ~Asking(n)'
    BY DEF Asking, State
  <1>6. CASE /\ Turn(n, "STRT", {"NIL"}, "Ra") /\ Entt(ask)
             /\ DoesStrt(mcn[n], mcn'[n], o, o.f, ask.cmd, junk)
    <2>1. WorkOf(n)'
      BY <1>2, <1>6, StrtWork
    <2>2. mcn'[n].reg.state = "Ra"
      BY <1>6 DEF Turn, Moves
    <2>. QED  BY <1>3, <1>4, <2>1, <2>2 DEF OpTable
  <1>7. CASE /\ Turn(n, "RECV", {"NIL"}, "Rb") /\ IsRequest(p)
             /\ DoesRecv(mcn[n], mcn'[n], o, o.f, p, junk)
    <2>1. WorkOf(k)'
      BY <1>2, <1>7, RecvWork
    <2>2. mcn'[n].reg.state = "Rb"
      BY <1>7 DEF Turn, Moves
    <2>. QED  BY <1>3, <1>5, <2>1, <2>2 DEF OpTable
  <1>8. CASE /\ Turn(n, "NEXT", {"Ra"}, "Rp") /\ IsAnswer(p)
             /\ res \in NextReturns(mcn[n].ao, p.st)
             /\ DoesNext(mcn[n], mcn'[n], o, o.f, p, res)
    <2>1. WorkOf(n)'
      BY <1>2, <1>8, NextWork
    <2>2. mcn'[n].reg.state = "Rp"
      BY <1>8 DEF Turn, Moves
    <2>. QED  BY <1>3, <1>4, <2>1, <2>2 DEF OpTable
  <1>9. CASE \/ Turn(n, "DONE", {"Rp"}, "NIL") \/ Turn(n, "FNSH", busy, "NIL")
             \/ Turn(n, "DROP", busy, "NIL")
    <2>1. mcn'[n].reg.state = "NIL"
      BY <1>9 DEF Turn, Moves
    <2>. QED  BY <1>3, <1>4, <1>5, <2>1 DEF OpTable
  <1>10. CASE /\ flag'[n] \cap Choosing = {} /\ mcn'[n].reg.state = mcn[n].reg.state
              /\ DoesNothing(mcn[n], mcn'[n], o, o.f)
    <2>1. ~IsRequest(o) /\ ~IsAnswer(o) /\ ~IsCommit(o)
      BY <1>2, <1>10 DEF Passed, Choosing
    <2>2. /\ mcn'[n].last = mcn[n].last /\ mcn'[n].fw = mcn[n].fw /\ mcn'[n].ao = mcn[n].ao
          /\ mcn'[n].reg.state = mcn[n].reg.state
      BY <1>10 DEF DoesNothing
    <2>. HIDE DEF k
    <2>3. ASSUME Asking(n)'
          PROVE  WorkOf(n)'
      <3>1. Asking(n)
        BY <2>2, <2>3 DEF Asking, State
      <3>2. PICK x \in Asks[n], j \in Word :
              Entt(x) /\ Work(mcn[n], mcn[k], To(k), To(n), x.cmd, j)
        BY <3>1 DEF OpTable, WorkOf, k
      <3>3. Work(mcn'[n], mcn'[k], To(k)', To(n)', x.cmd, j)
        BY <1>3, <2>1, <2>2, <3>2, SameWork
      <3>. QED  BY <3>2, <3>3 DEF WorkOf, k
    <2>4. ASSUME Asking(k)'
          PROVE  WorkOf(k)'
      <3>1. Asking(k)
        BY <1>3, <2>4 DEF Asking, State
      <3>2. PICK x \in Asks[k], j \in Word :
              Entt(x) /\ Work(mcn[k], mcn[n], To(n), To(k), x.cmd, j)
        BY <1>3, <3>1 DEF OpTable, WorkOf
      <3>3. Work(mcn'[k], mcn'[n], To(n)', To(k)', x.cmd, j)
        BY <1>3, <2>1, <2>2, <3>2, SameWork
      <3>. QED  BY <1>3, <3>2, <3>3 DEF WorkOf
    <2>. QED  BY <1>3, <2>3, <2>4 DEF OpTable
  <1>. QED  BY <1>2, <1>6, <1>7, <1>8, <1>9, <1>10 DEF Exchange

(* So does a recovery, which ends what the end was held for.                *)
LEMMA SendRecoverWork ==
  ASSUME EInv, Typed, OpTable, NEW n \in Node, SendRecover(n)
  PROVE  OpTable'
  <1>1. PICK o : Resumes(n, o)
    BY SendRecoverResumes
  <1>. DEFINE k == Peer(n)
  <1>2. /\ k \in Node /\ Peer(k) = n /\ \A e \in Node : e = n \/ e = k
        /\ mcn'[k] = mcn[k] /\ To(n)' \subseteq To(n) /\ To(k)' = To(k) \cup {o}
        /\ ~IsRequest(o) /\ ~IsAnswer(o) /\ ~IsCommit(o)
    BY <1>1, PeerFacts DEF Resumes
  <1>3. Asking(k)' => WorkOf(k)'
    <2>1. mcn'[n].reg.state # "Rb"
      BY <1>1 DEF Resumes
    <2>. QED  BY <1>2, <2>1, NotHeld
  <1>. HIDE DEF k
  <1>4. ASSUME Asking(n)'
        PROVE  WorkOf(n)'
    <2>1. /\ Asking(n) /\ mcn'[n].reg.state = mcn[n].reg.state
          /\ mcn'[n].ao = mcn[n].ao /\ mcn'[n].last = mcn[n].last
      BY <1>1, <1>4 DEF Resumes, Asking, State
    <2>2. PICK x \in Asks[n], j \in Word :
            Entt(x) /\ Work(mcn[n], mcn[k], To(k), To(n), x.cmd, j)
      BY <2>1 DEF OpTable, WorkOf, k
    <2>3. Work(mcn'[n], mcn'[k], To(k)', To(n)', x.cmd, j)
      BY <1>2, <2>1, <2>2, SameWork
    <2>. QED  BY <2>2, <2>3 DEF WorkOf, k
  <1>. QED  BY <1>2, <1>3, <1>4 DEF OpTable

(* A step that changes no machine and brings no packet. *)
LEMMA QuietWork ==
  ASSUME OpTable, mcn' = mcn, \A k \in Node : To(k)' \subseteq To(k)
  PROVE  OpTable'
  <1>. SUFFICES ASSUME NEW n \in Node, Asking(n)' PROVE WorkOf(n)'
    BY DEF OpTable
  <1>1. Asking(n) /\ Peer(n) \in Node
    BY PeerFacts DEF Asking, State
  <1>2. PICK x \in Asks[n], j \in Word :
          Entt(x) /\ Work(mcn[n], mcn[Peer(n)], To(Peer(n)), To(n), x.cmd, j)
    BY <1>1 DEF OpTable, WorkOf
  <1>3. Work(mcn'[n], mcn'[Peer(n)], To(Peer(n))', To(n)', x.cmd, j)
    BY <1>1, <1>2, SameWork
  <1>. QED  BY <1>2, <1>3 DEF WorkOf

-----------------------------------------------------------------------------
(* The invariant *)

OInv == EInv /\ LP!Table /\ Typed /\ OpTable

(* Nothing is asked for at the start.                                       *)
LEMMA InitO == Init => OInv
  <1>. SUFFICES ASSUME Init PROVE OInv
    OBVIOUS
  <1>1. EInv /\ LP!Table /\ Typed
    BY InitStep, InitTyped, LP!InitTable, LinkEnvironment
  <1>2. ASSUME NEW n \in Node
        PROVE  State(n) = "NIL"
    <2>1. Regs[n].state = "NIL"
      BY InitStep, SameNode DEF LP!Init, LP!InitReg
    <2>. QED  BY <2>1 DEF Regs, State
  <1>. QED  BY <1>1, <1>2 DEF OInv, OpTable, Asking

(* Every step keeps the table.                                              *)
LEMMA NextO ==
  ASSUME OInv, [Next]_vars
  PROVE  OInv'
  <1>1. EInv' /\ Typed' /\ LP!Table'
    BY NextStepOfLink, NextTyped, LP!NextTable, LinkEnvironment DEF OInv, EInv
  <1>2. Agree /\ Agree'
    BY <1>1, TableAgrees, TableAgreesNext DEF OInv
  <1>3. CASE \E n \in Node : Receive(n)
    BY <1>1, <1>2, <1>3, ReceiveWork DEF OInv
  <1>4. CASE \E n \in Node : SendRecover(n)
    BY <1>1, <1>4, SendRecoverWork DEF OInv
  <1>5. CASE \E n \in Node : Lose(n)
    BY <1>1, <1>5, LoseLeaves, QuietWork DEF OInv
  <1>6. CASE UNCHANGED vars
    <2>1. \A k \in Node : To(k)' = To(k)
      BY <1>6 DEF vars, To
    <2>. QED  BY <1>1, <1>6, <2>1, QuietWork DEF OInv, vars
  <1>. QED  BY <1>3, <1>4, <1>5, <1>6 DEF Next

-----------------------------------------------------------------------------
(* The commit *)

(* An engine is left with something to write only by an operation that was  *)
(* executed.                                                                *)
LEMMA ExecPending ==
  ASSUME NEW b \in Alo, NEW op, NEW dt \in RegNo, NEW v, NEW j,
         Exec(b, op, dt, v, j).alo = b, b.pend # "none"
  PROVE  /\ b.rflag.ok = 1 /\ Executes(op, b.reg[dt], v)
         /\ b.at = dt /\ b.result = Kept(op, b.reg[dt], v)
  <1>. DEFINE does == Executes(op, b.reg[dt], v)
              w == IF does \/ op.name \in BitOp THEN Reply(op, b.reg[dt], v) ELSE b.retval
              e == [b EXCEPT !.retval = w, !.rflag = [ok |-> Truth(does), zero |-> 0]]
  <1>1. Exec(b, op, dt, v, j).alo =
          IF does /\ op.name # "RD"
          THEN Pending([e EXCEPT !.result = Kept(op, b.reg[dt], v)], "result", dt)
          ELSE Idle(e)
    BY DEF Exec
  <1>. HIDE DEF does, w
  <1>2. Idle(e).pend = "none"
    BY DEF Idle, Alo
  <1>3. \A x : LET y == Pending([e EXCEPT !.result = x], "result", dt)
              IN  /\ y.rflag = [ok |-> Truth(does), zero |-> 0]
                  /\ y.at = dt /\ y.result = x
    BY DEF Pending, Alo
  <1>. HIDE DEF e
  <1>4. does /\ op.name # "RD"
    BY <1>1, <1>2
  <1>. QED  BY <1>1, <1>3, <1>4 DEF does, Truth

\* The word to go ahead is on its way to n, with the operation decided: what
\* n executed is what its peer asked for, the peer has the answer, and p says
\* write if the peer is going to.
Decides(n, p, ask, junk) ==
  LET a == mcn[Peer(n)]
      b == mcn[n]
      cmd == ask.cmd
      v == Sent(cmd.op, a.ao.reg[cmd.sr], junk)
  IN  /\ Entt(ask) /\ b.fw = cmd.fw
      /\ cmd.op = NOP => a.last = "AIT" /\ b.last = "AIT"
      /\ cmd.op # NOP =>
           /\ a.last = "ALO" /\ b.last = "ALO"
           /\ Initiate(a.ao, cmd.op, cmd.sr, junk).alo = a.ao
           /\ Exec(b.ao, cmd.op, DecodedDT(cmd.dt), v, 0).alo = b.ao
           /\ NextStep(a.ao, b.ao.rflag.ok, b.ao.retval) = a.ao
           /\ a.ao.rflag.ok = b.ao.rflag.ok
           /\ a.ao.pend # "none" /\ a.ao.rflag.ok = 1 => p.st = 1

(* The table, when the word to go ahead is on its way.                      *)
LEMMA CommitFacts ==
  ASSUME OInv, NEW n \in Node, NEW p \in To(n), IsCommit(p)
  PROVE  /\ State(n) = "Rb" /\ State(Peer(n)) = "Rp"
         /\ \E ask \in Asks[Peer(n)], junk \in Word : Decides(n, p, ask, junk)
  <1>1. /\ State(n) = "Rb" /\ State(Peer(n)) = "Rp"
        /\ Peer(n) \in Node /\ Peer(Peer(n)) = n
    BY TableAgrees, PeerFacts DEF OInv, Agree
  <1>. DEFINE a == mcn[Peer(n)]
              b == mcn[n]
  <1>2. PICK ask \in Asks[Peer(n)], junk \in Word :
          Entt(ask) /\ Work(a, b, To(n), To(Peer(n)), ask.cmd, junk)
    BY <1>1 DEF OInv, OpTable, Asking, WorkOf
  <1>3. /\ Initiated(a, ask.cmd, junk) /\ Commits(a, p)
        /\ Executed(a, b, ask.cmd, junk) /\ Informed(a, b)
    BY <1>1, <1>2 DEF Work, State
  <1>4. a.ao \in Alo /\ b.ao.rflag.ok \in {0, 1} /\ b.ao.retval \in Word
    <2>1. a.ao \in Alo /\ b.ao \in Alo
      BY <1>1 DEF OInv, Typed, IsTyped
    <2>. HIDE DEF a, b
    <2>. QED  BY <2>1 DEF Alo
  <1>. HIDE DEF a, b
  <1>5. ask.cmd.op # NOP =>
          /\ NextStep(a.ao, b.ao.rflag.ok, b.ao.retval) = a.ao
          /\ a.ao.rflag.ok = b.ao.rflag.ok
    <2>. SUFFICES ASSUME ask.cmd.op # NOP
                  PROVE  /\ NextStep(a.ao, b.ao.rflag.ok, b.ao.retval) = a.ao
                         /\ a.ao.rflag.ok = b.ao.rflag.ok
      OBVIOUS
    <2>1. NextStep(a.ao, b.ao.rflag.ok, b.ao.retval) = a.ao
      BY <1>3 DEF Initiated, Informed
    <2>2. NextStep(a.ao, b.ao.rflag.ok, b.ao.retval).rflag.ok = b.ao.rflag.ok
      BY <1>4, NextStepFacts
    <2>. QED  BY <2>1, <2>2
  <1>6. Decides(n, p, ask, junk)
    BY <1>2, <1>3, <1>5 DEF Decides, Initiated, Executed, Commits, Offer, a, b
  <1>. QED  BY <1>1, <1>6

(* What n does when it takes a transaction.                                 *)
LEMMA FnshFacts ==
  ASSUME OInv, NEW n \in Node, Receive(n), "FNSH" \in flag'[n]
  PROVE  \E p, o : \E ask \in Asks[Peer(n)], junk \in Word :
           /\ p \in To(n) /\ IsPacket(p) /\ IsCommit(p) /\ Decides(n, p, ask, junk)
           /\ Passed(n, p, o) /\ DoesFnsh(mcn[n], mcn'[n], o, o.f, p, act'[n])
           /\ State(n) = "Rb" /\ State(Peer(n)) = "Rp" /\ mcn'[n].reg.state = "NIL"
  <1>1. EInv /\ Typed
    BY DEF OInv
  <1>2. PICK x \in Asks[n], res \in {0, 1}, j \in Word : \E p, o :
          Exchange(n, x, p, o, res, j) /\ Passed(n, p, o) /\ IsPacket(p)
    BY <1>1, ReceiveExchange
  <1>3. PICK p, o : Exchange(n, x, p, o, res, j) /\ Passed(n, p, o) /\ IsPacket(p)
    BY <1>2
  <1>. DEFINE busy == {"Ra", "Rp", "Rb"}
  <1>4. /\ Turn(n, "FNSH", busy, "NIL") /\ IsCommit(p)
        /\ DoesFnsh(mcn[n], mcn'[n], o, o.f, p, act'[n])
    BY <1>3 DEF Exchange, Turn, Moves, Choosing
  <1>5. p \in To(n)
    BY <1>3 DEF Passed
  <1>6. /\ State(n) = "Rb" /\ State(Peer(n)) = "Rp"
        /\ \E ask \in Asks[Peer(n)], junk \in Word : Decides(n, p, ask, junk)
    BY <1>4, <1>5, CommitFacts
  <1>. QED  BY <1>3, <1>4, <1>5, <1>6 DEF Turn, Moves

-----------------------------------------------------------------------------
(* After the commit *)

\* n took a transaction as the command in its peer's queue says.
TakenAsAsked(n) ==
  act[n] \cap {"SIG_AIT", "SIG_ALO"} # {} =>
    \E ask \in Asks[Peer(n)] :
      /\ Entt(ask)
      /\ "PROPAGATE_AIT" \in act[n] <=> ask.cmd.fw
      /\ ask.cmd.op = NOP <=> mcn[Peer(n)].last = "AIT"

\* While taking a transaction is the last thing n did, n is idle, and so is
\* its peer but for the answer, with no packet on which to start another.
TakenLast(n) ==
  "FNSH" \in flag[n] =>
    /\ State(n) = "NIL" /\ TakenAsAsked(n)
    /\ \/ State(Peer(n)) = "Rp"
       \/ \A q \in To(Peer(n)) : q.f.s_or_r # 0

FInv == OInv /\ \A n \in Node : TakenLast(n)

\* Taking it is what makes it so.
LEMMA TakesLast ==
  ASSUME OInv, NEW n \in Node, Receive(n)
  PROVE  TakenLast(n)'
  <1>. SUFFICES ASSUME "FNSH" \in flag'[n]
                PROVE  /\ State(n)' = "NIL" /\ TakenAsAsked(n)'
                       /\ State(Peer(n))' = "Rp"
    BY DEF TakenLast
  <1>1. PICK p, o : \E ask \in Asks[Peer(n)], junk \in Word :
           /\ p \in To(n) /\ IsPacket(p) /\ IsCommit(p) /\ Decides(n, p, ask, junk)
           /\ Passed(n, p, o) /\ DoesFnsh(mcn[n], mcn'[n], o, o.f, p, act'[n])
           /\ State(n) = "Rb" /\ State(Peer(n)) = "Rp" /\ mcn'[n].reg.state = "NIL"
    BY FnshFacts
  <1>2. PICK ask \in Asks[Peer(n)], junk \in Word :
           /\ Decides(n, p, ask, junk)
           /\ Passed(n, p, o) /\ DoesFnsh(mcn[n], mcn'[n], o, o.f, p, act'[n])
           /\ State(Peer(n)) = "Rp" /\ mcn'[n].reg.state = "NIL"
    BY <1>1
  <1>3. mcn'[Peer(n)] = mcn[Peer(n)]
    BY <1>2 DEF Passed
  <1>4. TakenAsAsked(n)'
    <2>1. /\ Entt(ask) /\ (ask.cmd.op = NOP <=> mcn'[Peer(n)].last = "AIT")
          /\ ask.cmd.fw = mcn[n].fw
      BY <1>2, <1>3 DEF Decides
    <2>2. act'[n] \cap {"SIG_AIT", "SIG_ALO"} # {} =>
            ("PROPAGATE_AIT" \in act'[n] <=> mcn[n].fw)
      BY <1>2 DEF DoesFnsh
    <2>. QED  BY <2>1, <2>2 DEF TakenAsAsked
  <1>. QED  BY <1>2, <1>3, <1>4 DEF State

\* Its peer leaves it so.
LEMMA PeerKeepsLast ==
  ASSUME FInv, NEW n \in Node, Receive(n)
  PROVE  TakenLast(Peer(n))'
  <1>. DEFINE k == Peer(n)
  <1>1. EInv /\ Typed /\ Agree
    BY TableAgrees DEF FInv, OInv
  <1>2. PICK ask \in Asks[n], res \in {0, 1}, junk \in Word : \E p, o :
          Exchange(n, ask, p, o, res, junk) /\ Passed(n, p, o)
    BY <1>1, ReceiveExchange
  <1>3. PICK p, o : Exchange(n, ask, p, o, res, junk) /\ Passed(n, p, o)
    BY <1>2
  <1>4. /\ k \in Node /\ Peer(k) = n /\ p \in To(n) /\ To(n)' \subseteq To(n)
        /\ p.f.s_or_r = 0 => \A q \in To(n)' : q.f.s_or_r # 0
        /\ mcn'[k] = mcn[k] /\ flag'[k] = flag[k] /\ act'[k] = act[k]
    BY <1>3, PeerFacts DEF Passed
  <1>. HIDE DEF k
  <1>. SUFFICES ASSUME "FNSH" \in flag[k]
                PROVE  /\ State(k)' = "NIL" /\ TakenAsAsked(k)'
                       /\ State(n)' = "Rp" \/ \A q \in To(n)' : q.f.s_or_r # 0
    BY <1>4 DEF TakenLast, k
  <1>5. /\ State(k) = "NIL" /\ TakenAsAsked(k)
        /\ State(n) = "Rp" \/ \A q \in To(n) : q.f.s_or_r # 0
    BY <1>4 DEF FInv, TakenLast
  <1>6. State(k)' = "NIL"
    BY <1>4, <1>5 DEF State
  <1>7. /\ mcn'[n].last = mcn[n].last
        /\ State(n)' = "Rp" \/ \A q \in To(n)' : q.f.s_or_r # 0
    <2>1. ~IsRequest(p) /\ ~IsCommit(p) /\ ~IsAnswer(p)
      BY <1>1, <1>4, <1>5 DEF Agree, k
    <2>2. /\ \/ p.f.s_or_r = 0 /\ Entt(ask) /\ Turn(n, "STRT", {"NIL"}, "Ra")
             \/ Turn(n, "DONE", {"Rp"}, "NIL") /\ p.f.s_or_r = 0
             \/ /\ Turn(n, "DROP", {"Ra", "Rp", "Rb"}, "NIL")
                /\ mcn[n].reg.state = "Rp" => p.f.s_or_r = 0
             \/ mcn'[n].reg.state = mcn[n].reg.state
          /\ Turn(n, "STRT", {"NIL"}, "Ra") \/ mcn'[n].last = mcn[n].last
      BY <1>3, <2>1 DEF Exchange, DoesDone, DoesDrop, DoesNothing
    <2>3. CASE State(n) = "Rp"
      BY <2>2, <2>3, <1>4 DEF Turn, Moves, State
    <2>4. CASE State(n) # "Rp" /\ \A q \in To(n) : q.f.s_or_r # 0
      BY <2>2, <2>4, <1>3, <1>4 DEF Exchange, Turn, Moves, State, Choosing,
         DoesDone, DoesDrop, DoesNothing
    <2>. QED  BY <1>5, <2>3, <2>4
  <1>8. TakenAsAsked(k)'
    BY <1>4, <1>5, <1>7 DEF TakenAsAsked
  <1>. QED  BY <1>6, <1>7, <1>8

(* FInv is inductive.                                                       *)
LEMMA InitF == Init => FInv
BY InitO DEF FInv, TakenLast, Init

\* Of the steps of FInv.
LEMMA NextF ==
  ASSUME FInv, [Next]_vars
  PROVE  FInv'
  <1>1. OInv' /\ EInv /\ Typed
    BY NextO DEF FInv, OInv
  <1>2. CASE \E n \in Node : Receive(n)
    <2>1. PICK n \in Node : Receive(n)
      BY <1>2
    <2>2. TakenLast(n)' /\ TakenLast(Peer(n))'
      BY <2>1, TakesLast, PeerKeepsLast DEF FInv
    <2>3. \A k \in Node : k = n \/ k = Peer(n)
      BY PeerFacts
    <2>. QED  BY <1>1, <2>2, <2>3 DEF FInv
  <1>3. CASE \E n \in Node : SendRecover(n)
    <2>1. PICK n \in Node : SendRecover(n)
      BY <1>3
    <2>2. PICK o : Resumes(n, o)
      BY <1>1, <2>1, SendRecoverResumes
    <2>3. TakenLast(n)'
      BY <2>2 DEF Resumes, TakenLast
    <2>4. Peer(n) \in Node /\ Peer(Peer(n)) = n /\ \A k \in Node : k = n \/ k = Peer(n)
      BY PeerFacts
    <2>5. TakenLast(Peer(n))
      BY <2>4 DEF FInv
    <2>6. TakenLast(Peer(n))'
      BY <2>2, <2>4, <2>5 DEF Resumes, TakenLast, TakenAsAsked, State
    <2>. QED  BY <1>1, <2>3, <2>4, <2>6 DEF FInv
  <1>4. CASE \E n \in Node : Lose(n)
    <2>1. /\ UNCHANGED <<mcn, flag, act>>
          /\ \A k \in Node : To(k)' \subseteq To(k)
      BY <1>1, <1>4, LoseLeaves
    <2>2. ASSUME NEW n \in Node
          PROVE  TakenLast(n)'
      <3>1. TakenLast(n) /\ Peer(n) \in Node
        BY PeerFacts DEF FInv
      <3>. QED  BY <2>1, <3>1 DEF TakenLast, TakenAsAsked, State
    <2>. QED  BY <1>1, <2>2 DEF FInv
  <1>5. CASE UNCHANGED vars
    <2>1. \A n \in Node : TakenLast(n)'
      BY <1>5 DEF FInv, TakenLast, TakenAsAsked, State, To, vars
    <2>. QED  BY <1>1, <2>1 DEF FInv
  <1>. QED  BY <1>2, <1>3, <1>4, <1>5 DEF Next

(* An end that is not idle has FNSH among its flags only as it takes a      *)
(* transaction.                                                             *)
LEMMA TakesNow ==
  ASSUME FInv, [Next]_vars, NEW n \in Node, "FNSH" \in flag'[n], State(n) # "NIL"
  PROVE  Receive(n)
  <1>1. "FNSH" \notin flag[n]
    BY DEF FInv, TakenLast
  <1>2. EInv /\ Typed /\ \A k \in Node : n = k \/ n = Peer(k)
    BY PeerFacts DEF FInv, OInv
  <1>3. ASSUME NEW k \in Node, Receive(k)
        PROVE  flag'[Peer(k)] = flag[Peer(k)]
    BY <1>2, <1>3, ReceiveExchange DEF Passed
  <1>4. ASSUME NEW k \in Node, SendRecover(k)
        PROVE  flag'[Peer(k)] = flag[Peer(k)] /\ "FNSH" \notin flag'[k]
    BY <1>2, <1>4, SendRecoverResumes DEF Resumes
  <1>5. \A k \in Node : Lose(k) => flag' = flag
    BY DEF Lose
  <1>. QED  BY <1>1, <1>2, <1>3, <1>4, <1>5 DEF Next, vars

\* When an end takes an operation for which both ends have something to
\* write, it writes, and its peer is going to.
BothWrite ==
  [][ \A n \in Node :
        "FNSH" \in flag'[n] /\ mcn[n].ao.pend # "none" /\ mcn[Peer(n)].ao.pend # "none" =>
          "SIG_ALO" \in act'[n] /\ mcn[Peer(n)].ao.rflag.ok = 1 ]_vars

(* The step that takes an operation with something to write.                *)
LEMMA TakesOperation ==
  ASSUME FInv, [Next]_vars, NEW n \in Node, "FNSH" \in flag'[n], mcn[n].ao.pend # "none"
  PROVE  \E p : \E ask \in Asks[Peer(n)], junk \in Word :
           /\ Decides(n, p, ask, junk) /\ ask.cmd.op # NOP /\ ask \in Ask
           /\ mcn[n].ao.rflag.ok = 1
           /\ Executes(ask.cmd.op, mcn[n].ao.reg[DecodedDT(ask.cmd.dt)],
                       Sent(ask.cmd.op, mcn[Peer(n)].ao.reg[ask.cmd.sr], junk))
           /\ p.st = 1 => "SIG_ALO" \in act'[n]
  <1>1. Settled(mcn[n]) /\ mcn[n].ao \in Alo
    BY DEF FInv, OInv, EInv, Typed, IsTyped
  <1>2. State(n) # "NIL"
    BY <1>1 DEF Settled, State
  <1>3. Receive(n)
    BY <1>2, TakesNow
  <1>4. PICK p, o : \E ask \in Asks[Peer(n)], junk \in Word :
           Decides(n, p, ask, junk) /\ DoesFnsh(mcn[n], mcn'[n], o, o.f, p, act'[n])
    BY <1>3, FnshFacts DEF FInv
  <1>5. PICK ask \in Asks[Peer(n)], junk \in Word :
           Decides(n, p, ask, junk) /\ DoesFnsh(mcn[n], mcn'[n], o, o.f, p, act'[n])
    BY <1>4
  <1>6. mcn[n].last = "ALO" /\ ask.cmd.op # NOP
    BY <1>1, <1>5 DEF Settled, Decides
  <1>7. ask \in Ask
    BY EnvironmentAssumption, PeerFacts
  <1>8. /\ mcn[n].ao.rflag.ok = 1
        /\ Executes(ask.cmd.op, mcn[n].ao.reg[DecodedDT(ask.cmd.dt)],
                    Sent(ask.cmd.op, mcn[Peer(n)].ao.reg[ask.cmd.sr], junk))
    <2>. DEFINE dt == DecodedDT(ask.cmd.dt)
                v == Sent(ask.cmd.op, mcn[Peer(n)].ao.reg[ask.cmd.sr], junk)
    <2>1. Exec(mcn[n].ao, ask.cmd.op, dt, v, 0).alo = mcn[n].ao
      BY <1>5, <1>6 DEF Decides
    <2>2. dt \in RegNo
      BY <1>7, PacketFacts
    <2>. HIDE DEF dt, v
    <2>3. mcn[n].ao.rflag.ok = 1 /\ Executes(ask.cmd.op, mcn[n].ao.reg[dt], v)
      BY <1>1, <2>1, <2>2, ExecPending
    <2>. QED  BY <2>3 DEF dt, v
  <1>9. ASSUME p.st = 1
        PROVE  "SIG_ALO" \in act'[n]
    <2>1. Update(mcn[n].ao, p.st).ret = 1
      BY <1>9 DEF Update
    <2>. QED  BY <1>5, <1>6, <2>1 DEF DoesFnsh
  <1>. QED  BY <1>5, <1>6, <1>7, <1>8, <1>9

(* Across lost packets, recoveries and conflicting requests of any kind, if  *)
(* the commit finds something to write at both ends, both write it.         *)
THEOREM BothEndsWrite == Spec => BothWrite
  <1>1. ASSUME FInv, [Next]_vars
        PROVE  \A n \in Node :
                 "FNSH" \in flag'[n] /\ mcn[n].ao.pend # "none"
                   /\ mcn[Peer(n)].ao.pend # "none" =>
                     "SIG_ALO" \in act'[n] /\ mcn[Peer(n)].ao.rflag.ok = 1
    BY <1>1, TakesOperation DEF Decides
  <1>2. FInv /\ [Next]_vars =>
          [ \A n \in Node :
              "FNSH" \in flag'[n] /\ mcn[n].ao.pend # "none"
                /\ mcn[Peer(n)].ao.pend # "none" =>
                  "SIG_ALO" \in act'[n] /\ mcn[Peer(n)].ao.rflag.ok = 1 ]_vars
    BY <1>1
  <1>. QED  BY <1>2, InitF, NextF, PTL DEF Spec, BothWrite

\* No caller asks for an operation that may leave the source with nothing to
\* write for what the destination executes: alo_next returns no value then.
AsksDefinite ==
  \A n \in Node : \A ask \in Asks[n] :
    ask.cmd.op.name \notin {"WR", "BTESTSET", "BTESTRESET"}

\* Of the others, what is executed at the destination is begun at the source.
LEMMA BegunTogether ==
  ASSUME NEW op \in Opcode, op.name \notin {"WR", "BTESTSET", "BTESTRESET"},
         NEW s, NEW d, NEW v, Executes(op, d, v)
  PROVE  Begun(op, s)
  BY OpcodeFacts DEF Executes, Begun, NoFieldOp, CondOp, BitOp, BitAllows, NeedsReply,
     CountsAtSource

(* For those callers, when an end takes an operation that it has executed,  *)
(* it writes its register if and only if its peer will report success.      *)
THEOREM VerdictsAreTrue == AsksDefinite => (Spec => VerdictsAgree)
  <1>. SUFFICES ASSUME AsksDefinite PROVE Spec => VerdictsAgree
    OBVIOUS
  <1>1. ASSUME FInv, [Next]_vars, NEW n \in Node, "FNSH" \in flag'[n], mcn[n].ao.pend # "none"
        PROVE  "SIG_ALO" \in act'[n] <=> mcn[Peer(n)].ao.rflag.ok = 1
    <2>. DEFINE a == mcn[Peer(n)].ao
    <2>1. PICK p : \E ask \in Asks[Peer(n)], junk \in Word :
           /\ Decides(n, p, ask, junk) /\ ask.cmd.op # NOP /\ ask \in Ask
           /\ mcn[n].ao.rflag.ok = 1
           /\ Executes(ask.cmd.op, mcn[n].ao.reg[DecodedDT(ask.cmd.dt)],
                       Sent(ask.cmd.op, a.reg[ask.cmd.sr], junk))
           /\ p.st = 1 => "SIG_ALO" \in act'[n]
      BY <1>1, TakesOperation
    <2>2. PICK ask \in Asks[Peer(n)], junk \in Word :
           /\ Decides(n, p, ask, junk) /\ ask.cmd.op # NOP /\ ask \in Ask
           /\ mcn[n].ao.rflag.ok = 1
           /\ Executes(ask.cmd.op, mcn[n].ao.reg[DecodedDT(ask.cmd.dt)],
                       Sent(ask.cmd.op, a.reg[ask.cmd.sr], junk))
           /\ p.st = 1 => "SIG_ALO" \in act'[n]
      BY <2>1
    <2>3. /\ Peer(n) \in Node /\ ask.cmd.op \in Opcode /\ ask.cmd.sr \in RegNo
          /\ ask.cmd.op.name \notin {"WR", "BTESTSET", "BTESTRESET"}
      BY <2>2, PeerFacts, PacketFacts DEF AsksDefinite
    <2>4. a \in Alo
      BY <1>1, <2>3 DEF FInv, OInv, Typed, IsTyped
    <2>5. /\ Initiate(a, ask.cmd.op, ask.cmd.sr, junk).alo = a /\ a.rflag.ok = 1
          /\ a.pend # "none" => p.st = 1
      BY <2>2 DEF Decides
    <2>. HIDE DEF a
    <2>6. Begun(ask.cmd.op, a.reg[ask.cmd.sr])
      BY <2>2, <2>3, BegunTogether
    <2>7. a.pend # "none"
      BY <2>3, <2>4, <2>5, <2>6, InitiatedFacts
    <2>. QED  BY <2>2, <2>5, <2>7 DEF a
  <1>2. FInv /\ [Next]_vars =>
          [ \A n \in Node : "FNSH" \in flag'[n] /\ mcn[n].ao.pend # "none" =>
              ("SIG_ALO" \in act'[n] <=> mcn[Peer(n)].ao.rflag.ok = 1) ]_vars
    BY <1>1
  <1>. QED  BY <1>2, InitF, NextF, PTL DEF Spec, VerdictsAgree

\* An end that takes a transaction is told to forward it by some command that
\* its initiator had in its queue, of the kind of the one it took.
ForwardsSomeCommand ==
  [][ \A n \in Node : "FNSH" \in flag'[n] /\ act'[n] \cap {"SIG_AIT", "SIG_ALO"} # {} =>
        \E ask \in Asks[Peer(n)] :
          /\ Entt(ask)
          /\ "PROPAGATE_AIT" \in act'[n] <=> ask.cmd.fw
          /\ ask.cmd.op = NOP <=> mcn[Peer(n)].last = "AIT" ]_vars

(* Of a transaction just taken, or still the last thing n did.              *)
LEMMA StepAsAsked ==
  ASSUME FInv, [Next]_vars, NEW n \in Node, "FNSH" \in flag'[n],
         act'[n] \cap {"SIG_AIT", "SIG_ALO"} # {}
  PROVE  \E ask \in Asks[Peer(n)] :
           /\ Entt(ask)
           /\ "PROPAGATE_AIT" \in act'[n] <=> ask.cmd.fw
           /\ ask.cmd.op = NOP <=> mcn[Peer(n)].last = "AIT"
  <1>1. EInv /\ Typed /\ \A k \in Node : n = k \/ n = Peer(k)
    BY PeerFacts DEF FInv, OInv
  <1>2. CASE Receive(n)
    <2>1. TakenAsAsked(n)'
      BY <1>2, TakesLast DEF FInv, TakenLast
    <2>2. mcn'[Peer(n)] = mcn[Peer(n)]
      BY <1>1, <1>2, ReceiveExchange DEF Passed
    <2>. QED  BY <2>1, <2>2 DEF TakenAsAsked
  <1>3. CASE ~Receive(n)
    <2>1. flag'[n] = flag[n] /\ act'[n] = act[n]
      <3>1. ASSUME NEW k \in Node, Receive(k)
            PROVE  flag'[Peer(k)] = flag[Peer(k)] /\ act'[Peer(k)] = act[Peer(k)]
        BY <1>1, <3>1, ReceiveExchange DEF Passed
      <3>2. ASSUME NEW k \in Node, SendRecover(k)
            PROVE  /\ flag'[Peer(k)] = flag[Peer(k)] /\ act'[Peer(k)] = act[Peer(k)]
                   /\ "FNSH" \notin flag'[k]
        BY <1>1, <3>2, SendRecoverResumes DEF Resumes
      <3>3. \A k \in Node : Lose(k) => flag' = flag /\ act' = act
        BY DEF Lose
      <3>. QED  BY <1>1, <1>3, <3>1, <3>2, <3>3 DEF Next, vars
    <2>2. TakenAsAsked(n)
      BY <2>1 DEF FInv, TakenLast
    <2>. QED  BY <2>1, <2>2 DEF TakenAsAsked
  <1>. QED  BY <1>2, <1>3

(* Whatever transactions of either kind were dropped since the last one and *)
(* whatever the memory held, an end forwards what it takes on the word of a *)
(* command that its peer's caller asked for, never on that of an older one. *)
THEOREM ForwardsOnCommand == Spec => ForwardsSomeCommand
  <1>1. FInv /\ [Next]_vars =>
          [ \A n \in Node : "FNSH" \in flag'[n] /\ act'[n] \cap {"SIG_AIT", "SIG_ALO"} # {} =>
              \E ask \in Asks[Peer(n)] :
                /\ Entt(ask)
                /\ "PROPAGATE_AIT" \in act'[n] <=> ask.cmd.fw
                /\ ask.cmd.op = NOP <=> mcn[Peer(n)].last = "AIT" ]_vars
    BY StepAsAsked
  <1>. QED  BY <1>1, InitF, NextF, PTL DEF Spec, ForwardsSomeCommand

\* A caller that forwards one transaction of a kind forwards all of that kind.
ForwardsByKind ==
  \A n \in Node : \A x, y \in Asks[n] :
    Entt(x) /\ (x.cmd.op = NOP <=> y.cmd.op = NOP) /\ y.cmd.fw => x.cmd.fw

(* With such callers the kind of the transaction says whether it is         *)
(* forwarded.                                                               *)
THEOREM ForwardsTruly == ForwardsByKind => (Spec => ForwardsAsAsked)
  <1>. SUFFICES ASSUME ForwardsByKind PROVE Spec => ForwardsAsAsked
    OBVIOUS
  <1>1. ASSUME FInv, [Next]_vars, NEW n \in Node, "FNSH" \in flag'[n],
               act'[n] \cap {"SIG_AIT", "SIG_ALO"} # {}
        PROVE  "PROPAGATE_AIT" \in act'[n] <=>
                 \E ask \in Asks[Peer(n)] :
                   ask.cmd.fw /\ (ask.cmd.op = NOP <=> mcn[Peer(n)].last = "AIT")
    <2>1. PICK x \in Asks[Peer(n)] :
            /\ Entt(x)
            /\ "PROPAGATE_AIT" \in act'[n] <=> x.cmd.fw
            /\ x.cmd.op = NOP <=> mcn[Peer(n)].last = "AIT"
      BY <1>1, StepAsAsked
    <2>2. \A y \in Asks[Peer(n)] :
            (y.cmd.op = NOP <=> mcn[Peer(n)].last = "AIT") /\ y.cmd.fw => x.cmd.fw
      BY <2>1, PeerFacts DEF ForwardsByKind
    <2>. QED  BY <2>1, <2>2
  <1>2. FInv /\ [Next]_vars =>
          [ \A n \in Node : "FNSH" \in flag'[n] /\ act'[n] \cap {"SIG_AIT", "SIG_ALO"} # {} =>
              ("PROPAGATE_AIT" \in act'[n] <=>
                 \E ask \in Asks[Peer(n)] :
                   ask.cmd.fw /\ (ask.cmd.op = NOP <=> mcn[Peer(n)].last = "AIT")) ]_vars
    BY <1>1
  <1>. QED  BY <1>2, InitF, NextF, PTL DEF Spec, ForwardsAsAsked

-----------------------------------------------------------------------------
(* The registers *)

\* The registers of an end, where the refinement mapping looks for them: the
\* source's are written once the peer has taken the operation.
RegsOf(m, t) == IF t /\ m.reg.state = "Rp" /\ m.last = "ALO" THEN Complete(m.ao).alo.reg
                ELSE m.ao.reg
Mem == [n \in Node |-> RegsOf(mcn[n], taken[n])]

MInv == OInv /\ LP!TInv

(* What has been taken, of the complete ends.                               *)
LEMMA FateFacts ==
  ASSUME MInv, NEW n \in Node
  PROVE  /\ taken[n] \in BOOLEAN
         /\ State(n) = "Ra" => ~taken[n]
         /\ State(n) = "Rp" /\ State(Peer(n)) = "Rb" => ~taken[n]
         /\ \A q \in To(n) : State(n) = "Rp" /\ q.f.s_or_r = 0 =>
              (Completes(mcn[n].reg, q.f) <=> taken[n])
  <1>1. LP!FateOf(n) /\ taken[n] \in BOOLEAN
    BY SameNode DEF MInv, LP!TInv, LP!Fate, LP!IInv, LP!TypeOK
  <1>2. Regs[n] = mcn[n].reg /\ Regs[Peer(n)] = mcn[Peer(n)].reg
    BY PeerFacts DEF Regs
  <1>3. PICK P : chan[n] \in Seq(P)
    BY DEF MInv, OInv, EInv, Shape
  <1>4. /\ Len(Wires[n]) = Len(chan[n])
        /\ \A i \in 1 .. Len(chan[n]) : Wires[n][i] = chan[n][i].f
    BY <1>3, FieldsFacts DEF Wires
  <1>5. ASSUME NEW q \in To(n), State(n) = "Rp", q.f.s_or_r = 0
        PROVE  Completes(mcn[n].reg, q.f) <=> taken[n]
    <2>1. PICK i \in 1 .. Len(chan[n]) : q = chan[n][i]
      BY DEF To, Carried
    <2>2. Wires[n][i] = q.f /\ i \in 1 .. Len(Wires[n])
      BY <2>1, <1>4
    <2>3. LP!Completes(Regs[n], q.f) <=> taken[n]
      BY <1>1, <1>2, <1>5, <2>2 DEF LP!FateOf, State
    <2>. QED  BY <2>3, <1>2 DEF LP!Completes, Completes
  <1>. QED  BY <1>1, <1>2, <1>5, SameNode DEF LP!FateOf, State

(* Only the branches that complete an operation and that take one write.    *)
LEMMA OwnRegsKept ==
  ASSUME OInv, NEW n \in Node, Receive(n), "FNSH" \notin flag'[n], "DONE" \notin flag'[n]
  PROVE  mcn'[n].ao.reg = mcn[n].ao.reg
  <1>. DEFINE m == mcn[n]
              c == mcn'[n]
              busy == {"Ra", "Rp", "Rb"}
  <1>1. EInv /\ Typed
    BY DEF OInv
  <1>2. PICK ask \in Asks[n], res \in {0, 1}, junk \in Word : \E p, o :
          Exchange(n, ask, p, o, res, junk) /\ IsPacket(p)
    BY <1>1, ReceiveExchange
  <1>3. PICK p, o : Exchange(n, ask, p, o, res, junk) /\ IsPacket(p)
    BY <1>2
  <1>4. ask \in Ask /\ m.ao \in Alo
    BY <1>1, EnvironmentAssumption DEF Typed, IsTyped
  <1>5. CASE DoesStrt(m, c, o, o.f, ask.cmd, junk)
    <2>1. Initiate(m.ao, ask.cmd.op, ask.cmd.sr, junk).alo.reg = m.ao.reg
      BY <1>4, PacketFacts, InitiateFacts
    <2>. QED  BY <1>5, <2>1 DEF DoesStrt
  <1>6. CASE DoesRecv(m, c, o, o.f, p, junk)
    <2>1. p.op \in Opcode /\ DecodedDT(p.dt) \in RegNo /\ p.value \in Word
      BY <1>3, PacketFacts DEF IsPacket
    <2>2. Exec(m.ao, p.op, DecodedDT(p.dt), p.value, junk).alo.reg = m.ao.reg
      BY <1>4, <2>1, ExecFacts
    <2>. QED  BY <1>6, <2>2 DEF DoesRecv
  <1>7. CASE DoesNext(m, c, o, o.f, p, res)
    <2>1. p.st \in {0, 1} /\ p.value \in Word
      BY <1>3 DEF IsPacket
    <2>2. NextStep(m.ao, p.st, p.value).reg = m.ao.reg
      BY <1>4, <2>1, NextStepFacts
    <2>. QED  BY <1>7, <2>2, <1>1 DEF DoesNext, Typed, IsTyped
  <1>8. CASE DoesDrop(m, c, o, o.f)
    <2>. DEFINE e == [m.ao EXCEPT !.rflag = [ok |-> 0, zero |-> 0]]
    <2>1. e \in Alo /\ e.rflag.ok = 0 /\ e.reg = m.ao.reg
      BY <1>4 DEF Alo
    <2>2. c.ao = IF m.last = "AIT" THEN m.ao ELSE Complete(e).alo
      BY <1>8 DEF DoesDrop
    <2>. HIDE DEF e
    <2>3. Complete(e).alo.reg = e.reg
      BY <2>1, CompleteFacts
    <2>. QED  BY <2>1, <2>2, <2>3
  <1>9. CASE DoesNothing(m, c, o, o.f)
    BY <1>9 DEF DoesNothing
  <1>10. ~Turn(n, "FNSH", busy, "NIL") /\ ~Turn(n, "DONE", {"Rp"}, "NIL")
    BY DEF Turn, Moves
  <1>. QED  BY <1>3, <1>5, <1>6, <1>7, <1>8, <1>9, <1>10 DEF Exchange

(* Of the branches of entl_received, only the one that takes an operation   *)
(* changes the registers.                                                   *)
LEMMA RegsKept ==
  ASSUME MInv, NEW n \in Node, Receive(n), "FNSH" \notin flag'[n]
  PROVE  Mem' = Mem
  <1>. DEFINE k == Peer(n)
              m == mcn[n]
              c == mcn'[n]
              busy == {"Ra", "Rp", "Rb"}
  <1>1. EInv /\ Typed
    BY DEF MInv, OInv
  <1>2. PICK ask \in Asks[n], res \in {0, 1}, junk \in Word : \E p, o :
          Exchange(n, ask, p, o, res, junk) /\ Passed(n, p, o) /\ IsPacket(p)
    BY <1>1, ReceiveExchange
  <1>3. PICK p, o : Exchange(n, ask, p, o, res, junk) /\ Passed(n, p, o) /\ IsPacket(p)
    BY <1>2
  <1>4. /\ k \in Node /\ \A e \in Node : e = n \/ e = k
        /\ taken[n] \in BOOLEAN /\ taken[k] \in BOOLEAN
    BY PeerFacts, FateFacts
  <1>5. /\ mcn'[k] = mcn[k] /\ taken'[k] = taken[k] /\ p \in To(n)
        /\ "STRT" \notin flag'[n] => taken'[n] = taken[n]
    BY <1>3, <1>4 DEF Passed
  <1>6. "DONE" \notin flag'[n] => c.ao.reg = m.ao.reg
    BY OwnRegsKept DEF MInv
  <1>7. RegsOf(c, taken'[n]) = RegsOf(m, taken[n])
    <2>1. CASE Turn(n, "STRT", {"NIL"}, "Ra")
      BY <2>1, <1>6 DEF Turn, Moves, Choosing, RegsOf
    <2>2. CASE Turn(n, "RECV", {"NIL"}, "Rb")
      BY <2>2, <1>6 DEF Turn, Moves, Choosing, RegsOf
    <2>3. CASE Turn(n, "NEXT", {"Ra"}, "Rp")
      <3>1. ~taken[n] /\ ~taken'[n]
        BY <2>3, <1>5, FateFacts DEF Turn, Moves, Choosing, State
      <3>. QED  BY <2>3, <3>1, <1>6 DEF Turn, Moves, Choosing, RegsOf
    <2>4. CASE /\ Turn(n, "DONE", {"Rp"}, "NIL") /\ p.f.s_or_r = 0 /\ Completes(m.reg, p.f)
               /\ DoesDone(m, c, o, o.f)
      <3>1. taken[n]
        BY <2>4, <1>5, FateFacts DEF Turn, Moves, State
      <3>. QED  BY <2>4, <3>1 DEF DoesDone, RegsOf, Turn, Moves
    <2>5. CASE /\ Turn(n, "DROP", busy, "NIL")
               /\ m.reg.state = "Rp" => p.f.s_or_r = 0 /\ ~Completes(m.reg, p.f)
      <3>1. m.reg.state = "Rp" => ~taken[n]
        BY <2>5, <1>5, FateFacts DEF State
      <3>. QED  BY <2>5, <3>1, <1>6 DEF Turn, Moves, Choosing, RegsOf
    <2>6. CASE /\ flag'[n] \cap Choosing = {} /\ c.reg.state = m.reg.state
               /\ DoesNothing(m, c, o, o.f)
      <3>1. taken'[n] = taken[n]
        BY <2>6, <1>5 DEF Choosing
      <3>. QED  BY <2>6, <3>1 DEF DoesNothing, RegsOf
    <2>7. ~Turn(n, "FNSH", busy, "NIL")
      BY DEF Turn, Moves
    <2>. QED  BY <1>3, <2>1, <2>2, <2>3, <2>4, <2>5, <2>6, <2>7 DEF Exchange
  <1>. QED  BY <1>4, <1>5, <1>7 DEF Mem

(* A recovery writes nothing.                                               *)
LEMMA RecoverKeepsRegs ==
  ASSUME MInv, NEW n \in Node, SendRecover(n)
  PROVE  Mem' = Mem
  <1>1. EInv /\ Typed /\ mcn[n].ao \in Alo
    BY DEF MInv, OInv, Typed, IsTyped
  <1>2. PICK o : Resumes(n, o)
    BY <1>1, SendRecoverResumes
  <1>3. Update(mcn[n].ao, 0).alo.reg = mcn[n].ao.reg
    BY <1>1, UpdateOfNothing
  <1>4. RegsOf(mcn'[n], taken'[n]) = RegsOf(mcn[n], taken[n])
    BY <1>2, <1>3 DEF Resumes, RegsOf
  <1>. QED  BY <1>2, <1>4, PeerFacts DEF Resumes, Mem

\* The operation of a command that src asked for, done on both ends' registers
\* as its test expects.
Operates(src, cmd) ==
  LET dst == Peer(src)
      dt == DecodedDT(cmd.dt)
      expect == Expected(cmd.op, Mem[src][cmd.sr], Mem[dst][dt])
  IN  Mem' = [Mem EXCEPT ![src][cmd.sr] = expect[1].value, ![dst][dt] = expect[2].value]

\* The one other thing that a command may do: a bit test that the source's
\* register refuses and the destination's allows is done at the destination.
OperatesAlone(src, cmd) ==
  LET dst == Peer(src)
      dt == DecodedDT(cmd.dt)
  IN  /\ cmd.op.name \in BitOp
      /\ ~BitAllows(cmd.op, Mem[src][cmd.sr]) /\ BitAllows(cmd.op, Mem[dst][dt])
      /\ Mem' = [Mem EXCEPT ![dst][dt] = BitResult(cmd.op, @)]

\* What alo_complete and alo_update make of the engines of both ends is what
\* the operation's test expects.
Settles(a, b, op, sr, dt, st) ==
  LET expect == Expected(op, a.reg[sr], b.reg[dt])
  IN  /\ Complete(a).alo.reg = [a.reg EXCEPT ![sr] = expect[1].value]
      /\ Update(b, st).alo.reg = [b.reg EXCEPT ![dt] = expect[2].value]

\* They leave both alone, or do a bit test that the source refused.
SettlesNothing(a, b, st) ==
  Complete(a).alo.reg = a.reg /\ Update(b, st).alo.reg = b.reg

SettlesAlone(a, b, op, sr, dt, st) ==
  /\ op.name \in BitOp
  /\ ~BitAllows(op, a.reg[sr]) /\ BitAllows(op, b.reg[dt])
  /\ Complete(a).alo.reg = a.reg
  /\ Update(b, st).alo.reg = [b.reg EXCEPT ![dt] = BitResult(op, b.reg[dt])]

(* Two engines that have decided an operation will write what it makes of   *)
(* their registers, if the source did not refuse it; a write may be left    *)
(* undone, for the source has nothing to write and alo_next no value.       *)
LEMMA DecidedOperation ==
  ASSUME NEW a \in Alo, NEW b \in Alo, NEW op \in Opcode, NEW sr \in RegNo, NEW dt \in RegNo,
         NEW junk, NEW st,
         Initiate(a, op, sr, junk).alo = a,
         Exec(b, op, dt, Sent(op, a.reg[sr], junk), 0).alo = b,
         NextStep(a, b.rflag.ok, b.retval) = a, a.rflag.ok = b.rflag.ok,
         a.pend # "none" /\ a.rflag.ok = 1 => st = 1
  PROVE  \/ Settles(a, b, op, sr, dt, st)
         \/ SettlesNothing(a, b, st)
         \/ SettlesAlone(a, b, op, sr, dt, st)
  <1>. DEFINE s == a.reg[sr]
              d == b.reg[dt]
  <1>1. b.rflag.ok \in {0, 1}
    BY DEF Alo
  <1>2. b.pend # "none" =>
          /\ b.rflag.ok = 1 /\ Executes(op, d, Sent(op, s, junk))
          /\ b.at = dt /\ b.result = Kept(op, d, Sent(op, s, junk))
    BY ExecPending
  <1>3. a.pend = "none" => Complete(a).alo.reg = a.reg
    BY CompleteFacts
  <1>4. ~(b.pend # "none" /\ st = 1) => Update(b, st).alo.reg = b.reg
    BY UpdateOfNothing
  <1>5. CASE b.pend # "none" /\ st # 1
    BY <1>2, <1>3, <1>4, <1>5 DEF SettlesNothing
  <1>6. CASE (op.name \in BitOp => BitAllows(op, s)) /\ (b.pend # "none" => st = 1)
    <2>1. /\ b.rflag.ok = Truth(Executes(op, d, Sent(op, s, 0)))
          /\ Executes(op, d, Sent(op, s, 0)) /\ op.name \in NeedsReply =>
               b.retval = SourceKeeps(op, s, d)
          /\ AsExpected(Update(b, st).alo, b, dt, Effect(op, s, d)[2])
      BY <1>6, DestinationDone
    <2>2. b.rflag.ok = 1 /\ op.name \in NeedsReply => b.retval = SourceKeeps(op, s, d)
      BY <2>1 DEF Truth
    <2>3. AsExpected(Complete(a).alo, a, sr, Effect(op, s, d)[1])
      BY <1>1, <1>6, <2>1, <2>2, SourceDone
    <2>4. Effect(op, s, d) = Expected(op, s, d)
      BY EffectIsTested
    <2>. QED  BY <2>1, <2>3, <2>4 DEF AsExpected, Settles
  <1>7. CASE op.name \in BitOp /\ ~BitAllows(op, s)
    <2>1. a.pend = "none"
      <3>1. ~Begun(op, s)
        BY <1>7 DEF Begun, NeedsReply, CountsAtSource, BitOp
      <3>. QED  BY <3>1, InitiatedFacts
    <2>2. CASE b.pend # "none" /\ st = 1
      <3>1. BitAllows(op, d) /\ b.result = BitResult(op, d) /\ b.at = dt
        BY <1>2, <1>7, <2>2 DEF Executes, Kept, NoFieldOp, CondOp, BitOp
      <3>2. Update(b, st).alo.reg = [b.reg EXCEPT ![dt] = BitResult(op, d)]
        BY <2>2, <3>1 DEF Update, Idle, Alo
      <3>. QED  BY <1>3, <1>7, <2>1, <3>1, <3>2 DEF SettlesAlone
    <2>3. CASE ~(b.pend # "none" /\ st = 1)
      BY <1>3, <1>4, <2>1, <2>3 DEF SettlesNothing
    <2>. QED  BY <2>2, <2>3
  <1>. QED  BY <1>5, <1>6, <1>7

(* The step that takes a transaction does its operation, if it has one.     *)
LEMMA TakesOperates ==
  ASSUME MInv, NEW n \in Node, Receive(n), "FNSH" \in flag'[n]
  PROVE  \/ Mem' = Mem
         \/ \E ask \in Asks[Peer(n)] : \/ Operates(Peer(n), ask.cmd)
                                      \/ OperatesAlone(Peer(n), ask.cmd)
  <1>. DEFINE k == Peer(n)
  <1>1. OInv
    BY DEF MInv
  <1>2. PICK p, o : \E ask \in Asks[k], junk \in Word :
           /\ Decides(n, p, ask, junk)
           /\ Passed(n, p, o) /\ DoesFnsh(mcn[n], mcn'[n], o, o.f, p, act'[n])
           /\ State(n) = "Rb" /\ State(k) = "Rp" /\ mcn'[n].reg.state = "NIL"
    BY <1>1, FnshFacts
  <1>3. PICK ask \in Asks[k], junk \in Word :
           /\ Decides(n, p, ask, junk)
           /\ Passed(n, p, o) /\ DoesFnsh(mcn[n], mcn'[n], o, o.f, p, act'[n])
           /\ State(n) = "Rb" /\ State(k) = "Rp" /\ mcn'[n].reg.state = "NIL"
    BY <1>2
  <1>4. /\ k \in Node /\ Peer(k) = n /\ k # n /\ \A e \in Node : e = n \/ e = k
        /\ ask \in Ask /\ mcn[n].ao \in Alo /\ mcn[k].ao \in Alo
    BY <1>1, PeerFacts, EnvironmentAssumption DEF OInv, Typed, IsTyped
  <1>5. mcn'[k] = mcn[k] /\ taken'[k] = TRUE /\ ~taken[k]
    BY <1>3, <1>4, FateFacts DEF Passed
  <1>6. Mem[n] = mcn[n].ao.reg /\ Mem'[n] = mcn'[n].ao.reg
    BY <1>3, <1>4 DEF Mem, RegsOf, State
  <1>7. /\ Mem[k] = mcn[k].ao.reg
        /\ Mem'[k] = IF mcn[k].last = "ALO" THEN Complete(mcn[k].ao).alo.reg ELSE mcn[k].ao.reg
    BY <1>3, <1>4, <1>5 DEF Mem, RegsOf, State
  <1>8. /\ Mem = [e \in Node |-> Mem[e]] /\ Mem' = [e \in Node |-> Mem'[e]]
    BY DEF Mem
  <1>9. CASE ask.cmd.op = NOP
    <2>1. mcn[k].last = "AIT" /\ mcn[n].last = "AIT"
      BY <1>3, <1>9 DEF Decides
    <2>2. mcn'[n].ao = mcn[n].ao
      BY <1>3, <2>1 DEF DoesFnsh
    <2>. QED  BY <1>4, <1>6, <1>7, <1>8, <2>1, <2>2
  <1>10. CASE ask.cmd.op # NOP
    <2>. DEFINE a == mcn[k].ao
                b == mcn[n].ao
                op == ask.cmd.op
                sr == ask.cmd.sr
                dt == DecodedDT(ask.cmd.dt)
    <2>1. op \in Opcode /\ sr \in RegNo /\ dt \in RegNo
      BY <1>4, PacketFacts
    <2>2. /\ mcn[k].last = "ALO" /\ mcn[n].last = "ALO"
          /\ Initiate(a, op, sr, junk).alo = a
          /\ Exec(b, op, dt, Sent(op, a.reg[sr], junk), 0).alo = b
          /\ NextStep(a, b.rflag.ok, b.retval) = a /\ a.rflag.ok = b.rflag.ok
          /\ a.pend # "none" /\ a.rflag.ok = 1 => p.st = 1
      BY <1>3, <1>10 DEF Decides
    <2>3. mcn'[n].ao = Update(b, p.st).alo
      BY <1>3, <2>2 DEF DoesFnsh
    <2>4. a \in Alo /\ b \in Alo
      BY <1>4
    <2>5. Mem[k] = a.reg /\ Mem[n] = b.reg
      BY <1>6, <1>7
    <2>6. Mem'[k] = Complete(a).alo.reg /\ Mem'[n] = Update(b, p.st).alo.reg
      BY <1>6, <1>7, <2>2, <2>3
    <2>. DEFINE st == p.st
    <2>. HIDE DEF a, b, op, sr, dt, st
    <2>7. \/ Settles(a, b, op, sr, dt, st)
          \/ SettlesNothing(a, b, st)
          \/ SettlesAlone(a, b, op, sr, dt, st)
      <3>1. a.pend # "none" /\ a.rflag.ok = 1 => st = 1
        BY <2>2 DEF st
      <3>. QED  BY <2>1, <2>2, <2>4, <3>1, DecidedOperation
    <2>8. CASE Settles(a, b, op, sr, dt, st)
      <3>. DEFINE expect == Expected(op, a.reg[sr], b.reg[dt])
      <3>1. Mem'[k] = [a.reg EXCEPT ![sr] = expect[1].value]
        BY <2>6, <2>8 DEF Settles
      <3>2. Mem'[n] = [b.reg EXCEPT ![dt] = expect[2].value]
        BY <2>6, <2>8 DEF Settles, st
      <3>. HIDE DEF expect
      <3>3. Mem' = [Mem EXCEPT ![k][sr] = expect[1].value, ![n][dt] = expect[2].value]
        BY <1>4, <1>8, <2>5, <3>1, <3>2
      <3>4. Operates(k, ask.cmd)
        BY <1>4, <2>5, <3>3 DEF Operates, expect, op, sr, dt
      <3>. QED  BY <3>4
    <2>9. CASE SettlesNothing(a, b, st)
      BY <1>4, <1>8, <2>5, <2>6, <2>9 DEF SettlesNothing, st
    <2>10. CASE SettlesAlone(a, b, op, sr, dt, st)
      <3>1. Mem' = [Mem EXCEPT ![n][dt] = BitResult(op, @)]
        BY <1>4, <1>8, <2>5, <2>6, <2>10 DEF SettlesAlone, st
      <3>2. OperatesAlone(k, ask.cmd)
        BY <1>4, <2>5, <2>10, <3>1 DEF OperatesAlone, SettlesAlone, op, sr, dt
      <3>. QED  BY <3>2
    <2>. QED  BY <2>7, <2>8, <2>9, <2>10
  <1>. QED  BY <1>9, <1>10

-----------------------------------------------------------------------------
(* The registers of the two ends *)

\* A step that changes the registers does the operation of a command that some
\* end has asked for: at both ends, or at the destination alone if the source
\* refused it.
ChangesByCommand ==
  [][ \E src \in Node : \E ask \in Asks[src] :
        Operates(src, ask.cmd) \/ OperatesAlone(src, ask.cmd) ]_Mem

\* It does it at both.
OperatesTogether ==
  [][ \E src \in Node : \E ask \in Asks[src] : Operates(src, ask.cmd) ]_Mem

\* No caller asks for a bit test, which the source's register may refuse.
NoBitTests ==
  \A n \in Node : \A ask \in Asks[n] : ask.cmd.op.name \notin {"BTESTSET", "BTESTRESET"}

\* MInv is inductive, and every step is an operation or none.
LEMMA NextM ==
  ASSUME MInv, LoseRecover = FALSE, [Next]_vars
  PROVE  /\ MInv'
         /\ \/ Mem' = Mem
            \/ \E src \in Node : \E ask \in Asks[src] :
                 Operates(src, ask.cmd) \/ OperatesAlone(src, ask.cmd)
  <1>1. MInv'
    BY NextO, NextStepOfLink, LP!NextFate, LinkEnvironment DEF MInv, OInv, LP!Reliable
  <1>2. ASSUME NEW n \in Node, Receive(n)
        PROVE  \/ Mem' = Mem
               \/ \E src \in Node : \E ask \in Asks[src] :
                    Operates(src, ask.cmd) \/ OperatesAlone(src, ask.cmd)
    BY <1>2, RegsKept, TakesOperates, PeerFacts
  <1>3. ASSUME NEW n \in Node, SendRecover(n)
        PROVE  Mem' = Mem
    BY <1>3, RecoverKeepsRegs
  <1>4. (\E n \in Node : Lose(n)) \/ UNCHANGED vars => Mem' = Mem
    BY DEF Lose, vars, Mem
  <1>. QED  BY <1>1, <1>2, <1>3, <1>4 DEF Next

\* Without bit tests it is an operation at both ends.
LEMMA NextTogether ==
  ASSUME MInv, LoseRecover = FALSE, NoBitTests, [Next]_vars
  PROVE  \/ Mem' = Mem
         \/ \E src \in Node : \E ask \in Asks[src] : Operates(src, ask.cmd)
  <1>1. \A src \in Node : \A ask \in Asks[src] : ~OperatesAlone(src, ask.cmd)
    BY DEF NoBitTests, OperatesAlone, BitAllows
  <1>. QED  BY <1>1, NextM

\* It holds at the start.
LEMMA InitM == Init => MInv
BY InitO, InitStep, LP!InitT, LinkEnvironment DEF MInv

(* While recovery packets arrive, whatever else is lost and whenever, and    *)
(* whatever both ends ask for at once: the registers change in the step of  *)
(* a commit only, by the operation of a command in a queue, as its test     *)
(* expects (the destination's is the one that ALO_DT finds), with the one   *)
(* exception of a bit test that the source refused.                         *)
THEOREM OperationsAreDone == LoseRecover = FALSE => (Spec => ChangesByCommand)
  <1>. SUFFICES ASSUME LoseRecover = FALSE PROVE Spec => ChangesByCommand
    OBVIOUS
  <1>1. MInv /\ [Next]_vars =>
          MInv' /\ [\E src \in Node : \E ask \in Asks[src] :
                      Operates(src, ask.cmd) \/ OperatesAlone(src, ask.cmd)]_Mem
    BY NextM
  <1>. QED  BY <1>1, InitM, PTL DEF Spec, ChangesByCommand

(* For callers that ask for no bit tests there is no exception: what a      *)
(* command changes it changes at both ends, in one step.                    *)
THEOREM OperationsAreAtomic ==
  LoseRecover = FALSE /\ NoBitTests => (Spec => OperatesTogether)
  <1>. SUFFICES ASSUME LoseRecover = FALSE, NoBitTests PROVE Spec => OperatesTogether
    OBVIOUS
  <1>1. MInv /\ [Next]_vars =>
          MInv' /\ [\E src \in Node : \E ask \in Asks[src] : Operates(src, ask.cmd)]_Mem
    BY NextM, NextTogether
  <1>. QED  BY <1>1, InitM, PTL DEF Spec, OperatesTogether

\* The instance computes with the same words.
LEMMA SameMemory ==
  /\ Memory!RegNo = RegNo /\ Memory!Word = Word
  /\ \A op, s, d : Memory!Expected(op, s, d) = Expected(op, s, d)
  <1>1. Memory!RegNo = RegNo /\ Memory!Word = Word
    BY DEF RegNo, Word, Memory!RegNo, Memory!Word
  <1>2. \A op, s, d : Memory!Expected(op, s, d) = Expected(op, s, d)
    BY DEF AloNopTest, AloAddTest, AloSubsTest, AloSubdTest, AloAndTest, AloOrTest,
           AloIncTest, AloDecTest, AloIncsTest, AloIncdTest, AloDecsTest, AloDecdTest,
           AloRdTest, AloWrTest, AloSwapTest, AloBsetTest, AloBresetTest,
           AloBtestsetTest, AloBtestresetTest, TestValues, Writes, Leaves, Both,
           Untouched, Plus, Minus, And, Or, Xor, ByBits, BitAt, Word, Expected,
           Memory!AloNopTest, Memory!AloAddTest, Memory!AloSubsTest, Memory!AloSubdTest,
           Memory!AloAndTest, Memory!AloOrTest, Memory!AloIncTest, Memory!AloDecTest,
           Memory!AloIncsTest, Memory!AloIncdTest, Memory!AloDecsTest,
           Memory!AloDecdTest, Memory!AloRdTest, Memory!AloWrTest, Memory!AloSwapTest,
           Memory!AloBsetTest, Memory!AloBresetTest, Memory!AloBtestsetTest,
           Memory!AloBtestresetTest, Memory!TestValues, Memory!Writes, Memory!Leaves,
           Memory!Both, Memory!Untouched, Memory!Plus, Memory!Minus, Memory!And,
           Memory!Or, Memory!Xor, Memory!ByBits, Memory!BitAt, Memory!Word,
           Memory!Expected
  <1>. QED  BY <1>1, <1>2

\* The callers name destination registers that ALO_DT finds where
\* SET_ECLP_ALO put them.
DestinationsDecode ==
  \A n \in Node : \A ask \in Asks[n] : DecodedDT(ask.cmd.dt) = ask.cmd.dt

(* For callers that name such registers only, the complete ends implement   *)
(* the memory of AtomicMemory.                                              *)
THEOREM EndsOperateAtomically ==
  LoseRecover = FALSE /\ NoBitTests /\ DestinationsDecode => (Spec => ImplementsMemory)
  <1>. SUFFICES ASSUME LoseRecover = FALSE, NoBitTests, DestinationsDecode
                PROVE  Spec => ImplementsMemory
    OBVIOUS
  <1>. DEFINE asked == [n \in Node |-> {ask.cmd : ask \in Asks[n]}]
  <1>1. Init => Memory!Init
    <2>. SUFFICES ASSUME Init PROVE Memory!Init
      OBVIOUS
    <2>1. Typed /\ \A n \in Node : taken[n] = FALSE
      BY InitO DEF OInv, Init
    <2>2. \A n \in Node : Mem[n] \in [RegNo -> Word]
      BY <2>1 DEF Mem, RegsOf, Typed, IsTyped, Alo
    <2>3. Mem \in [Node -> [RegNo -> Word]]
      BY <2>2 DEF Mem
    <2>. QED  BY <2>3, SameMemory DEF Memory!Init, Mem, RegsOf, Decided
  <1>2. ASSUME NEW src \in Node, NEW ask \in Asks[src], Operates(src, ask.cmd)
        PROVE  Memory!Next
    <2>. DEFINE cmd == ask.cmd
                dst == Peer(src)
    <2>1. src \in Node /\ dst \in Node /\ src # dst /\ cmd \in asked[src]
      BY PeerFacts
    <2>2. DecodedDT(cmd.dt) = cmd.dt
      BY DEF DestinationsDecode
    <2>. HIDE DEF asked, cmd
    <2>3. LET x == Expected(cmd.op, Mem[src][cmd.sr], Mem[dst][cmd.dt])
          IN  Mem' = [Mem EXCEPT ![src][cmd.sr] = x[1].value, ![dst][cmd.dt] = x[2].value]
      BY <1>2, <2>2 DEF Operates, cmd
    <2>4. LET x == Memory!Expected(cmd.op, Mem[src][cmd.sr], Mem[dst][cmd.dt])
          IN  Mem' = [Mem EXCEPT ![src][cmd.sr] = x[1].value, ![dst][cmd.dt] = x[2].value]
      BY <2>3, SameMemory
    <2>. HIDE DEF dst
    <2>5. \E s, d \in Node : \E y \in asked[s] : s # d /\
            LET x == Memory!Expected(y.op, Mem[s][y.sr], Mem[d][y.dt])
            IN  Mem' = [Mem EXCEPT ![s][y.sr] = x[1].value, ![d][y.dt] = x[2].value]
      BY <2>1, <2>4
    <2>. QED  BY <2>5 DEF Memory!Next, Memory!Operate, Mem, RegsOf, Decided, asked
  <1>3. MInv /\ [Next]_vars => MInv' /\ [Memory!Next]_Mem
    BY <1>2, NextM, NextTogether
  <1>. QED  BY <1>1, <1>3, InitM, PTL
            DEF Spec, ImplementsMemory, Memory!Spec, Mem, RegsOf, Decided

-----------------------------------------------------------------------------
(* Which registers *)

\* A register changes only if it is one that a command names: as its source at
\* the end that asked, or as what ALO_DT makes of its destination at the peer.
CommandedRegisterOnly ==
  [][ \A n \in Node, r \in RegNo : mcn'[n].ao.reg[r] # mcn[n].ao.reg[r] =>
        \/ \E ask \in Asks[n] : Entt(ask) /\ ask.cmd.sr = r
        \/ \E ask \in Asks[Peer(n)] : Entt(ask) /\ DecodedDT(ask.cmd.dt) = r ]_vars

(* An engine that is about to write, does so at its pending register.       *)
LEMMA WritesPending ==
  ASSUME NEW a \in Alo, NEW st, NEW r \in RegNo,
         \/ Complete(a).alo.reg[r] # a.reg[r]
         \/ Update(a, st).alo.reg[r] # a.reg[r]
  PROVE  a.pend # "none" /\ a.at = r
  <1>1. CASE Complete(a).alo.reg[r] # a.reg[r]
    <2>1. a.pend # "none" /\ a.rflag.ok = 1
      BY <1>1, CompleteFacts DEF Alo
    <2>2. Complete(a).alo.reg = [a.reg EXCEPT ![a.at] = a.retval]
      BY <2>1 DEF Complete, Idle, Alo
    <2>. QED  BY <1>1, <2>1, <2>2 DEF Alo
  <1>2. CASE Update(a, st).alo.reg[r] # a.reg[r]
    <2>1. a.pend # "none" /\ st = 1
      BY <1>2, UpdateOfNothing
    <2>2. Update(a, st).alo.reg = [a.reg EXCEPT ![a.at] = a.result]
      BY <2>1 DEF Update, Idle, Alo
    <2>. QED  BY <1>2, <2>1, <2>2 DEF Alo
  <1>. QED  BY <1>1, <1>2

(* A step at one end leaves the machine of the other.                       *)
LEMMA OnlyOwnSteps ==
  ASSUME EInv, Typed, [Next]_vars, NEW n \in Node, mcn'[n] # mcn[n]
  PROVE  Receive(n) \/ SendRecover(n)
  <1>1. \A k \in Node : n = k \/ n = Peer(k)
    BY PeerFacts
  <1>2. ASSUME NEW k \in Node, Receive(k)
        PROVE  mcn'[Peer(k)] = mcn[Peer(k)]
    BY <1>2, ReceiveExchange DEF Passed
  <1>3. ASSUME NEW k \in Node, SendRecover(k)
        PROVE  mcn'[Peer(k)] = mcn[Peer(k)]
    BY <1>3, SendRecoverResumes DEF Resumes
  <1>. QED  BY <1>1, <1>2, <1>3 DEF Next, Lose, vars

(* The source writes the register its command names.                        *)
LEMMA SourceRegister ==
  ASSUME OInv, NEW n \in Node, Receive(n), "DONE" \in flag'[n], NEW r \in RegNo,
         mcn'[n].ao.reg[r] # mcn[n].ao.reg[r]
  PROVE  \E ask \in Asks[n] : Entt(ask) /\ ask.cmd.sr = r
  <1>. DEFINE m == mcn[n]
  <1>1. EInv /\ Typed
    BY DEF OInv
  <1>2. PICK x \in Asks[n], res \in {0, 1}, j \in Word : \E p, o :
          Exchange(n, x, p, o, res, j)
    BY <1>1, ReceiveExchange
  <1>3. PICK p, o : Exchange(n, x, p, o, res, j)
    BY <1>2
  <1>4. State(n) = "Rp" /\ DoesDone(m, mcn'[n], o, o.f)
    BY <1>3 DEF Exchange, Turn, Moves, Choosing, State
  <1>5. PICK ask \in Asks[n], junk \in Word : Entt(ask) /\ Initiated(m, ask.cmd, junk)
    BY <1>4 DEF OInv, OpTable, Asking, WorkOf, Work
  <1>6. m.ao \in Alo /\ ask.cmd.op \in Opcode /\ ask.cmd.sr \in RegNo
    BY <1>1, EnvironmentAssumption, PacketFacts DEF Typed, IsTyped
  <1>7. m.last = "ALO" /\ mcn'[n].ao = Complete(m.ao).alo
    BY <1>4 DEF DoesDone
  <1>8. m.ao.pend # "none" /\ m.ao.at = r
    BY <1>6, <1>7, WritesPending
  <1>9. Initiate(m.ao, ask.cmd.op, ask.cmd.sr, junk).alo = m.ao
    BY <1>5, <1>7 DEF Initiated
  <1>10. m.ao.at = ask.cmd.sr
    <2>. HIDE DEF m
    <2>. QED  BY <1>6, <1>8, <1>9, InitiatedFacts
  <1>. QED  BY <1>5, <1>8, <1>10

(* The destination writes the one that ALO_DT finds in the request.         *)
LEMMA DestinationRegister ==
  ASSUME OInv, NEW n \in Node, Receive(n), "FNSH" \in flag'[n], NEW r \in RegNo,
         mcn'[n].ao.reg[r] # mcn[n].ao.reg[r]
  PROVE  \E ask \in Asks[Peer(n)] : Entt(ask) /\ DecodedDT(ask.cmd.dt) = r
  <1>. DEFINE b == mcn[n].ao
  <1>1. PICK p, o : \E ask \in Asks[Peer(n)], junk \in Word :
          Decides(n, p, ask, junk) /\ DoesFnsh(mcn[n], mcn'[n], o, o.f, p, act'[n])
    BY FnshFacts
  <1>2. PICK ask \in Asks[Peer(n)], junk \in Word :
          Decides(n, p, ask, junk) /\ DoesFnsh(mcn[n], mcn'[n], o, o.f, p, act'[n])
    BY <1>1
  <1>3. b \in Alo /\ DecodedDT(ask.cmd.dt) \in RegNo
    BY PeerFacts, EnvironmentAssumption, PacketFacts DEF OInv, Typed, IsTyped
  <1>4. mcn[n].last # "AIT" /\ mcn'[n].ao = Update(b, p.st).alo
    BY <1>2 DEF DoesFnsh
  <1>5. b.pend # "none" /\ b.at = r
    BY <1>3, <1>4, WritesPending
  <1>6. \E v : Exec(b, ask.cmd.op, DecodedDT(ask.cmd.dt), v, 0).alo = b
    BY <1>2, <1>4 DEF Decides
  <1>7. b.at = DecodedDT(ask.cmd.dt)
    <2>. HIDE DEF b
    <2>. QED  BY <1>3, <1>5, <1>6, ExecPending
  <1>. QED  BY <1>2, <1>5, <1>7 DEF Decides

(* Whatever is lost, and of the engines themselves: no register changes but *)
(* one that a command of a caller names, at the end it names it for.        *)
THEOREM RegistersOnCommand == Spec => CommandedRegisterOnly
  <1>. DEFINE Named(n, r) == \/ \E ask \in Asks[n] : Entt(ask) /\ ask.cmd.sr = r
                            \/ \E ask \in Asks[Peer(n)] : Entt(ask) /\ DecodedDT(ask.cmd.dt) = r
  <1>1. ASSUME OInv, [Next]_vars, NEW n \in Node, NEW r \in RegNo,
               mcn'[n].ao.reg[r] # mcn[n].ao.reg[r]
        PROVE  Named(n, r)
    <2>1. EInv /\ Typed /\ mcn[n].ao \in Alo
      BY <1>1 DEF OInv, Typed, IsTyped
    <2>2. ~SendRecover(n)
      <3>1. Update(mcn[n].ao, 0).alo.reg = mcn[n].ao.reg
        BY <2>1, UpdateOfNothing
      <3>. QED  BY <1>1, <2>1, <3>1, SendRecoverResumes DEF Resumes
    <2>3. Receive(n)
      BY <1>1, <2>1, <2>2, OnlyOwnSteps
    <2>4. "FNSH" \in flag'[n] \/ "DONE" \in flag'[n]
      BY <1>1, <2>3, OwnRegsKept
    <2>. QED  BY <1>1, <2>3, <2>4, SourceRegister, DestinationRegister
  <1>2. OInv /\ [Next]_vars =>
          [ \A n \in Node, r \in RegNo : mcn'[n].ao.reg[r] # mcn[n].ao.reg[r] =>
              \/ \E ask \in Asks[n] : Entt(ask) /\ ask.cmd.sr = r
              \/ \E ask \in Asks[Peer(n)] : Entt(ask) /\ DecodedDT(ask.cmd.dt) = r ]_vars
    BY <1>1
  <1>3. OInv /\ [Next]_vars => OInv'
    BY NextO
  <1>. QED  BY <1>2, <1>3, InitO, PTL DEF Spec, CommandedRegisterOnly

-----------------------------------------------------------------------------
(* Messages *)

(* The table says what both ends of a transaction take it for.              *)
LEMMA HeldFollows == OInv => HeldAsAsked
  <1>. SUFFICES ASSUME OInv, NEW n \in Node, mcn[n].reg.state = "Rb"
                PROVE  mcn[n].last = mcn[Peer(n)].last
    BY DEF HeldAsAsked
  <1>. DEFINE k == Peer(n)
  <1>1. k \in Node /\ Peer(k) = n /\ Asking(k)
    BY TableAgrees, PeerFacts DEF OInv, Agree, Asking, State
  <1>. HIDE DEF k
  <1>2. PICK ask \in Asks[k], junk \in Word :
          Entt(ask) /\ Work(mcn[k], mcn[n], To(n), To(k), ask.cmd, junk)
    BY <1>1 DEF OInv, OpTable, WorkOf
  <1>3. Initiated(mcn[k], ask.cmd, junk) /\ Executed(mcn[k], mcn[n], ask.cmd, junk)
    BY <1>2 DEF Work
  <1>. QED  BY <1>3 DEF Initiated, Executed, k

(* last_alo_command serves both roles of an end, and still says of every    *)
(* transaction that an end holds what its initiator asked for.              *)
THEOREM MessagesHeldAsAsked == Spec => []HeldAsAsked
BY InitO, NextO, HeldFollows, PTL DEF Spec

\* What a packet received tells the caller of the messages in its queues, and
\* that nothing but a protocol error drops what an end is held for.
Tells(call, m) ==
  /\ "CLER_AIT" \notin call.act
  /\ "DROP_AIT" \in call.act <=> "DONE" \in call.flag /\ m.last # "ALO"
  /\ "FNSH" \in call.flag /\ m.last = "AIT" => "SIG_AIT" \in call.act
  /\ "DROP" \in call.flag /\ m.reg.state = "Rb" => "EROR" \in call.flag

(* What entl_received tells.                                                *)
LEMMA ReceivedTells ==
  ASSUME NEW m, IsMachine(m), m.reg \in Reg, NEW p, NEW ait, NEW cmd, NEW qfull, NEW res, NEW junk
  PROVE  Tells(Received(m, p, ait, cmd, qfull, res, junk), m)
  <1>. DEFINE call == Received(m, p, ait, cmd, qfull, res, junk)
              entt == ait \/ cmd.op # NOP
              link == LinkAction(m.reg, p.f, entt, qfull)
              b == [m EXCEPT !.reg = link.reg]
              out == Plain(link.ret)
              branch == CASE "STRT" \in link.flag -> Strt(b, out, cmd, junk)
                          [] "NEXT" \in link.flag -> Nxt(b, out, p, res)
                          [] "DONE" \in link.flag -> Done(b, out)
                          [] "RECV" \in link.flag -> Recv(b, out, p, junk)
                          [] "FNSH" \in link.flag -> Fnsh(b, out, p)
                          [] "DROP" \in link.flag -> Drop(b, out)
                          [] OTHER -> Result(b, out, {})
  <1>1. call.act = branch.act \cup LinkActs(link.flag) /\ call.flag = link.flag
    BY DEF Received
  <1>2. \E x \in Choosing : link.flag \cap Choosing \subseteq {x}
    <2>1. \/ \E x \in Choosing : link.flag \cap Choosing = {x}
          \/ link.flag \cap Choosing = {}
      <3>. HIDE DEF link
      <3>1. \/ link.flag \cap Choosing \in {{"STRT"}, {"RECV"}, {"NEXT"}}
            \/ \E x \in {"DONE", "FNSH", "DROP"} : link.flag \cap Choosing = {x}
            \/ link.flag \cap Choosing = {}
        BY LinkMoves DEF link
      <3>. QED  BY <3>1 DEF Choosing
    <2>. QED  BY <2>1 DEF Choosing
  <1>3. "DROP" \in link.flag /\ m.reg.state = "Rb" => "EROR" \in link.flag
    <2>1. CASE p.f.valid = 0
      BY <2>1 DEF LinkAction
    <2>2. CASE p.f.valid # 0 /\ p.f.s_or_r = 1
      BY <2>2 DEF LinkAction, OnSR, When
    <2>3. CASE p.f.valid # 0 /\ p.f.s_or_r # 1
      BY <2>3 DEF LinkAction, OnRR, When, Refused, Fails
    <2>. QED  BY <2>1, <2>2, <2>3
  <1>4. b.last = m.last
    BY DEF IsMachine
  <1>. HIDE DEF b, link, call
  <1>. DEFINE Told == {"CLER_AIT", "DROP_AIT", "SIG_AIT"}
  <1>5. LinkActs(link.flag) \cap Told = {}
    BY DEF LinkActs, When
  <1>6. /\ Strt(b, out, cmd, junk).act \cap Told = {}
        /\ Nxt(b, out, p, res).act \cap Told = {}
        /\ Done(b, out).act \cap Told =
             IF m.last = "ALO" THEN {} ELSE {"SIG_AIT", "DROP_AIT"}
        /\ Recv(b, out, p, junk).act \cap Told = {}
        /\ Fnsh(b, out, p).act \cap Told = IF m.last = "AIT" THEN {"SIG_AIT"} ELSE {}
        /\ Drop(b, out).act \cap Told = {}
        /\ Result(b, out, {}).act \cap Told = {}
    <2>. USE <1>4 DEF Result, When
    <2>1. Strt(b, out, cmd, junk).act \cap Told = {}
      BY DEF Strt
    <2>2. Nxt(b, out, p, res).act \cap Told = {}
      BY DEF Nxt
    <2>3. Done(b, out).act \cap Told = IF m.last = "ALO" THEN {} ELSE {"SIG_AIT", "DROP_AIT"}
      BY DEF Done
    <2>4. Recv(b, out, p, junk).act \cap Told = {}
      BY DEF Recv
    <2>5. Fnsh(b, out, p).act \cap Told = IF m.last = "AIT" THEN {"SIG_AIT"} ELSE {}
      BY DEF Fnsh
    <2>6. Drop(b, out).act \cap Told = {}
      BY DEF Drop
    <2>. QED  BY <2>1, <2>2, <2>3, <2>4, <2>5, <2>6
  <1>. HIDE DEF out
  <1>7. branch.act \cap Told =
          IF "DONE" \in link.flag
          THEN IF m.last = "ALO" THEN {} ELSE {"SIG_AIT", "DROP_AIT"}
          ELSE IF "FNSH" \in link.flag /\ m.last = "AIT" THEN {"SIG_AIT"} ELSE {}
    BY <1>2, <1>6 DEF Choosing
  <1>. HIDE DEF branch
  <1>. QED  BY <1>1, <1>3, <1>5, <1>7 DEF Tells, call

(* What a caller is told when a packet is received or a recovery sent.      *)
LEMMA StepTells ==
  ASSUME EInv, NEW n \in Node
  PROVE  /\ Receive(n) => Tells([act |-> act'[n], flag |-> flag'[n]], mcn[n])
         /\ SendRecover(n) /\ State(n) = "Rb" /\ mcn[n].last = "AIT" =>
              "CLER_AIT" \in act'[n] /\ "SIG_AIT" \notin act'[n]
  <1>1. Shape /\ mcn[n].reg \in Reg /\ IsMachine(mcn[n])
    BY LinkTypes DEF EInv, Shape
  <1>2. ASSUME Receive(n)
        PROVE  Tells([act |-> act'[n], flag |-> flag'[n]], mcn[n])
    <2>. DEFINE p == Head(chan[n])
    <2>1. PICK ask \in Asks[n], qfull \in QFull :
            \E res \in Outcomes(n, p), junk \in Junk(n, ask, p) :
              Take(n, Received(mcn[n], p, ask.ait, ask.cmd, qfull, res, junk))
      BY <1>2 DEF Receive
    <2>2. PICK res \in Outcomes(n, p), junk \in Junk(n, ask, p) :
            Take(n, Received(mcn[n], p, ask.ait, ask.cmd, qfull, res, junk))
      BY <2>1
    <2>. DEFINE call == Received(mcn[n], p, ask.ait, ask.cmd, qfull, res, junk)
    <2>3. Tells(call, mcn[n])
      BY <1>1, ReceivedTells
    <2>. HIDE DEF call
    <2>4. act'[n] = call.act /\ flag'[n] = call.flag
      BY <1>1, <2>2 DEF Take, Shape, call
    <2>. QED  BY <2>3, <2>4 DEF Tells
  <1>3. ASSUME SendRecover(n), State(n) = "Rb", mcn[n].last = "AIT"
        PROVE  "CLER_AIT" \in act'[n] /\ "SIG_AIT" \notin act'[n]
    <2>1. act'[n] = Recovered(mcn[n]).act
      BY <1>1, <1>3 DEF SendRecover, Take, Shape
    <2>2. "CLER" \in Recover(mcn[n].reg).flag
      BY <1>3 DEF Recover, When, State
    <2>. QED  BY <1>3, <2>1, <2>2 DEF Recovered, When
  <1>. QED  BY <1>2, <1>3

(* A message that an end holds is taken or cancelled.                       *)
LEMMA HeldStep ==
  ASSUME OInv, OInv', [Next]_vars, NEW n \in Node, State(n) = "Rb", mcn[n].last = "AIT",
         mcn'[n].reg.state # "Rb"
  PROVE  ("SIG_AIT" \in act'[n]) # ("CLER_AIT" \in act'[n])
  <1>1. EInv /\ Typed
    BY DEF OInv
  <1>2. CASE Receive(n)
    <2>1. PICK ask \in Asks[n], res \in {0, 1}, junk \in Word : \E p, o :
            Exchange(n, ask, p, o, res, junk)
      BY <1>1, <1>2, ReceiveExchange
    <2>2. \/ flag'[n] \cap Choosing = {"FNSH"} \/ flag'[n] \cap Choosing = {"DROP"}
      BY <2>1 DEF Exchange, Turn, Moves, State
    <2>3. Tells([act |-> act'[n], flag |-> flag'[n]], mcn[n])
      BY <1>1, <1>2, StepTells
    <2>4. "EROR" \notin flag'[n]
      BY SameNode DEF OInv, LP!Table, LP!NoProtocolError
    <2>. QED  BY <2>2, <2>3, <2>4 DEF Tells, Choosing, State
  <1>3. CASE SendRecover(n)
    BY <1>1, <1>3, StepTells
  <1>. QED  BY <1>1, <1>2, <1>3, OnlyOwnSteps DEF State

(* Whatever is lost: a caller that was given a message is told that it      *)
(* counts or that it does not, never both and never neither.                *)
THEOREM HeldMessagesResolved == Spec => HeldMessageResolved
  <1>. DEFINE Resolved(n) ==
         mcn[n].reg.state = "Rb" /\ mcn[n].last = "AIT" /\ mcn'[n].reg.state # "Rb" =>
           ("SIG_AIT" \in act'[n]) # ("CLER_AIT" \in act'[n])
  <1>1. OInv /\ OInv' /\ [Next]_vars => \A n \in Node : Resolved(n)
    BY HeldStep DEF State
  <1>2. OInv /\ [Next]_vars => OInv'
    BY NextO
  <1>3. OInv /\ [Next]_vars => [\A n \in Node : Resolved(n)]_vars
    BY <1>1, <1>2
  <1>. QED  BY <1>2, <1>3, InitO, PTL DEF Spec, HeldMessageResolved

(* A message sent is taken off its queue if the peer has taken it.          *)
LEMMA SentStep ==
  ASSUME MInv, [Next]_vars, NEW n \in Node, Asking(n), mcn'[n].reg.state \notin {"Ra", "Rp"},
         mcn[n].last = "AIT"
  PROVE  "DROP_AIT" \in act'[n] <=> taken[n]
  <1>1. EInv /\ Typed /\ Agree
    BY TableAgrees DEF MInv, OInv
  <1>2. ~SendRecover(n)
    BY <1>1, SendRecoverResumes DEF Resumes, Asking, State
  <1>3. Receive(n)
    BY <1>1, <1>2, OnlyOwnSteps DEF Asking, State
  <1>4. PICK ask \in Asks[n], res \in {0, 1}, junk \in Word : \E p, o :
          Exchange(n, ask, p, o, res, junk) /\ Passed(n, p, o)
    BY <1>1, <1>3, ReceiveExchange
  <1>5. PICK p, o : Exchange(n, ask, p, o, res, junk) /\ Passed(n, p, o)
    BY <1>4
  <1>6. Tells([act |-> act'[n], flag |-> flag'[n]], mcn[n])
    BY <1>1, <1>3, StepTells
  <1>7. "DROP_AIT" \in act'[n] <=> "DONE" \in flag'[n]
    BY <1>6 DEF Tells
  <1>8. p \in To(n) /\ taken[n] \in BOOLEAN
    BY <1>5, FateFacts DEF Passed
  <1>9. CASE Turn(n, "DONE", {"Rp"}, "NIL") /\ p.f.s_or_r = 0 /\ Completes(mcn[n].reg, p.f)
    BY <1>7, <1>8, <1>9, FateFacts DEF Turn, Moves, State, Choosing
  <1>10. CASE /\ Turn(n, "DROP", {"Ra", "Rp", "Rb"}, "NIL")
              /\ mcn[n].reg.state = "Rp" => p.f.s_or_r = 0 /\ ~Completes(mcn[n].reg, p.f)
    <2>1. "DONE" \notin flag'[n]
      BY <1>10 DEF Turn, Moves, Choosing
    <2>2. ~taken[n]
      BY <1>8, <1>10, FateFacts DEF Asking, State
    <2>. QED  BY <1>7, <2>1, <2>2
  <1>11. ~IsCommit(p)
    BY <1>1, <1>8 DEF Agree, Asking
  <1>12. \/ Turn(n, "DONE", {"Rp"}, "NIL") /\ p.f.s_or_r = 0 /\ Completes(mcn[n].reg, p.f)
         \/ /\ Turn(n, "DROP", {"Ra", "Rp", "Rb"}, "NIL")
            /\ mcn[n].reg.state = "Rp" => p.f.s_or_r = 0 /\ ~Completes(mcn[n].reg, p.f)
    BY <1>5, <1>11 DEF Exchange, Turn, Moves, Asking, State
  <1>. QED  BY <1>9, <1>10, <1>12

(* While recovery packets arrive, whatever else is lost: a message leaves   *)
(* its sender's queue exactly when its transaction ends with the peer's     *)
(* having taken it, so none is lost and none is sent twice.                 *)
THEOREM DequeuedTruly == LoseRecover = FALSE => (Spec => DequeuedIfTaken)
  <1>. SUFFICES ASSUME LoseRecover = FALSE PROVE Spec => DequeuedIfTaken
    OBVIOUS
  <1>. DEFINE Dequeued(n) ==
         /\ mcn[n].reg.state \in {"Ra", "Rp"} /\ mcn'[n].reg.state \notin {"Ra", "Rp"}
         /\ mcn[n].last = "AIT"
         => ("DROP_AIT" \in act'[n] <=> taken[n])
  <1>1. MInv /\ [Next]_vars => MInv' /\ \A n \in Node : Dequeued(n)
    BY NextM, SentStep DEF Asking, State
  <1>. HIDE DEF Dequeued
  <1>2. MInv /\ [Next]_vars => MInv' /\ [\A n \in Node : Dequeued(n)]_vars
    BY <1>1
  <1>. USE DEF Dequeued
  <1>. QED  BY <1>2, InitM, PTL DEF Spec, DequeuedIfTaken
=============================================================================
