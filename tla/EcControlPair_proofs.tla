------------------------ MODULE EcControlPair_proofs ------------------------
(***************************************************************************)
(* Theorems about EcControlPair.  The complete ends implement EcLinkPair:   *)
(* entl_received and entl_recover make the calls of ec_link.c that it       *)
(* makes, on the same fields, and pass their answers on unaltered.  So the  *)
(* theorems about the link hold of the complete ends, for every threshold,  *)
(* width, command and pattern of losses.  And an end between transactions   *)
(* has no operation pending.                                               *)
(***************************************************************************)
EXTENDS EcControlPair, SequenceTheorems, TLAPS

(* Node is a pair: the peer is the other end. *)
LEMMA PeerFacts ==
  /\ \A n \in Node : Peer(n) \in Node /\ Peer(n) # n /\ Peer(Peer(n)) = n
  /\ \A n, k \in Node : k = n \/ k = Peer(n)
BY DEF Node, Peer

-----------------------------------------------------------------------------
(* The link inside the ends *)

FieldsOf(s) == [i \in 1 .. Len(s) |-> s[i].f]

Regs == [n \in Node |-> mcn[n].reg]
Wires == [n \in Node |-> FieldsOf(chan[n])]
Wanted == [n \in Node |-> {Entt(ask) : ask \in Asks[n]}]

LP == INSTANCE EcLinkToken_proofs WITH reg <- Regs, chan <- Wires, Want <- Wanted

(* What EcLinkPair assumes of its constants. *)
LEMMA LinkEnvironment == LP!ThresholdsAssumption /\ LP!EnvironmentAssumption
PROOF
  <1>1. LP!ThresholdsAssumption
    BY ThresholdsAssumption DEF LP!ThresholdsAssumption
  <1>2. Wanted \in [Node -> (SUBSET BOOLEAN) \ {{}}]
    <2>. SUFFICES ASSUME NEW n \in Node
                  PROVE  {Entt(ask) : ask \in Asks[n]} \in (SUBSET BOOLEAN) \ {{}}
      BY DEF Wanted
    <2>1. Asks[n] \in (SUBSET Ask) \ {{}}
      BY EnvironmentAssumption
    <2>2. \A ask \in Ask : Entt(ask) \in BOOLEAN
      BY DEF Ask, Entt
    <2>. QED  BY <2>1, <2>2
  <1>3. LP!EnvironmentAssumption
    BY <1>2, EnvironmentAssumption DEF LP!EnvironmentAssumption, LP!Node, Node
  <1>. QED  BY <1>1, <1>3

(* The link calls of EcControl are those of EcLinkPair. *)
LEMMA SameAction ==
  ASSUME NEW r, NEW f, NEW entt, NEW qfull
  PROVE  LP!LinkAction(r, f, entt, qfull) = LinkAction(r, f, entt, qfull)
BY DEF LP!LinkAction, LinkAction, LP!OnSR, OnSR, LP!OnRR, OnRR, LP!NoField, NoField,
       LP!When, When,
       LP!PassesToken, PassesToken, LP!Accepts, Accepts, LP!Finishes, Finishes,
       LP!Aborts, Aborts, LP!HasToken, HasToken, LP!Wants, Wants, LP!Starts, Starts,
       LP!Granted, Granted, LP!Refused, Refused, LP!Completes, Completes,
       LP!Fails, Fails, LP!Impossible, Impossible, LP!Expires, Expires,
       LP!TcAfterRR, TcAfterRR, LP!TfAfterRR, TfAfterRR, LP!TokenAfterRR, TokenAfterRR,
       LP!StateAfterRR, StateAfterRR, LP!EnttBkoffAfterRR, EnttBkoffAfterRR,
       LP!TokenBkoffAfterRR, TokenBkoffAfterRR

\* ec_link_recover is the same in the instance.
LEMMA SameRecover ==
  ASSUME NEW r
  PROVE  LP!Recover(r) = Recover(r)
BY DEF LP!Recover, Recover, LP!RecoverField, RecoverField, LP!When, When

\* So are ec_link_init and the first ec_link_send.
LEMMA SameInit == LP!SendField(LP!InitReg) = SendField(InitReg) /\ LP!InitReg = InitReg
BY DEF LP!SendField, LP!InitReg, SendField, InitReg

(* LP is the link that EcControlPair is stated to implement. *)
LEMMA SameLink ==
  /\ Link!Init <=> LP!Init
  /\ Link!Next <=> LP!Next
  /\ Link!vars = LP!vars
PROOF
  <1>1. Link!vars = LP!vars
    BY DEF Link!vars, LP!vars, Regs, Wires, FieldsOf
  <1>2. Link!Init <=> LP!Init
    BY DEF Link!Init, LP!Init, Link!SendField, LP!SendField, Link!InitReg, LP!InitReg,
           Link!Node, LP!Node, Regs, Wires, FieldsOf
  <1>3. Link!Node = LP!Node /\ \A n : Link!Peer(n) = LP!Peer(n)
    BY DEF Link!Node, LP!Node, Link!Peer, LP!Peer
  <1>4. ASSUME NEW n
        PROVE  /\ Link!Alive(n) <=> LP!Alive(n)
               /\ Link!Owes(n) <=> LP!Owes(n)
    BY DEF Link!Alive, LP!Alive, Link!LoopOf, LP!LoopOf, Link!Owes, LP!Owes, Link!Node,
           LP!Node, Link!Peer, LP!Peer, Regs, Wires, FieldsOf
  <1>5. ASSUME NEW n
        PROVE  /\ Link!ReceiveSR(n) <=> LP!ReceiveSR(n)
               /\ Link!ReceiveRR(n) <=> LP!ReceiveRR(n)
    BY DEF Link!ReceiveSR, LP!ReceiveSR, Link!ReceiveRR, LP!ReceiveRR,
       Link!Handle, LP!Handle, Link!Record, LP!Record, Link!Owes, LP!Owes,
       Link!Node, LP!Node, Link!Peer, LP!Peer, Regs, Wires, FieldsOf, Wanted,
       Link!LinkAction, LP!LinkAction, Link!OnSR, LP!OnSR, Link!OnRR, LP!OnRR,
       Link!NoField, LP!NoField, Link!When, LP!When, Link!PassesToken, LP!PassesToken,
       Link!Accepts, LP!Accepts, Link!Finishes, LP!Finishes, Link!Aborts, LP!Aborts,
       Link!HasToken, LP!HasToken, Link!Wants, LP!Wants, Link!Starts, LP!Starts,
       Link!Granted, LP!Granted, Link!Refused, LP!Refused, Link!Completes, LP!Completes,
       Link!Fails, LP!Fails, Link!Impossible, LP!Impossible, Link!Expires, LP!Expires,
       Link!TcAfterRR, LP!TcAfterRR, Link!TfAfterRR, LP!TfAfterRR,
       Link!TokenAfterRR, LP!TokenAfterRR, Link!StateAfterRR, LP!StateAfterRR,
       Link!EnttBkoffAfterRR, LP!EnttBkoffAfterRR,
       Link!TokenBkoffAfterRR, LP!TokenBkoffAfterRR
  <1>6. ASSUME NEW n
        PROVE  Link!SendRecover(n) <=> LP!SendRecover(n)
    BY DEF Link!SendRecover, LP!SendRecover, Link!Owes, LP!Owes, Link!Node, LP!Node,
           Link!Peer, LP!Peer, Link!Recover, LP!Recover, Link!RecoverField,
           LP!RecoverField, Link!When, LP!When, Regs, Wires, FieldsOf
  <1>7. ASSUME NEW n
        PROVE  Link!Lose(n) <=> LP!Lose(n)
    BY DEF Link!Lose, LP!Lose, Link!Alive, LP!Alive, Link!LoopOf, LP!LoopOf, Link!Node,
           LP!Node, Link!Peer, LP!Peer, Link!RemoveAt, LP!RemoveAt, Regs, Wires, FieldsOf
  <1>8. Link!Next <=> LP!Next
    BY <1>3, <1>5, <1>6, <1>7 DEF Link!Next, LP!Next
  <1>. QED  BY <1>1, <1>2, <1>8

-----------------------------------------------------------------------------
(* Packets and their fields *)

\* The fields of a sequence of packets, one by one and in their order.
LEMMA FieldsFacts ==
  ASSUME NEW P, NEW s \in Seq(P)
  PROVE  /\ FieldsOf(s) \in Seq({p.f : p \in P})
         /\ Len(FieldsOf(s)) = Len(s) /\ Len(s) \in Nat
         /\ \A i \in 1 .. Len(s) : FieldsOf(s)[i] = s[i].f
PROOF
  <1>. DEFINE Q == {p.f : p \in P}
  <1>1. Len(s) \in Nat /\ \A i \in 1 .. Len(s) : s[i].f \in Q
    BY LenProperties, ElementOfSeq
  <1>. HIDE DEF Q
  <1>2. FieldsOf(s) \in [1 .. Len(s) -> Q]
    BY <1>1 DEF FieldsOf
  <1>3. FieldsOf(s) \in Seq(Q)
    BY <1>1, <1>2
  <1>4. Len(FieldsOf(s)) = Len(s)
    BY <1>1, <1>2, <1>3, LenProperties
  <1>. QED  BY <1>1, <1>3, <1>4 DEF FieldsOf, Q

(* The fields of the packets behind the first. *)
LEMMA FieldsTail ==
  ASSUME NEW P, NEW s \in Seq(P), s # <<>>
  PROVE  /\ Tail(s) \in Seq(P)
         /\ FieldsOf(s) # <<>> /\ Head(FieldsOf(s)) = Head(s).f
         /\ FieldsOf(Tail(s)) = Tail(FieldsOf(s))
PROOF
  <1>. DEFINE Q == {p.f : p \in P}
  <1>1. /\ FieldsOf(s) \in Seq(Q)
        /\ Len(FieldsOf(s)) = Len(s)
        /\ \A i \in 1 .. Len(s) : FieldsOf(s)[i] = s[i].f
    BY FieldsFacts
  <1>2. /\ Tail(s) \in Seq(P) /\ Len(Tail(s)) = Len(s) - 1 /\ Len(s) \in Nat \ {0}
        /\ \A i \in 1 .. Len(Tail(s)) : Tail(s)[i] = s[i + 1]
    BY HeadTailProperties, EmptySeq
  <1>3. /\ FieldsOf(Tail(s)) \in Seq(Q)
        /\ Len(FieldsOf(Tail(s))) = Len(Tail(s))
        /\ \A i \in 1 .. Len(Tail(s)) : FieldsOf(Tail(s))[i] = Tail(s)[i].f
    BY <1>2, FieldsFacts
  <1>. HIDE DEF Q
  <1>4. FieldsOf(s) # <<>>
    BY <1>1, <1>2
  <1>5. /\ Tail(FieldsOf(s)) \in Seq(Q) /\ Len(Tail(FieldsOf(s))) = Len(s) - 1
        /\ \A i \in 1 .. (Len(s) - 1) : Tail(FieldsOf(s))[i] = FieldsOf(s)[i + 1]
    BY <1>1, <1>4, HeadTailProperties
  <1>6. \A i \in 1 .. (Len(s) - 1) : FieldsOf(Tail(s))[i] = Tail(FieldsOf(s))[i]
    BY <1>1, <1>2, <1>3, <1>5
  <1>7. FieldsOf(Tail(s)) = Tail(FieldsOf(s))
    BY <1>2, <1>3, <1>5, <1>6, SeqEqual
  <1>8. Head(FieldsOf(s)) = Head(s).f
    <2>1. Head(FieldsOf(s)) = FieldsOf(s)[1] /\ Head(s) = s[1]
      BY <1>1
    <2>. QED  BY <2>1, <1>1, <1>2
  <1>. QED  BY <1>2, <1>4, <1>7, <1>8

(* The fields of the packets with one more behind them. *)
LEMMA FieldsAppend ==
  ASSUME NEW P, NEW s \in Seq(P), NEW e
  PROVE  /\ Append(s, e) \in Seq(P \cup {e})
         /\ FieldsOf(Append(s, e)) = Append(FieldsOf(s), e.f)
PROOF
  <1>. DEFINE P2 == P \cup {e}
              Q == {p.f : p \in P2}
  <1>1. s \in Seq(P2) /\ e \in P2
    BY SeqMonotonic
  <1>2. /\ FieldsOf(s) \in Seq(Q) /\ e.f \in Q /\ Len(s) \in Nat
        /\ Len(FieldsOf(s)) = Len(s)
        /\ \A i \in 1 .. Len(s) : FieldsOf(s)[i] = s[i].f
    BY <1>1, FieldsFacts
  <1>. HIDE DEF P2
  <1>3. /\ Append(s, e) \in Seq(P2) /\ Len(Append(s, e)) = Len(s) + 1
        /\ \A i \in 1 .. Len(s) : Append(s, e)[i] = s[i]
        /\ Append(s, e)[Len(s) + 1] = e
    BY <1>1, AppendProperties
  <1>4. /\ FieldsOf(Append(s, e)) \in Seq(Q)
        /\ Len(FieldsOf(Append(s, e))) = Len(s) + 1
        /\ \A i \in 1 .. (Len(s) + 1) : FieldsOf(Append(s, e))[i] = Append(s, e)[i].f
    BY <1>3, FieldsFacts
  <1>. HIDE DEF Q
  <1>5. /\ Append(FieldsOf(s), e.f) \in Seq(Q) /\ Len(Append(FieldsOf(s), e.f)) = Len(s) + 1
        /\ \A i \in 1 .. Len(s) : Append(FieldsOf(s), e.f)[i] = FieldsOf(s)[i]
        /\ Append(FieldsOf(s), e.f)[Len(s) + 1] = e.f
    BY <1>2, AppendProperties
  <1>6. \A i \in 1 .. (Len(s) + 1) : FieldsOf(Append(s, e))[i] = Append(FieldsOf(s), e.f)[i]
    <2>. SUFFICES ASSUME NEW i \in 1 .. (Len(s) + 1)
                  PROVE  FieldsOf(Append(s, e))[i] = Append(FieldsOf(s), e.f)[i]
      OBVIOUS
    <2>1. i \in 1 .. Len(s) \/ i = Len(s) + 1
      BY <1>2
    <2>. QED  BY <2>1, <1>2, <1>3, <1>4, <1>5
  <1>7. FieldsOf(Append(s, e)) = Append(FieldsOf(s), e.f)
    BY <1>4, <1>5, <1>6, SeqEqual
  <1>. QED  BY <1>3, <1>7 DEF P2

(* What is left when a packet is lost. *)
LEMMA Removed ==
  ASSUME NEW P, NEW s \in Seq(P), NEW d \in 1 .. Len(s)
  PROVE  /\ RemoveAt(s, d) \in Seq(P)
         /\ Len(RemoveAt(s, d)) = Len(s) - 1
         /\ \A i \in 1 .. (Len(s) - 1) : RemoveAt(s, d)[i] = s[IF i < d THEN i ELSE i + 1]
BY LinkEnvironment, LP!Removed DEF LP!RemoveAt, RemoveAt

(* ... and its fields. *)
LEMMA FieldsRemoved ==
  ASSUME NEW P, NEW s \in Seq(P), NEW d \in 1 .. Len(s)
  PROVE  FieldsOf(RemoveAt(s, d)) = RemoveAt(FieldsOf(s), d)
PROOF
  <1>. DEFINE Q == {p.f : p \in P}
              t == FieldsOf(s)
              u == RemoveAt(s, d)
  <1>1. /\ t \in Seq(Q) /\ Len(t) = Len(s) /\ Len(s) \in Nat
        /\ \A i \in 1 .. Len(s) : t[i] = s[i].f
    BY FieldsFacts
  <1>2. /\ u \in Seq(P) /\ Len(u) = Len(s) - 1
        /\ \A i \in 1 .. (Len(s) - 1) : u[i] = s[IF i < d THEN i ELSE i + 1]
    BY Removed
  <1>. HIDE DEF u
  <1>3. /\ FieldsOf(u) \in Seq(Q) /\ Len(FieldsOf(u)) = Len(s) - 1
        /\ \A i \in 1 .. (Len(s) - 1) : FieldsOf(u)[i] = u[i].f
    BY <1>2, FieldsFacts
  <1>. HIDE DEF Q, t
  <1>4. /\ RemoveAt(t, d) \in Seq(Q) /\ Len(RemoveAt(t, d)) = Len(s) - 1
        /\ \A i \in 1 .. (Len(s) - 1) : RemoveAt(t, d)[i] = t[IF i < d THEN i ELSE i + 1]
    BY <1>1, Removed
  <1>5. ASSUME NEW i \in 1 .. (Len(s) - 1)
        PROVE  FieldsOf(u)[i] = RemoveAt(t, d)[i]
    <2>1. (IF i < d THEN i ELSE i + 1) \in 1 .. Len(s)
      BY <1>1
    <2>. QED  BY <2>1, <1>1, <1>2, <1>3, <1>4
  <1>6. FieldsOf(u) = RemoveAt(t, d)
    BY <1>3, <1>4, <1>5, SeqEqual
  <1>. QED  BY <1>6 DEF u, t

-----------------------------------------------------------------------------
(* Machines.  What the values in an engine are does not matter here, only   *)
(* that it is a record with its fields.                                     *)
IsEngine(a) ==
  a = [reg |-> a.reg, result |-> a.result, retval |-> a.retval, rflag |-> a.rflag,
       flags |-> a.flags, pend |-> a.pend, at |-> a.at]

IsMachine(m) == /\ m = [reg |-> m.reg, ao |-> m.ao, last |-> m.last, fw |-> m.fw]
                /\ IsEngine(m.ao)

\* An operation is pending only while the last command was one and its
\* transaction is not over.
Settled(m) == /\ m.ao.pend # "none" => m.last = "ALO"
              /\ m.reg.state = "NIL" => m.ao.pend = "none"

(* The calls of atomic_link_op.c keep the shape, and the last one of an     *)
(* operation leaves nothing pending.                                        *)
LEMMA EngineFacts ==
  ASSUME NEW a, IsEngine(a)
  PROVE  /\ \A op, sr, junk : IsEngine(Initiate(a, op, sr, junk).alo)
         /\ \A op, dt, v, junk : IsEngine(Exec(a, op, dt, v, junk).alo)
         /\ \A st, v : IsEngine(NextStep(a, st, v)) /\ NextStep(a, st, v).pend = a.pend
         /\ IsEngine(Complete(a).alo) /\ Complete(a).alo.pend = "none"
         /\ \A st : IsEngine(Update(a, st).alo) /\ Update(a, st).alo.pend = "none"
         /\ IsEngine([a EXCEPT !.rflag = [ok |-> 0, zero |-> 0]])
PROOF
  <1>1. ASSUME NEW op, NEW sr, NEW junk
        PROVE  IsEngine(Initiate(a, op, sr, junk).alo)
    BY DEF IsEngine, Initiate, Pending, Idle
  <1>2. ASSUME NEW op, NEW dt, NEW v, NEW junk
        PROVE  IsEngine(Exec(a, op, dt, v, junk).alo)
    BY DEF IsEngine, Exec, Pending, Idle
  <1>3. ASSUME NEW st, NEW v
        PROVE  IsEngine(NextStep(a, st, v)) /\ NextStep(a, st, v).pend = a.pend
    BY DEF IsEngine, NextStep
  <1>4. IsEngine(Complete(a).alo) /\ Complete(a).alo.pend = "none"
    BY DEF IsEngine, Complete, Idle
  <1>5. ASSUME NEW st
        PROVE  IsEngine(Update(a, st).alo) /\ Update(a, st).alo.pend = "none"
    BY DEF IsEngine, Update, Idle
  <1>6. IsEngine([a EXCEPT !.rflag = [ok |-> 0, zero |-> 0]])
    BY DEF IsEngine
  <1>. QED  BY <1>1, <1>2, <1>3, <1>4, <1>5, <1>6

\* What every branch of entl_received does: the link register, the field that
\* goes out and the alarms are left to ec_link_action.
Passes(call, m, out) ==
  /\ IsMachine(call.mcn) /\ call.mcn.reg = m.reg
  /\ call.out.f = out.f
  /\ "RECOVER" \notin call.act

(* The branches, on a machine after the link call and a plain packet.       *)
LEMMA BranchFacts ==
  ASSUME NEW m, IsMachine(m), NEW f
  PROVE  LET out == Plain(f)
         IN  /\ \A cmd, junk : LET call == Strt(m, out, cmd, junk)
                               IN  /\ Passes(call, m, out)
                                   /\ call.mcn.last = "ALO" \/ call.mcn.ao = m.ao
             /\ \A p, res : LET call == Nxt(m, out, p, res)
                            IN  /\ Passes(call, m, out)
                                /\ call.mcn.last = m.last /\ call.mcn.ao.pend = m.ao.pend
             /\ LET call == Done(m, out)
                IN  /\ Passes(call, m, out)
                    /\ call.mcn.ao.pend = "none" \/ (m.last # "ALO" /\ call.mcn.ao = m.ao)
             /\ \A p, junk : LET call == Recv(m, out, p, junk)
                             IN  /\ Passes(call, m, out)
                                 /\ call.mcn.last = "ALO" \/ call.mcn.ao = m.ao
             /\ \A p : LET call == Fnsh(m, out, p)
                       IN  /\ Passes(call, m, out)
                           /\ call.mcn.ao.pend = "none" \/ (m.last = "AIT" /\ call.mcn.ao = m.ao)
             /\ LET call == Drop(m, out)
                IN  /\ Passes(call, m, out)
                    /\ call.mcn.ao.pend = "none" \/ (m.last = "AIT" /\ call.mcn.ao = m.ao)
PROOF
  <1>. DEFINE out == Plain(f)
  <1>. USE DEF Passes, Result, IsMachine
  <1>1. ASSUME NEW cmd, NEW junk
        PROVE  LET call == Strt(m, out, cmd, junk)
               IN  Passes(call, m, out) /\ (call.mcn.last = "ALO" \/ call.mcn.ao = m.ao)
    BY EngineFacts DEF Strt, Plain
  <1>2. ASSUME NEW p, NEW res
        PROVE  LET call == Nxt(m, out, p, res)
               IN  /\ Passes(call, m, out)
                   /\ call.mcn.last = m.last /\ call.mcn.ao.pend = m.ao.pend
    <2>0. \A st, v : IsEngine(NextStep(m.ao, st, v)) /\ NextStep(m.ao, st, v).pend = m.ao.pend
      BY EngineFacts
    <2>1. /\ IsEngine(NextStep(m.ao, p.st, p.value))
          /\ NextStep(m.ao, p.st, p.value).pend = m.ao.pend
      BY <2>0
    <2>2. CASE m.last = "ALO"
      BY <2>1, <2>2 DEF Nxt, Plain
    <2>3. CASE m.last # "ALO"
      BY <2>3 DEF Nxt
    <2>. QED  BY <2>2, <2>3
  <1>3. LET call == Done(m, out)
        IN  /\ Passes(call, m, out)
            /\ call.mcn.ao.pend = "none" \/ (m.last # "ALO" /\ call.mcn.ao = m.ao)
    BY EngineFacts DEF Done, When
  <1>4. ASSUME NEW p, NEW junk
        PROVE  LET call == Recv(m, out, p, junk)
               IN  Passes(call, m, out) /\ (call.mcn.last = "ALO" \/ call.mcn.ao = m.ao)
    BY EngineFacts DEF Recv, Plain, When
  <1>5. ASSUME NEW p
        PROVE  LET call == Fnsh(m, out, p)
               IN  /\ Passes(call, m, out)
                   /\ call.mcn.ao.pend = "none" \/ (m.last = "AIT" /\ call.mcn.ao = m.ao)
    <2>1. IsEngine(Update(m.ao, p.st).alo) /\ Update(m.ao, p.st).alo.pend = "none"
      BY EngineFacts
    <2>2. CASE m.last = "AIT"
      BY <2>2 DEF Fnsh, When
    <2>3. CASE m.last # "AIT"
      BY <2>1, <2>3 DEF Fnsh, When
    <2>. QED  BY <2>2, <2>3
  <1>6. LET call == Drop(m, out)
        IN  /\ Passes(call, m, out)
            /\ call.mcn.ao.pend = "none" \/ (m.last = "AIT" /\ call.mcn.ao = m.ao)
    <2>. DEFINE a == [m.ao EXCEPT !.rflag = [ok |-> 0, zero |-> 0]]
    <2>1. IsEngine(a)
      BY EngineFacts
    <2>2. IsEngine(Complete(a).alo) /\ Complete(a).alo.pend = "none"
      BY <2>1, EngineFacts
    <2>. HIDE DEF a
    <2>3. Drop(m, out) = IF m.last = "AIT" THEN Result(m, out, {})
                         ELSE Result([m EXCEPT !.ao = Complete(a).alo], out, {})
      BY DEF Drop, a
    <2>. QED  BY <2>2, <2>3
  <1>. QED  BY <1>1, <1>2, <1>3, <1>4, <1>5, <1>6

\* The flags that choose a branch of entl_received.
Choosing == {"STRT", "NEXT", "DONE", "RECV", "FNSH", "DROP"}

(* ec_link_action sets at most one of them, and the register's state says   *)
(* which: no other flag is set when a transaction begins, moves or ends.    *)
LEMMA LinkMoves ==
  ASSUME NEW r \in Reg, NEW f, NEW entt, NEW qfull
  PROVE  LET call == LinkAction(r, f, entt, qfull)
             moves(x, from, to) == /\ call.flag \cap Choosing = {x}
                                   /\ r.state \in from /\ call.reg.state = to
         IN  \/ moves("STRT", {"NIL"}, "Ra") \/ moves("RECV", {"NIL"}, "Rb")
             \/ moves("NEXT", {"Ra"}, "Rp")
             \/ \E x \in {"DONE", "FNSH", "DROP"} : moves(x, {"Ra", "Rp", "Rb"}, "NIL")
             \/ call.flag \cap Choosing = {} /\ call.reg.state = r.state
PROOF
  <1>. DEFINE call == LinkAction(r, f, entt, qfull)
              moves(x, from, to) == /\ call.flag \cap Choosing = {x}
                                    /\ r.state \in from /\ call.reg.state = to
  <1>0. r.state \in {"NIL", "Ra", "Rp", "Rb"}
    BY DEF Reg, EnttState
  <1>1. CASE f.valid = 0
    BY <1>1 DEF LinkAction, Choosing
  <1>2. CASE f.valid # 0 /\ f.s_or_r = 1
    <2>1. /\ call.flag = When(Accepts(r, f, qfull), {"RECV"})
                           \cup When(Finishes(r, f), {"FNSH"})
                           \cup When(Aborts(r, f), {"DROP", "EROR"})
          /\ call.reg.state = IF Accepts(r, f, qfull) THEN "Rb"
                              ELSE IF r.state = "Rb" THEN "NIL" ELSE r.state
      BY <1>2 DEF LinkAction, OnSR, Reg
    <2>. HIDE DEF call
    <2>2. CASE Accepts(r, f, qfull)
      <3>1. r.state = "NIL" /\ ~Finishes(r, f) /\ ~Aborts(r, f)
        BY <2>2 DEF Accepts, Finishes, Aborts
      <3>2. moves("RECV", {"NIL"}, "Rb")
        BY <2>1, <2>2, <3>1 DEF When, Choosing
      <3>. QED  BY <3>2 DEF call
    <2>3. CASE Finishes(r, f)
      <3>1. r.state = "Rb" /\ ~Accepts(r, f, qfull) /\ ~Aborts(r, f)
        BY <2>3 DEF Accepts, Finishes, Aborts
      <3>2. moves("FNSH", {"Ra", "Rp", "Rb"}, "NIL")
        BY <2>1, <2>3, <3>1 DEF When, Choosing
      <3>. QED  BY <3>2 DEF call
    <2>4. CASE Aborts(r, f)
      <3>1. r.state = "Rb" /\ ~Accepts(r, f, qfull) /\ ~Finishes(r, f)
        BY <2>4 DEF Accepts, Finishes, Aborts
      <3>2. moves("DROP", {"Ra", "Rp", "Rb"}, "NIL")
        BY <2>1, <2>4, <3>1 DEF When, Choosing
      <3>. QED  BY <3>2 DEF call
    <2>5. CASE ~Accepts(r, f, qfull) /\ ~Finishes(r, f) /\ ~Aborts(r, f)
      <3>1. r.state # "Rb"
        BY <2>5 DEF Finishes, Aborts
      <3>2. call.flag \cap Choosing = {} /\ call.reg.state = r.state
        BY <2>1, <2>5, <3>1 DEF When
      <3>. QED  BY <3>2 DEF call
    <2>. QED  BY <2>2, <2>3, <2>4, <2>5
  <1>3. CASE f.valid # 0 /\ f.s_or_r # 1
    <2>. DEFINE drops == Refused(r, f) \/ Fails(r, f)
    <2>1. /\ call.flag \cap Choosing =
               When(Starts(r, f, entt), {"STRT"}) \cup When(Granted(r, f), {"NEXT"})
                 \cup When(Completes(r, f), {"DONE"}) \cup When(drops, {"DROP"})
          /\ call.reg.state = StateAfterRR(r, f, entt)
      <3>1. call = OnRR(r, f, entt)
        BY <1>3 DEF LinkAction
      <3>2. call.reg.state = StateAfterRR(r, f, entt)
        <4>. DEFINE to == StateAfterRR(r, f, entt)
        <4>. HIDE DEF to
        <4>1. OnRR(r, f, entt).reg.state = to
          BY DEF OnRR, Reg, to
        <4>. QED  BY <4>1, <3>1 DEF to
      <3>3. call.flag = OnRR(r, f, entt).flag
        BY <3>1
      <3>. QED  BY <3>2, <3>3 DEF OnRR, When, Choosing
    <2>. HIDE DEF call
    <2>2. CASE Starts(r, f, entt)
      <3>1. r.state = "NIL" /\ ~Granted(r, f) /\ ~Completes(r, f) /\ ~drops
        BY <2>2 DEF Starts, Wants, Granted, Completes, Refused, Fails
      <3>2. moves("STRT", {"NIL"}, "Ra")
        BY <2>1, <2>2, <3>1 DEF When, StateAfterRR
      <3>. QED  BY <3>2 DEF call
    <2>3. CASE Granted(r, f)
      <3>1. r.state = "Ra" /\ ~Starts(r, f, entt) /\ ~Completes(r, f) /\ ~drops
        BY <2>3 DEF Starts, Wants, Granted, Completes, Refused, Fails
      <3>2. moves("NEXT", {"Ra"}, "Rp")
        BY <2>1, <2>3, <3>1 DEF When, StateAfterRR
      <3>. QED  BY <3>2 DEF call
    <2>4. CASE Completes(r, f)
      <3>1. r.state = "Rp" /\ ~Starts(r, f, entt) /\ ~Granted(r, f) /\ ~drops
        BY <2>4 DEF Starts, Wants, Granted, Completes, Refused, Fails
      <3>2. moves("DONE", {"Ra", "Rp", "Rb"}, "NIL")
        BY <2>1, <2>4, <3>1 DEF When, StateAfterRR
      <3>. QED  BY <3>2 DEF call
    <2>5. CASE drops
      <3>1. /\ r.state \in {"Ra", "Rp"}
            /\ ~Starts(r, f, entt) /\ ~Granted(r, f) /\ ~Completes(r, f)
        BY <2>5 DEF Starts, Wants, Granted, Completes, Refused, Fails
      <3>2. moves("DROP", {"Ra", "Rp", "Rb"}, "NIL")
        BY <2>1, <2>5, <3>1 DEF When, StateAfterRR
      <3>. QED  BY <3>2 DEF call
    <2>6. CASE /\ ~Starts(r, f, entt) /\ ~Granted(r, f) /\ ~Completes(r, f)
               /\ ~drops
      <3>1. r.state \in {"NIL", "Rb"}
        BY <2>6, <1>0 DEF Refused, Fails
      <3>2. call.flag \cap Choosing = {} /\ call.reg.state = r.state
        BY <2>1, <2>6, <3>1 DEF When, StateAfterRR
      <3>. QED  BY <3>2 DEF call
    <2>. QED  BY <2>2, <2>3, <2>4, <2>5, <2>6
  <1>. QED  BY <1>1, <1>2, <1>3

(* entl_received: one call of ec_link_action on the packet's field, whose   *)
(* register, answer, flags and alarm are its own; and it leaves no pending  *)
(* operation behind.                                                        *)
LEMMA ReceivedFacts ==
  ASSUME NEW m, IsMachine(m), m.reg \in Reg, NEW p, NEW ait, NEW cmd, NEW qfull,
         NEW res, NEW junk
  PROVE  LET call == Received(m, p, ait, cmd, qfull, res, junk)
             link == LinkAction(m.reg, p.f, ait \/ cmd.op # NOP, qfull)
         IN  /\ call.mcn.reg = link.reg /\ call.out.f = link.ret /\ call.flag = link.flag
             /\ "RECOVER" \in call.act <=> "RECOVER" \in link.flag
             /\ IsMachine(call.mcn)
             /\ Settled(m) => Settled(call.mcn)
PROOF
  <1>. DEFINE call == Received(m, p, ait, cmd, qfull, res, junk)
              link == LinkAction(m.reg, p.f, ait \/ cmd.op # NOP, qfull)
              b == [m EXCEPT !.reg = link.reg]
              out == Plain(link.ret)
              branch == CASE "STRT" \in link.flag -> Strt(b, out, cmd, junk)
                          [] "NEXT" \in link.flag -> Nxt(b, out, p, res)
                          [] "DONE" \in link.flag -> Done(b, out)
                          [] "RECV" \in link.flag -> Recv(b, out, p, junk)
                          [] "FNSH" \in link.flag -> Fnsh(b, out, p)
                          [] "DROP" \in link.flag -> Drop(b, out)
                          [] OTHER -> Result(b, out, {})
              ends(x) == /\ link.flag \cap Choosing = {x}
                         /\ m.reg.state \in {"Ra", "Rp", "Rb"} /\ link.reg.state = "NIL"
  <1>1. /\ call.mcn = branch.mcn /\ call.out = branch.out
        /\ call.act = branch.act \cup LinkActs(link.flag)
        /\ call.flag = link.flag
    BY DEF Received
  <1>2. \/ /\ link.flag \cap Choosing = {"STRT"}
           /\ m.reg.state = "NIL" /\ link.reg.state = "Ra"
        \/ /\ link.flag \cap Choosing = {"RECV"}
           /\ m.reg.state = "NIL" /\ link.reg.state = "Rb"
        \/ /\ link.flag \cap Choosing = {"NEXT"}
           /\ m.reg.state = "Ra" /\ link.reg.state = "Rp"
        \/ ends("DONE") \/ ends("FNSH") \/ ends("DROP")
        \/ link.flag \cap Choosing = {} /\ link.reg.state = m.reg.state
    <2>. HIDE DEF Choosing
    <2>. QED  BY LinkMoves
  <1>. HIDE DEF call, link
  <1>3. IsMachine(b) /\ b.reg = link.reg /\ b.ao = m.ao /\ b.last = m.last /\ out.f = link.ret
    BY DEF IsMachine, Plain
  <1>. HIDE DEF b
  <1>4. Passes(branch, b, out) /\ (Settled(m) => Settled(branch.mcn))
    <2>1. CASE /\ link.flag \cap Choosing = {"STRT"}
               /\ m.reg.state = "NIL" /\ link.reg.state = "Ra"
      <3>1. branch = Strt(b, out, cmd, junk)
        BY <2>1 DEF Choosing
      <3>2. /\ Passes(Strt(b, out, cmd, junk), b, out)
            /\ \/ Strt(b, out, cmd, junk).mcn.last = "ALO"
               \/ Strt(b, out, cmd, junk).mcn.ao = b.ao
        BY <1>3, BranchFacts
      <3>. QED  BY <2>1, <3>1, <3>2, <1>3 DEF Settled, Passes
    <2>2. CASE /\ link.flag \cap Choosing = {"RECV"}
               /\ m.reg.state = "NIL" /\ link.reg.state = "Rb"
      <3>1. branch = Recv(b, out, p, junk)
        BY <2>2 DEF Choosing
      <3>2. /\ Passes(Recv(b, out, p, junk), b, out)
            /\ \/ Recv(b, out, p, junk).mcn.last = "ALO"
               \/ Recv(b, out, p, junk).mcn.ao = b.ao
        BY <1>3, BranchFacts
      <3>. QED  BY <2>2, <3>1, <3>2, <1>3 DEF Settled, Passes
    <2>3. CASE /\ link.flag \cap Choosing = {"NEXT"}
               /\ m.reg.state = "Ra" /\ link.reg.state = "Rp"
      <3>1. branch = Nxt(b, out, p, res)
        BY <2>3 DEF Choosing
      <3>2. /\ Passes(Nxt(b, out, p, res), b, out)
            /\ Nxt(b, out, p, res).mcn.last = b.last
            /\ Nxt(b, out, p, res).mcn.ao.pend = b.ao.pend
        BY <1>3, BranchFacts
      <3>. QED  BY <2>3, <3>1, <3>2, <1>3 DEF Settled, Passes
    <2>4. CASE ends("DONE")
      <3>1. branch = Done(b, out)
        BY <2>4 DEF Choosing
      <3>2. /\ Passes(Done(b, out), b, out)
            /\ \/ Done(b, out).mcn.ao.pend = "none"
               \/ b.last # "ALO" /\ Done(b, out).mcn.ao = b.ao
        BY <1>3, BranchFacts
      <3>. QED  BY <3>1, <3>2, <1>3 DEF Settled, Passes
    <2>5. CASE ends("FNSH")
      <3>1. branch = Fnsh(b, out, p)
        BY <2>5 DEF Choosing
      <3>2. /\ Passes(Fnsh(b, out, p), b, out)
            /\ \/ Fnsh(b, out, p).mcn.ao.pend = "none"
               \/ b.last = "AIT" /\ Fnsh(b, out, p).mcn.ao = b.ao
        BY <1>3, BranchFacts
      <3>. QED  BY <3>1, <3>2, <1>3 DEF Settled, Passes
    <2>6. CASE ends("DROP")
      <3>1. branch = Drop(b, out)
        BY <2>6 DEF Choosing
      <3>2. /\ Passes(Drop(b, out), b, out)
            /\ \/ Drop(b, out).mcn.ao.pend = "none"
               \/ b.last = "AIT" /\ Drop(b, out).mcn.ao = b.ao
        BY <1>3, BranchFacts
      <3>. QED  BY <3>1, <3>2, <1>3 DEF Settled, Passes
    <2>7. CASE link.flag \cap Choosing = {} /\ link.reg.state = m.reg.state
      <3>1. branch = Result(b, out, {})
        BY <2>7 DEF Choosing
      <3>2. Passes(Result(b, out, {}), b, out) /\ Result(b, out, {}).mcn = b
        BY <1>3 DEF Passes, Result
      <3>. QED  BY <2>7, <3>1, <3>2, <1>3 DEF Settled, Passes
    <2>. QED  BY <1>2, <2>1, <2>2, <2>3, <2>4, <2>5, <2>6, <2>7
  <1>. HIDE DEF branch, out
  <1>5. "RECOVER" \in call.act <=> "RECOVER" \in link.flag
    BY <1>1, <1>4 DEF Passes, LinkActs, When
  <1>. QED  BY <1>1, <1>3, <1>4, <1>5 DEF Passes, call, link

(* entl_recover: one call of ec_link_recover.                               *)
LEMMA RecoveredFacts ==
  ASSUME NEW m, IsMachine(m), m.reg \in Reg
  PROVE  LET call == Recovered(m)
             link == Recover(m.reg)
         IN  /\ call.mcn.reg = link.reg /\ call.out.f = link.ret /\ call.flag = link.flag
             /\ "RECOVER" \notin call.act /\ "RECOVER" \notin call.flag
             /\ IsMachine(call.mcn)
             /\ Settled(m) => Settled(call.mcn)
PROOF
  <1>. DEFINE call == Recovered(m)
              link == Recover(m.reg)
              cancels == "CLER" \in link.flag
              b == [m EXCEPT !.reg = link.reg]
  <1>1. /\ call.mcn = IF cancels /\ m.last = "ALO" THEN [b EXCEPT !.ao = Update(@, 0).alo] ELSE b
        /\ call.out = Plain(link.ret) /\ call.flag = link.flag
        /\ call.act = {"SEND"} \cup When(cancels /\ m.last = "AIT", {"CLER_AIT"})
    BY DEF Recovered
  <1>2. /\ cancels <=> m.reg.state = "Rb"
        /\ link.reg.state = IF m.reg.state = "Rb" THEN "NIL" ELSE m.reg.state
        /\ "RECOVER" \notin link.flag
    BY DEF Recover, When, Reg
  <1>. HIDE DEF call, link, cancels
  <1>3. IsEngine(Update(m.ao, 0).alo) /\ Update(m.ao, 0).alo.pend = "none"
    BY EngineFacts DEF IsMachine
  <1>4. /\ IsMachine(b) /\ b.reg = link.reg /\ b.ao = m.ao /\ b.last = m.last
        /\ b = [reg |-> link.reg, ao |-> m.ao, last |-> m.last, fw |-> m.fw]
    BY DEF IsMachine
  <1>. HIDE DEF b
  <1>. DEFINE c == [b EXCEPT !.ao = Update(@, 0).alo]
  <1>5. /\ IsMachine(c) /\ c.reg = link.reg /\ c.ao.pend = "none" /\ c.last = m.last
    BY <1>3, <1>4 DEF IsMachine
  <1>. HIDE DEF c
  <1>6. /\ IsMachine(call.mcn) /\ call.mcn.reg = link.reg
        /\ Settled(m) => Settled(call.mcn)
    BY <1>1, <1>2, <1>4, <1>5 DEF Settled, c
  <1>7. call.out.f = link.ret /\ "RECOVER" \notin call.act
    BY <1>1 DEF Plain, When
  <1>. QED  BY <1>1, <1>2, <1>6, <1>7 DEF call, link

-----------------------------------------------------------------------------
(* Steps *)

\* The variables are arrays of machines, flags and packets, and the caller is
\* told of an alarm when ec_link_action raises one.
Shape == /\ mcn = [n \in Node |-> mcn[n]] /\ flag = [n \in Node |-> flag[n]]
         /\ act = [n \in Node |-> act[n]] /\ chan = [n \in Node |-> chan[n]]
         /\ \A n \in Node : /\ IsMachine(mcn[n])
                            /\ \E P : chan[n] \in Seq(P)
                            /\ "RECOVER" \in act[n] <=> "RECOVER" \in flag[n]

\* The two ends are those of the link.
LEMMA SameNode == LP!Node = Node /\ \A n \in Node : LP!Peer(n) = Peer(n)
BY DEF LP!Node, Node, LP!Peer, Peer

(* What the link's invariant says of the registers and fields in the ends.  *)
LEMMA LinkTypes ==
  ASSUME Shape, LP!IInv, NEW n \in Node
  PROVE  /\ mcn[n].reg \in Reg
         /\ chan[n] # <<>> => Head(chan[n]).f.s_or_r \in {0, 1}
PROOF
  <1>1. /\ Regs[n] \in LP!Reg /\ Wires[n] \in Seq(LP!Field)
    BY SameNode DEF LP!IInv, LP!TypeOK
  <1>2. mcn[n].reg \in Reg
    BY <1>1 DEF Regs, LP!Reg, Reg, LP!Bit, Bit, LP!EnttState, EnttState
  <1>3. ASSUME chan[n] # <<>>
        PROVE  Head(chan[n]).f.s_or_r \in {0, 1}
    <2>1. PICK P : chan[n] \in Seq(P)
      BY DEF Shape
    <2>2. FieldsOf(chan[n]) # <<>> /\ Head(FieldsOf(chan[n])) = Head(chan[n]).f
      BY <1>3, <2>1, FieldsTail
    <2>3. Head(Wires[n]) \in LP!Field
      BY <1>1, <2>2, HeadTailProperties DEF Wires
    <2>. QED  BY <2>2, <2>3 DEF Wires, LP!Field, LP!Bit
  <1>. QED  BY <1>2, <1>3

(* A call of an end, seen as one of its register.                           *)
LEMMA RegsAfterCall ==
  ASSUME Shape, NEW n \in Node, NEW m, IsMachine(m), mcn' = [mcn EXCEPT ![n] = m]
  PROVE  /\ Regs' = [Regs EXCEPT ![n] = m.reg]
         /\ mcn' = [k \in Node |-> mcn'[k]]
         /\ mcn'[n] = m /\ mcn'[Peer(n)] = mcn[Peer(n)]
PROOF
  <1>1. \A k \in Node : mcn'[k] = IF k = n THEN m ELSE mcn[k]
    BY DEF Shape
  <1>2. Regs' = [Regs EXCEPT ![n] = m.reg]
    <2>1. Regs' = [k \in Node |-> mcn'[k].reg]
      BY DEF Regs
    <2>2. [Regs EXCEPT ![n] = m.reg] = [k \in Node |-> IF k = n THEN m.reg ELSE mcn[k].reg]
      BY DEF Regs
    <2>3. \A k \in Node : mcn'[k].reg = IF k = n THEN m.reg ELSE mcn[k].reg
      BY <1>1
    <2>. QED  BY <2>1, <2>2, <2>3
  <1>. QED  BY <1>1, <1>2, PeerFacts DEF Shape

(* A packet is answered: so is its field.                                   *)
LEMMA WiresAfterCall ==
  ASSUME Shape, NEW n \in Node, chan[n] # <<>>, NEW e,
         chan' = [chan EXCEPT ![n] = Tail(@), ![Peer(n)] = Append(@, e)]
  PROVE  /\ Wires[n] # <<>> /\ Head(Wires[n]) = Head(chan[n]).f
         /\ Wires' = [Wires EXCEPT ![n] = Tail(@), ![Peer(n)] = Append(@, e.f)]
         /\ chan' = [k \in Node |-> chan'[k]]
         /\ \A k \in Node : \E P : chan'[k] \in Seq(P)
PROOF
  <1>. DEFINE p == Peer(n)
  <1>1. p \in Node /\ p # n /\ \A k \in Node : k = n \/ k = p
    BY PeerFacts
  <1>2. PICK P : chan[n] \in Seq(P)
    BY DEF Shape
  <1>3. PICK Q : chan[p] \in Seq(Q)
    BY <1>1 DEF Shape
  <1>4. chan'[n] = Tail(chan[n]) /\ chan'[p] = Append(chan[p], e)
    BY <1>1 DEF Shape
  <1>. HIDE DEF p
  <1>5. /\ Tail(chan[n]) \in Seq(P)
        /\ FieldsOf(chan[n]) # <<>> /\ Head(FieldsOf(chan[n])) = Head(chan[n]).f
        /\ FieldsOf(Tail(chan[n])) = Tail(FieldsOf(chan[n]))
    BY <1>2, FieldsTail
  <1>6. /\ Append(chan[p], e) \in Seq(Q \cup {e})
        /\ FieldsOf(Append(chan[p], e)) = Append(FieldsOf(chan[p]), e.f)
    BY <1>3, FieldsAppend
  <1>7. /\ Wires[n] = FieldsOf(chan[n]) /\ Wires[p] = FieldsOf(chan[p])
        /\ Wires' = [k \in Node |-> FieldsOf(chan'[k])]
    BY <1>1 DEF Wires
  <1>8. Wires' = [Wires EXCEPT ![n] = Tail(@), ![p] = Append(@, e.f)]
    <2>. DEFINE w == [Wires EXCEPT ![n] = Tail(@), ![p] = Append(@, e.f)]
    <2>1. w = [k \in Node |-> w[k]]
      BY DEF Wires
    <2>2. w[n] = Tail(Wires[n]) /\ w[p] = Append(Wires[p], e.f)
      BY <1>1 DEF Wires
    <2>. HIDE DEF w
    <2>3. \A k \in Node : FieldsOf(chan'[k]) = w[k]
      BY <2>2, <1>1, <1>4, <1>5, <1>6, <1>7
    <2>4. Wires' = w
      BY <2>1, <2>3, <1>7
    <2>. QED  BY <2>4 DEF w
  <1>9. chan' = [k \in Node |-> chan'[k]]
    BY DEF Shape
  <1>10. \A k \in Node : \E S : chan'[k] \in Seq(S)
    BY <1>1, <1>4, <1>5, <1>6
  <1>. QED  BY <1>5, <1>7, <1>8, <1>9, <1>10 DEF p

(* entl_received's step is one of ec_link_action, with what its caller asks *)
(* as entt, and leaves both ends settled.                                   *)
LEMMA ReceiveStep ==
  ASSUME Shape, LP!IInv, NEW n \in Node, Receive(n)
  PROVE  /\ Shape' /\ LP!Next
         /\ \A k \in Node : Settled(mcn[k]) => Settled(mcn'[k])
PROOF
  <1>. DEFINE f == Head(chan[n]).f
  <1>1. /\ ~Owes(n) /\ chan[n] # <<>> /\ mcn[n].reg \in Reg /\ f.s_or_r \in {0, 1}
        /\ IsMachine(mcn[n])
    BY LinkTypes DEF Receive, Shape
  <1>2. PICK ask \in Asks[n], qfull \in QFull :
          \E res \in Outcomes(n, Head(chan[n])), junk \in Junk(n, ask, Head(chan[n])) :
            LET call == Received(mcn[n], Head(chan[n]), ask.ait, ask.cmd, qfull, res, junk)
            IN  /\ Take(n, call)
                /\ chan' = [chan EXCEPT ![n] = Tail(@), ![Peer(n)] = Append(@, call.out)]
                /\ Record(n, call.flag)
    BY DEF Receive
  <1>3. PICK res, junk :
            LET call == Received(mcn[n], Head(chan[n]), ask.ait, ask.cmd, qfull, res, junk)
            IN  /\ Take(n, call)
                /\ chan' = [chan EXCEPT ![n] = Tail(@), ![Peer(n)] = Append(@, call.out)]
                /\ Record(n, call.flag)
    BY <1>2
  <1>. DEFINE call == Received(mcn[n], Head(chan[n]), ask.ait, ask.cmd, qfull, res, junk)
              link == LinkAction(mcn[n].reg, f, Entt(ask), qfull)
  <1>4. /\ call.mcn.reg = link.reg /\ call.out.f = link.ret /\ call.flag = link.flag
        /\ "RECOVER" \in call.act <=> "RECOVER" \in link.flag
        /\ IsMachine(call.mcn)
        /\ Settled(mcn[n]) => Settled(call.mcn)
    BY <1>1, ReceivedFacts DEF Entt
  <1>5. /\ mcn' = [mcn EXCEPT ![n] = call.mcn]
        /\ flag' = [flag EXCEPT ![n] = call.flag]
        /\ act' = [act EXCEPT ![n] = call.act]
        /\ chan' = [chan EXCEPT ![n] = Tail(@), ![Peer(n)] = Append(@, call.out)]
        /\ Record(n, call.flag)
    BY <1>3 DEF Take
  <1>. HIDE DEF call, link, f
  <1>m. PICK m, e : m = call.mcn /\ e = call.out
    OBVIOUS
  <1>6. /\ Regs' = [Regs EXCEPT ![n] = link.reg]
        /\ mcn' = [k \in Node |-> mcn'[k]]
        /\ mcn'[n] = call.mcn /\ mcn'[Peer(n)] = mcn[Peer(n)]
    <2>1. /\ Regs' = [Regs EXCEPT ![n] = m.reg]
          /\ mcn' = [k \in Node |-> mcn'[k]]
          /\ mcn'[n] = m /\ mcn'[Peer(n)] = mcn[Peer(n)]
      BY <1>4, <1>5, <1>m, RegsAfterCall
    <2>. QED  BY <2>1, <1>4, <1>m
  <1>7. /\ Wires[n] # <<>> /\ Head(Wires[n]) = f
        /\ Wires' = [Wires EXCEPT ![n] = Tail(@), ![Peer(n)] = Append(@, link.ret)]
        /\ chan' = [k \in Node |-> chan'[k]]
        /\ \A k \in Node : \E P : chan'[k] \in Seq(P)
    <2>1. /\ Wires[n] # <<>> /\ Head(Wires[n]) = Head(chan[n]).f
          /\ Wires' = [Wires EXCEPT ![n] = Tail(@), ![Peer(n)] = Append(@, e.f)]
          /\ chan' = [k \in Node |-> chan'[k]]
          /\ \A k \in Node : \E P : chan'[k] \in Seq(P)
      BY <1>1, <1>5, <1>m, WiresAfterCall
    <2>. QED  BY <2>1, <1>4, <1>m DEF f
  <1>8. Shape'
    <2>1. /\ flag'[n] = call.flag /\ flag'[Peer(n)] = flag[Peer(n)]
          /\ act'[n] = call.act /\ act'[Peer(n)] = act[Peer(n)]
          /\ flag' = [k \in Node |-> flag'[k]] /\ act' = [k \in Node |-> act'[k]]
      BY <1>5, PeerFacts DEF Shape
    <2>2. \A k \in Node : /\ IsMachine(mcn'[k])
                          /\ "RECOVER" \in act'[k] <=> "RECOVER" \in flag'[k]
      BY <2>1, <1>4, <1>6, PeerFacts DEF Shape
    <2>. QED  BY <2>1, <2>2, <1>6, <1>7 DEF Shape
  <1>9. LP!Record(n, link.flag)
    <2>1. Regs[n].state = mcn[n].reg.state
      BY DEF Regs
    <2>. QED  BY <2>1, <1>4, <1>5, SameNode DEF Record, LP!Record
  <1>10. ~LP!Owes(n) /\ Entt(ask) \in Wanted[n] /\ Regs[n] = mcn[n].reg
    BY <1>1 DEF LP!Owes, Owes, Shape, Wanted, Regs
  <1>11. ASSUME NEW q, link = LinkAction(mcn[n].reg, f, Entt(ask), q)
         PROVE  LP!Handle(n, Entt(ask), q)
    <2>1. link = LP!LinkAction(Regs[n], Head(Wires[n]), Entt(ask), q)
      BY <1>7, <1>10, <1>11, SameAction
    <2>. QED  BY <2>1, <1>4, <1>5, <1>6, <1>7, <1>9, SameNode DEF LP!Handle
  <1>12. CASE f.s_or_r = 1
    <2>1. LP!Handle(n, Entt(ask), qfull)
      BY <1>11 DEF link
    <2>2. LP!ReceiveSR(n)
      BY <2>1, <1>2, <1>7, <1>10, <1>12 DEF LP!ReceiveSR
    <2>. QED  BY <2>2, <1>4, <1>6, <1>8, SameNode, PeerFacts DEF LP!Next
  <1>13. CASE f.s_or_r = 0
    <2>1. link = LinkAction(mcn[n].reg, f, Entt(ask), FALSE)
      BY <1>13 DEF link, LinkAction
    <2>2. LP!Handle(n, Entt(ask), FALSE)
      BY <2>1, <1>11
    <2>3. LP!ReceiveRR(n)
      BY <2>2, <1>7, <1>10, <1>13 DEF LP!ReceiveRR
    <2>. QED  BY <2>3, <1>4, <1>6, <1>8, SameNode, PeerFacts DEF LP!Next
  <1>. QED  BY <1>1, <1>12, <1>13

(* entl_recover's step is one of ec_link_recover.                           *)
LEMMA SendRecoverStep ==
  ASSUME Shape, LP!IInv, NEW n \in Node, SendRecover(n)
  PROVE  /\ Shape' /\ LP!Next
         /\ \A k \in Node : Settled(mcn[k]) => Settled(mcn'[k])
PROOF
  <1>. DEFINE p == Peer(n)
              call == Recovered(mcn[n])
              link == Recover(mcn[n].reg)
  <1>0. p \in Node /\ p # n /\ \A k \in Node : k = n \/ k = p
    BY PeerFacts
  <1>1. /\ Owes(n) /\ UNCHANGED <<taken, told>>
        /\ mcn' = [mcn EXCEPT ![n] = call.mcn]
        /\ flag' = [flag EXCEPT ![n] = call.flag]
        /\ act' = [act EXCEPT ![n] = call.act]
        /\ chan' = [chan EXCEPT ![p] = Append(@, call.out)]
    BY DEF SendRecover, Take
  <1>2. /\ call.mcn.reg = link.reg /\ call.out.f = link.ret /\ call.flag = link.flag
        /\ "RECOVER" \notin call.act /\ "RECOVER" \notin call.flag
        /\ IsMachine(call.mcn)
        /\ Settled(mcn[n]) => Settled(call.mcn)
    BY LinkTypes, RecoveredFacts DEF Shape
  <1>. HIDE DEF call, link
  <1>3. /\ Regs' = [Regs EXCEPT ![n] = link.reg]
        /\ mcn' = [k \in Node |-> mcn'[k]]
        /\ mcn'[n] = call.mcn /\ mcn'[p] = mcn[p]
    <2>1. PICK m : m = call.mcn
      OBVIOUS
    <2>2. /\ Regs' = [Regs EXCEPT ![n] = m.reg]
          /\ mcn' = [k \in Node |-> mcn'[k]]
          /\ mcn'[n] = m /\ mcn'[Peer(n)] = mcn[Peer(n)]
      BY <2>1, <1>1, <1>2, RegsAfterCall
    <2>. QED  BY <2>1, <2>2, <1>2 DEF p
  <1>. HIDE DEF p
  <1>4. PICK Q : chan[p] \in Seq(Q)
    BY <1>0 DEF Shape
  <1>5. chan'[p] = Append(chan[p], call.out) /\ chan'[n] = chan[n]
    BY <1>0, <1>1 DEF Shape
  <1>6. /\ chan'[p] \in Seq(Q \cup {call.out})
        /\ FieldsOf(chan'[p]) = Append(FieldsOf(chan[p]), link.ret)
    <2>1. /\ Append(chan[p], call.out) \in Seq(Q \cup {call.out})
          /\ FieldsOf(Append(chan[p], call.out)) = Append(FieldsOf(chan[p]), call.out.f)
      BY <1>4, FieldsAppend
    <2>. QED  BY <2>1, <1>2, <1>5
  <1>7. Wires' = [Wires EXCEPT ![p] = Append(@, link.ret)]
    <2>. DEFINE w == [Wires EXCEPT ![p] = Append(@, link.ret)]
    <2>1. w = [k \in Node |-> w[k]] /\ Wires' = [k \in Node |-> FieldsOf(chan'[k])]
      BY DEF Wires
    <2>2. w[n] = FieldsOf(chan[n]) /\ w[p] = Append(FieldsOf(chan[p]), link.ret)
      BY <1>0 DEF Wires
    <2>. HIDE DEF w
    <2>3. \A k \in Node : FieldsOf(chan'[k]) = w[k]
      BY <2>2, <1>0, <1>5, <1>6
    <2>4. Wires' = w
      BY <2>1, <2>3
    <2>. QED  BY <2>4 DEF w
  <1>8. Shape'
    <2>1. /\ flag'[n] = call.flag /\ flag'[p] = flag[p]
          /\ act'[n] = call.act /\ act'[p] = act[p]
          /\ flag' = [k \in Node |-> flag'[k]] /\ act' = [k \in Node |-> act'[k]]
          /\ chan' = [k \in Node |-> chan'[k]]
      BY <1>0, <1>1 DEF Shape
    <2>2. \A k \in Node : /\ IsMachine(mcn'[k])
                          /\ "RECOVER" \in act'[k] <=> "RECOVER" \in flag'[k]
                          /\ \E P : chan'[k] \in Seq(P)
      BY <2>1, <1>0, <1>2, <1>3, <1>5, <1>6 DEF Shape
    <2>. QED  BY <2>1, <2>2, <1>3 DEF Shape
  <1>9. LP!SendRecover(n)
    <2>1. LP!Owes(n) /\ link = LP!Recover(Regs[n])
      BY <1>1, SameRecover DEF LP!Owes, Owes, Shape, Regs, link
    <2>. QED  BY <2>1, <1>1, <1>2, <1>3, <1>7, SameNode DEF LP!SendRecover, p
  <1>. QED  BY <1>0, <1>2, <1>3, <1>8, <1>9, SameNode DEF LP!Next

(* A lost packet is a lost field.                                           *)
LEMMA LoseStep ==
  ASSUME Shape, LP!IInv, NEW n \in Node, Lose(n)
  PROVE  /\ Shape' /\ LP!Next
         /\ \A k \in Node : Settled(mcn[k]) => Settled(mcn'[k])
PROOF
  <1>. DEFINE p == Peer(n)
  <1>0. p \in Node /\ p # n /\ \A k \in Node : k = n \/ k = p
    BY PeerFacts
  <1>1. PICK i \in 1 .. Len(chan[n]) :
          /\ LoseRecover \/ chan[n][i].f.recover = 0
          /\ chan' = [chan EXCEPT ![n] = RemoveAt(@, i)]
    BY DEF Lose
  <1>2. /\ CanLose
        /\ LoseBoth \/ \A m \in Node : Alive(m)
        /\ UNCHANGED <<mcn, flag, act, taken, told>>
    BY DEF Lose
  <1>3. ASSUME NEW k \in Node
        PROVE  /\ Len(Wires[k]) = Len(chan[k])
               /\ \A x \in 1 .. Len(chan[k]) : Wires[k][x] = chan[k][x].f
    <2>1. PICK P : chan[k] \in Seq(P)
      BY DEF Shape
    <2>. QED  BY <2>1, FieldsFacts DEF Wires
  <1>4. \A m : Alive(m) <=> LP!Alive(m)
    BY <1>3, SameNode DEF Alive, LP!Alive, LoopOf, LP!LoopOf
  <1>5. PICK P : chan[n] \in Seq(P)
    BY DEF Shape
  <1>6. chan'[n] = RemoveAt(chan[n], i) /\ chan'[p] = chan[p]
    BY <1>0, <1>1 DEF Shape
  <1>. HIDE DEF p
  <1>7. /\ chan'[n] \in Seq(P)
        /\ FieldsOf(chan'[n]) = LP!RemoveAt(FieldsOf(chan[n]), i)
    BY <1>5, <1>6, Removed, FieldsRemoved DEF RemoveAt, LP!RemoveAt
  <1>8. Wires' = [Wires EXCEPT ![n] = LP!RemoveAt(@, i)]
    <2>. DEFINE w == [Wires EXCEPT ![n] = LP!RemoveAt(@, i)]
    <2>1. w = [k \in Node |-> w[k]] /\ Wires' = [k \in Node |-> FieldsOf(chan'[k])]
      BY DEF Wires
    <2>2. w[p] = FieldsOf(chan[p]) /\ w[n] = LP!RemoveAt(FieldsOf(chan[n]), i)
      BY <1>0 DEF Wires
    <2>. HIDE DEF w
    <2>3. \A k \in Node : FieldsOf(chan'[k]) = w[k]
      BY <2>2, <1>0, <1>6, <1>7
    <2>4. Wires' = w
      BY <2>1, <2>3
    <2>. QED  BY <2>4 DEF w
  <1>9. Shape'
    <2>1. chan' = [k \in Node |-> chan'[k]] /\ \A k \in Node : \E S : chan'[k] \in Seq(S)
      BY <1>0, <1>1, <1>6, <1>7 DEF Shape
    <2>. QED  BY <2>1, <1>2 DEF Shape
  <1>10. LP!Lose(n)
    <2>1. Regs' = Regs
      BY <1>2 DEF Regs
    <2>2. i \in 1 .. Len(Wires[n]) /\ (LoseRecover \/ Wires[n][i].recover = 0)
      BY <1>1, <1>3
    <2>3. LoseBoth \/ \A m \in LP!Node : LP!Alive(m)
      BY <1>2, <1>4, SameNode
    <2>. QED  BY <2>1, <2>2, <2>3, <1>2, <1>8 DEF LP!Lose
  <1>. QED  BY <1>2, <1>9, <1>10, SameNode DEF LP!Next

-----------------------------------------------------------------------------
(* The invariant *)

EInv == Shape /\ LP!IInv /\ \A n \in Node : Settled(mcn[n])

(* What entl_state_init makes of its memory.                                *)
LEMMA EngineInit ==
  ASSUME NEW a, IsEngine(a)
  PROVE  IsEngine(RegsInit(a)) /\ RegsInit(a).pend = "none"
PROOF
  <1>. DEFINE x == [r \in RegNo |-> 0]
  <1>. HIDE DEF x
  <1>1. RegsInit(a) = [a EXCEPT !.reg = x, !.result = 0, !.flags = NoFlags,
                                !.pend = "none", !.at = 0]
    BY DEF RegsInit, x
  <1>. QED  BY <1>1 DEF IsEngine

\* entl_state_init leaves last_alo_command and last_d_addr alone.
LEMMA MachineInit ==
  ASSUME NEW m, IsMachine(m)
  PROVE  StateInit(m) = [reg |-> InitReg, ao |-> RegsInit(m.ao), last |-> m.last, fw |-> m.fw]
PROOF
  <1>. DEFINE x == RegsInit(m.ao)
              y == InitReg
  <1>1. StateInit(m) = [m EXCEPT !.reg = y, !.ao = x]
    BY DEF StateInit
  <1>. HIDE DEF x, y
  <1>2. StateInit(m) = [reg |-> y, ao |-> x, last |-> m.last, fw |-> m.fw]
    BY <1>1 DEF IsMachine
  <1>. QED  BY <1>2 DEF x, y

(* Whatever memory the machines start from, their link registers start      *)
(* clear and no operation is pending.                                       *)
LEMMA InitStep == Init => EInv /\ LP!Init
PROOF
  <1>. SUFFICES ASSUME Init PROVE EInv /\ LP!Init
    OBVIOUS
  <1>. DEFINE s == SendField(InitReg)
  <1>1. PICK start \in [Node -> Stale], g \in [Node -> [RegNo -> Word]] :
          mcn = [n \in Node |-> [StateInit(start[n]) EXCEPT !.ao.reg = g[n]]]
    BY DEF Init
  <1>2. /\ flag = [n \in Node |-> {}] /\ act = [n \in Node |-> {}]
        /\ chan = [n \in Node |-> <<Plain(s)>>]
        /\ taken = [n \in Node |-> FALSE] /\ told = [n \in Node |-> "none"]
    BY DEF Init
  <1>. HIDE DEF s
  <1>3. ASSUME NEW n \in Node
        PROVE  IsMachine(mcn[n]) /\ mcn[n].reg = InitReg /\ mcn[n].ao.pend = "none"
    <2>1. PICK m : m = start[n]
      OBVIOUS
    <2>2. m \in Memories
      BY <2>1, EnvironmentAssumption
    <2>3. PICK last \in {"AIT", "ALO"}, fw \in BOOLEAN, retval \in Word,
               ok \in Bit, zero \in Bit :
            m = [reg |-> InitReg, last |-> last, fw |-> fw,
                 ao |-> [reg |-> [r \in RegNo |-> 0], result |-> 0, retval |-> retval,
                         rflag |-> [ok |-> ok, zero |-> zero], flags |-> NoFlags,
                         pend |-> "none", at |-> 0]]
      BY <2>2 DEF Memories
    <2>4. IsMachine(m)
      <3>1. m.ao = [reg |-> [r \in RegNo |-> 0], result |-> 0, retval |-> retval,
                    rflag |-> [ok |-> ok, zero |-> zero], flags |-> NoFlags,
                    pend |-> "none", at |-> 0]
        BY <2>3
      <3>2. IsEngine(m.ao)
        BY <3>1 DEF IsEngine
      <3>3. m = [reg |-> m.reg, ao |-> m.ao, last |-> m.last, fw |-> m.fw]
        BY <2>3
      <3>. QED  BY <3>2, <3>3 DEF IsMachine
    <2>. DEFINE e == RegsInit(m.ao)
                z == StateInit(m)
    <2>5. mcn[n] = [z EXCEPT !.ao.reg = g[n]]
      BY <1>1, <2>1
    <2>6. IsEngine(e) /\ e.pend = "none"
      BY <2>4, EngineInit DEF IsMachine
    <2>7. z = [reg |-> InitReg, ao |-> e, last |-> m.last, fw |-> m.fw]
      BY <2>4, MachineInit
    <2>. HIDE DEF e, z
    <2>. DEFINE y == [e EXCEPT !.reg = g[n]]
    <2>8. IsEngine(y) /\ y.pend = "none"
      BY <2>6 DEF IsEngine
    <2>. HIDE DEF y
    <2>9. mcn[n] = [z EXCEPT !.ao = y]
      BY <2>5, <2>7 DEF y
    <2>10. mcn[n] = [reg |-> InitReg, ao |-> y, last |-> m.last, fw |-> m.fw]
      BY <2>7, <2>9
    <2>. QED  BY <2>8, <2>10 DEF IsMachine
  <1>4. InitReg.state = "NIL"
    BY DEF InitReg
  <1>5. Shape
    <2>1. \A n \in Node : \E P : chan[n] \in Seq(P)
      <3>1. <<Plain(s)>> \in Seq({Plain(s)})
        OBVIOUS
      <3>. QED  BY <3>1, <1>2
    <2>. QED  BY <2>1, <1>1, <1>2, <1>3 DEF Shape
  <1>6. LP!Init
    <2>1. Regs = [n \in Node |-> InitReg]
      BY <1>3 DEF Regs
    <2>2. FieldsOf(<<Plain(s)>>) = <<s>>
      BY DEF FieldsOf, Plain
    <2>3. Wires = [n \in Node |-> <<s>>]
      BY <1>2, <2>2 DEF Wires
    <2>. QED  BY <2>1, <2>3, <1>2, SameInit, SameNode DEF LP!Init, s
  <1>7. LP!IInv
    BY <1>6, LP!InitInv, LinkEnvironment
  <1>. QED  BY <1>3, <1>5, <1>6, <1>7 DEF EInv, Settled

(* Every step of the ends is a step of their link, or none of it.           *)
LEMMA NextStepOfLink ==
  ASSUME EInv, [Next]_vars
  PROVE  EInv' /\ [LP!Next]_(LP!vars)
PROOF
  <1>1. CASE Next
    <2>1. /\ Shape' /\ LP!Next
          /\ \A k \in Node : Settled(mcn[k]) => Settled(mcn'[k])
      BY <1>1, ReceiveStep, SendRecoverStep, LoseStep DEF Next, EInv
    <2>2. LP!IInv'
      BY <2>1, LP!NextInv, LinkEnvironment DEF EInv
    <2>. QED  BY <2>1, <2>2 DEF EInv
  <1>2. CASE UNCHANGED vars
    <2>1. UNCHANGED <<Regs, flag, Wires, taken, told>>
      BY <1>2 DEF vars, Regs, Wires
    <2>2. UNCHANGED LP!vars
      BY <2>1 DEF LP!vars
    <2>3. LP!IInv'
      BY <2>2, LP!NextInv, LinkEnvironment DEF EInv
    <2>4. Shape' /\ \A n \in Node : Settled(mcn'[n])
      BY <1>2 DEF vars, Shape, EInv
    <2>. QED  BY <2>2, <2>3, <2>4 DEF EInv
  <1>. QED  BY <1>1, <1>2

-----------------------------------------------------------------------------
(* Theorems *)

(* Primed, SameLink says the same of the next state. *)
LEMMA SameStep == [LP!Next]_(LP!vars) <=> [Link!Next]_(Link!vars)
PROOF
  <1>1. UNCHANGED LP!vars <=> UNCHANGED Link!vars
    BY DEF LP!vars, Link!vars, Regs, Wires, FieldsOf
  <1>. QED  BY <1>1, SameLink

(* The complete ends implement the register machines of EcLinkPair.         *)
THEOREM LinkIsImplemented == Spec => ImplementsLink
PROOF
  <1>1. Init => EInv /\ Link!Init
    BY InitStep, SameLink
  <1>2. EInv /\ [Next]_vars => EInv' /\ [Link!Next]_(Link!vars)
    BY NextStepOfLink, SameStep
  <1>. QED  BY <1>1, <1>2, PTL DEF Spec, ImplementsLink, Link!Spec

(* No operation stays pending past the transaction that brought it, however *)
(* it ends, so no later one can write in its place.                         *)
THEOREM NothingStaysPending == Spec => []NothingLeftPending
PROOF
  <1>1. Init => EInv
    BY InitStep
  <1>2. EInv /\ [Next]_vars => EInv'
    BY NextStepOfLink
  <1>3. EInv => NothingLeftPending
    BY DEF EInv, Settled, NothingLeftPending
  <1>. QED  BY <1>1, <1>2, <1>3, PTL DEF Spec

(* On a good wire a complete end that holds the token gives it away after   *)
(* at most TOKEN_HOLD_THRESHHOLD + 1 transactions of either kind.           *)
THEOREM EndGivesTokenInTime == CanLose = FALSE => (Spec => []TokenHoldBound)
PROOF
  <1>. SUFFICES ASSUME CanLose = FALSE  PROVE Spec => []TokenHoldBound
    OBVIOUS
  <1>. DEFINE Inv == EInv /\ LP!GoodInv
  <1>1. Init => Inv
    BY InitStep, LP!InitGood, LinkEnvironment
  <1>2. Inv /\ [Next]_vars => Inv'
    BY NextStepOfLink, LP!NextGood, LinkEnvironment DEF LP!GoodWire
  <1>3. Inv => TokenHoldBound
    BY SameNode DEF LP!GoodInv, LP!HoldsInTime, TokenHoldBound, Link!TokenHoldBound,
                    Regs, Link!Node, LP!Node
  <1>. QED  BY <1>1, <1>2, <1>3, PTL DEF Spec

(* On a good wire the complete ends never lose the token.                   *)
THEOREM EndsKeepToken == CanLose = FALSE => (Spec => TokenKept)
PROOF
  <1>. SUFFICES ASSUME CanLose = FALSE  PROVE Spec => TokenKept
    OBVIOUS
  <1>. DEFINE Inv == EInv /\ LP!GoodInv
  <1>1. Init => Inv
    BY InitStep, LP!InitGood, LinkEnvironment
  <1>2. Inv /\ [Next]_vars => Inv' /\ (LP!Tokens # {} => LP!Tokens' # {})
    BY NextStepOfLink, LP!NextGood, LinkEnvironment DEF LP!GoodWire
  <1>3. LP!Tokens = Link!Tokens /\ LP!Tokens' = Link!Tokens'
    BY DEF LP!Tokens, Link!Tokens, LP!Node, Link!Node, Regs, Wires, FieldsOf
  <1>4. Inv /\ [Next]_vars => [Link!Tokens # {} => Link!Tokens' # {}]_(Link!vars)
    BY <1>2, <1>3
  <1>. QED  BY <1>1, <1>2, <1>4, PTL DEF Spec, TokenKept, Link!TokenKept

(* While recovery packets arrive, the callers of two complete ends see the  *)
(* atomic transaction: each request is taken by the peer's caller at most   *)
(* once, and the one that asked is told the truth.                          *)
THEOREM EndsTransferAtomically == LoseRecover = FALSE => (Spec => ImplementsTransfer)
PROOF
  <1>. SUFFICES ASSUME LoseRecover = FALSE  PROVE Spec => ImplementsTransfer
    OBVIOUS
  <1>. DEFINE Inv == EInv /\ LP!TInv
  <1>1. Init => Inv /\ LP!Transfer!Init
    BY InitStep, LP!InitT, LP!InitMaps, LinkEnvironment
  <1>2. Inv /\ [Next]_vars => Inv' /\ [LP!Transfer!Next]_(LP!Transfer!vars)
    BY NextStepOfLink, LP!NextFate, LP!NextMaps, LinkEnvironment DEF LP!Reliable
  <1>3. /\ LP!Transfer!Init <=> Link!Transfer!Init
        /\ [LP!Transfer!Next]_(LP!Transfer!vars) <=> [Link!Transfer!Next]_(Link!Transfer!vars)
    BY DEF Link!Transfer!Init, LP!Transfer!Init, Link!Transfer!Next,
           LP!Transfer!Next, Link!Transfer!vars, LP!Transfer!vars,
           Link!Transfer!Ask, LP!Transfer!Ask, Link!Transfer!Hold,
           LP!Transfer!Hold, Link!Transfer!Refuse, LP!Transfer!Refuse,
           Link!Transfer!Take, LP!Transfer!Take, Link!Transfer!Release,
           LP!Transfer!Release, Link!Transfer!Tell, LP!Transfer!Tell,
           Link!Transfer!Move, LP!Transfer!Move, Link!Progress,
           LP!Progress, Link!Offered, LP!Offered, Link!Node, LP!Node,
           Link!Peer, LP!Peer, Regs, Wires, FieldsOf
  <1>. QED  BY <1>1, <1>2, <1>3, PTL
            DEF Spec, ImplementsTransfer, Link!ImplementsTransfer, Link!Transfer!Spec
=============================================================================
