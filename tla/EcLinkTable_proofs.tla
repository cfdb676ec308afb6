------------------------- MODULE EcLinkTable_proofs -------------------------
(***************************************************************************)
(* Theorems about transactions and SR values in EcLinkPair, for every       *)
(* threshold and environment.  They rest on a table of what the packet of a *)
(* loop may carry, given the registers of the two ends.                     *)
(***************************************************************************)
EXTENDS EcLinkPair_proofs

(* An SR on its way from the loop's owner own to peer: a request is owed an *)
(* answer, and an acknowledgement is on its way exactly while the owner has *)
(* been granted and the peer is held.                                       *)
FitsSR(f, own, peer) ==
  /\ f.entt = "ENTT" => own.state = "Ra"
  /\ f.entt = "ENTA" <=> own.state = "Rp"
  /\ own.state = "Rp" <=> peer.state = "Rb"
  /\ f.value # peer.rr

(* An RR on its way back: a grant is on its way exactly while the peer is   *)
(* held, and the last word of a peer that lost no packet ends a transaction *)
(* that was granted.                                                        *)
FitsRR(f, own, peer) ==
  /\ f.entt = "ENTT" <=> peer.state = "Rb"
  /\ f.entt = "ENTT" => own.state = "Ra" /\ f.recover = 0
  /\ f.recover = 0 => (f.entt = "ENTA" <=> own.state = "Rp")
  /\ f.value = peer.rr

\* A packet f on its way to end k, the registers being g: an SR there is of
\* the peer's loop, an RR of k's.
Fits(k, f, g) ==
  /\ f.s_or_r = 0 => FitsRR(f, g[k], g[Peer(k)])
  /\ f.s_or_r = 1 => FitsSR(f, g[Peer(k)], g[k])

AllFit == \A k \in Node : \A i \in 1 .. Len(chan[k]) : Fits(k, chan[k][i], reg)

Table == AllFit /\ HeldByRequester /\ NeverBothGranted /\ NoProtocolError

-----------------------------------------------------------------------------
(* Calls *)

\* The changes that the table does not see, at the owner and at the peer.
SameOwn(r, s) == (r.state = "Ra" <=> s.state = "Ra") /\ (r.state = "Rp" <=> s.state = "Rp")
SamePeer(r, s) == (r.state = "Rb" <=> s.state = "Rb") /\ r.rr = s.rr

\* A packet that fits two registers fits them after such changes.
LEMMA SameFits ==
  ASSUME NEW f, NEW own, NEW peer, NEW own2, NEW peer2,
         SameOwn(own2, own), SamePeer(peer2, peer)
  PROVE  /\ FitsSR(f, own, peer) => FitsSR(f, own2, peer2)
         /\ FitsRR(f, own, peer) => FitsRR(f, own2, peer2)
BY DEF SameOwn, SamePeer, FitsSR, FitsRR

(* The answer to an SR fits what the answering end has become. *)
LEMMA OnSRTable ==
  ASSUME NEW r \in Reg, NEW own \in Reg, NEW f \in Field, NEW entt \in BOOLEAN,
         NEW qfull \in BOOLEAN, FitsSR(f, own, r)
  PROVE  LET call == OnSR(r, f, entt, qfull)
         IN  /\ FitsRR(call.ret, own, call.reg)
             /\ SameOwn(call.reg, r)
             /\ call.reg.state = "Rb" => own.state = "Ra"
             /\ "EROR" \notin call.flag
  <1>. DEFINE call == OnSR(r, f, entt, qfull)
  <1>1. /\ call.reg.state = IF Accepts(r, f, qfull) THEN "Rb"
                            ELSE IF r.state = "Rb" THEN "NIL" ELSE r.state
        /\ call.reg.rr = f.value
    BY DEF OnSR, Reg
  <1>2. /\ call.ret.value = f.value /\ call.ret.recover = 0
        /\ call.ret.entt = IF Accepts(r, f, qfull) THEN "ENTT"
                           ELSE IF Finishes(r, f) THEN "ENTA" ELSE "ENTL"
    BY DEF OnSR
  <1>3. call.flag = When(Accepts(r, f, qfull), {"RECV"})
                      \cup When(Finishes(r, f), {"FNSH"})
                      \cup When(Aborts(r, f), {"DROP", "EROR"})
    BY DEF OnSR
  <1>. HIDE DEF call
  <1>4. ~Aborts(r, f)
    BY DEF Aborts, FitsSR
  <1>5. "EROR" \notin call.flag
    BY <1>3, <1>4 DEF When
  <1>6. CASE Accepts(r, f, qfull)
    <2>1. r.state = "NIL" /\ own.state = "Ra"
      BY <1>6 DEF Accepts, FitsSR
    <2>2. call.reg.state = "Rb" /\ call.ret.entt = "ENTT" /\ own.state # "Rp"
      BY <1>1, <1>2, <1>6, <2>1
    <2>3. FitsRR(call.ret, own, call.reg)
      BY <1>1, <1>2, <2>1, <2>2 DEF FitsRR
    <2>4. SameOwn(call.reg, r)
      BY <2>1, <2>2 DEF SameOwn
    <2>. QED  BY <1>5, <2>1, <2>3, <2>4 DEF call
  <1>7. CASE ~Accepts(r, f, qfull)
    <2>1. Finishes(r, f) <=> own.state = "Rp"
      BY DEF Finishes, FitsSR
    <2>2. /\ call.reg.state = IF r.state = "Rb" THEN "NIL" ELSE r.state
          /\ call.ret.entt = IF Finishes(r, f) THEN "ENTA" ELSE "ENTL"
      BY <1>1, <1>2, <1>7
    <2>3. call.reg.state # "Rb"
      BY <2>2
    <2>4. FitsRR(call.ret, own, call.reg)
      BY <1>1, <1>2, <2>1, <2>2, <2>3 DEF FitsRR
    <2>5. SameOwn(call.reg, r)
      BY <2>2 DEF SameOwn
    <2>. QED  BY <1>5, <2>3, <2>4, <2>5 DEF call
  <1>. QED  BY <1>6, <1>7 DEF call

(* The next SR fits what the owner has become. *)
LEMMA OnRRTable ==
  ASSUME NEW r \in Reg, NEW peer \in Reg, NEW f \in Field, NEW entt \in BOOLEAN,
         FitsRR(f, r, peer)
  PROVE  LET call == OnRR(r, f, entt)
         IN  /\ FitsSR(call.ret, call.reg, peer)
             /\ SamePeer(call.reg, r)
             /\ call.reg.state = "Rp" <=> peer.state = "Rb"
             /\ "EROR" \notin call.flag
  <1>. DEFINE call == OnRR(r, f, entt)
  <1>1. call.reg.state = StateAfterRR(r, f, entt) /\ call.reg.rr = r.rr
    BY DEF OnRR, Reg
  <1>2. /\ call.ret.value = 1 - f.value
        /\ call.ret.entt = IF Starts(r, f, entt) THEN "ENTT"
                           ELSE IF Granted(r, f) THEN "ENTA" ELSE "ENTL"
    BY DEF OnRR
  <1>3. ~Impossible(r, f) => "EROR" \notin call.flag
    BY DEF OnRR, When
  <1>. HIDE DEF call
  <1>4. f.recover \in {0, 1} /\ f.entt \in {"ENTL", "ENTT", "ENTA"} /\ f.value \in {0, 1}
    BY DEF Field, Bit, EnttField
  <1>5. Granted(r, f) <=> peer.state = "Rb"
    BY <1>4 DEF Granted, FitsRR
  <1>6. Starts(r, f, entt) => r.state = "NIL"
    BY DEF Starts, Wants
  <1>7. ~Impossible(r, f)
    BY <1>4, <1>5 DEF Impossible, Refused, Fails, Completes, Granted, FitsRR
  <1>8. call.reg.state = "Rp" <=> Granted(r, f)
    BY <1>1, <1>6 DEF StateAfterRR, Granted
  <1>9. SamePeer(call.reg, r)
    BY <1>1, <1>6 DEF StateAfterRR, SamePeer, Granted
  <1>10. call.ret.entt = "ENTT" => call.reg.state = "Ra"
    BY <1>1, <1>2 DEF StateAfterRR
  <1>11. call.ret.entt = "ENTA" <=> Granted(r, f)
    BY <1>2, <1>6 DEF Granted
  <1>12. call.ret.value # peer.rr
    BY <1>2, <1>4 DEF FitsRR
  <1>. QED  BY <1>3, <1>5, <1>7, <1>8, <1>9, <1>10, <1>11, <1>12 DEF FitsSR, call

(* A recovery packet fits an end that has dropped what it was held for. *)
LEMMA RecoverTable ==
  ASSUME NEW r \in Reg, NEW own
  PROVE  LET call == Recover(r)
         IN  /\ FitsRR(call.ret, own, call.reg)
             /\ SameOwn(call.reg, r)
             /\ call.reg.state # "Rb"
             /\ "EROR" \notin call.flag
  <1>1. /\ Recover(r).reg.state = IF r.state = "Rb" THEN "NIL" ELSE r.state
        /\ Recover(r).reg.rr = r.rr
    BY DEF Recover, Reg
  <1>2. "EROR" \notin Recover(r).flag
    BY DEF Recover, When
  <1>3. /\ Recover(r).ret.recover = 1 /\ Recover(r).ret.value = r.rr
        /\ Recover(r).ret.entt # "ENTT"
    BY DEF Recover, RecoverField
  <1>. QED  BY <1>1, <1>2, <1>3 DEF FitsRR, SameOwn

-----------------------------------------------------------------------------
(* Steps *)

(* A step of end n leaves a packet fitting if it keeps what the packet's    *)
(* loop sees of n.                                                          *)
LEMMA OtherPackets ==
  ASSUME NEW n \in Node, NEW g, NEW h, h[Peer(n)] = g[Peer(n)],
         NEW k \in Node, NEW f, Fits(k, f, g),
         LoopOf(k, f) = n => SameOwn(h[n], g[n]),
         LoopOf(k, f) # n => SamePeer(h[n], g[n])
  PROVE  Fits(k, f, h)
PROOF
  <1>1. SameOwn(g[Peer(n)], g[Peer(n)]) /\ SamePeer(g[Peer(n)], g[Peer(n)])
    BY DEF SameOwn, SamePeer
  <1>2. Peer(n) # n /\ Peer(Peer(n)) = n /\ (k = n \/ k = Peer(n))
    BY PeerFacts
  <1>3. CASE f.s_or_r = 0
    <2>1. CASE k = n
      <3>1. SameOwn(h[n], g[n])
        BY <1>3, <2>1 DEF LoopOf
      <3>2. FitsRR(f, g[n], g[Peer(n)])
        BY <1>3, <2>1 DEF Fits
      <3>3. FitsRR(f, h[n], h[Peer(n)])
        BY <1>1, <3>1, <3>2, SameFits
      <3>. QED  BY <1>3, <2>1, <3>3 DEF Fits
    <2>2. CASE k = Peer(n)
      <3>1. SamePeer(h[n], g[n])
        BY <1>2, <1>3, <2>2 DEF LoopOf
      <3>2. FitsRR(f, g[Peer(n)], g[n])
        BY <1>2, <1>3, <2>2 DEF Fits
      <3>3. FitsRR(f, h[Peer(n)], h[n])
        BY <1>1, <3>1, <3>2, SameFits
      <3>. QED  BY <1>2, <1>3, <2>2, <3>3 DEF Fits
    <2>. QED  BY <1>2, <2>1, <2>2
  <1>4. CASE f.s_or_r = 1
    <2>1. CASE k = n
      <3>1. SamePeer(h[n], g[n])
        BY <1>2, <1>4, <2>1 DEF LoopOf
      <3>2. FitsSR(f, g[Peer(n)], g[n])
        BY <1>4, <2>1 DEF Fits
      <3>3. FitsSR(f, h[Peer(n)], h[n])
        BY <1>1, <3>1, <3>2, SameFits
      <3>. QED  BY <1>4, <2>1, <3>3 DEF Fits
    <2>2. CASE k = Peer(n)
      <3>1. SameOwn(h[n], g[n])
        BY <1>2, <1>4, <2>2 DEF LoopOf
      <3>2. FitsSR(f, g[n], g[Peer(n)])
        BY <1>2, <1>4, <2>2 DEF Fits
      <3>3. FitsSR(f, h[n], h[Peer(n)])
        BY <1>1, <3>1, <3>2, SameFits
      <3>. QED  BY <1>2, <1>4, <2>2, <3>3 DEF Fits
    <2>. QED  BY <1>2, <2>1, <2>2
  <1>. QED  BY <1>3, <1>4 DEF Fits

(* After a call of end n the only packet of the loop it served is the       *)
(* answer; every other packet was there before.                             *)
LEMMA AfterCall ==
  ASSUME IInv, NEW n \in Node, chan[n] # <<>>, NEW e \in Field, Handled(n, e),
         NEW k \in Node, NEW i \in 1 .. Len(chan'[k])
  PROVE  \/ k = Peer(n) /\ chan'[k][i] = e
         \/ \E x \in 1 .. Len(chan[k]) :
              /\ chan'[k][i] = chan[k][x]
              /\ LoopOf(k, chan[k][x]) # LoopOf(n, Head(chan[n]))
PROOF
  <1>. DEFINE p == Peer(n)
  <1>1. p \in Node /\ p # n /\ (k = n \/ k = p)
    BY PeerFacts
  <1>. HIDE DEF p
  <1>2. chan \in [Node -> Seq(Field)] /\ OnePacketPerLoop
    BY DEF IInv, TypeOK, Watchdog
  <1>3. /\ Head(chan[n]) = chan[n][1]
        /\ Len(chan[n]) \in Nat \ {0} /\ Len(chan[p]) \in Nat
        /\ Len(chan'[n]) = Len(chan[n]) - 1
        /\ \A j \in 1 .. Len(chan'[n]) : chan'[n][j] = chan[n][j + 1]
        /\ Len(chan'[p]) = Len(chan[p]) + 1
        /\ \A j \in 1 .. Len(chan[p]) : chan'[p][j] = chan[p][j]
        /\ chan'[p][Len(chan[p]) + 1] = e
    BY <1>2, HandledSlots DEF p
  <1>4. 1 \in 1 .. Len(chan[n])
    BY <1>3
  <1>5. CASE k = n
    <2>1. i + 1 \in 1 .. Len(chan[n]) /\ i + 1 # 1 /\ chan'[n][i] = chan[n][i + 1]
      BY <1>3, <1>5
    <2>2. LoopOf(n, chan[n][i + 1]) # LoopOf(n, chan[n][1])
      BY <1>2, <1>4, <2>1, SamePacket
    <2>. QED  BY <1>3, <1>5, <2>1, <2>2
  <1>6. CASE k = p /\ i \in 1 .. Len(chan[p])
    <2>1. LoopOf(p, chan[p][i]) # LoopOf(n, chan[n][1])
      BY <1>1, <1>2, <1>4, <1>6, SamePacket
    <2>. QED  BY <1>3, <1>6, <2>1
  <1>7. CASE k = p /\ i = Len(chan[p]) + 1
    BY <1>3, <1>7 DEF p
  <1>. QED  BY <1>1, <1>3, <1>5, <1>6, <1>7

(* A call passes on the packet it takes: no loop dies of it. *)
LEMMA LoopsGoOn ==
  ASSUME IInv, NEW n \in Node, chan[n] # <<>>, NEW e \in Field, Handled(n, e),
         e.s_or_r = 1 - Head(chan[n]).s_or_r,
         NEW m, Alive(m)
  PROVE  Alive(m)'
PROOF
  <1>. DEFINE p == Peer(n)
  <1>1. p \in Node /\ p # n /\ Peer(p) = n /\ \A k \in Node : k = n \/ k = p
    BY PeerFacts
  <1>2. chan \in [Node -> Seq(Field)]
    BY DEF IInv, TypeOK
  <1>3. /\ Head(chan[n]) = chan[n][1] /\ Head(chan[n]) \in Field
        /\ Len(chan[n]) \in Nat \ {0} /\ Len(chan[p]) \in Nat
        /\ Len(chan'[n]) = Len(chan[n]) - 1
        /\ \A i \in 1 .. Len(chan'[n]) : chan'[n][i] = chan[n][i + 1]
        /\ Len(chan'[p]) = Len(chan[p]) + 1
        /\ \A i \in 1 .. Len(chan[p]) : chan'[p][i] = chan[p][i]
        /\ chan'[p][Len(chan[p]) + 1] = e
    BY <1>2, HandledSlots
  <1>4. LoopOf(p, e) = LoopOf(n, chan[n][1])
    BY <1>1, <1>3 DEF LoopOf, Field, Bit, p
  <1>. HIDE DEF p
  <1>0. PICK k \in Node : \E x \in 1 .. Len(chan[k]) : LoopOf(k, chan[k][x]) = m
    BY DEF Alive
  <1>5. PICK x \in 1 .. Len(chan[k]) : LoopOf(k, chan[k][x]) = m
    BY <1>0
  <1>. SUFFICES \E l \in Node : \E i \in 1 .. Len(chan'[l]) : LoopOf(l, chan'[l][i]) = m
    BY DEF Alive
  <1>6. CASE k = n /\ x = 1
    <2>1. Len(chan[p]) + 1 \in 1 .. Len(chan'[p])
      BY <1>3
    <2>2. LoopOf(p, chan'[p][Len(chan[p]) + 1]) = m
      BY <1>3, <1>4, <1>5, <1>6
    <2>. QED  BY <2>1, <2>2, <1>1
  <1>7. CASE k = n /\ x # 1
    <2>1. x - 1 \in 1 .. Len(chan'[n]) /\ (x - 1) + 1 = x
      BY <1>3, <1>7
    <2>2. chan'[n][x - 1] = chan[n][x]
      BY <2>1, <1>3
    <2>3. LoopOf(n, chan'[n][x - 1]) = m
      BY <2>2, <1>5, <1>7
    <2>. QED  BY <2>1, <2>3
  <1>8. CASE k = p
    <2>1. x \in 1 .. Len(chan'[p]) /\ LoopOf(p, chan'[p][x]) = m
      BY <1>3, <1>5, <1>8
    <2>. QED  BY <2>1, <1>1
  <1>. QED  BY <1>1, <1>6, <1>7, <1>8

(* A call on an SR keeps the table. *)
LEMMA ReceiveSRTable ==
  ASSUME IInv, Table, NEW n \in Node, ReceiveSR(n)
  PROVE  Table'
PROOF
  <1>. DEFINE p == Peer(n)
              f == Head(chan[n])
  <1>1. p \in Node /\ p # n /\ Peer(p) = n /\ \A k \in Node : k = n \/ k = p
    BY PeerFacts
  <1>2. /\ reg \in [Node -> Reg] /\ flag \in [Node -> SUBSET LinkFlag]
        /\ chan \in [Node -> Seq(Field)] /\ AllValid
    BY DEF IInv, TypeOK, Watchdog
  <1>3. PICK entt \in BOOLEAN, qfull \in BOOLEAN : Handle(n, entt, qfull)
    BY EnvironmentAssumption DEF ReceiveSR
  <1>4. chan[n] # <<>> /\ f.s_or_r = 1
    BY DEF ReceiveSR
  <1>5. 1 \in 1 .. Len(chan[n]) /\ f = chan[n][1] /\ f \in Field
    BY <1>2, <1>4, HeadTailProperties, EmptySeq, LenProperties
  <1>6. f.valid = 1
    BY <1>2, <1>5 DEF AllValid
  <1>. DEFINE call == OnSR(reg[n], f, entt, qfull)
              e == call.ret
              made == LinkAction(reg[n], f, entt, qfull)
  <1>7. /\ reg' = [reg EXCEPT ![n] = call.reg]
        /\ flag' = [flag EXCEPT ![n] = call.flag]
        /\ Handled(n, e)
    <2>1. made = call
      BY <1>4, <1>6 DEF LinkAction
    <2>2. /\ reg' = [reg EXCEPT ![n] = made.reg]
          /\ flag' = [flag EXCEPT ![n] = made.flag]
          /\ Handled(n, made.ret)
      BY <1>3 DEF Handle, Handled
    <2>. QED  BY <2>1, <2>2
  <1>8. FitsSR(f, reg[p], reg[n])
    BY <1>4, <1>5 DEF Table, AllFit, Fits
  <1>9. /\ FitsRR(e, reg[p], call.reg)
        /\ SameOwn(call.reg, reg[n])
        /\ call.reg.state = "Rb" => reg[p].state = "Ra"
        /\ "EROR" \notin call.flag
    BY <1>1, <1>2, <1>5, <1>8, OnSRTable
  <1>10. e \in Field /\ e.s_or_r = 0
    BY <1>1, <1>2, <1>5, OnSRFacts
  <1>. HIDE DEF p, f, call, e
  <1>11. reg'[n] = call.reg /\ reg'[p] = reg[p] /\ flag'[n] = call.flag /\ flag'[p] = flag[p]
    BY <1>1, <1>2, <1>7
  <1>12. LoopOf(n, f) = p
    BY <1>4 DEF LoopOf, p
  <1>13. AllFit'
    <2>. SUFFICES ASSUME NEW k \in Node, NEW i \in 1 .. Len(chan'[k])
                  PROVE  Fits(k, chan'[k][i], reg')
      BY DEF AllFit
    <2>1. CASE k = p /\ chan'[k][i] = e
      BY <2>1, <1>1, <1>9, <1>10, <1>11 DEF Fits
    <2>2. ASSUME NEW x \in 1 .. Len(chan[k]), chan'[k][i] = chan[k][x],
                 LoopOf(k, chan[k][x]) # p
          PROVE  Fits(k, chan'[k][i], reg')
      <3>1. Fits(k, chan[k][x], reg)
        BY DEF Table, AllFit
      <3>2. SameOwn(reg'[n], reg[n])
        BY <1>9, <1>11
      <3>3. LoopOf(k, chan[k][x]) = n
        BY <2>2, <1>1, PeerFacts DEF LoopOf
      <3>. QED  BY <2>2, <3>1, <3>2, <3>3, <1>11, OtherPackets DEF p
    <2>3. \/ k = p /\ chan'[k][i] = e
          \/ \E x \in 1 .. Len(chan[k]) :
               chan'[k][i] = chan[k][x] /\ LoopOf(k, chan[k][x]) # p
      BY <1>4, <1>7, <1>10, <1>12, AfterCall DEF p, f
    <2>. QED  BY <2>1, <2>2, <2>3
  <1>14. HeldByRequester'
    <2>1. reg'[n].state = "Rb" => reg'[p].state \in {"Ra", "Rp"}
      BY <1>9, <1>11
    <2>2. reg'[p].state = "Rb" => reg'[n].state \in {"Ra", "Rp"}
      BY <1>1, <1>9, <1>11 DEF Table, HeldByRequester, SameOwn
    <2>. QED  BY <2>1, <2>2, <1>1 DEF HeldByRequester, p
  <1>15. NeverBothGranted'
    BY <1>1, <1>9, <1>11 DEF Table, NeverBothGranted, SameOwn
  <1>16. NoProtocolError'
    BY <1>1, <1>9, <1>11 DEF Table, NoProtocolError
  <1>. QED  BY <1>13, <1>14, <1>15, <1>16 DEF Table

(* A call on an RR keeps the table. *)
LEMMA ReceiveRRTable ==
  ASSUME IInv, Table, NEW n \in Node, ReceiveRR(n)
  PROVE  Table'
PROOF
  <1>. DEFINE p == Peer(n)
              f == Head(chan[n])
  <1>1. p \in Node /\ p # n /\ Peer(p) = n /\ \A k \in Node : k = n \/ k = p
    BY PeerFacts
  <1>2. /\ reg \in [Node -> Reg] /\ flag \in [Node -> SUBSET LinkFlag]
        /\ chan \in [Node -> Seq(Field)] /\ AllValid
    BY DEF IInv, TypeOK, Watchdog
  <1>3. PICK entt \in BOOLEAN : Handle(n, entt, FALSE)
    BY EnvironmentAssumption DEF ReceiveRR
  <1>4. chan[n] # <<>> /\ f.s_or_r = 0
    BY DEF ReceiveRR
  <1>5. 1 \in 1 .. Len(chan[n]) /\ f = chan[n][1] /\ f \in Field
    BY <1>2, <1>4, HeadTailProperties, EmptySeq, LenProperties
  <1>6. f.valid = 1
    BY <1>2, <1>5 DEF AllValid
  <1>. DEFINE call == OnRR(reg[n], f, entt)
              e == call.ret
              made == LinkAction(reg[n], f, entt, FALSE)
  <1>7. /\ reg' = [reg EXCEPT ![n] = call.reg]
        /\ flag' = [flag EXCEPT ![n] = call.flag]
        /\ Handled(n, e)
    <2>1. made = call
      <3>1. f.s_or_r # 1 /\ f.valid # 0
        BY <1>4, <1>6
      <3>. HIDE DEF f
      <3>. QED  BY <3>1 DEF LinkAction
    <2>2. /\ reg' = [reg EXCEPT ![n] = made.reg]
          /\ flag' = [flag EXCEPT ![n] = made.flag]
          /\ Handled(n, made.ret)
      BY <1>3 DEF Handle, Handled
    <2>. QED  BY <2>1, <2>2
  <1>8. FitsRR(f, reg[n], reg[p])
    BY <1>4, <1>5 DEF Table, AllFit, Fits
  <1>9. /\ FitsSR(e, call.reg, reg[p])
        /\ SamePeer(call.reg, reg[n])
        /\ call.reg.state = "Rp" <=> reg[p].state = "Rb"
        /\ "EROR" \notin call.flag
    BY <1>1, <1>2, <1>5, <1>8, OnRRTable
  <1>10. e \in Field /\ e.s_or_r = 1
    BY <1>1, <1>2, <1>5, OnRRFacts
  <1>. HIDE DEF p, f, call, e
  <1>11. reg'[n] = call.reg /\ reg'[p] = reg[p] /\ flag'[n] = call.flag /\ flag'[p] = flag[p]
    BY <1>1, <1>2, <1>7
  <1>12. LoopOf(n, f) = n
    BY <1>4 DEF LoopOf
  <1>13. AllFit'
    <2>. SUFFICES ASSUME NEW k \in Node, NEW i \in 1 .. Len(chan'[k])
                  PROVE  Fits(k, chan'[k][i], reg')
      BY DEF AllFit
    <2>1. CASE k = p /\ chan'[k][i] = e
      BY <2>1, <1>1, <1>9, <1>10, <1>11 DEF Fits
    <2>2. ASSUME NEW x \in 1 .. Len(chan[k]), chan'[k][i] = chan[k][x],
                 LoopOf(k, chan[k][x]) # n
          PROVE  Fits(k, chan'[k][i], reg')
      <3>1. Fits(k, chan[k][x], reg)
        BY DEF Table, AllFit
      <3>2. SamePeer(reg'[n], reg[n])
        BY <1>9, <1>11
      <3>. QED  BY <2>2, <3>1, <3>2, <1>11, OtherPackets DEF p
    <2>3. \/ k = p /\ chan'[k][i] = e
          \/ \E x \in 1 .. Len(chan[k]) :
               chan'[k][i] = chan[k][x] /\ LoopOf(k, chan[k][x]) # n
      BY <1>4, <1>7, <1>10, <1>12, AfterCall DEF p, f
    <2>. QED  BY <2>1, <2>2, <2>3
  <1>14. HeldByRequester'
    <2>1. reg'[p].state = "Rb" => reg'[n].state = "Rp"
      BY <1>9, <1>11
    <2>2. reg'[n].state = "Rb" => reg'[p].state \in {"Ra", "Rp"}
      BY <1>1, <1>9, <1>11 DEF Table, HeldByRequester, SamePeer, p
    <2>. QED  BY <2>1, <2>2, <1>1 DEF HeldByRequester, p
  <1>15. NeverBothGranted'
    BY <1>1, <1>9, <1>11 DEF NeverBothGranted
  <1>16. NoProtocolError'
    BY <1>1, <1>9, <1>11 DEF Table, NoProtocolError
  <1>. QED  BY <1>13, <1>14, <1>15, <1>16 DEF Table

(* A recovery keeps the table: no packet of the dead loop contradicts it. *)
LEMMA RecoverKeepsTable ==
  ASSUME IInv, Table, NEW n \in Node, SendRecover(n)
  PROVE  Table'
PROOF
  <1>. DEFINE p == Peer(n)
              call == Recover(reg[n])
              e == call.ret
  <1>1. p \in Node /\ p # n /\ Peer(p) = n /\ \A k \in Node : k = n \/ k = p
    BY PeerFacts
  <1>2. /\ reg \in [Node -> Reg] /\ flag \in [Node -> SUBSET LinkFlag]
        /\ chan \in [Node -> Seq(Field)] /\ WatchdogAt(n)
    BY DEF IInv, TypeOK, Watchdog
  <1>3. /\ Owes(n)
        /\ reg' = [reg EXCEPT ![n] = call.reg]
        /\ flag' = [flag EXCEPT ![n] = call.flag]
        /\ chan' = [chan EXCEPT ![p] = Append(@, e)]
    BY DEF SendRecover
  <1>4. /\ FitsRR(e, reg[p], call.reg)
        /\ SameOwn(call.reg, reg[n])
        /\ call.reg.state # "Rb"
        /\ "EROR" \notin call.flag
    BY <1>1, <1>2, RecoverTable
  <1>5. e \in Field /\ e.s_or_r = 0
    BY <1>2, RecoverFacts
  <1>6. ~Alive(p)
    BY <1>2, <1>3 DEF WatchdogAt
  <1>. HIDE DEF p, call, e
  <1>7. reg'[n] = call.reg /\ reg'[p] = reg[p] /\ flag'[n] = call.flag /\ flag'[p] = flag[p]
    BY <1>1, <1>2, <1>3
  <1>8. AllFit'
    <2>. SUFFICES ASSUME NEW k \in Node, NEW i \in 1 .. Len(chan'[k])
                  PROVE  Fits(k, chan'[k][i], reg')
      BY DEF AllFit
    <2>1. CASE k = p /\ i = Len(chan[p]) + 1
      <3>1. chan'[k][i] = e
        BY <2>1, <1>1, <1>2, <1>3, <1>5, AppendProperties
      <3>. QED  BY <2>1, <3>1, <1>1, <1>4, <1>5, <1>7 DEF Fits
    <2>2. CASE ~(k = p /\ i = Len(chan[p]) + 1)
      <3>1. i \in 1 .. Len(chan[k]) /\ chan'[k][i] = chan[k][i]
        <4>1. chan[p] \in Seq(Field) /\ chan'[p] = Append(chan[p], e) /\ chan'[n] = chan[n]
          BY <1>1, <1>2, <1>3
        <4>2. /\ Len(chan'[p]) = Len(chan[p]) + 1
              /\ \A j \in 1 .. Len(chan[p]) : chan'[p][j] = chan[p][j]
          BY <4>1, <1>5, AppendProperties
        <4>3. Len(chan[p]) \in Nat
          BY <4>1, LenProperties
        <4>. QED  BY <2>2, <4>1, <4>2, <4>3, <1>1
      <3>2. Fits(k, chan[k][i], reg)
        BY <3>1 DEF Table, AllFit
      <3>3. LoopOf(k, chan[k][i]) # p
        BY <3>1, <1>6 DEF Alive
      <3>4. SameOwn(reg'[n], reg[n])
        BY <1>4, <1>7
      <3>5. LoopOf(k, chan[k][i]) = n
        BY <3>3, <1>1, PeerFacts DEF LoopOf
      <3>. QED  BY <3>1, <3>2, <3>4, <3>5, <1>7, OtherPackets DEF p
    <2>. QED  BY <2>1, <2>2
  <1>9. HeldByRequester'
    BY <1>1, <1>4, <1>7 DEF Table, HeldByRequester, SameOwn
  <1>10. NeverBothGranted'
    BY <1>1, <1>4, <1>7 DEF Table, NeverBothGranted, SameOwn
  <1>11. NoProtocolError'
    BY <1>1, <1>4, <1>7 DEF Table, NoProtocolError
  <1>. QED  BY <1>8, <1>9, <1>10, <1>11 DEF Table

(* A loss keeps the table: the packets that are left fit. *)
LEMMA LoseTable ==
  ASSUME IInv, Table, NEW n \in Node, Lose(n)
  PROVE  Table'
PROOF
  <1>1. Peer(n) \in Node /\ \A k \in Node : k = n \/ k = Peer(n)
    BY PeerFacts
  <1>2. chan \in [Node -> Seq(Field)]
    BY DEF IInv, TypeOK
  <1>3. PICK d \in 1 .. Len(chan[n]) : chan' = [chan EXCEPT ![n] = RemoveAt(@, d)]
    BY DEF Lose
  <1>4. UNCHANGED <<reg, flag>>
    BY DEF Lose
  <1>5. /\ Len(chan'[n]) = Len(chan[n]) - 1 /\ Len(chan[n]) \in Nat
        /\ \A i \in 1 .. Len(chan'[n]) :
             chan'[n][i] = chan[n][IF i < d THEN i ELSE i + 1]
        /\ chan'[Peer(n)] = chan[Peer(n)]
    BY <1>2, <1>3, LostSlots, LenProperties
  <1>6. AllFit'
    <2>. SUFFICES ASSUME NEW k \in Node, NEW i \in 1 .. Len(chan'[k])
                  PROVE  \E x \in 1 .. Len(chan[k]) : chan'[k][i] = chan[k][x]
      BY <1>4 DEF Table, AllFit
    <2>1. CASE k = n
      <3>1. (IF i < d THEN i ELSE i + 1) \in 1 .. Len(chan[n])
        BY <2>1, <1>5
      <3>. QED  BY <2>1, <3>1, <1>5
    <2>2. CASE k = Peer(n)
      BY <2>2, <1>5
    <2>. QED  BY <2>1, <2>2, <1>1
  <1>7. HeldByRequester' /\ NeverBothGranted' /\ NoProtocolError'
    BY <1>4 DEF Table, HeldByRequester, NeverBothGranted, NoProtocolError
  <1>. QED  BY <1>6, <1>7 DEF Table

(* Two first packets of idle ends: no end has seen a value yet. *)
LEMMA InitTable == Init => Table
PROOF
  <1>. SUFFICES ASSUME Init PROVE Table
    OBVIOUS
  <1>. DEFINE f == SendField(InitReg)
  <1>1. /\ f.s_or_r = 1 /\ f.value = 1 /\ f.entt = "ENTL"
        /\ InitReg.state = "NIL" /\ InitReg.rr = 0
    BY DEF SendField, InitReg
  <1>. HIDE DEF f
  <1>2. /\ reg = [n \in Node |-> InitReg] /\ flag = [n \in Node |-> {}]
        /\ chan = [n \in Node |-> <<f>>]
    BY DEF Init, f
  <1>3. \A n \in Node : Len(chan[n]) = 1 /\ chan[n][1] = f
    BY <1>2
  <1>4. \A n \in Node : reg[n] = InitReg /\ reg[Peer(n)] = InitReg /\ flag[n] = {}
    BY <1>2, PeerFacts
  <1>5. AllFit
    <2>. SUFFICES ASSUME NEW k \in Node PROVE Fits(k, f, reg)
      BY <1>3 DEF AllFit
    <2>. QED  BY <1>1, <1>4 DEF Fits, FitsSR
  <1>6. HeldByRequester /\ NoProtocolError
    BY <1>1, <1>4 DEF HeldByRequester, NoProtocolError
  <1>7. NeverBothGranted
    BY <1>1, <1>4 DEF NeverBothGranted, Node
  <1>. QED  BY <1>5, <1>6, <1>7 DEF Table

(* Every step keeps the table. *)
LEMMA NextTable ==
  ASSUME IInv, Table, [Next]_vars
  PROVE  Table'
PROOF
  <1>1. CASE Next
    BY <1>1, ReceiveSRTable, ReceiveRRTable, RecoverKeepsTable, LoseTable DEF Next
  <1>2. CASE UNCHANGED vars
    BY <1>2 DEF Table, AllFit, HeldByRequester, NeverBothGranted, NoProtocolError, vars
  <1>. QED  BY <1>1, <1>2

(* The table describes every state. *)
THEOREM TableHolds == Spec => []Table
BY InitTable, NextTable, Invariance, PTL DEF Spec

(* The values of the SRs that an end is sent alternate, whatever packets    *)
(* are lost and however often ec_link_recover repeats the last value.       *)
THEOREM ValuesAlternate == Spec => []SRAlternates
PROOF
  <1>1. Table => SRAlternates
    BY DEF Table, AllFit, Fits, FitsSR, SRAlternates
  <1>. QED  BY <1>1, TableHolds, PTL

(* An end in ENTT_Rb is there for a transaction its peer still has.         *)
THEOREM HeldEndsHaveRequesters == Spec => []HeldByRequester
BY TableHolds, PTL DEF Table

(* The two ends' transactions are never both past their request.            *)
THEOREM OneTransactionGranted == Spec => []NeverBothGranted
BY TableHolds, PTL DEF Table

(* The branches of ec_link_action marked as errors are dead code when two   *)
(* ends talk to each other, for every pattern of requests and losses.       *)
THEOREM ErrorBranchesAreDead == Spec => []NoProtocolError
BY TableHolds, PTL DEF Table
=============================================================================
