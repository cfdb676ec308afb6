------------------------- MODULE EcLinkPair_proofs -------------------------
(***************************************************************************)
(* Theorems about EcLinkPair, for every threshold, every choice of what the *)
(* callers ask and every choice of what the wires may lose: the type        *)
(* invariant, and that the loss detector raises no false alarm and never    *)
(* forks a loop.                                                           *)
(***************************************************************************)
EXTENDS EcLinkPair, SequenceTheorems, TLAPS

(* Node is a pair: the peer is the other end. *)
LEMMA PeerFacts ==
  /\ \A n \in Node : Peer(n) \in Node /\ Peer(n) # n /\ Peer(Peer(n)) = n
  /\ \A n, k \in Node : k = n \/ k = Peer(n)
BY DEF Node, Peer

-----------------------------------------------------------------------------
(* Calls *)

(* ec_link_action on an SR: well typed, an RR goes back, the toggle is set. *)
LEMMA OnSRFacts ==
  ASSUME NEW r \in Reg, NEW f \in Field, NEW entt \in BOOLEAN, NEW qfull \in BOOLEAN
  PROVE  LET call == OnSR(r, f, entt, qfull)
         IN  /\ call.reg \in Reg /\ call.ret \in Field /\ call.flag \in SUBSET LinkFlag
             /\ call.ret.valid = 1 /\ call.ret.s_or_r = 0
             /\ call.reg.tt = 1
             /\ "RECOVER" \notin call.flag
PROOF
  <1>. DEFINE call == OnSR(r, f, entt, qfull)
  <1>1. call.reg \in Reg
    <2>1. f.value \in Bit
      BY DEF Field
    <2>2. (IF PassesToken(r, entt) THEN 0 ELSE r.token) \in Bit
      BY DEF Reg, Bit
    <2>3. (IF PassesToken(r, entt) THEN 0 ELSE r.token_bkoff) \in 0 .. (BKOFF_RANGE - 1)
      BY ThresholdsAssumption DEF Reg
    <2>4. (IF Accepts(r, f, qfull) THEN "Rb"
           ELSE IF r.state = "Rb" THEN "NIL" ELSE r.state) \in EnttState
      BY DEF Reg, EnttState
    <2>5. 1 \in Bit
      BY DEF Bit
    <2>. QED  BY <2>1, <2>2, <2>3, <2>4, <2>5 DEF call, OnSR, Reg
  <1>2. call.ret \in Field /\ call.ret.valid = 1 /\ call.ret.s_or_r = 0
    BY DEF call, OnSR, Field, Bit, EnttField
  <1>3. call.flag \in SUBSET LinkFlag /\ "RECOVER" \notin call.flag
    BY DEF call, OnSR, When, LinkFlag
  <1>4. call.reg.tt = 1
    BY DEF call, OnSR, Reg
  <1>. QED  BY <1>1, <1>2, <1>3, <1>4

(* The counters of ec_link_action stay in their fields: tc is reset past    *)
(* its threshold, entt_bkoff past its own, token_bkoff wraps.               *)
LEMMA CounterFacts ==
  ASSUME NEW r \in Reg, NEW f \in Field, NEW entt \in BOOLEAN
  PROVE  /\ TcAfterRR(r) \in 0 .. (TC_THRESHHOLD + 1)
         /\ EnttBkoffAfterRR(r, f, entt) \in 0 .. (BKOFF_RANGE - 1)
         /\ TokenBkoffAfterRR(r, f, entt) \in 0 .. (BKOFF_RANGE - 1)
PROOF
  <1>. USE ThresholdsAssumption
  <1>0. /\ r.tc \in 0 .. (TC_THRESHHOLD + 1)
        /\ r.tt \in {0, 1}
        /\ r.entt_bkoff \in 0 .. (BKOFF_RANGE - 1)
        /\ r.token_bkoff \in 0 .. (BKOFF_RANGE - 1)
    BY DEF Reg, Bit
  <1>1. TcAfterRR(r) \in 0 .. (TC_THRESHHOLD + 1)
    BY <1>0 DEF TcAfterRR, Expires
  <1>2. EnttBkoffAfterRR(r, f, entt) \in 0 .. (BKOFF_RANGE - 1)
    BY <1>0 DEF EnttBkoffAfterRR, Starts
  <1>3. TokenBkoffAfterRR(r, f, entt) \in 0 .. (BKOFF_RANGE - 1)
    <2>. DEFINE base == IF f.token = 1 THEN 0 ELSE r.token_bkoff
    <2>1. base \in 0 .. (BKOFF_RANGE - 1)
      BY <1>0
    <2>2. (base + 1) % BKOFF_RANGE \in 0 .. (BKOFF_RANGE - 1)
      BY <2>1
    <2>. QED  BY <2>1, <2>2 DEF TokenBkoffAfterRR
  <1>. QED  BY <1>1, <1>2, <1>3

(* ec_link_action on an RR: well typed, an SR goes back, and RECOVER means  *)
(* that a toggle was missed after one had been missed already.              *)
LEMMA OnRRFacts ==
  ASSUME NEW r \in Reg, NEW f \in Field, NEW entt \in BOOLEAN
  PROVE  LET call == OnRR(r, f, entt)
         IN  /\ call.reg \in Reg /\ call.ret \in Field /\ call.flag \in SUBSET LinkFlag
             /\ call.ret.valid = 1 /\ call.ret.s_or_r = 1
             /\ "RECOVER" \in call.flag =>
                  r.tt = 0 /\ r.tc # 0 /\ call.reg.tc = 0
PROOF
  <1>. DEFINE call == OnRR(r, f, entt)
  <1>1. call.reg \in Reg
    <2>1. StateAfterRR(r, f, entt) \in EnttState
      BY DEF StateAfterRR, EnttState
    <2>2. TfAfterRR(r) \in Bit /\ TokenAfterRR(r, f) \in Bit /\ f.value \in Bit
      BY DEF TfAfterRR, TokenAfterRR, Bit, Reg, Field
    <2>. HIDE DEF TcAfterRR
    <2>. QED  BY <2>1, <2>2, CounterFacts DEF call, OnRR, Reg, Bit
  <1>2. call.ret \in Field /\ call.ret.valid = 1 /\ call.ret.s_or_r = 1
    BY DEF call, OnRR, Field, Bit, EnttField
  <1>3. call.flag \in SUBSET LinkFlag
    BY DEF call, OnRR, When, LinkFlag
  <1>4. ASSUME "RECOVER" \in call.flag
        PROVE  r.tt = 0 /\ r.tc # 0 /\ call.reg.tc = 0
    <2>1. Expires(r)
      BY <1>4 DEF call, OnRR, When
    <2>2. r.tt = 0 /\ r.tc # 0
      BY <2>1, ThresholdsAssumption DEF Expires, Reg
    <2>3. call.reg.tc = 0
      BY <2>1 DEF call, OnRR, TcAfterRR, Reg
    <2>. QED  BY <2>2, <2>3
  <1>. QED  BY <1>1, <1>2, <1>3, <1>4

(* ec_link_recover: well typed, an RR goes out, the counters stay. *)
LEMMA RecoverFacts ==
  ASSUME NEW r \in Reg
  PROVE  LET call == Recover(r)
         IN  /\ call.reg \in Reg /\ call.ret \in Field /\ call.flag \in SUBSET LinkFlag
             /\ call.ret.valid = 1 /\ call.ret.s_or_r = 0
             /\ call.reg.tt = r.tt /\ call.reg.tc = r.tc
             /\ "RECOVER" \notin call.flag
PROOF
  <1>1. Recover(r).reg \in Reg /\ Recover(r).reg.tt = r.tt /\ Recover(r).reg.tc = r.tc
    BY DEF Recover, Reg, EnttState
  <1>2. /\ Recover(r).ret \in Field
        /\ Recover(r).ret.valid = 1 /\ Recover(r).ret.s_or_r = 0
    BY DEF Recover, RecoverField, Field, Reg, Bit, EnttField
  <1>3. Recover(r).flag \in SUBSET LinkFlag /\ "RECOVER" \notin Recover(r).flag
    BY DEF Recover, When, LinkFlag
  <1>. QED  BY <1>1, <1>2, <1>3

-----------------------------------------------------------------------------
(* Slots.  After end n handled a packet or lost one, slot i of wire k holds *)
(* what was in slot WasSlot(n, k, i) of wire WasWire(n, k, i) before, or an *)
(* answer of the same loop.                                                *)
WasWire(n, k, i) == IF k = n \/ i > Len(chan[Peer(n)]) THEN n ELSE Peer(n)

WasSlot(n, k, i) == IF k = n THEN i + 1
                    ELSE IF i > Len(chan[Peer(n)]) THEN 1 ELSE i

\* What a call of end n with answer e does to the wires.
Handled(n, e) ==
  chan' = [chan EXCEPT ![n] = Tail(@), ![Peer(n)] = Append(@, e)]

(* The wires after a handled packet, slot by slot. *)
LEMMA HandledSlots ==
  ASSUME chan \in [Node -> Seq(Field)], NEW n \in Node, chan[n] # <<>>,
         NEW e \in Field, Handled(n, e)
  PROVE  /\ chan' \in [Node -> Seq(Field)]
         /\ Head(chan[n]) = chan[n][1] /\ Head(chan[n]) \in Field
         /\ Len(chan[n]) \in Nat \ {0} /\ Len(chan[Peer(n)]) \in Nat
         /\ Len(chan'[n]) = Len(chan[n]) - 1
         /\ \A i \in 1 .. Len(chan'[n]) : chan'[n][i] = chan[n][i + 1]
         /\ Len(chan'[Peer(n)]) = Len(chan[Peer(n)]) + 1
         /\ \A i \in 1 .. Len(chan[Peer(n)]) : chan'[Peer(n)][i] = chan[Peer(n)][i]
         /\ chan'[Peer(n)][Len(chan[Peer(n)]) + 1] = e
PROOF
  <1>. DEFINE p == Peer(n)
  <1>1. p \in Node /\ p # n
    BY PeerFacts
  <1>. HIDE DEF p
  <1>2. chan[n] \in Seq(Field) /\ chan[p] \in Seq(Field)
    BY <1>1
  <1>3. chan'[n] = Tail(chan[n]) /\ chan'[p] = Append(chan[p], e)
    BY <1>1 DEF Handled, p
  <1>4. /\ Head(chan[n]) \in Field
        /\ chan'[n] \in Seq(Field)
        /\ Len(chan'[n]) = Len(chan[n]) - 1
        /\ \A i \in 1 .. Len(chan'[n]) : chan'[n][i] = chan[n][i + 1]
    BY <1>2, <1>3, HeadTailProperties
  <1>5. /\ chan'[p] \in Seq(Field)
        /\ Len(chan'[p]) = Len(chan[p]) + 1
        /\ \A i \in 1 .. Len(chan[p]) : chan'[p][i] = chan[p][i]
        /\ chan'[p][Len(chan[p]) + 1] = e
    BY <1>2, <1>3, AppendProperties
  <1>6. Len(chan[n]) \in Nat \ {0} /\ Len(chan[p]) \in Nat
    BY <1>2, EmptySeq, LenProperties
  <1>7. Head(chan[n]) = chan[n][1]
    BY <1>2
  <1>8. chan' \in [Node -> Seq(Field)]
    BY <1>4, <1>5, PeerFacts DEF Handled, p
  <1>. QED  BY <1>4, <1>5, <1>6, <1>7, <1>8 DEF p

(* A handled packet stays in its loop: every slot comes from an old slot of *)
(* the same loop, no two from the same, and the peer's order is kept.       *)
LEMMA HandledLoops ==
  ASSUME chan \in [Node -> Seq(Field)], NEW n \in Node, chan[n] # <<>>,
         NEW e \in Field, Handled(n, e),
         e.s_or_r = 1 - Head(chan[n]).s_or_r
  PROVE  /\ \A k \in Node : \A i \in 1 .. Len(chan'[k]) :
              LET a == WasWire(n, k, i)
                  x == WasSlot(n, k, i)
              IN  /\ a \in Node /\ x \in 1 .. Len(chan[a])
                  /\ LoopOf(k, chan'[k][i]) = LoopOf(a, chan[a][x])
         /\ \A k, l \in Node : \A i \in 1 .. Len(chan'[k]), j \in 1 .. Len(chan'[l]) :
              /\ WasWire(n, k, i) = WasWire(n, l, j) /\ WasSlot(n, k, i) = WasSlot(n, l, j)
                   => k = l /\ i = j
              /\ Sooner(Peer(n), k, i, l, j)
                   => Sooner(Peer(n), WasWire(n, k, i), WasSlot(n, k, i),
                                      WasWire(n, l, j), WasSlot(n, l, j))
PROOF
  <1>. DEFINE p == Peer(n)
  <1>1. p \in Node /\ p # n /\ Peer(p) = n /\ \A k \in Node : k = n \/ k = p
    BY PeerFacts
  <1>2. /\ Head(chan[n]) = chan[n][1] /\ Head(chan[n]) \in Field
        /\ Len(chan[n]) \in Nat \ {0} /\ Len(chan[p]) \in Nat
        /\ Len(chan'[n]) = Len(chan[n]) - 1
        /\ \A i \in 1 .. Len(chan'[n]) : chan'[n][i] = chan[n][i + 1]
        /\ Len(chan'[p]) = Len(chan[p]) + 1
        /\ \A i \in 1 .. Len(chan[p]) : chan'[p][i] = chan[p][i]
        /\ chan'[p][Len(chan[p]) + 1] = e
    BY HandledSlots
  <1>3. LoopOf(p, e) = LoopOf(n, chan[n][1])
    BY <1>1, <1>2 DEF LoopOf, Field, Bit, p
  <1>. HIDE DEF p
  <1>4. ASSUME NEW k \in Node, NEW i \in 1 .. Len(chan'[k])
        PROVE  LET a == WasWire(n, k, i)
                   x == WasSlot(n, k, i)
               IN  /\ a \in Node /\ x \in 1 .. Len(chan[a])
                   /\ LoopOf(k, chan'[k][i]) = LoopOf(a, chan[a][x])
    <2>1. CASE k = n
      BY <2>1, <1>1, <1>2 DEF WasWire, WasSlot, LoopOf, p
    <2>2. CASE k = p /\ i \in 1 .. Len(chan[p])
      BY <2>2, <1>1, <1>2 DEF WasWire, WasSlot, LoopOf, p
    <2>3. CASE k = p /\ i = Len(chan[p]) + 1
      BY <2>3, <1>1, <1>2, <1>3 DEF WasWire, WasSlot, p
    <2>. QED  BY <2>1, <2>2, <2>3, <1>1, <1>2
  <1>5. ASSUME NEW k \in Node, NEW l \in Node,
               NEW i \in 1 .. Len(chan'[k]), NEW j \in 1 .. Len(chan'[l])
        PROVE  /\ WasWire(n, k, i) = WasWire(n, l, j) /\ WasSlot(n, k, i) = WasSlot(n, l, j)
                    => k = l /\ i = j
               /\ Sooner(p, k, i, l, j)
                    => Sooner(p, WasWire(n, k, i), WasSlot(n, k, i),
                                 WasWire(n, l, j), WasSlot(n, l, j))
    <2>1. /\ i \in Nat \ {0} /\ j \in Nat \ {0}
          /\ k = p => i <= Len(chan[p]) + 1
          /\ l = p => j <= Len(chan[p]) + 1
      BY <1>2
    <2>. QED  BY <2>1, <1>1, <1>2 DEF WasWire, WasSlot, Sooner, p
  <1>. QED  BY <1>4, <1>5 DEF p

(* What is left of a sequence when one element is removed. *)
LEMMA Removed ==
  ASSUME NEW P, NEW s \in Seq(P), NEW d \in 1 .. Len(s)
  PROVE  /\ RemoveAt(s, d) \in Seq(P)
         /\ Len(RemoveAt(s, d)) = Len(s) - 1
         /\ \A i \in 1 .. (Len(s) - 1) : RemoveAt(s, d)[i] = s[IF i < d THEN i ELSE i + 1]
PROOF
  <1>. DEFINE front == SubSeq(s, 1, d - 1)
              back == SubSeq(s, d + 1, Len(s))
  <1>1. Len(s) \in Nat /\ \A i \in 1 .. Len(s) : s[i] \in P
    BY LenProperties, ElementOfSeq
  <1>2. RemoveAt(s, d) = front \o back
    BY DEF RemoveAt
  <1>3. /\ front \in Seq(P) /\ Len(front) = d - 1
        /\ \A i \in 1 .. (d - 1) : front[i] = s[i]
    <2>1. d - 1 \in Int /\ \A i \in 1 .. (d - 1) : s[i] \in P
      BY <1>1
    <2>2. /\ front \in Seq(P)
          /\ Len(front) = IF 1 <= d - 1 THEN (d - 1) - 1 + 1 ELSE 0
          /\ \A i \in 1 .. (d - 1) - 1 + 1 : front[i] = s[1 + i - 1]
      BY <2>1, SubSeqProperties
    <2>. QED  BY <2>2, <1>1
  <1>4. /\ back \in Seq(P) /\ Len(back) = Len(s) - d
        /\ \A i \in 1 .. (Len(s) - d) : back[i] = s[d + i]
    <2>1. d + 1 \in Int /\ Len(s) \in Int /\ \A i \in (d + 1) .. Len(s) : s[i] \in P
      BY <1>1
    <2>2. /\ back \in Seq(P)
          /\ Len(back) = IF d + 1 <= Len(s) THEN Len(s) - (d + 1) + 1 ELSE 0
          /\ \A i \in 1 .. Len(s) - (d + 1) + 1 : back[i] = s[(d + 1) + i - 1]
      BY <2>1, SubSeqProperties
    <2>. QED  BY <2>2, <1>1
  <1>. HIDE DEF front, back
  <1>5. /\ front \o back \in Seq(P)
        /\ Len(front \o back) = Len(s) - 1
        /\ \A i \in 1 .. (Len(s) - 1) :
             (front \o back)[i] = IF i <= d - 1 THEN front[i] ELSE back[i - (d - 1)]
    <2>1. /\ front \o back \in Seq(P)
          /\ Len(front \o back) = Len(front) + Len(back)
          /\ \A i \in 1 .. Len(front) + Len(back) :
               (front \o back)[i] = IF i <= Len(front) THEN front[i] ELSE back[i - Len(front)]
      BY <1>3, <1>4, ConcatProperties
    <2>2. Len(front) + Len(back) = Len(s) - 1
      BY <1>1, <1>3, <1>4
    <2>. QED  BY <2>1, <2>2, <1>3
  <1>6. ASSUME NEW i \in 1 .. (Len(s) - 1)
        PROVE  (front \o back)[i] = s[IF i < d THEN i ELSE i + 1]
    <2>1. CASE i < d
      BY <2>1, <1>1, <1>3, <1>5
    <2>2. CASE ~(i < d)
      <3>1. i - (d - 1) \in 1 .. (Len(s) - d) /\ d + (i - (d - 1)) = i + 1
        BY <2>2, <1>1
      <3>2. back[i - (d - 1)] = s[i + 1] /\ ~(i <= d - 1)
        BY <2>2, <3>1, <1>1, <1>4
      <3>. QED  BY <2>2, <3>2, <1>5
    <2>. QED  BY <2>1, <2>2
  <1>. QED  BY <1>2, <1>5, <1>6

(* A lost packet: the slots behind it move up, nothing else changes. *)
LEMMA LostSlots ==
  ASSUME chan \in [Node -> Seq(Field)], NEW n \in Node,
         NEW d \in 1 .. Len(chan[n]),
         chan' = [chan EXCEPT ![n] = RemoveAt(@, d)]
  PROVE  /\ chan' \in [Node -> Seq(Field)]
         /\ Len(chan'[n]) = Len(chan[n]) - 1
         /\ \A i \in 1 .. Len(chan'[n]) :
              chan'[n][i] = chan[n][IF i < d THEN i ELSE i + 1]
         /\ chan'[Peer(n)] = chan[Peer(n)]
PROOF
  <1>. DEFINE s == chan[n]
  <1>1. s \in Seq(Field)
    OBVIOUS
  <1>2. chan'[n] = RemoveAt(s, d) /\ chan'[Peer(n)] = chan[Peer(n)]
    BY PeerFacts
  <1>3. /\ RemoveAt(s, d) \in Seq(Field)
        /\ Len(RemoveAt(s, d)) = Len(s) - 1
        /\ \A i \in 1 .. (Len(s) - 1) : RemoveAt(s, d)[i] = s[IF i < d THEN i ELSE i + 1]
    BY <1>1, Removed
  <1>4. chan' \in [Node -> Seq(Field)]
    BY <1>2, <1>3, PeerFacts
  <1>. QED  BY <1>2, <1>3, <1>4

-----------------------------------------------------------------------------
(* The inductive invariant *)

IInv == TypeOK /\ Watchdog

(* A call of either kind, as the steps below use it. *)
LEMMA ReceiveFacts ==
  ASSUME IInv, NEW n \in Node, Receive(n)
  PROVE  \E r \in Reg, e \in Field, fs \in SUBSET LinkFlag :
           /\ reg' = [reg EXCEPT ![n] = r]
           /\ flag' = [flag EXCEPT ![n] = fs]
           /\ Handled(n, e)
           /\ e.valid = 1
           /\ e.s_or_r = 1 - Head(chan[n]).s_or_r
           /\ Head(chan[n]).s_or_r = 1 => r.tt = 1 /\ "RECOVER" \notin fs
           /\ "RECOVER" \in fs => reg[n].tt = 0 /\ reg[n].tc # 0 /\ r.tc = 0
           /\ Record(n, fs)
PROOF
  <1>. DEFINE f == Head(chan[n])
  <1>1. chan[n] # <<>> /\ chan \in [Node -> Seq(Field)] /\ reg[n] \in Reg
    BY DEF Receive, ReceiveSR, ReceiveRR, IInv, TypeOK
  <1>2. f \in Field /\ f = chan[n][1] /\ Len(chan[n]) \in Nat \ {0}
    BY <1>1, HeadTailProperties, EmptySeq
  <1>3. f.valid = 1
    BY <1>2 DEF IInv, Watchdog, AllValid
  <1>4. PICK entt \in BOOLEAN, qfull \in BOOLEAN : Handle(n, entt, qfull)
    BY EnvironmentAssumption DEF Receive, ReceiveSR, ReceiveRR
  <1>. DEFINE call == LinkAction(reg[n], f, entt, qfull)
  <1>5. /\ reg' = [reg EXCEPT ![n] = call.reg]
        /\ flag' = [flag EXCEPT ![n] = call.flag]
        /\ Handled(n, call.ret)
        /\ Record(n, call.flag)
    BY <1>4 DEF Handle, Handled
  <1>6. CASE f.s_or_r = 1
    <2>1. call = OnSR(reg[n], f, entt, qfull)
      BY <1>3, <1>6 DEF LinkAction
    <2>. HIDE DEF call, f
    <2>2. /\ call.reg \in Reg /\ call.ret \in Field /\ call.flag \in SUBSET LinkFlag
          /\ call.ret.valid = 1 /\ call.ret.s_or_r = 0
          /\ call.reg.tt = 1
          /\ "RECOVER" \notin call.flag
      BY <2>1, <1>1, <1>2, OnSRFacts
    <2>. USE <2>2
    <2>. WITNESS call.reg \in Reg, call.ret \in Field, call.flag \in SUBSET LinkFlag
    <2>. QED  BY <1>5, <1>6, <2>2 DEF f
  <1>7. CASE f.s_or_r = 0
    <2>1. call = OnRR(reg[n], f, entt)
      BY <1>3, <1>7 DEF LinkAction
    <2>. HIDE DEF call, f
    <2>2. /\ call.reg \in Reg /\ call.ret \in Field /\ call.flag \in SUBSET LinkFlag
          /\ call.ret.valid = 1 /\ call.ret.s_or_r = 1
          /\ "RECOVER" \in call.flag =>
               reg[n].tt = 0 /\ reg[n].tc # 0 /\ call.reg.tc = 0
      BY <2>1, <1>1, <1>2, OnRRFacts
    <2>. USE <2>2
    <2>. WITNESS call.reg \in Reg, call.ret \in Field, call.flag \in SUBSET LinkFlag
    <2>. QED  BY <1>5, <1>7, <2>2 DEF f
  <1>. QED  BY <1>2, <1>6, <1>7 DEF Field, Bit

(* OnePacketPerLoop for given packets: two of one loop are the same packet. *)
LEMMA SamePacket ==
  ASSUME OnePacketPerLoop,
         NEW a \in Node, NEW x \in 1 .. Len(chan[a]),
         NEW b \in Node, NEW y \in 1 .. Len(chan[b]),
         LoopOf(a, chan[a][x]) = LoopOf(b, chan[b][y])
  PROVE  a = b /\ x = y
BY DEF OnePacketPerLoop

(* Handling a packet keeps the invariant: a revived or answered packet      *)
(* takes its turn in the ring, and an alarm is true.                        *)
LEMMA ReceiveInv ==
  ASSUME IInv, NEW n \in Node, Receive(n)
  PROVE  IInv'
PROOF
  <1>. DEFINE p == Peer(n)
              f == Head(chan[n])
  <1>1. p \in Node /\ p # n /\ Peer(p) = n /\ \A k \in Node : k = n \/ k = p
    BY PeerFacts
  <1>2. PICK r \in Reg, e \in Field, fs \in SUBSET LinkFlag :
           /\ reg' = [reg EXCEPT ![n] = r]
           /\ flag' = [flag EXCEPT ![n] = fs]
           /\ Handled(n, e)
           /\ e.valid = 1
           /\ e.s_or_r = 1 - f.s_or_r
           /\ f.s_or_r = 1 => r.tt = 1 /\ "RECOVER" \notin fs
           /\ "RECOVER" \in fs => reg[n].tt = 0 /\ reg[n].tc # 0 /\ r.tc = 0
           /\ Record(n, fs)
    BY ReceiveFacts
  <1>3. chan \in [Node -> Seq(Field)] /\ chan[n] # <<>>
    BY DEF Receive, ReceiveSR, ReceiveRR, IInv, TypeOK
  <1>4. /\ chan' \in [Node -> Seq(Field)]
        /\ f = chan[n][1] /\ f \in Field
        /\ Len(chan[n]) \in Nat \ {0} /\ Len(chan[p]) \in Nat
        /\ Len(chan'[n]) = Len(chan[n]) - 1
        /\ \A i \in 1 .. Len(chan'[n]) : chan'[n][i] = chan[n][i + 1]
        /\ Len(chan'[p]) = Len(chan[p]) + 1
        /\ \A i \in 1 .. Len(chan[p]) : chan'[p][i] = chan[p][i]
        /\ chan'[p][Len(chan[p]) + 1] = e
    BY <1>2, <1>3, HandledSlots
  <1>5. /\ \A k \in Node : \A i \in 1 .. Len(chan'[k]) :
              LET a == WasWire(n, k, i)
                  x == WasSlot(n, k, i)
              IN  /\ a \in Node /\ x \in 1 .. Len(chan[a])
                  /\ LoopOf(k, chan'[k][i]) = LoopOf(a, chan[a][x])
        /\ \A k, l \in Node : \A i \in 1 .. Len(chan'[k]), j \in 1 .. Len(chan'[l]) :
              /\ WasWire(n, k, i) = WasWire(n, l, j) /\ WasSlot(n, k, i) = WasSlot(n, l, j)
                   => k = l /\ i = j
              /\ Sooner(p, k, i, l, j)
                   => Sooner(p, WasWire(n, k, i), WasSlot(n, k, i),
                                WasWire(n, l, j), WasSlot(n, l, j))
    BY <1>2, <1>3, HandledLoops
  <1>6. /\ reg \in [Node -> Reg] /\ flag \in [Node -> SUBSET LinkFlag]
        /\ AllValid /\ OnePacketPerLoop /\ WatchdogAt(n) /\ WatchdogAt(p)
    BY <1>1 DEF IInv, TypeOK, Watchdog
  <1>7. reg'[n] = r /\ reg'[p] = reg[p] /\ flag'[n] = fs /\ flag'[p] = flag[p]
    BY <1>1, <1>2, <1>6
  <1>. HIDE DEF p, f
  <1>8. TypeOK'
    <2>1. taken' \in [Node -> BOOLEAN] /\ told' \in [Node -> Outcome]
      BY <1>2 DEF Record, IInv, TypeOK, Outcome
    <2>2. reg' \in [Node -> Reg] /\ flag' \in [Node -> SUBSET LinkFlag]
      BY <1>2, <1>6
    <2>. QED  BY <2>1, <2>2, <1>4 DEF TypeOK
  <1>9. AllValid'
    <2>1. \A i \in 1 .. Len(chan'[n]) : chan'[n][i].valid = 1
      BY <1>4, <1>6 DEF AllValid
    <2>2. \A i \in 1 .. Len(chan'[p]) : chan'[p][i].valid = 1
      BY SMTT(60), <1>1, <1>2, <1>4, <1>6 DEF AllValid
    <2>. QED  BY <2>1, <2>2, <1>1 DEF AllValid
  <1>10. OnePacketPerLoop'
    <2>. SUFFICES ASSUME NEW k \in Node, NEW l \in Node,
                         NEW i \in 1 .. Len(chan'[k]), NEW j \in 1 .. Len(chan'[l]),
                         LoopOf(k, chan'[k][i]) = LoopOf(l, chan'[l][j])
                  PROVE  k = l /\ i = j
      BY DEF OnePacketPerLoop
    <2>. DEFINE a == WasWire(n, k, i)
                x == WasSlot(n, k, i)
                b == WasWire(n, l, j)
                y == WasSlot(n, l, j)
    <2>1. /\ a \in Node /\ x \in 1 .. Len(chan[a])
          /\ LoopOf(k, chan'[k][i]) = LoopOf(a, chan[a][x])
          /\ b \in Node /\ y \in 1 .. Len(chan[b])
          /\ LoopOf(l, chan'[l][j]) = LoopOf(b, chan[b][y])
      BY <1>5
    <2>2. a = b /\ x = y => k = l /\ i = j
      BY <1>5
    <2>. HIDE DEF a, x, b, y
    <2>3. a = b /\ x = y
      <3>1. LoopOf(a, chan[a][x]) = LoopOf(b, chan[b][y])
        BY <2>1
      <3>2. OnePacketPerLoop
        BY <1>6
      <3>3. /\ a \in Node /\ x \in 1 .. Len(chan[a])
            /\ b \in Node /\ y \in 1 .. Len(chan[b])
        BY <2>1
      <3>. QED  BY <3>1, <3>2, <3>3, SamePacket
    <2>. QED  BY <2>2, <2>3
  <1>11. ASSUME NEW m \in Node, ~Alive(m)
         PROVE  ~Alive(m)'
    BY <1>5, <1>11 DEF Alive
  <1>12. f.s_or_r = 1 \/ (f.s_or_r = 0 /\ LoopOf(n, chan[n][1]) = n)
    BY <1>4 DEF Field, Bit, LoopOf
  <1>13. f.s_or_r # 1 => Alive(n)
    BY <1>4, <1>12 DEF Alive
  <1>14. Owes(n)' => ~Alive(p)' /\ ~Owes(p)' /\ reg'[n].tc = 0
    <2>. SUFFICES ASSUME "RECOVER" \in fs
                  PROVE  ~Alive(p)' /\ ~Owes(p)' /\ reg'[n].tc = 0
      BY <1>7 DEF Owes
    <2>1. f.s_or_r # 1 /\ reg[n].tt = 0 /\ reg[n].tc # 0 /\ r.tc = 0
      BY <1>2
    <2>2. ~Alive(p)
      <3>. SUFFICES ASSUME NEW b \in Node, NEW j \in 1 .. Len(chan[b]),
                           LoopOf(b, chan[b][j]) = p
                    PROVE  FALSE
        BY DEF Alive
      <3>1. LoopOf(n, chan[n][1]) = n /\ 1 \in 1 .. Len(chan[n])
        BY <2>1, <1>4, <1>12
      <3>2. Sooner(n, n, 1, b, j)
        BY <3>1, <1>1, <1>4 DEF Sooner
      <3>. QED  BY <3>1, <3>2, <2>1, <1>6 DEF WatchdogAt, p
    <2>3. ~Owes(p)
      BY <2>1, <1>1, <1>6, <1>13 DEF WatchdogAt
    <2>. QED  BY <2>1, <2>2, <2>3, <1>1, <1>7, <1>11 DEF Owes
  <1>15. WatchdogAt(n)'
    <2>1. Owes(p)' /\ Alive(p)' => reg'[n].tt = 1
      BY <1>1, <1>2, <1>6, <1>7, <1>13 DEF WatchdogAt, Owes
    <2>2. ASSUME NEW a \in Node, NEW b \in Node,
                 NEW i \in 1 .. Len(chan'[a]), NEW j \in 1 .. Len(chan'[b]),
                 LoopOf(a, chan'[a][i]) = n, LoopOf(b, chan'[b][j]) = p,
                 Sooner(n, a, i, b, j)
          PROVE  reg'[n].tt = 1
      <3>. SUFFICES ASSUME f.s_or_r = 0  PROVE FALSE
        BY <1>2, <1>7, <1>12
      <3>1. LoopOf(p, chan'[p][Len(chan'[p])]) = n
        BY <1>1, <1>2, <1>4 DEF LoopOf
      <3>2. Len(chan'[p]) \in 1 .. Len(chan'[p])
        BY <1>4
      <3>3. a = p /\ i = Len(chan'[p])
        BY <3>1, <3>2, <2>2, <1>1, <1>10 DEF OnePacketPerLoop
      <3>. QED  BY <3>3, <2>2, <1>1, <1>4 DEF Sooner
    <2>. QED  BY <2>1, <2>2, <1>14 DEF WatchdogAt, p
  <1>16. WatchdogAt(p)'
    <2>1. Owes(p)' => ~Alive(n)' /\ ~Owes(n)' /\ reg'[p].tc = 0
      BY <1>1, <1>6, <1>7, <1>11, <1>14 DEF WatchdogAt, Owes
    <2>2. Owes(n)' => \E i \in 1 .. Len(chan'[p]) : chan'[p][i].s_or_r = 1
      <3>. SUFFICES ASSUME "RECOVER" \in fs
                    PROVE  \E i \in 1 .. Len(chan'[p]) : chan'[p][i].s_or_r = 1
        BY <1>7 DEF Owes
      <3>1. e.s_or_r = 1
        BY <1>2, <1>12
      <3>. QED  BY <3>1, <1>4
    <2>3. ASSUME NEW a \in Node, NEW b \in Node,
                 NEW i \in 1 .. Len(chan'[a]), NEW j \in 1 .. Len(chan'[b]),
                 LoopOf(a, chan'[a][i]) = p, LoopOf(b, chan'[b][j]) = n,
                 Sooner(p, a, i, b, j)
          PROVE  reg'[p].tt = 1 \/ reg'[p].tc = 0
      <3>. DEFINE c == WasWire(n, a, i)
                  x == WasSlot(n, a, i)
                  d == WasWire(n, b, j)
                  y == WasSlot(n, b, j)
      <3>1. /\ c \in Node /\ x \in 1 .. Len(chan[c]) /\ LoopOf(c, chan[c][x]) = p
            /\ d \in Node /\ y \in 1 .. Len(chan[d]) /\ LoopOf(d, chan[d][y]) = n
        BY <2>3, <1>5
      <3>2. Sooner(p, c, x, d, y)
        BY <2>3, <1>5
      <3>. HIDE DEF c, x, d, y
      <3>. QED  BY <3>1, <3>2, <1>1, <1>6, <1>7 DEF WatchdogAt
    <2>. QED  BY <2>1, <2>2, <2>3, <1>1 DEF WatchdogAt
  <1>17. Watchdog'
    BY <1>1, <1>9, <1>10, <1>15, <1>16 DEF Watchdog
  <1>. QED  BY <1>8, <1>17 DEF IInv

(* A recovery packet revives a dead loop and joins the ring behind the      *)
(* packet of the other loop, or the other end is not counting yet.          *)
LEMMA RecoverInv ==
  ASSUME IInv, NEW n \in Node, SendRecover(n)
  PROVE  IInv'
PROOF
  <1>. DEFINE p == Peer(n)
              call == Recover(reg[n])
              e == call.ret
  <1>1. p \in Node /\ p # n /\ Peer(p) = n /\ \A k \in Node : k = n \/ k = p
    BY PeerFacts
  <1>2. /\ reg \in [Node -> Reg] /\ flag \in [Node -> SUBSET LinkFlag]
        /\ chan \in [Node -> Seq(Field)]
        /\ AllValid /\ OnePacketPerLoop /\ WatchdogAt(n) /\ WatchdogAt(p)
    BY <1>1 DEF IInv, TypeOK, Watchdog
  <1>3. /\ call.reg \in Reg /\ e \in Field /\ call.flag \in SUBSET LinkFlag
        /\ e.valid = 1 /\ e.s_or_r = 0
        /\ call.reg.tt = reg[n].tt /\ call.reg.tc = reg[n].tc
        /\ "RECOVER" \notin call.flag
    BY <1>2, RecoverFacts
  <1>4. /\ Owes(n)
        /\ reg' = [reg EXCEPT ![n] = call.reg]
        /\ flag' = [flag EXCEPT ![n] = call.flag]
        /\ chan' = [chan EXCEPT ![p] = Append(@, e)]
        /\ UNCHANGED <<taken, told>>
    BY DEF SendRecover
  <1>. HIDE DEF p, call, e
  <1>5. /\ chan' \in [Node -> Seq(Field)]
        /\ Len(chan[n]) \in Nat /\ Len(chan[p]) \in Nat
        /\ chan'[n] = chan[n]
        /\ Len(chan'[p]) = Len(chan[p]) + 1
        /\ \A i \in 1 .. Len(chan[p]) : chan'[p][i] = chan[p][i]
        /\ chan'[p][Len(chan[p]) + 1] = e
    <2>1. chan[p] \in Seq(Field) /\ chan'[p] = Append(chan[p], e) /\ chan'[n] = chan[n]
      BY <1>1, <1>2, <1>4
    <2>2. /\ chan'[p] \in Seq(Field)
          /\ Len(chan'[p]) = Len(chan[p]) + 1
          /\ \A i \in 1 .. Len(chan[p]) : chan'[p][i] = chan[p][i]
          /\ chan'[p][Len(chan[p]) + 1] = e
      BY <2>1, <1>3, AppendProperties
    <2>3. Len(chan[n]) \in Nat /\ Len(chan[p]) \in Nat
      BY <1>1, <1>2, LenProperties
    <2>. QED  BY <2>1, <2>2, <2>3, <1>1, <1>2, <1>4
  <1>6. /\ reg'[n].tt = reg[n].tt /\ reg'[n].tc = reg[n].tc /\ reg'[p] = reg[p]
        /\ ~Owes(n)' /\ (Owes(p)' <=> Owes(p))
    BY <1>1, <1>2, <1>3, <1>4 DEF Owes
  <1>7. ~Alive(p) /\ reg[n].tc = 0 /\ ~Owes(p)
    BY <1>2, <1>4 DEF WatchdogAt, p
  <1>8. LoopOf(p, e) = p
    BY <1>3 DEF LoopOf
  \* A packet of loop p is the new one, a packet of loop n was there before.
  <1>9. ASSUME NEW k \in Node, NEW i \in 1 .. Len(chan'[k])
        PROVE  \/ k = p /\ i = Len(chan'[p]) /\ LoopOf(k, chan'[k][i]) = p
               \/ /\ i \in 1 .. Len(chan[k]) /\ chan'[k][i] = chan[k][i]
                  /\ LoopOf(k, chan'[k][i]) = n
    <2>1. CASE k = n
      BY <2>1, <1>1, <1>2, <1>5, <1>7 DEF Alive, LoopOf, p
    <2>2. CASE k = p /\ i = Len(chan[p]) + 1
      BY <2>2, <1>5, <1>8
    <2>3. CASE k = p /\ i \in 1 .. Len(chan[p])
      BY <2>3, <1>1, <1>2, <1>5, <1>7 DEF Alive, LoopOf
    <2>. QED  BY <2>1, <2>2, <2>3, <1>1, <1>5
  <1>10. TypeOK'
    BY <1>2, <1>3, <1>4, <1>5 DEF IInv, TypeOK
  <1>11. AllValid'
    <2>1. ASSUME NEW k \in Node, NEW i \in 1 .. Len(chan'[k])
          PROVE  chan'[k][i].valid = 1
      <3>1. CASE i \in 1 .. Len(chan[k]) /\ chan'[k][i] = chan[k][i]
        BY <3>1, <1>2 DEF AllValid
      <3>2. CASE k = p /\ i = Len(chan'[p])
        BY <3>2, <1>3, <1>5
      <3>. QED  BY <3>1, <3>2, <1>9
    <2>. QED  BY <2>1 DEF AllValid
  <1>12. OnePacketPerLoop'
    <2>. SUFFICES ASSUME NEW k \in Node, NEW l \in Node,
                         NEW i \in 1 .. Len(chan'[k]), NEW j \in 1 .. Len(chan'[l]),
                         LoopOf(k, chan'[k][i]) = LoopOf(l, chan'[l][j])
                  PROVE  k = l /\ i = j
      BY DEF OnePacketPerLoop
    <2>1. CASE LoopOf(k, chan'[k][i]) = p
      BY <2>1, <1>1, <1>9
    <2>2. CASE LoopOf(k, chan'[k][i]) = n
      <3>1. /\ i \in 1 .. Len(chan[k]) /\ chan'[k][i] = chan[k][i]
            /\ j \in 1 .. Len(chan[l]) /\ chan'[l][j] = chan[l][j]
        BY <2>2, <1>1, <1>9
      <3>2. OnePacketPerLoop
        BY <1>2
      <3>3. LoopOf(k, chan[k][i]) = LoopOf(l, chan[l][j])
        BY <3>1
      <3>. QED  BY <3>1, <3>2, <3>3, SamePacket
    <2>. QED  BY <2>1, <2>2, <1>9
  <1>13. WatchdogAt(n)'
    BY <1>6, <1>7 DEF WatchdogAt, p
  <1>14. WatchdogAt(p)'
    <2>1. ASSUME NEW a \in Node, NEW b \in Node,
                 NEW i \in 1 .. Len(chan'[a]), NEW j \in 1 .. Len(chan'[b]),
                 LoopOf(a, chan'[a][i]) = p, LoopOf(b, chan'[b][j]) = n,
                 Sooner(p, a, i, b, j)
          PROVE  reg'[p].tt = 1
      <3>1. a = p /\ i = Len(chan[p]) + 1
        BY <2>1, <1>1, <1>5, <1>9
      <3>2. j \in 1 .. Len(chan[b]) /\ LoopOf(b, chan[b][j]) = n
        BY <2>1, <1>1, <1>9
      <3>3. b = n
        BY <3>1, <3>2, <2>1, <1>1, <1>5 DEF Sooner
      <3>4. Alive(n)
        BY <3>2 DEF Alive
      <3>5. reg[p].tt = 1 \/ \E s \in 1 .. Len(chan[p]) : chan[p][s].s_or_r = 1
        BY <3>4, <1>1, <1>2, <1>4 DEF WatchdogAt
      <3>6. ASSUME NEW s \in 1 .. Len(chan[p]), chan[p][s].s_or_r = 1
            PROVE  FALSE
        <4>1. LoopOf(p, chan[p][s]) = n
          BY <3>6, <1>1 DEF LoopOf
        <4>. QED  BY <4>1, <3>2, <3>3, <1>1, <1>2 DEF OnePacketPerLoop
      <3>. QED  BY <3>5, <3>6, <1>6
    <2>. QED  BY <2>1, <1>1, <1>6, <1>7 DEF WatchdogAt
  <1>. QED  BY <1>1, <1>10, <1>11, <1>12, <1>13, <1>14 DEF IInv, Watchdog

(* A loss keeps the invariant: the other packets keep their order. *)
LEMMA LoseInv ==
  ASSUME IInv, NEW n \in Node, Lose(n)
  PROVE  IInv'
PROOF
  <1>. DEFINE p == Peer(n)
  <1>1. p \in Node /\ p # n /\ Peer(p) = n /\ \A k \in Node : k = n \/ k = p
    BY PeerFacts
  <1>2. /\ reg \in [Node -> Reg] /\ flag \in [Node -> SUBSET LinkFlag]
        /\ chan \in [Node -> Seq(Field)]
        /\ AllValid /\ OnePacketPerLoop /\ WatchdogAt(n) /\ WatchdogAt(p)
    BY <1>1 DEF IInv, TypeOK, Watchdog
  <1>3. PICK d \in 1 .. Len(chan[n]) : chan' = [chan EXCEPT ![n] = RemoveAt(@, d)]
    BY DEF Lose
  <1>4. UNCHANGED <<reg, flag, taken, told>>
    BY DEF Lose
  <1>5. /\ chan' \in [Node -> Seq(Field)]
        /\ Len(chan'[n]) = Len(chan[n]) - 1
        /\ \A i \in 1 .. Len(chan'[n]) :
             chan'[n][i] = chan[n][IF i < d THEN i ELSE i + 1]
        /\ chan'[p] = chan[p]
        /\ Len(chan[n]) \in Nat /\ Len(chan[p]) \in Nat
    BY <1>1, <1>2, <1>3, LostSlots, LenProperties
  <1>. HIDE DEF p
  <1>. DEFINE Was(k, i) == IF k = n /\ ~(i < d) THEN i + 1 ELSE i
  <1>6. ASSUME NEW k \in Node, NEW i \in 1 .. Len(chan'[k])
        PROVE  /\ Was(k, i) \in 1 .. Len(chan[k])
               /\ chan'[k][i] = chan[k][Was(k, i)]
    <2>1. CASE k = n
      <3>1. /\ i \in 1 .. (Len(chan[n]) - 1) /\ Len(chan[n]) \in Nat
            /\ chan'[n][i] = chan[n][IF i < d THEN i ELSE i + 1]
        BY <2>1, <1>5
      <3>2. CASE i < d
        BY <3>1, <3>2, <2>1
      <3>3. CASE ~(i < d)
        BY <3>1, <3>3, <2>1
      <3>. QED  BY <3>2, <3>3
    <2>2. CASE k = p
      BY <2>2, <1>1, <1>5
    <2>. QED  BY <2>1, <2>2, <1>1
  <1>7. ASSUME NEW k \in Node, NEW l \in Node,
               NEW i \in 1 .. Len(chan'[k]), NEW j \in 1 .. Len(chan'[l])
        PROVE  /\ k = l /\ Was(k, i) = Was(l, j) => i = j
               /\ \A m \in Node : Sooner(m, k, i, l, j) => Sooner(m, k, Was(k, i), l, Was(l, j))
    <2>1. i \in Nat /\ j \in Nat /\ d \in Nat
      <3>1. Len(chan'[k]) \in Nat /\ Len(chan'[l]) \in Nat
        BY <1>5, LenProperties
      <3>. QED  BY <3>1, <1>5
    <2>. QED  BY <2>1 DEF Sooner
  <1>. HIDE DEF Was
  <1>8. TypeOK'
    BY <1>4, <1>5 DEF IInv, TypeOK
  <1>9. AllValid'
    <2>1. AllValid
      BY <1>2
    <2>2. ASSUME NEW k \in Node, NEW i \in 1 .. Len(chan'[k])
          PROVE  chan'[k][i].valid = 1
      BY <2>1, <1>6 DEF AllValid
    <2>. QED  BY <2>2 DEF AllValid
  <1>10. OnePacketPerLoop'
    <2>. SUFFICES ASSUME NEW k \in Node, NEW l \in Node,
                         NEW i \in 1 .. Len(chan'[k]), NEW j \in 1 .. Len(chan'[l]),
                         LoopOf(k, chan'[k][i]) = LoopOf(l, chan'[l][j])
                  PROVE  k = l /\ i = j
      BY DEF OnePacketPerLoop
    <2>1. /\ Was(k, i) \in 1 .. Len(chan[k]) /\ Was(l, j) \in 1 .. Len(chan[l])
          /\ LoopOf(k, chan[k][Was(k, i)]) = LoopOf(l, chan[l][Was(l, j)])
      BY <1>6
    <2>2. OnePacketPerLoop
      BY <1>2
    <2>3. k = l /\ Was(k, i) = Was(l, j)
      BY <2>1, <2>2 DEF OnePacketPerLoop
    <2>. QED  BY <2>3, <1>7
  <1>11. ASSUME NEW m \in Node, ~Alive(m)
         PROVE  ~Alive(m)'
    BY <1>6, <1>11 DEF Alive
  <1>12. ASSUME NEW m \in Node, WatchdogAt(m)
         PROVE  WatchdogAt(m)'
    <2>0. Peer(m) \in Node /\ Peer(Peer(m)) = m
      BY PeerFacts
    <2>1. Owes(m)' => ~Alive(Peer(m))' /\ ~Owes(Peer(m))' /\ reg'[m].tc = 0
      BY <2>0, <1>4, <1>11, <1>12 DEF WatchdogAt, Owes
    <2>2. ASSUME Owes(Peer(m))', Alive(Peer(m))', reg'[m].tt # 1
          PROVE  \E i \in 1 .. Len(chan'[m]) : chan'[m][i].s_or_r = 1
      <3>0. PICK k \in Node : \E i \in 1 .. Len(chan'[k]) : LoopOf(k, chan'[k][i]) = Peer(m)
        BY <2>2 DEF Alive
      <3>1. PICK i \in 1 .. Len(chan'[k]) : LoopOf(k, chan'[k][i]) = Peer(m)
        BY <3>0
      <3>2. Was(k, i) \in 1 .. Len(chan[k]) /\ LoopOf(k, chan[k][Was(k, i)]) = Peer(m)
        BY <3>1, <1>6
      <3>3. PICK s \in 1 .. Len(chan[m]) : chan[m][s].s_or_r = 1
        <4>1. Alive(Peer(m))
          BY <3>2 DEF Alive
        <4>2. Owes(Peer(m)) /\ reg[m].tt # 1
          BY <2>2, <1>4 DEF Owes
        <4>. QED  BY <4>1, <4>2, <1>12 DEF WatchdogAt
      <3>4. LoopOf(m, chan[m][s]) = Peer(m)
        BY <3>3 DEF LoopOf
      <3>5. OnePacketPerLoop
        BY <1>2
      <3>6. k = m /\ Was(k, i) = s
        BY <3>2, <3>4, <3>5 DEF OnePacketPerLoop
      <3>. QED  BY <3>1, <3>3, <3>6, <1>6
    <2>3. ASSUME NEW a \in Node, NEW b \in Node,
                 NEW i \in 1 .. Len(chan'[a]), NEW j \in 1 .. Len(chan'[b]),
                 LoopOf(a, chan'[a][i]) = m, LoopOf(b, chan'[b][j]) = Peer(m),
                 Sooner(m, a, i, b, j)
          PROVE  reg'[m].tt = 1 \/ reg'[m].tc = 0
      <3>1. /\ Was(a, i) \in 1 .. Len(chan[a]) /\ LoopOf(a, chan[a][Was(a, i)]) = m
            /\ Was(b, j) \in 1 .. Len(chan[b]) /\ LoopOf(b, chan[b][Was(b, j)]) = Peer(m)
        BY <2>3, <1>6
      <3>2. Sooner(m, a, Was(a, i), b, Was(b, j))
        BY <2>3, <1>7
      <3>. QED  BY <3>1, <3>2, <1>4, <1>12 DEF WatchdogAt
    <2>. QED  BY <2>1, <2>2, <2>3 DEF WatchdogAt
  <1>. QED  BY <1>1, <1>2, <1>8, <1>9, <1>10, <1>12 DEF IInv, Watchdog

(* Two first packets, one per loop. *)
LEMMA InitInv == Init => IInv
PROOF
  <1>. SUFFICES ASSUME Init PROVE IInv
    OBVIOUS
  <1>1. InitReg \in Reg /\ InitReg.tc = 0
    BY ThresholdsAssumption DEF InitReg, Reg, Bit, EnttState
  <1>2. /\ SendField(InitReg) \in Field
        /\ SendField(InitReg).valid = 1 /\ SendField(InitReg).s_or_r = 1
    BY DEF SendField, InitReg, Field, Bit, EnttField
  <1>. DEFINE f == SendField(InitReg)
  <1>. HIDE DEF f
  <1>3. /\ reg = [n \in Node |-> InitReg] /\ flag = [n \in Node |-> {}]
        /\ chan = [n \in Node |-> <<f>>]
        /\ taken = [n \in Node |-> FALSE] /\ told = [n \in Node |-> "none"]
    BY DEF Init, f
  <1>4. f \in Field /\ f.valid = 1 /\ f.s_or_r = 1
    BY <1>2 DEF f
  <1>5. \A n \in Node : Len(chan[n]) = 1 /\ chan[n][1] = f
    BY <1>3
  <1>6. TypeOK
    <2>1. <<f>> \in Seq(Field)
      BY <1>4
    <2>. QED  BY <2>1, <1>1, <1>3 DEF TypeOK, Outcome
  <1>7. AllValid
    BY <1>4, <1>5 DEF AllValid
  <1>8. OnePacketPerLoop
    BY <1>4, <1>5, PeerFacts DEF OnePacketPerLoop, LoopOf
  <1>9. ASSUME NEW n \in Node  PROVE WatchdogAt(n)
    <2>1. reg[n].tc = 0 /\ ~Owes(n) /\ ~Owes(Peer(n))
      BY <1>1, <1>3, PeerFacts DEF Owes
    <2>. QED  BY <2>1 DEF WatchdogAt
  <1>. QED  BY <1>6, <1>7, <1>8, <1>9 DEF IInv, Watchdog

\* Steps that leave the link as it is keep it too.
LEMMA StutterInv == IInv /\ UNCHANGED vars => IInv'
BY DEF IInv, TypeOK, Watchdog, AllValid, OnePacketPerLoop, WatchdogAt, Owes,
       Alive, vars

(* Every call of ec_link_action and ec_link_recover, on any answer of the   *)
(* environment, keeps the invariant.                                        *)
LEMMA NextInv == IInv /\ [Next]_vars => IInv'
BY ReceiveInv, RecoverInv, LoseInv, StutterInv DEF Next, Receive

(* The invariant holds in every state. *)
THEOREM Invariance == Spec => []IInv
BY InitInv, NextInv, PTL DEF Spec

(* Registers stay in their bit fields and wires carry fields. *)
THEOREM TypeCorrect == Spec => []TypeOK
BY Invariance, PTL DEF IInv

(* The watchdog's account of the two loops is right in every state: who has *)
(* missed a toggle, and which packets are on their way to it.               *)
THEOREM WatchdogHolds == Spec => []Watchdog
BY Invariance, PTL DEF IInv

(* The watchdog of ec_link_action never takes a living loop for dead,       *)
(* whatever packets are lost and for every TC_THRESHHOLD.                   *)
THEOREM NoFalseAlarm == Spec => []NoFalseRecovery
PROOF
  <1>1. IInv => NoFalseRecovery
    BY DEF IInv, Watchdog, WatchdogAt, NoFalseRecovery
  <1>. QED  BY <1>1, Invariance, PTL

(* Reviving loops never makes two packets of one: the link is never flooded *)
(* by ec_link_recover.                                                     *)
THEOREM LoopsNeverFork == Spec => []OnePacketPerLoop
PROOF
  <1>1. IInv => OnePacketPerLoop
    BY DEF IInv, Watchdog
  <1>. QED  BY <1>1, Invariance, PTL

(* An RR of its own loop costs an end patience, or makes it flag RECOVER:   *)
(* tc starts from 0 after a good toggle and steps up to the threshold.      *)
LEMMA RRCostsPatience ==
  ASSUME IInv, NEW n \in Node, ReceiveRR(n)
  PROVE  Owes(n)' \/ Patience(n)' < Patience(n)
PROOF
  <1>. DEFINE r == reg[n]
              f == Head(chan[n])
  <1>1. /\ reg \in [Node -> Reg] /\ flag \in [Node -> SUBSET LinkFlag]
        /\ r.tt \in {0, 1} /\ r.tc \in 0 .. (TC_THRESHHOLD + 1)
    BY DEF IInv, TypeOK, Reg, Bit
  <1>2. f.s_or_r = 0 /\ f.valid = 1
    <2>1. chan[n] # <<>> /\ chan[n] \in Seq(Field) /\ f.s_or_r = 0
      BY DEF ReceiveRR, IInv, TypeOK
    <2>2. f = chan[n][1] /\ Len(chan[n]) \in Nat \ {0}
      BY <2>1, HeadTailProperties, EmptySeq
    <2>. QED  BY <2>1, <2>2 DEF IInv, Watchdog, AllValid
  <1>. HIDE DEF f
  <1>3. PICK entt \in Want[n] :
          /\ reg' = [reg EXCEPT ![n] = OnRR(r, f, entt).reg]
          /\ flag' = [flag EXCEPT ![n] = OnRR(r, f, entt).flag]
    <2>1. PICK entt \in Want[n] : Handle(n, entt, FALSE)
      BY DEF ReceiveRR
    <2>2. LinkAction(r, f, entt, FALSE) = OnRR(r, f, entt)
      BY <1>2 DEF LinkAction
    <2>. QED  BY <2>1, <2>2 DEF Handle, f
  <1>4. CASE Expires(r)
    <2>1. "RECOVER" \in OnRR(r, f, entt).flag
      BY <1>4 DEF OnRR, When
    <2>. QED  BY <2>1, <1>1, <1>3 DEF Owes
  <1>5. CASE ~Expires(r)
    <2>1. reg'[n] = OnRR(r, f, entt).reg
      BY <1>1, <1>3
    <2>2. reg'[n].tt = 0 /\ reg'[n].tc = IF r.tt = 1 THEN 0 ELSE r.tc + 1
      <3>1. r \in Reg
        BY <1>1
      <3>2. TcAfterRR(r) = IF r.tt = 1 THEN 0 ELSE r.tc + 1
        BY <1>5 DEF TcAfterRR
      <3>3. OnRR(r, f, entt).reg.tt = 0 /\ OnRR(r, f, entt).reg.tc = TcAfterRR(r)
        BY <3>1 DEF OnRR, Reg
      <3>. QED  BY <2>1, <3>2, <3>3
    <2>. QED  BY <2>2, <1>1, ThresholdsAssumption DEF Patience
  <1>. QED  BY <1>4, <1>5

(* Nothing but an RR touches the patience of an end whose peer's loop is    *)
(* dead: no SR can reach it, and ec_link_recover leaves tt and tc alone.    *)
LEMMA PatienceKept ==
  ASSUME IInv, NEW n \in Node, [Next]_vars, ~ReceiveRR(n), ~Alive(Peer(n))
  PROVE  Patience(n)' = Patience(n)
PROOF
  <1>1. reg \in [Node -> Reg] /\ chan \in [Node -> Seq(Field)]
    BY DEF IInv, TypeOK
  <1>2. ~ReceiveSR(n)
    <2>. SUFFICES ASSUME ReceiveSR(n)  PROVE FALSE
      OBVIOUS
    <2>1. chan[n] # <<>> /\ Head(chan[n]).s_or_r = 1 /\ chan[n] \in Seq(Field)
      BY <1>1 DEF ReceiveSR
    <2>2. Head(chan[n]) = chan[n][1] /\ 1 \in 1 .. Len(chan[n])
      BY <2>1, HeadTailProperties, EmptySeq
    <2>. QED  BY <2>1, <2>2 DEF Alive, LoopOf
  <1>3. ASSUME NEW k \in Node, SendRecover(k)  PROVE Patience(n)' = Patience(n)
    <2>1. reg' = [reg EXCEPT ![k] = Recover(reg[k]).reg]
      BY <1>3 DEF SendRecover
    <2>2. Recover(reg[k]).reg.tt = reg[k].tt /\ Recover(reg[k]).reg.tc = reg[k].tc
      BY <1>1, RecoverFacts
    <2>3. reg'[n].tt = reg[n].tt /\ reg'[n].tc = reg[n].tc
      BY <2>1, <2>2, <1>1
    <2>. QED  BY <2>3 DEF Patience
  <1>4. ASSUME NEW k \in Node, Receive(k)  PROVE Patience(n)' = Patience(n)
    <2>1. k # n
      BY <1>2, <1>4 DEF Receive
    <2>2. PICK r \in Reg : reg' = [reg EXCEPT ![k] = r]
      BY <1>4, ReceiveFacts
    <2>. QED  BY <2>1, <2>2, <1>1 DEF Patience
  <1>5. ASSUME NEW k \in Node, Lose(k)  PROVE Patience(n)' = Patience(n)
    BY <1>5 DEF Lose, Patience
  <1>6. CASE UNCHANGED vars
    BY <1>6 DEF vars, Patience
  <1>. QED  BY <1>3, <1>4, <1>5, <1>6 DEF Next, Receive

(* A loop that has lost its packet is noticed in time, for every threshold: *)
(* the RRs an end still has to wait for are counted down by every RR and by *)
(* nothing wound back.                                                      *)
THEOREM LossesAreNoticed == Spec => LossIsNoticed
PROOF
  <1>. DEFINE Noticed(n) == \/ Owes(n)'
                            \/ Patience(n)' < Patience(n)
                            \/ Patience(n)' = Patience(n) /\ ~ReceiveRR(n)
  <1>1. ASSUME IInv, [Next]_vars, NEW n \in Node, ~Alive(Peer(n))
        PROVE  Noticed(n)
    BY <1>1, RRCostsPatience, PatienceKept
  <1>. HIDE DEF Noticed
  <1>2. IInv /\ [Next]_vars =>
          [\A n \in Node : ~Alive(Peer(n)) /\ ~Alive(Peer(n))' => Noticed(n)]_vars
    BY <1>1
  <1>. USE DEF Noticed
  <1>. QED  BY <1>2, Invariance, PTL DEF Spec, LossIsNoticed
=============================================================================
