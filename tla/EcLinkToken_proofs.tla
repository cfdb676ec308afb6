------------------------- MODULE EcLinkToken_proofs -------------------------
(***************************************************************************)
(* Theorems about the token of EcLinkPair on a wire that loses nothing, for *)
(* every threshold and any callers: it is never lost, and its holder gives  *)
(* it away in time.                                                        *)
(***************************************************************************)
EXTENDS EcLinkTransfer_proofs

\* The wire loses nothing.
GoodWire == CanLose = FALSE

\* An SR never carries the token: RRs do.
TokenInRR == \A n \in Node : \A i \in 1 .. Len(chan[n]) :
               chan[n][i].s_or_r = 1 => chan[n][i].token = 0

\* Whoever is next to get its own RR has seen an SR since the last one.
InTurn(n) ==
  \A a, b \in Node : \A i \in 1 .. Len(chan[a]), j \in 1 .. Len(chan[b]) :
    /\ LoopOf(a, chan[a][i]) = n
    /\ LoopOf(b, chan[b][j]) = Peer(n)
    /\ Sooner(n, a, i, b, j)
    => reg[n].tt = 1

\* Who has started so often that it must give the token away is in the middle
\* of a transaction, or has seen no SR since it ended.
Overdue(r) == r.token_bkoff = TOKEN_HOLD_THRESHHOLD + 1

HoldsInTime(r) ==
  /\ r.token_bkoff <= TOKEN_HOLD_THRESHHOLD + 1
  /\ r.token_bkoff # 0 => r.token = 1
  /\ Overdue(r) => r.state # "Rb" /\ (r.state = "NIL" => r.tt = 0)

GoodInv == /\ IInv /\ TokenInRR
           /\ \A n \in Node : Alive(n) /\ ~Owes(n) /\ InTurn(n) /\ HoldsInTime(reg[n])

-----------------------------------------------------------------------------
(* Calls *)

(* A call on an SR: the token stays or is in the answer, and an end that is *)
(* overdue and free gives it away.                                          *)
LEMMA OnSRToken ==
  ASSUME NEW r \in Reg, NEW f \in Field, NEW entt \in BOOLEAN, NEW qfull \in BOOLEAN
  PROVE  LET call == OnSR(r, f, entt, qfull)
         IN  /\ r.token = 1 => call.reg.token = 1 \/ call.ret.token = 1
             /\ HoldsInTime(r) => HoldsInTime(call.reg)
PROOF
  <1>. DEFINE call == OnSR(r, f, entt, qfull)
              passes == PassesToken(r, entt)
  <1>1. /\ call.reg.token = IF passes THEN 0 ELSE r.token
        /\ call.reg.token_bkoff = IF passes THEN 0 ELSE r.token_bkoff
        /\ call.reg.state = IF Accepts(r, f, qfull) THEN "Rb"
                            ELSE IF r.state = "Rb" THEN "NIL" ELSE r.state
        /\ call.ret.token = IF passes THEN 1 ELSE 0
    BY DEF OnSR, Reg
  <1>2. Accepts(r, f, qfull) => r.state = "NIL"
    BY DEF Accepts
  <1>3. r.token = 1 /\ Overdue(r) /\ r.state = "NIL" => passes
    BY ThresholdsAssumption DEF PassesToken, Overdue
  <1>. HIDE DEF call, passes
  <1>4. ASSUME HoldsInTime(r)
        PROVE  HoldsInTime(call.reg)
    <2>1. CASE passes
      BY <2>1, <1>1, ThresholdsAssumption DEF HoldsInTime, Overdue
    <2>2. CASE ~passes
      <3>1. Overdue(r) => r.state # "NIL" /\ r.state # "Rb"
        BY <2>2, <1>3, <1>4, ThresholdsAssumption DEF HoldsInTime, Overdue
      <3>. QED  BY <2>2, <3>1, <1>1, <1>2, <1>4 DEF HoldsInTime, Overdue
    <2>. QED  BY <2>1, <2>2
  <1>. QED  BY <1>1, <1>4 DEF call

(* A call on an RR keeps both tokens, and starts nothing for an end that is *)
(* overdue if it has seen an SR since the last RR.                          *)
LEMMA OnRRToken ==
  ASSUME NEW r \in Reg, NEW f \in Field, NEW entt \in BOOLEAN
  PROVE  LET call == OnRR(r, f, entt)
         IN  /\ r.token = 1 \/ f.token = 1 => call.reg.token = 1
             /\ call.ret.token = 0
             /\ r.tt = 1 => "RECOVER" \notin call.flag
             /\ HoldsInTime(r) /\ r.tt = 1 => HoldsInTime(call.reg)
PROOF
  <1>. DEFINE call == OnRR(r, f, entt)
              base == IF f.token = 1 THEN 0 ELSE r.token_bkoff
              starts == Starts(r, f, entt)
              has == HasToken(r, f)
  <1>1. /\ call.reg.tt = 0
        /\ call.reg.token = TokenAfterRR(r, f)
        /\ call.reg.token_bkoff = TokenBkoffAfterRR(r, f, entt)
        /\ call.reg.state = StateAfterRR(r, f, entt)
        /\ call.ret.token = 0
    BY DEF OnRR, Reg
  <1>2. has => TokenAfterRR(r, f) = 1
    BY DEF TokenAfterRR
  <1>3. r.tt = 1 => "RECOVER" \notin call.flag
    BY DEF OnRR, When, Expires
  <1>4. TokenBkoffAfterRR(r, f, entt) = IF starts /\ has THEN (base + 1) % BKOFF_RANGE ELSE base
    BY DEF TokenBkoffAfterRR
  <1>5. starts => r.state = "NIL" /\ StateAfterRR(r, f, entt) = "Ra"
    BY DEF Starts, Wants, StateAfterRR
  <1>6. r.state # "Rb" => StateAfterRR(r, f, entt) # "Rb"
    BY DEF StateAfterRR
  <1>7. has <=> r.token = 1 \/ f.token = 1
    BY DEF HasToken
  <1>8. r.token_bkoff \in 0 .. (BKOFF_RANGE - 1) /\ BKOFF_RANGE \in Nat \ {0}
    BY ThresholdsAssumption DEF Reg
  <1>9. base \in 0 .. (BKOFF_RANGE - 1)
    BY <1>8
  <1>. HIDE DEF call, starts, has
  <1>10. ASSUME HoldsInTime(r), r.tt = 1
         PROVE  HoldsInTime(call.reg)
    <2>1. base <= TOKEN_HOLD_THRESHHOLD + 1 /\ (base # 0 => has)
      BY <1>7, <1>8, <1>10, ThresholdsAssumption DEF HoldsInTime
    <2>2. base = TOKEN_HOLD_THRESHHOLD + 1 => r.state \notin {"NIL", "Rb"}
      BY <1>10, ThresholdsAssumption DEF HoldsInTime, Overdue
    <2>3. CASE starts /\ has
      <3>1. base <= TOKEN_HOLD_THRESHHOLD
        BY <2>1, <2>2, <2>3, <1>5, <1>9, ThresholdsAssumption
      <3>. HIDE DEF base
      <3>2. (base + 1) % BKOFF_RANGE <= base + 1
        <4>1. CASE base + 1 < BKOFF_RANGE
          BY <4>1, <1>8, <1>9
        <4>2. CASE base + 1 = BKOFF_RANGE
          <5>1. (base + 1) % BKOFF_RANGE = 0
            BY <4>2, <1>8, <1>9
          <5>. QED  BY <5>1, <1>9
        <4>. QED  BY <4>1, <4>2, <1>8, <1>9
      <3>3. (base + 1) % BKOFF_RANGE \in Int
        BY <1>8, <1>9
      <3>4. call.reg.token_bkoff <= TOKEN_HOLD_THRESHHOLD + 1
        BY <2>3, <3>1, <3>2, <3>3, <1>1, <1>4, <1>9, ThresholdsAssumption
      <3>5. call.reg.token = 1 /\ call.reg.state = "Ra"
        BY <2>3, <1>1, <1>2, <1>5
      <3>. QED  BY <3>4, <3>5 DEF HoldsInTime
    <2>4. CASE ~(starts /\ has)
      <3>1. call.reg.token_bkoff = base
        BY <2>4, <1>1, <1>4
      <3>. HIDE DEF base
      <3>2. base # 0 => call.reg.token = 1
        BY <2>1, <1>1, <1>2
      <3>3. base = TOKEN_HOLD_THRESHHOLD + 1 => call.reg.state # "Rb"
        BY <2>2, <1>1, <1>6
      <3>. QED  BY <2>1, <3>1, <3>2, <3>3, <1>1 DEF HoldsInTime, Overdue
    <2>. QED  BY <2>3, <2>4
  <1>. QED  BY <1>1, <1>2, <1>3, <1>7, <1>10 DEF call

-----------------------------------------------------------------------------
(* Steps *)

(* On a good wire an end that gets its own RR has seen an SR since the last *)
(* one: the peer's packet is behind the RR.                                 *)
LEMMA SeenWhenRR ==
  ASSUME GoodInv, NEW n \in Node, chan[n] # <<>>, Head(chan[n]).s_or_r = 0
  PROVE  reg[n].tt = 1
PROOF
  <1>. DEFINE p == Peer(n)
  <1>1. p \in Node /\ p # n
    BY PeerFacts
  <1>2. chan[n] \in Seq(Field) /\ InTurn(n) /\ Alive(p)
    BY <1>1 DEF GoodInv, IInv, TypeOK
  <1>3. /\ Head(chan[n]) = chan[n][1] /\ Len(chan[n]) \in Nat \ {0}
    BY <1>2, EmptySeq, LenProperties
  <1>4. 1 \in 1 .. Len(chan[n]) /\ LoopOf(n, chan[n][1]) = n
    BY <1>3 DEF LoopOf
  <1>. HIDE DEF p
  <1>5. PICK b \in Node : \E j \in 1 .. Len(chan[b]) : LoopOf(b, chan[b][j]) = p
    BY <1>2 DEF Alive
  <1>6. PICK j \in 1 .. Len(chan[b]) : LoopOf(b, chan[b][j]) = p
    BY <1>5
  <1>7. Sooner(n, n, 1, b, j)
    <2>1. CASE b = n
      <3>1. j # 1 /\ j \in 1 .. Len(chan[n])
        BY <2>1, <1>1, <1>4, <1>6
      <3>. QED  BY <3>1, <2>1, <1>3 DEF Sooner
    <2>2. CASE b # n
      BY <2>2 DEF Sooner
    <2>. QED  BY <2>1, <2>2
  <1>. QED  BY <1>2, <1>4, <1>6, <1>7 DEF InTurn, p

(* A call of either kind on a good wire. *)
LEMMA GoodCall ==
  ASSUME GoodInv, NEW n \in Node, Receive(n)
  PROVE  \E r \in Reg, e \in Field, fs \in SUBSET LinkFlag :
           /\ reg' = [reg EXCEPT ![n] = r]
           /\ flag' = [flag EXCEPT ![n] = fs]
           /\ Handled(n, e)
           /\ e.s_or_r = 1 - Head(chan[n]).s_or_r
           /\ e.s_or_r = 1 => e.token = 0
           /\ Head(chan[n]).s_or_r = 1 => r.tt = 1
           /\ "RECOVER" \notin fs
           /\ HoldsInTime(r)
           /\ reg[n].token = 1 \/ Head(chan[n]).token = 1 => r.token = 1 \/ e.token = 1
PROOF
  <1>. DEFINE f == Head(chan[n])
  <1>1. /\ chan[n] # <<>> /\ chan[n] \in Seq(Field) /\ reg[n] \in Reg
        /\ IInv /\ HoldsInTime(reg[n])
    BY DEF Receive, ReceiveSR, ReceiveRR, GoodInv, IInv, TypeOK
  <1>2. f \in Field /\ f = chan[n][1] /\ Len(chan[n]) \in Nat \ {0}
    BY <1>1, HeadTailProperties, EmptySeq
  <1>3. f.valid = 1 /\ (f.s_or_r = 1 => f.token = 0)
    BY <1>1, <1>2 DEF IInv, Watchdog, AllValid, GoodInv, TokenInRR
  <1>4. PICK entt \in BOOLEAN, qfull \in BOOLEAN : Handle(n, entt, qfull)
    BY EnvironmentAssumption DEF Receive, ReceiveSR, ReceiveRR
  <1>. DEFINE call == LinkAction(reg[n], f, entt, qfull)
  <1>5. /\ reg' = [reg EXCEPT ![n] = call.reg]
        /\ flag' = [flag EXCEPT ![n] = call.flag]
        /\ Handled(n, call.ret)
    BY <1>4 DEF Handle, Handled
  <1>6. CASE f.s_or_r = 1
    <2>1. call = OnSR(reg[n], f, entt, qfull)
      BY <1>3, <1>6 DEF LinkAction
    <2>. HIDE DEF call, f
    <2>2. /\ call.reg \in Reg /\ call.ret \in Field /\ call.flag \in SUBSET LinkFlag
          /\ call.ret.s_or_r = 0 /\ call.reg.tt = 1
          /\ "RECOVER" \notin call.flag
      BY <2>1, <1>1, <1>2, OnSRFacts
    <2>3. /\ reg[n].token = 1 => call.reg.token = 1 \/ call.ret.token = 1
          /\ HoldsInTime(call.reg)
      BY <2>1, <1>1, <1>2, OnSRToken
    <2>. USE <2>2
    <2>. WITNESS call.reg \in Reg, call.ret \in Field, call.flag \in SUBSET LinkFlag
    <2>. QED  BY <1>3, <1>5, <1>6, <2>2, <2>3 DEF f
  <1>7. CASE f.s_or_r = 0
    <2>1. call = OnRR(reg[n], f, entt)
      BY <1>3, <1>7 DEF LinkAction
    <2>2. reg[n].tt = 1
      BY <1>1, <1>7, SeenWhenRR
    <2>. HIDE DEF call, f
    <2>3. /\ call.reg \in Reg /\ call.ret \in Field /\ call.flag \in SUBSET LinkFlag
          /\ call.ret.s_or_r = 1
      BY <2>1, <1>1, <1>2, OnRRFacts
    <2>4. /\ reg[n].token = 1 \/ f.token = 1 => call.reg.token = 1
          /\ call.ret.token = 0
          /\ "RECOVER" \notin call.flag
          /\ HoldsInTime(call.reg)
      BY <2>1, <2>2, <1>1, <1>2, OnRRToken
    <2>. USE <2>3
    <2>. WITNESS call.reg \in Reg, call.ret \in Field, call.flag \in SUBSET LinkFlag
    <2>. QED  BY <1>5, <1>7, <2>3, <2>4 DEF f
  <1>. QED  BY <1>2, <1>6, <1>7 DEF Field, Bit

(* Handling a packet keeps the invariant and does not lose the token. *)
LEMMA ReceiveGood ==
  ASSUME GoodInv, NEW n \in Node, Receive(n)
  PROVE  GoodInv' /\ (Tokens # {} => Tokens' # {})
PROOF
  <1>. DEFINE p == Peer(n)
              f == Head(chan[n])
  <1>1. p \in Node /\ p # n /\ Peer(p) = n /\ \A k \in Node : k = n \/ k = p
    BY PeerFacts
  <1>2. /\ chan \in [Node -> Seq(Field)] /\ chan[n] # <<>> /\ IInv
        /\ reg \in [Node -> Reg] /\ flag \in [Node -> SUBSET LinkFlag]
    BY DEF Receive, ReceiveSR, ReceiveRR, GoodInv, IInv, TypeOK
  <1>3. PICK r \in Reg, e \in Field, fs \in SUBSET LinkFlag :
           /\ reg' = [reg EXCEPT ![n] = r]
           /\ flag' = [flag EXCEPT ![n] = fs]
           /\ Handled(n, e)
           /\ e.s_or_r = 1 - f.s_or_r
           /\ e.s_or_r = 1 => e.token = 0
           /\ f.s_or_r = 1 => r.tt = 1
           /\ "RECOVER" \notin fs
           /\ HoldsInTime(r)
           /\ reg[n].token = 1 \/ f.token = 1 => r.token = 1 \/ e.token = 1
    BY GoodCall
  <1>4. /\ f = chan[n][1] /\ f \in Field
        /\ Len(chan[n]) \in Nat \ {0} /\ Len(chan[p]) \in Nat
        /\ Len(chan'[n]) = Len(chan[n]) - 1
        /\ \A i \in 1 .. Len(chan'[n]) : chan'[n][i] = chan[n][i + 1]
        /\ Len(chan'[p]) = Len(chan[p]) + 1
        /\ \A i \in 1 .. Len(chan[p]) : chan'[p][i] = chan[p][i]
        /\ chan'[p][Len(chan[p]) + 1] = e
    BY <1>2, <1>3, HandledSlots
  <1>5. /\ \A k \in Node : \A i \in 1 .. Len(chan'[k]) :
              LET a == WasWire(n, k, i)
                  x == WasSlot(n, k, i)
              IN  /\ a \in Node /\ x \in 1 .. Len(chan[a])
                  /\ LoopOf(k, chan'[k][i]) = LoopOf(a, chan[a][x])
        /\ \A k, l \in Node : \A i \in 1 .. Len(chan'[k]), j \in 1 .. Len(chan'[l]) :
              Sooner(p, k, i, l, j)
                => Sooner(p, WasWire(n, k, i), WasSlot(n, k, i),
                             WasWire(n, l, j), WasSlot(n, l, j))
    BY <1>2, <1>3, HandledLoops
  <1>6. reg'[n] = r /\ reg'[p] = reg[p] /\ flag'[n] = fs /\ flag'[p] = flag[p]
    BY <1>1, <1>2, <1>3
  <1>7. IInv'
    BY <1>2, ReceiveInv
  <1>8. \A m \in Node : Alive(m)'
    <2>1. \A m \in Node : Alive(m)
      BY DEF GoodInv
    <2>. QED  BY <2>1, <1>2, <1>3, LoopsGoOn
  <1>. HIDE DEF p, f
  <1>9. \A m \in Node : ~Owes(m)' /\ HoldsInTime(reg'[m])
    <2>1. ~Owes(n)' /\ HoldsInTime(reg'[n])
      BY <1>3, <1>6 DEF Owes
    <2>2. ~Owes(p)' /\ HoldsInTime(reg'[p])
      BY <1>1, <1>6 DEF Owes, GoodInv
    <2>. QED  BY <2>1, <2>2, <1>1
  <1>10. TokenInRR'
    <2>1. \A i \in 1 .. Len(chan'[n]) : chan'[n][i].s_or_r = 1 => chan'[n][i].token = 0
      BY <1>4 DEF GoodInv, TokenInRR
    <2>2. ASSUME NEW i \in 1 .. Len(chan'[p])
          PROVE  chan'[p][i].s_or_r = 1 => chan'[p][i].token = 0
      <3>1. CASE i \in 1 .. Len(chan[p])
        BY <3>1, <1>1, <1>4 DEF GoodInv, TokenInRR
      <3>2. CASE i = Len(chan[p]) + 1
        BY <3>2, <1>3, <1>4
      <3>. QED  BY <3>1, <3>2, <1>4
    <2>. QED  BY <2>1, <2>2, <1>1 DEF TokenInRR
  <1>11. InTurn(n)'
    <2>. SUFFICES ASSUME NEW a \in Node, NEW b \in Node,
                         NEW i \in 1 .. Len(chan'[a]), NEW j \in 1 .. Len(chan'[b]),
                         LoopOf(a, chan'[a][i]) = n, LoopOf(b, chan'[b][j]) = Peer(n),
                         Sooner(n, a, i, b, j)
                  PROVE  reg'[n].tt = 1
      BY DEF InTurn
    <2>1. CASE f.s_or_r = 1
      BY <2>1, <1>3, <1>6
    <2>2. CASE f.s_or_r = 0
      <3>1. LoopOf(p, chan'[p][Len(chan'[p])]) = n
        BY <2>2, <1>1, <1>3, <1>4 DEF LoopOf
      <3>2. Len(chan'[p]) \in 1 .. Len(chan'[p])
        BY <1>4
      <3>3. a = p /\ i = Len(chan'[p])
        BY <3>1, <3>2, <1>1, <1>7 DEF OnePacketPerLoop, IInv, Watchdog
      <3>. QED  BY <3>3, <1>1, <1>4 DEF Sooner
    <2>. QED  BY <2>1, <2>2, <1>4 DEF Field, Bit
  <1>12. InTurn(p)'
    <2>. SUFFICES ASSUME NEW a \in Node, NEW b \in Node,
                         NEW i \in 1 .. Len(chan'[a]), NEW j \in 1 .. Len(chan'[b]),
                         LoopOf(a, chan'[a][i]) = p, LoopOf(b, chan'[b][j]) = Peer(p),
                         Sooner(p, a, i, b, j)
                  PROVE  reg'[p].tt = 1
      BY DEF InTurn
    <2>. DEFINE c == WasWire(n, a, i)
                x == WasSlot(n, a, i)
                d == WasWire(n, b, j)
                y == WasSlot(n, b, j)
    <2>1. /\ c \in Node /\ x \in 1 .. Len(chan[c]) /\ LoopOf(c, chan[c][x]) = p
          /\ d \in Node /\ y \in 1 .. Len(chan[d]) /\ LoopOf(d, chan[d][y]) = Peer(p)
          /\ Sooner(p, c, x, d, y)
      BY <1>5
    <2>. HIDE DEF c, x, d, y
    <2>2. InTurn(p)
      BY <1>1 DEF GoodInv
    <2>. QED  BY <2>1, <2>2, <1>6 DEF InTurn
  <1>13. GoodInv'
    BY <1>1, <1>7, <1>8, <1>9, <1>10, <1>11, <1>12 DEF GoodInv
  <1>14. ASSUME NEW m \in Tokens
         PROVE  \E k \in Node : \/ reg'[k].token = 1
                                \/ \E i \in 1 .. Len(chan'[k]) : chan'[k][i].token = 1
    <2>1. CASE reg[n].token = 1 \/ f.token = 1
      <3>1. r.token = 1 \/ e.token = 1
        BY <2>1, <1>3
      <3>2. Len(chan[p]) + 1 \in 1 .. Len(chan'[p])
        BY <1>4
      <3>. QED  BY <3>1, <3>2, <1>1, <1>4, <1>6
    <2>2. CASE reg[p].token = 1
      BY <2>2, <1>1, <1>6
    <2>3. ASSUME NEW i \in 1 .. Len(chan[n]), chan[n][i].token = 1, f.token # 1
          PROVE  i - 1 \in 1 .. Len(chan'[n]) /\ chan'[n][i - 1].token = 1
      <3>1. i # 1
        BY <2>3, <1>4
      <3>2. i - 1 \in 1 .. Len(chan'[n]) /\ (i - 1) + 1 = i
        BY <3>1, <1>4
      <3>. QED  BY <3>2, <2>3, <1>4
    <2>4. ASSUME NEW i \in 1 .. Len(chan[p]), chan[p][i].token = 1
          PROVE  i \in 1 .. Len(chan'[p]) /\ chan'[p][i].token = 1
      BY <2>4, <1>4
    <2>5. /\ m \in Node
          /\ reg[m].token = 1 \/ \E i \in 1 .. Len(chan[m]) : chan[m][i].token = 1
      BY DEF Tokens
    <2>. QED  BY <2>1, <2>2, <2>3, <2>4, <2>5, <1>1
  <1>15. Tokens # {} => Tokens' # {}
    <2>. SUFFICES ASSUME NEW m \in Tokens  PROVE Tokens' # {}
      OBVIOUS
    <2>. QED  BY <1>14 DEF Tokens
  <1>. QED  BY <1>13, <1>15

(* Two first packets, each on the wire to the other end: neither end is     *)
(* about to get its own, and no one has a token.                            *)
LEMMA InitGood == Init => GoodInv
PROOF
  <1>. SUFFICES ASSUME Init PROVE GoodInv
    OBVIOUS
  <1>. DEFINE f == SendField(InitReg)
  <1>1. f.s_or_r = 1 /\ f.token = 0
    BY DEF SendField
  <1>. HIDE DEF f
  <1>2. /\ reg = [n \in Node |-> InitReg] /\ flag = [n \in Node |-> {}]
        /\ chan = [n \in Node |-> <<f>>]
    BY DEF Init, f
  <1>3. \A n \in Node : Len(chan[n]) = 1 /\ chan[n][1] = f
    BY <1>2
  <1>4. IInv
    BY InitInv
  <1>5. TokenInRR
    BY <1>1, <1>3 DEF TokenInRR
  <1>6. ASSUME NEW n \in Node
        PROVE  Alive(n) /\ ~Owes(n) /\ InTurn(n) /\ HoldsInTime(reg[n])
    <2>1. Alive(n)
      <3>1. Peer(n) \in Node /\ Peer(Peer(n)) = n
        BY PeerFacts
      <3>2. LoopOf(Peer(n), chan[Peer(n)][1]) = n /\ 1 \in 1 .. Len(chan[Peer(n)])
        BY <3>1, <1>1, <1>3 DEF LoopOf
      <3>. QED  BY <3>1, <3>2 DEF Alive
    <2>2. ~Owes(n)
      BY <1>2 DEF Owes
    <2>3. InTurn(n)
      <3>. SUFFICES ASSUME NEW a \in Node, NEW b \in Node,
                           NEW i \in 1 .. Len(chan[a]), NEW j \in 1 .. Len(chan[b]),
                           LoopOf(a, chan[a][i]) = n, LoopOf(b, chan[b][j]) = Peer(n)
                    PROVE  ~Sooner(n, a, i, b, j)
        BY DEF InTurn
      <3>1. i = 1 /\ j = 1
        BY <1>3
      <3>2. Peer(a) = n /\ Peer(b) = Peer(n)
        BY <3>1, <1>1, <1>3 DEF LoopOf
      <3>. QED  BY <3>1, <3>2, PeerFacts DEF Sooner
    <2>4. HoldsInTime(reg[n])
      <3>1. reg[n].token_bkoff = 0
        BY <1>2 DEF InitReg
      <3>. QED  BY <3>1, ThresholdsAssumption DEF HoldsInTime, Overdue
    <2>. QED  BY <2>1, <2>2, <2>3, <2>4
  <1>. QED  BY <1>4, <1>5, <1>6 DEF GoodInv

(* On a good wire every step keeps the invariant and the token. *)
LEMMA NextGood ==
  ASSUME GoodWire, GoodInv, [Next]_vars
  PROVE  GoodInv' /\ (Tokens # {} => Tokens' # {})
PROOF
  <1>1. ASSUME NEW n \in Node, Receive(n)
        PROVE  GoodInv' /\ (Tokens # {} => Tokens' # {})
    BY <1>1, ReceiveGood
  <1>2. \A n \in Node : ~SendRecover(n) /\ ~Lose(n)
    BY DEF SendRecover, Lose, GoodInv, GoodWire
  <1>3. CASE UNCHANGED vars
    <2>1. IInv'
      BY <1>3, StutterInv DEF GoodInv
    <2>2. UNCHANGED <<reg, flag, chan>>
      BY <1>3 DEF vars
    <2>. QED  BY <2>1, <2>2 DEF GoodInv, TokenInRR, InTurn, Alive, Owes, Tokens
  <1>. QED  BY <1>1, <1>2, <1>3 DEF Next, Receive

-----------------------------------------------------------------------------
(* Theorems *)

\* The account of the token and of the turns holds in every state.
LEMMA GoodInvariance == GoodWire => (Spec => []GoodInv)
PROOF
  <1>. SUFFICES ASSUME GoodWire  PROVE Spec => []GoodInv
    OBVIOUS
  <1>1. GoodInv /\ [Next]_vars => GoodInv'
    BY NextGood
  <1>. QED  BY <1>1, InitGood, PTL DEF Spec

(* On a good wire a holder starts at most TOKEN_HOLD_THRESHHOLD + 1         *)
(* transactions before ec_link_action gives the token away, and its 4-bit   *)
(* count of starts does not wrap.                                           *)
THEOREM TokenGivenInTime == GoodWire => (Spec => []TokenHoldBound)
PROOF
  <1>1. GoodInv => TokenHoldBound
    BY DEF GoodInv, HoldsInTime, TokenHoldBound
  <1>. QED  BY <1>1, GoodInvariance, PTL

(* On a good wire the token that a success created is never lost: what      *)
(* ec_link_action takes from an end is in the packet it sends, and what is  *)
(* in a packet that arrives is the end's.                                   *)
THEOREM TokenNeverLost == GoodWire => (Spec => TokenKept)
PROOF
  <1>. SUFFICES ASSUME GoodWire  PROVE Spec => TokenKept
    OBVIOUS
  <1>1. GoodInv /\ [Next]_vars => [Tokens # {} => Tokens' # {}]_vars
    BY NextGood
  <1>. QED  BY <1>1, GoodInvariance, PTL DEF Spec, TokenKept
=============================================================================
