----------------------------- MODULE EcLinkPair -----------------------------
(***************************************************************************)
(* Two ends of an Earth Computing link, each running the register machine   *)
(* of ec_link.c, joined by two FIFO wires that may lose packets.            *)
(*                                                                         *)
(* Every end starts a loop of its own: it sends an SR, the peer answers     *)
(* with an RR, the end answers that with its next SR.  So the link carries  *)
(* two packets, one per loop, and "loop n is alive" means that loop n's     *)
(* packet is on a wire.  The only failure detector is the other loop: an    *)
(* end that gets RRs and no SRs between them concludes that the peer's loop *)
(* died, and calls ec_link_recover to revive it.                            *)
(*                                                                         *)
(* A transaction of end n is NIL -> Ra -> Rp -> NIL at n, and NIL -> Rb ->  *)
(* NIL at the peer.  taken and told are what the two callers know of it.    *)
(***************************************************************************)
EXTENDS EcLink, SequencesExt

CONSTANTS Want,         \* Want[n]: what n's caller may pass as entt
          QFull,        \* what a caller may pass as qfull
          CanLose,      \* may the wire lose a packet while both loops live
          LoseRecover,  \* may it lose a recovery packet
          LoseBoth      \* may it lose the last packet

Node == {0, 1}
Peer(n) == 1 - n

ASSUME EnvironmentAssumption ==
  /\ Want \in [Node -> (SUBSET BOOLEAN) \ {{}}]
  /\ QFull \in (SUBSET BOOLEAN) \ {{}}
  /\ CanLose \in BOOLEAN /\ LoseRecover \in BOOLEAN /\ LoseBoth \in BOOLEAN

VARIABLES reg,    \* reg[n]: the ec_link register of end n
          flag,   \* flag[n]: the flags of the last call at n
          chan,   \* chan[n]: the fields on their way to n
          taken,  \* taken[n]: the peer has FNSHed n's transaction
          told    \* told[n]: what n was told of its last transaction

vars == <<reg, flag, chan, taken, told>>

Outcome == {"none", "DONE", "DROP"}

TypeOK == /\ reg \in [Node -> Reg]
          /\ flag \in [Node -> SUBSET LinkFlag]
          /\ chan \in [Node -> Seq(Field)]
          /\ taken \in [Node -> BOOLEAN]
          /\ told \in [Node -> Outcome]

-----------------------------------------------------------------------------
\* The loop of a field on wire n: an SR there is the peer's, an RR answers n.
LoopOf(n, f) == IF f.s_or_r = 1 THEN Peer(n) ELSE n

Alive(m) == \E n \in Node : \E i \in 1 .. Len(chan[n]) : LoopOf(n, chan[n][i]) = m

\* A caller that saw RECOVER owes a recovery packet before anything else.
Owes(n) == "RECOVER" \in flag[n]

Init == /\ reg = [n \in Node |-> InitReg]
        /\ flag = [n \in Node |-> {}]
        /\ chan = [n \in Node |-> <<SendField(InitReg)>>]
        /\ taken = [n \in Node |-> FALSE]
        /\ told = [n \in Node |-> "none"]

\* The caller's record of its transactions, from the flags of a call.
Record(n, fs) ==
  /\ taken' = [m \in Node |-> IF m = n /\ "STRT" \in fs THEN FALSE
                              ELSE taken[m] \/ (m = Peer(n) /\ "FNSH" \in fs)]
  /\ told' = [told EXCEPT ![n] = IF "DONE" \in fs THEN "DONE"
                                 ELSE IF reg[n].state \in {"Ra", "Rp"} /\ "DROP" \in fs
                                      THEN "DROP"
                                 ELSE IF "STRT" \in fs THEN "none" ELSE @]

\* End n handles the first packet on its wire and sends the answer.
Handle(n, entt, qfull) ==
  LET call == LinkAction(reg[n], Head(chan[n]), entt, qfull)
  IN  /\ reg' = [reg EXCEPT ![n] = call.reg]
      /\ flag' = [flag EXCEPT ![n] = call.flag]
      /\ chan' = [chan EXCEPT ![n] = Tail(@), ![Peer(n)] = Append(@, call.ret)]
      /\ Record(n, call.flag)

ReceiveSR(n) ==
  /\ ~Owes(n) /\ chan[n] # <<>> /\ Head(chan[n]).s_or_r = 1
  /\ \E entt \in Want[n], qfull \in QFull : Handle(n, entt, qfull)

ReceiveRR(n) ==
  /\ ~Owes(n) /\ chan[n] # <<>> /\ Head(chan[n]).s_or_r = 0
  /\ \E entt \in Want[n] : Handle(n, entt, FALSE)

SendRecover(n) ==
  LET call == Recover(reg[n])
  IN  /\ Owes(n)
      /\ reg' = [reg EXCEPT ![n] = call.reg]
      /\ flag' = [flag EXCEPT ![n] = call.flag]
      /\ chan' = [chan EXCEPT ![Peer(n)] = Append(@, call.ret)]
      /\ UNCHANGED <<taken, told>>

\* The wire loses a packet on its way to n.
Lose(n) ==
  /\ CanLose
  /\ LoseBoth \/ \A m \in Node : Alive(m)
  /\ \E i \in 1 .. Len(chan[n]) :
       /\ LoseRecover \/ chan[n][i].recover = 0
       /\ chan' = [chan EXCEPT ![n] = RemoveAt(@, i)]
  /\ UNCHANGED <<reg, flag, taken, told>>

Receive(n) == ReceiveSR(n) \/ ReceiveRR(n)

Next == \E n \in Node : ReceiveSR(n) \/ ReceiveRR(n) \/ SendRecover(n) \/ Lose(n)

Spec == Init /\ [][Next]_vars

\* The caller's loop polls its port and sends what it owes.
Fairness == \A n \in Node : WF_vars(Receive(n)) /\ WF_vars(SendRecover(n))

FairSpec == Spec /\ Fairness

\* The wire is eventually good; a premise of the properties that need it.
LossesEnd == <>[][~ \E n \in Node : Lose(n)]_vars

-----------------------------------------------------------------------------
(* Safety *)

(* A loop never forks: at no moment are two packets of one loop on the      *)
(* wires, however often ec_link_recover revives loops.                      *)
OnePacketPerLoop ==
  \A n, k \in Node : \A i \in 1 .. Len(chan[n]), j \in 1 .. Len(chan[k]) :
    LoopOf(n, chan[n][i]) = LoopOf(k, chan[k][j]) => n = k /\ i = j

(* ec_link_action flags RECOVER only for a loop that did lose its packet:   *)
(* the tt/tc watchdog gives no false alarm, whatever the two ends do.       *)
NoFalseRecovery == \A n \in Node : Owes(n) => ~Alive(Peer(n))

(* Why there is no false alarm.  Both packets travel the same ring and      *)
(* cannot overtake, so an end whose loops live sees SR and RR in turn.  The *)
(* exception is the first RR after a recovery: it reaches the end ahead of  *)
(* the revived SR, and then the end has not missed a toggle yet.            *)
Sooner(n, a, i, b, j) == (a = n /\ b # n) \/ (a = b /\ i < j)

WatchdogAt(n) ==
  /\ Owes(n) => /\ ~Alive(Peer(n)) /\ ~Owes(Peer(n))
                /\ reg[n].tc = 0
  /\ Owes(Peer(n)) /\ Alive(Peer(n)) =>
       reg[n].tt = 1 \/ \E i \in 1 .. Len(chan[n]) : chan[n][i].s_or_r = 1
  /\ \A a, b \in Node : \A i \in 1 .. Len(chan[a]), j \in 1 .. Len(chan[b]) :
       /\ LoopOf(a, chan[a][i]) = n
       /\ LoopOf(b, chan[b][j]) = Peer(n)
       /\ Sooner(n, a, i, b, j)
       => reg[n].tt = 1 \/ reg[n].tc = 0

AllValid == \A n \in Node : \A i \in 1 .. Len(chan[n]) : chan[n][i].valid = 1

Watchdog == /\ AllValid
            /\ OnePacketPerLoop
            /\ \A n \in Node : WatchdogAt(n)

(* An end sees the SR values of its peer strictly alternate, through losses *)
(* and recoveries: no event is skipped and none is taken twice.             *)
SRAlternates ==
  \A n \in Node : \A i \in 1 .. Len(chan[n]) :
    chan[n][i].s_or_r = 1 => chan[n][i].value # reg[n].rr

(* The branches of ec_link_action that its comments call "error" and        *)
(* "impossible sequence" are never taken.                                   *)
NoProtocolError == \A n \in Node : "EROR" \notin flag[n]

(* Both ends cannot be past the request of a transaction of their own: of   *)
(* two conflicting requests at least one is refused.                        *)
NeverBothGranted == ~ \A n \in Node : reg[n].state = "Rp"

(* An end that is held in Rb is held by its peer's transaction.             *)
HeldByRequester ==
  \A n \in Node : reg[n].state = "Rb" => reg[Peer(n)].state \in {"Ra", "Rp"}

(* The verdict is true: an initiator is told DONE if the peer finished the  *)
(* transaction and DROP if it did not, when ec_link_action or               *)
(* ec_link_recover at the peer had the last word on a lost packet.          *)
ToldTheTruth == \A n \in Node : /\ told[n] = "DONE" => taken[n]
                                /\ told[n] = "DROP" => ~taken[n]

(* A holder starts at most TOKEN_HOLD_THRESHHOLD + 1 transactions before it *)
(* gives the token away, so its 4-bit counter of starts cannot wrap.        *)
TokenHoldBound ==
  \A n \in Node : reg[n].token_bkoff <= TOKEN_HOLD_THRESHHOLD + 1

\* The RRs that n still answers before one makes it conclude that the peer's
\* loop has lost its packet.
Patience(n) == IF reg[n].tt = 1 THEN TC_THRESHHOLD + 2 ELSE TC_THRESHHOLD + 1 - reg[n].tc

(* A loop that has lost its packet is noticed in time: each RR of its own    *)
(* loop takes an end one step closer to RECOVER, and nothing that happens at *)
(* either end or on the wires meanwhile takes it back.                      *)
LossIsNoticed ==
  [][ \A n \in Node : ~Alive(Peer(n)) /\ ~Alive(Peer(n))' =>
        \/ Owes(n)'
        \/ Patience(n)' < Patience(n)
        \/ Patience(n)' = Patience(n) /\ ~ReceiveRR(n) ]_vars

Tokens == {n \in Node : reg[n].token = 1 \/ \E i \in 1 .. Len(chan[n]) : chan[n][i].token = 1}

(* On a good wire the token that a first success creates is never lost: an  *)
(* end has it or it is on its way, in every handler that passes it on.      *)
TokenKept == [][Tokens # {} => Tokens' # {}]_vars

-----------------------------------------------------------------------------
(* The abstract transaction this protocol implements. *)
Offered(n) == \E i \in 1 .. Len(chan[Peer(n)]) :
                chan[Peer(n)][i].s_or_r = 1 /\ chan[Peer(n)][i].entt = "ENTT"

Progress(n) == IF reg[Peer(n)].state = "Rb" THEN "held"
               ELSE IF Offered(n) THEN "offered"
               ELSE IF taken[n] THEN "taken" ELSE "none"

Transfer == INSTANCE AtomicTransfer
              WITH asking <- [n \in Node |-> reg[n].state \in {"Ra", "Rp"}],
                   peer <- [n \in Node |-> Progress(n)]

(* The two registers and the wires implement the atomic transaction of      *)
(* AtomicTransfer: it is taken at most once and its verdict is true.        *)
ImplementsTransfer == Transfer!Spec

(* So they do with its fairness: every transaction ends.                    *)
ImplementsFairTransfer == Transfer!FairSpec

-----------------------------------------------------------------------------
(* Liveness *)

(* A loop that died is revived by the other one.                            *)
LoopsRevive == \A n \in Node : ~Alive(n) ~> Alive(n)

(* Once the losses end both ends see SRs and RRs in turn for ever: nothing  *)
(* is owed any more and both have reported the link up.                     *)
LinkStaysUp ==
  LossesEnd => <>[](\A n \in Node : Alive(n) /\ reg[n].tf = 1)

(* An end that keeps asking an idle peer has its transactions done again    *)
(* and again.                                                               *)
SoleRequesterServed == LossesEnd => []<>("DONE" \in flag[0])
=============================================================================
