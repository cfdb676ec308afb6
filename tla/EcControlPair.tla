--------------------------- MODULE EcControlPair ---------------------------
(***************************************************************************)
(* Two Earth Computing ports: each runs the state machine of ec_control.c   *)
(* over its link register and its atomic link engine, and a caller that     *)
(* feeds it packets and its queues.  The wires are those of EcLinkPair, and *)
(* so is what the callers know of their transactions (taken, told); the     *)
(* packets now also carry the transaction.                                  *)
(***************************************************************************)
EXTENDS EcControl, SequencesExt

CONSTANTS Asks,         \* Asks[n]: what n's caller may have in its queues
          Stale,        \* the memory that the machines start from
          QFull,        \* may the egress queue be full
          CanLose, LoseRecover, LoseBoth  \* losses, as in EcLinkPair

Node == {0, 1}
Peer(n) == 1 - n

\* Something to send: AIT messages waiting, and the command on top.
Ask == [ait : BOOLEAN, cmd : Command]
Idling == [ait |-> FALSE, cmd |-> NoCommand]
Entt(ask) == ask.ait \/ ask.cmd.op # NOP

\* Memory before entl_state_init, which leaves some of it as it is.
Memories ==
  {[reg |-> InitReg, last |-> last, fw |-> fw,
    ao |-> [reg |-> [r \in RegNo |-> 0], result |-> 0, retval |-> retval,
            rflag |-> [ok |-> ok, zero |-> zero], flags |-> NoFlags,
            pend |-> "none", at |-> 0]] :
     last \in {"AIT", "ALO"}, fw \in BOOLEAN, retval \in Word, ok \in Bit, zero \in Bit}

ASSUME EnvironmentAssumption ==
  /\ Stale \in (SUBSET Memories) \ {{}}
  /\ Asks \in [Node -> (SUBSET Ask) \ {{}}]
  /\ QFull \in (SUBSET BOOLEAN) \ {{}}
  /\ CanLose \in BOOLEAN /\ LoseRecover \in BOOLEAN /\ LoseBoth \in BOOLEAN

VARIABLES mcn,   \* mcn[n]: the machine of end n
          flag,  \* flag[n]: the link flags of its last call
          act,   \* act[n]: the actions it asked its caller for
          chan,  \* chan[n]: the packets on their way to n
          taken, told

vars == <<mcn, flag, act, chan, taken, told>>

TypeOK == /\ mcn \in [Node -> Machine]
          /\ flag \in [Node -> SUBSET LinkFlag]
          /\ act \in [Node -> SUBSET Action]
          /\ chan \in [Node -> Seq(Packet)]
          /\ taken \in [Node -> BOOLEAN]
          /\ told \in [Node -> {"none", "DONE", "DROP"}]

-----------------------------------------------------------------------------
(* The registers of the engines may hold anything, for the hosts write them. *)
Init == /\ \E m \in [Node -> Stale], f \in [Node -> [RegNo -> Word]] :
             mcn = [n \in Node |-> [StateInit(m[n]) EXCEPT !.ao.reg = f[n]]]
        /\ flag = [n \in Node |-> {}]
        /\ act = [n \in Node |-> {}]
        /\ chan = [n \in Node |-> <<Plain(SendField(InitReg))>>]
        /\ taken = [n \in Node |-> FALSE]
        /\ told = [n \in Node |-> "none"]

LoopOf(n, p) == IF p.f.s_or_r = 1 THEN Peer(n) ELSE n

Alive(m) == \E n \in Node : \E i \in 1 .. Len(chan[n]) : LoopOf(n, chan[n][i]) = m

\* The caller answers ENTL_ACTION_RECOVER before anything else.
Owes(n) == "RECOVER" \in act[n]

\* What the callers know, from the flags of a call at n.
Record(n, fs) ==
  /\ taken' = [m \in Node |-> IF m = n /\ "STRT" \in fs THEN FALSE
                              ELSE taken[m] \/ (m = Peer(n) /\ "FNSH" \in fs)]
  /\ told' = [told EXCEPT ![n] = IF "DONE" \in fs THEN "DONE"
                                 ELSE IF mcn[n].reg.state \in {"Ra", "Rp"} /\ "DROP" \in fs
                                      THEN "DROP"
                                 ELSE IF "STRT" \in fs THEN "none" ELSE @]

\* The call at n, its answer and its flags.
Take(n, call) ==
  /\ mcn' = [mcn EXCEPT ![n] = call.mcn]
  /\ flag' = [flag EXCEPT ![n] = call.flag]
  /\ act' = [act EXCEPT ![n] = call.act]

\* What alo_next may return to entl_received and what alo_data may hold
\* before it is written: one value, unless the call looks at it.
Outcomes(n, p) == IF mcn[n].reg.state = "Ra" /\ p.f.entt = "ENTT"
                  THEN NextReturns(mcn[n].ao, p.st) ELSE {0}
Junk(n, ask, p) == IF ask.cmd.op.name \in BitOp \/ p.op.name \in BitOp \cup CondOp
                   THEN Word ELSE {0}

Receive(n) ==
  /\ ~Owes(n) /\ chan[n] # <<>>
  /\ \E ask \in Asks[n], qfull \in QFull :
     \E res \in Outcomes(n, Head(chan[n])), junk \in Junk(n, ask, Head(chan[n])) :
       LET call == Received(mcn[n], Head(chan[n]), ask.ait, ask.cmd, qfull, res, junk)
       IN  /\ Take(n, call)
           /\ chan' = [chan EXCEPT ![n] = Tail(@), ![Peer(n)] = Append(@, call.out)]
           /\ Record(n, call.flag)

SendRecover(n) ==
  LET call == Recovered(mcn[n])
  IN  /\ Owes(n)
      /\ Take(n, call)
      /\ chan' = [chan EXCEPT ![Peer(n)] = Append(@, call.out)]
      /\ UNCHANGED <<taken, told>>

Lose(n) ==
  /\ CanLose
  /\ LoseBoth \/ \A m \in Node : Alive(m)
  /\ \E i \in 1 .. Len(chan[n]) :
       /\ LoseRecover \/ chan[n][i].f.recover = 0
       /\ chan' = [chan EXCEPT ![n] = RemoveAt(@, i)]
  /\ UNCHANGED <<mcn, flag, act, taken, told>>

Next == \E n \in Node : Receive(n) \/ SendRecover(n) \/ Lose(n)

Spec == Init /\ [][Next]_vars

-----------------------------------------------------------------------------
(* The register machines and the wires underneath are those of EcLinkPair:   *)
(* entl_received and entl_recover neither skip nor alter a link call.       *)
Link == INSTANCE EcLinkPair
          WITH reg <- [n \in Node |-> mcn[n].reg],
               chan <- [n \in Node |-> [i \in 1 .. Len(chan[n]) |-> chan[n][i].f]],
               Want <- [n \in Node |-> {Entt(ask) : ask \in Asks[n]}]

ImplementsLink == Link!Spec

(* A holder starts at most TOKEN_HOLD_THRESHHOLD + 1 transactions, whoever   *)
(* asks for what, before it gives the token away: its 4-bit counter cannot   *)
(* wrap.                                                                    *)
TokenHoldBound == Link!TokenHoldBound

(* On a good wire no packet of a transaction loses the token on the way.    *)
TokenKept == Link!TokenKept

(* With losses of both loops too, the callers' transactions are those of     *)
(* AtomicTransfer: each is taken at most once, and its verdict is true.      *)
ImplementsTransfer == Link!ImplementsTransfer

(* The source's register counts as written once the peer has taken the      *)
(* operation, although DONE comes later.                                    *)
Decided(n) == taken[n] /\ mcn[n].reg.state = "Rp" /\ mcn[n].last = "ALO"

Memory == INSTANCE AtomicMemory
            WITH End <- Node,
                 asked <- [n \in Node |-> {ask.cmd : ask \in Asks[n]}],
                 mem <- [n \in Node |-> IF Decided(n) THEN Complete(mcn[n].ao).alo.reg
                                        ELSE mcn[n].ao.reg]

(* Across lost packets, recoveries and conflicting requests, an operation   *)
(* that an end asks for changes the registers of both ends as its table     *)
(* says, or of neither, and nothing else changes them.                      *)
ImplementsMemory == Memory!Spec

(* An end between transactions has no operation pending, so none can be     *)
(* written by a later transaction.                                          *)
NothingLeftPending ==
  \A n \in Node : mcn[n].reg.state = "NIL" => mcn[n].ao.pend = "none"

(* last_alo_command, one for both roles of an end, decides what is done with *)
(* a transaction: an end that holds one holds it as what its initiator       *)
(* asked for, a message or an operation, whatever came between.              *)
HeldAsAsked ==
  \A n \in Node : mcn[n].reg.state = "Rb" => mcn[n].last = mcn[Peer(n)].last

(* A caller that was given a message to process (PROC_AIT) is told what      *)
(* becomes of it: that it counts (SIG_AIT) or that it does not (CLER_AIT).   *)
HeldMessageResolved ==
  [][ \A n \in Node :
        mcn[n].reg.state = "Rb" /\ mcn[n].last = "AIT" /\ mcn'[n].reg.state # "Rb" =>
          ("SIG_AIT" \in act'[n]) # ("CLER_AIT" \in act'[n]) ]_vars

(* A message leaves its sender's queue (DROP_AIT) when its transaction ends  *)
(* with the peer's having taken it, and stays there to be sent again when it *)
(* ends without: none is lost, and none is delivered twice.                  *)
DequeuedIfTaken ==
  [][ \A n \in Node :
        /\ mcn[n].reg.state \in {"Ra", "Rp"} /\ mcn'[n].reg.state \notin {"Ra", "Rp"}
        /\ mcn[n].last = "AIT"
        => ("DROP_AIT" \in act'[n] <=> taken[n]) ]_vars

(* When the destination takes an operation that it has executed it writes   *)
(* its register if and only if the source will report success.             *)
VerdictsAgree ==
  [][ \A n \in Node : "FNSH" \in flag'[n] /\ mcn[n].ao.pend # "none" =>
        ("SIG_ALO" \in act'[n] <=> mcn[Peer(n)].ao.rflag.ok = 1) ]_vars

(* An end that takes a transaction forwards it if and only if the command    *)
(* that its initiator sent has the FW bit, whatever transactions of either   *)
(* kind were dropped since the last one and whatever the memory held.       *)
ForwardsAsAsked ==
  [][ \A n \in Node : "FNSH" \in flag'[n] /\ act'[n] \cap {"SIG_AIT", "SIG_ALO"} # {} =>
        ("PROPAGATE_AIT" \in act'[n] <=>
           \E ask \in Asks[Peer(n)] :
             ask.cmd.fw /\ (ask.cmd.op = NOP <=> mcn[Peer(n)].last = "AIT")) ]_vars

(* alo_btestset_test (2), alo_tester.c:1882-1902: a bit test that fails at   *)
(* the source changes nothing at the destination.                           *)
RefusedAtSource ==
  [][ \A n \in Node : "FNSH" \in flag'[n] /\ mcn'[n].ao.reg # mcn[n].ao.reg =>
        mcn[Peer(n)].ao.pend # "none" ]_vars

(* ec_control.h:44 and 48: a command names the register it changes.         *)
NamedRegisterOnly ==
  [][ \A n \in Node, r \in RegNo : mcn'[n].ao.reg[r] # mcn[n].ao.reg[r] =>
        \/ \E ask \in Asks[n] : Entt(ask) /\ ask.cmd.sr = r
        \/ \E ask \in Asks[Peer(n)] : Entt(ask) /\ ask.cmd.dt = r ]_vars
=============================================================================
