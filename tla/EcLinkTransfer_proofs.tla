------------------------ MODULE EcLinkTransfer_proofs ------------------------
(***************************************************************************)
(* The verdicts of EcLinkPair are true, and EcLinkPair implements           *)
(* AtomicTransfer, for every threshold and every environment that loses no  *)
(* recovery packet.  On top of the table of EcLinkTable_proofs, FateOf(n)   *)
(* says what n's pending transaction will come to.                          *)
(***************************************************************************)
EXTENDS EcLinkTable_proofs

\* Recovery packets arrive.
Reliable == LoseRecover = FALSE

\* The answer to a granted transaction completes it just if it was taken, and
\* one that was cancelled is announced by a packet that is still on its way.
FateOf(n) ==
  /\ reg[n].state = "Ra" => ~taken[n]
  /\ reg[n].state \in {"Ra", "Rp"} => told[n] = "none"
  /\ reg[n].state = "Rp" /\ reg[Peer(n)].state = "Rb" => ~taken[n]
  /\ reg[n].state = "Rp" /\ reg[Peer(n)].state # "Rb" /\ ~taken[n] => Alive(n)
  /\ reg[n].state = "Rp" =>
       \A i \in 1 .. Len(chan[n]) :
         chan[n][i].s_or_r = 0 => (Completes(reg[n], chan[n][i]) <=> taken[n])

Fate == (\A n \in Node : FateOf(n)) /\ ToldTheTruth

TInv == IInv /\ Table /\ Fate

-----------------------------------------------------------------------------
(* What a call does to the transactions *)

\* The loop of n's transaction goes through its end p = Peer(n).
Begins(n) ==
  /\ reg[n].state = "NIL" /\ reg'[n].state = "Ra"
  /\ told'[n] = "none" /\ taken'[n] = FALSE

IsGranted(n) ==
  /\ reg[n].state = "Ra" /\ reg'[n].state = "Rp" /\ reg[Peer(n)].state = "Rb"
  /\ told'[n] = told[n] /\ taken'[n] = taken[n]

Ends(n) ==
  /\ reg[n].state \in {"Ra", "Rp"} /\ reg'[n].state = "NIL"
  /\ reg[Peer(n)].state # "Rb"
  /\ told'[n] = (IF taken[n] THEN "DONE" ELSE "DROP") /\ taken'[n] = taken[n]

Idles(n) ==
  /\ reg[n].state \in {"NIL", "Rb"} /\ reg'[n].state = reg[n].state
  /\ told'[n] = told[n] /\ taken'[n] = taken[n]

\* The responder of p's transaction.
Holds(n) ==
  /\ reg[n].state = "NIL" /\ reg'[n].state = "Rb"
  /\ reg[Peer(n)].state = "Ra" /\ Head(chan[n]).entt = "ENTT"
  /\ taken' = taken

Takes(n) ==
  /\ reg[n].state = "Rb" /\ reg'[n].state = "NIL"
  /\ reg[Peer(n)].state = "Rp" /\ Head(chan[n]).entt = "ENTA"
  /\ taken'[Peer(n)] = TRUE /\ taken'[n] = taken[n]

Passes(n) ==
  /\ reg[n].state # "Rb" /\ reg'[n].state = reg[n].state
  /\ reg[Peer(n)].state # "Rp" /\ taken' = taken

-----------------------------------------------------------------------------
(* The parts of a call on an SR: who answers, how, and what becomes of the  *)
(* transaction of the SR's owner.                                           *)
LEMMA SREffect ==
  ASSUME IInv, Table, NEW n \in Node, ReceiveSR(n)
  PROVE  /\ chan[n] # <<>> /\ Head(chan[n]).s_or_r = 1
         /\ reg'[Peer(n)] = reg[Peer(n)] /\ told' = told
         /\ \E e \in Field : Handled(n, e) /\ e.s_or_r = 0 /\ e.recover = 0
         /\ Holds(n) \/ Takes(n) \/ Passes(n)
PROOF
  <1>. DEFINE p == Peer(n)
              f == Head(chan[n])
  <1>1. p \in Node /\ p # n /\ Peer(p) = n /\ \A k \in Node : k = n \/ k = p
    BY PeerFacts
  <1>2. /\ reg \in [Node -> Reg] /\ chan \in [Node -> Seq(Field)] /\ AllValid
        /\ taken \in [Node -> BOOLEAN] /\ told \in [Node -> Outcome]
    BY DEF IInv, TypeOK, Watchdog
  <1>3. PICK entt \in BOOLEAN, qfull \in BOOLEAN : Handle(n, entt, qfull)
    BY EnvironmentAssumption DEF ReceiveSR
  <1>4. chan[n] # <<>> /\ f.s_or_r = 1
    BY DEF ReceiveSR
  <1>5. 1 \in 1 .. Len(chan[n]) /\ f = chan[n][1] /\ f \in Field
    BY <1>2, <1>4, HeadTailProperties, EmptySeq, LenProperties
  <1>6. f.valid = 1
    BY <1>2, <1>5 DEF AllValid
  <1>. DEFINE call == OnSR(reg[n], f, entt, qfull)
              made == LinkAction(reg[n], f, entt, qfull)
  <1>7. /\ reg' = [reg EXCEPT ![n] = call.reg]
        /\ Handled(n, call.ret)
        /\ Record(n, call.flag)
    <2>1. made = call
      BY <1>4, <1>6 DEF LinkAction
    <2>2. /\ reg' = [reg EXCEPT ![n] = made.reg]
          /\ Handled(n, made.ret)
          /\ Record(n, made.flag)
      BY <1>3 DEF Handle, Handled
    <2>. QED  BY <2>1, <2>2
  <1>8. FitsSR(f, reg[p], reg[n])
    BY <1>4, <1>5 DEF Table, AllFit, Fits
  <1>. DEFINE accepts == Accepts(reg[n], f, qfull)
              finishes == Finishes(reg[n], f)
              aborts == Aborts(reg[n], f)
  <1>9. call.flag = When(accepts, {"RECV"}) \cup When(finishes, {"FNSH"})
                      \cup When(aborts, {"DROP", "EROR"})
    BY DEF OnSR
  <1>10. call.reg.state = IF accepts THEN "Rb"
                          ELSE IF reg[n].state = "Rb" THEN "NIL" ELSE reg[n].state
    BY <1>2 DEF OnSR, Reg
  <1>11. call.ret \in Field /\ call.ret.s_or_r = 0 /\ call.ret.recover = 0
    <2>1. call.ret \in Field /\ call.ret.s_or_r = 0
      BY <1>2, <1>5, OnSRFacts
    <2>2. call.ret.recover = 0
      BY DEF OnSR
    <2>. QED  BY <2>1, <2>2
  <1>12. /\ accepts => reg[n].state = "NIL" /\ f.entt = "ENTT"
         /\ finishes <=> reg[n].state = "Rb" /\ f.entt = "ENTA"
         /\ aborts <=> reg[n].state = "Rb" /\ f.entt # "ENTA"
    BY DEF Accepts, Finishes, Aborts
  <1>. HIDE DEF p, f, call, made, accepts, finishes, aborts
  <1>13. /\ f.entt = "ENTT" => reg[p].state = "Ra"
         /\ f.entt = "ENTA" <=> reg[p].state = "Rp"
         /\ reg[p].state = "Rp" <=> reg[n].state = "Rb"
    BY <1>8 DEF FitsSR
  <1>14. ~aborts /\ (finishes <=> reg[n].state = "Rb")
    BY <1>12, <1>13
  <1>15. /\ "STRT" \notin call.flag /\ "DONE" \notin call.flag /\ "DROP" \notin call.flag
         /\ "FNSH" \in call.flag <=> finishes
    BY <1>9, <1>14 DEF When
  <1>16. told' = told
    BY <1>2, <1>7, <1>15 DEF Record
  <1>17. /\ reg'[n] = call.reg /\ reg'[p] = reg[p]
         /\ taken' = [m \in Node |-> taken[m] \/ (m = p /\ finishes)]
    <2>1. taken' = [m \in Node |-> taken[m] \/ (m = p /\ finishes)]
      BY <1>7, <1>15 DEF Record, p
    <2>. QED  BY <2>1, <1>1, <1>2, <1>7
  <1>18. ~finishes => taken' = taken
    BY <1>2, <1>17
  <1>19. finishes => taken'[p] = TRUE /\ taken'[n] = taken[n]
    BY <1>1, <1>2, <1>17
  <1>20. Holds(n) \/ Takes(n) \/ Passes(n)
    <2>1. CASE accepts
      BY <2>1, <1>10, <1>12, <1>13, <1>14, <1>17, <1>18 DEF Holds, p, f
    <2>2. CASE finishes
      BY <2>2, <1>10, <1>12, <1>13, <1>14, <1>17, <1>19 DEF Takes, p, f
    <2>3. CASE ~accepts /\ ~finishes
      BY <2>3, <1>10, <1>13, <1>14, <1>17, <1>18 DEF Passes, p
    <2>. QED  BY <2>1, <2>2, <2>3
  <1>21. \E e \in Field : Handled(n, e) /\ e.s_or_r = 0 /\ e.recover = 0
    BY <1>7, <1>11
  <1>. QED  BY <1>4, <1>16, <1>17, <1>20, <1>21 DEF p, f

(* The parts of a call on an RR.  This is where a verdict is given, and it  *)
(* is the one that FateOf(n) foretold.                                      *)
LEMMA RREffect ==
  ASSUME TInv, NEW n \in Node, ReceiveRR(n)
  PROVE  /\ chan[n] # <<>> /\ Head(chan[n]).s_or_r = 0
         /\ reg'[Peer(n)] = reg[Peer(n)]
         /\ told'[Peer(n)] = told[Peer(n)] /\ taken'[Peer(n)] = taken[Peer(n)]
         /\ \E e \in Field : /\ Handled(n, e) /\ e.s_or_r = 1
                             /\ e.entt = "ENTT" <=> Begins(n)
         /\ Begins(n) \/ IsGranted(n) \/ Ends(n) \/ Idles(n)
PROOF
  <1>. DEFINE p == Peer(n)
              f == Head(chan[n])
  <1>1. p \in Node /\ p # n /\ Peer(p) = n /\ \A k \in Node : k = n \/ k = p
    BY PeerFacts
  <1>2. /\ reg \in [Node -> Reg] /\ chan \in [Node -> Seq(Field)] /\ AllValid
        /\ taken \in [Node -> BOOLEAN] /\ told \in [Node -> Outcome]
    BY DEF TInv, IInv, TypeOK, Watchdog
  <1>3. PICK entt \in BOOLEAN : Handle(n, entt, FALSE)
    BY EnvironmentAssumption DEF ReceiveRR
  <1>4. chan[n] # <<>> /\ f.s_or_r = 0
    BY DEF ReceiveRR
  <1>5. 1 \in 1 .. Len(chan[n]) /\ f = chan[n][1] /\ f \in Field
    BY <1>2, <1>4, HeadTailProperties, EmptySeq, LenProperties
  <1>6. f.valid = 1
    BY <1>2, <1>5 DEF AllValid
  <1>. DEFINE call == OnRR(reg[n], f, entt)
              made == LinkAction(reg[n], f, entt, FALSE)
  <1>7. /\ reg' = [reg EXCEPT ![n] = call.reg]
        /\ Handled(n, call.ret)
        /\ Record(n, call.flag)
    <2>1. made = call
      <3>1. f.s_or_r # 1 /\ f.valid # 0
        BY <1>4, <1>6
      <3>. HIDE DEF f
      <3>. QED  BY <3>1 DEF LinkAction
    <2>2. /\ reg' = [reg EXCEPT ![n] = made.reg]
          /\ Handled(n, made.ret)
          /\ Record(n, made.flag)
      BY <1>3 DEF Handle, Handled
    <2>. QED  BY <2>1, <2>2
  <1>8. FitsRR(f, reg[n], reg[p])
    BY <1>4, <1>5 DEF TInv, Table, AllFit, Fits
  <1>. DEFINE starts == Starts(reg[n], f, entt)
              granted == Granted(reg[n], f)
              refused == Refused(reg[n], f)
              completes == Completes(reg[n], f)
              fails == Fails(reg[n], f)
  <1>9. /\ "FNSH" \notin call.flag
        /\ "STRT" \in call.flag <=> starts
        /\ "DONE" \in call.flag <=> completes
        /\ "DROP" \in call.flag <=> refused \/ fails
    BY DEF OnRR, When
  <1>10. call.reg.state = IF starts THEN "Ra" ELSE IF granted THEN "Rp"
                          ELSE IF reg[n].state = "Rb" THEN "Rb" ELSE "NIL"
    BY <1>2 DEF OnRR, Reg, StateAfterRR
  <1>11. call.ret \in Field /\ call.ret.s_or_r = 1 /\ (call.ret.entt = "ENTT" <=> starts)
    <2>1. call.ret \in Field /\ call.ret.s_or_r = 1
      BY <1>2, <1>5, OnRRFacts
    <2>2. call.ret.entt = "ENTT" <=> starts
      BY DEF OnRR
    <2>. QED  BY <2>1, <2>2
  <1>12. /\ starts => reg[n].state = "NIL"
         /\ granted => reg[n].state = "Ra" /\ f.entt = "ENTT"
         /\ refused <=> reg[n].state = "Ra" /\ ~granted
         /\ completes => reg[n].state = "Rp"
         /\ fails <=> reg[n].state = "Rp" /\ ~completes
         /\ reg[n].state = "Ra" /\ f.recover = 0 /\ f.entt = "ENTT" => granted
    BY DEF Starts, Wants, Granted, Refused, Completes, Fails
  <1>13. FateOf(n)
    BY DEF TInv, Fate
  <1>14. reg[n].state = "Rp" => (completes <=> taken[n])
    BY <1>4, <1>5, <1>13 DEF FateOf
  <1>. HIDE DEF p, f, call, made, starts, granted, refused, completes, fails
  <1>15. /\ f.entt = "ENTT" <=> reg[p].state = "Rb"
         /\ f.entt = "ENTT" => reg[n].state = "Ra" /\ f.recover = 0
    BY <1>8 DEF FitsRR
  <1>16. reg[n].state \in {"NIL", "Ra", "Rb", "Rp"}
    BY <1>2 DEF Reg, EnttState
  <1>17. /\ reg'[n] = call.reg /\ reg'[p] = reg[p]
    BY <1>1, <1>2, <1>7
  <1>18. taken'[p] = taken[p] /\ taken'[n] = IF starts THEN FALSE ELSE taken[n]
    BY <1>1, <1>2, <1>7, <1>9 DEF Record, p
  <1>19. /\ told'[p] = told[p]
         /\ told'[n] = IF completes THEN "DONE"
                       ELSE IF reg[n].state \in {"Ra", "Rp"} /\ (refused \/ fails) THEN "DROP"
                       ELSE IF starts THEN "none" ELSE told[n]
    BY <1>1, <1>2, <1>7, <1>9 DEF Record
  <1>20. Begins(n) \/ IsGranted(n) \/ Ends(n) \/ Idles(n)
    <2>1. CASE starts
      BY <2>1, <1>10, <1>12, <1>17, <1>18, <1>19 DEF Begins
    <2>2. CASE granted
      BY <2>2, <1>10, <1>12, <1>15, <1>17, <1>18, <1>19 DEF IsGranted, p
    <2>3. CASE refused
      <3>1. ~taken[n]
        BY <2>3, <1>12, <1>13 DEF FateOf
      <3>2. reg[p].state # "Rb"
        BY <2>3, <1>12, <1>15
      <3>3. told'[n] = "DROP" /\ taken'[n] = taken[n] /\ reg'[n].state = "NIL"
        BY <2>3, <1>10, <1>12, <1>17, <1>18, <1>19
      <3>. QED  BY <2>3, <3>1, <3>2, <3>3, <1>12 DEF Ends, p
    <2>4. CASE reg[n].state = "Rp"
      <3>1. reg[p].state # "Rb"
        BY <2>4, <1>15
      <3>2. told'[n] = IF taken[n] THEN "DONE" ELSE "DROP"
        BY <2>4, <1>12, <1>14, <1>19
      <3>3. taken'[n] = taken[n] /\ reg'[n].state = "NIL"
        BY <2>4, <1>10, <1>12, <1>17, <1>18
      <3>. QED  BY <2>4, <3>1, <3>2, <3>3 DEF Ends, p
    <2>5. CASE reg[n].state \in {"NIL", "Rb"} /\ ~starts
      BY <2>5, <1>10, <1>12, <1>17, <1>18, <1>19 DEF Idles
    <2>. QED  BY <2>1, <2>2, <2>3, <2>4, <2>5, <1>12, <1>16
  <1>21. starts <=> Begins(n)
    BY <1>10, <1>12, <1>17, <1>18, <1>19 DEF Begins
  <1>22. \E e \in Field : Handled(n, e) /\ e.s_or_r = 1 /\ (e.entt = "ENTT" <=> Begins(n))
    BY <1>7, <1>11, <1>21
  <1>. QED  BY <1>4, <1>17, <1>18, <1>19, <1>20, <1>22 DEF p, f

-----------------------------------------------------------------------------
(* Fates are kept *)

(* After a call on an SR the SR's owner still gets the verdict it is owed.  *)
LEMMA SRFate ==
  ASSUME TInv, NEW n \in Node, ReceiveSR(n)
  PROVE  Fate'
PROOF
  <1>. DEFINE p == Peer(n)
  <1>1. p \in Node /\ p # n /\ Peer(p) = n /\ \A k \in Node : k = n \/ k = p
    BY PeerFacts
  <1>2. IInv /\ Table /\ FateOf(n) /\ FateOf(p) /\ ToldTheTruth
    BY <1>1 DEF TInv, Fate
  <1>3. /\ chan[n] # <<>> /\ Head(chan[n]).s_or_r = 1
        /\ reg'[p] = reg[p] /\ told' = told
        /\ Holds(n) \/ Takes(n) \/ Passes(n)
    BY <1>2, SREffect
  <1>4. PICK e \in Field : Handled(n, e) /\ e.s_or_r = 0 /\ e.recover = 0
    BY <1>2, SREffect
  <1>5. Table'
    BY <1>2, ReceiveSRTable
  <1>6. LoopOf(n, Head(chan[n])) = p
    BY <1>3 DEF LoopOf
  <1>. HIDE DEF p
  <1>7. ASSUME NEW m, Alive(m)
        PROVE  Alive(m)'
    BY <1>2, <1>3, <1>4, <1>7, LoopsGoOn
  <1>8. ASSUME NEW k \in Node, NEW i \in 1 .. Len(chan'[k])
        PROVE  \/ k = p /\ chan'[k][i] = e
               \/ \E x \in 1 .. Len(chan[k]) :
                    chan'[k][i] = chan[k][x] /\ LoopOf(k, chan[k][x]) # p
    BY <1>2, <1>3, <1>4, <1>6, AfterCall DEF p
  <1>9. /\ reg'[n].state = "Ra" <=> reg[n].state = "Ra"
        /\ reg'[n].state = "Rp" <=> reg[n].state = "Rp"
        /\ taken'[n] = taken[n]
    BY <1>3 DEF Holds, Takes, Passes
  <1>10. FateOf(n)'
    <2>1. ASSUME reg'[n].state = "Rp",
                 NEW i \in 1 .. Len(chan'[n]), chan'[n][i].s_or_r = 0
          PROVE  Completes(reg'[n], chan'[n][i]) <=> taken'[n]
      <3>1. PICK x \in 1 .. Len(chan[n]) : chan'[n][i] = chan[n][x]
        BY <1>1, <1>8
      <3>2. Completes(reg[n], chan[n][x]) <=> taken[n]
        BY <2>1, <3>1, <1>2, <1>9 DEF FateOf
      <3>. QED  BY <2>1, <3>1, <3>2, <1>9 DEF Completes
    <2>2. Alive(n) => Alive(n)'
      BY <1>7
    <2>. QED  BY <2>1, <2>2, <1>2, <1>3, <1>9 DEF FateOf, p
  <1>11. FateOf(p)'
    <2>1. ASSUME reg'[p].state = "Rp",
                 NEW i \in 1 .. Len(chan'[p]), chan'[p][i].s_or_r = 0
          PROVE  Completes(reg'[p], chan'[p][i]) <=> taken'[p]
      <3>1. chan'[p][i] = e
        BY <2>1, <1>1, <1>8 DEF LoopOf
      <3>2. FitsRR(e, reg'[p], reg'[n])
        <4>1. AllFit'
          BY <1>5 DEF Table
        <4>2. Fits(p, chan'[p][i], reg')
          BY <4>1, <1>1 DEF AllFit
        <4>. QED  BY <4>2, <3>1, <1>1, <1>4 DEF Fits
      <3>3. e.entt = "ENTA"
        BY <2>1, <3>2, <1>4 DEF FitsRR
      <3>4. Takes(n)
        BY <2>1, <1>3 DEF Holds, Passes, p
      <3>. QED  BY <2>1, <3>1, <3>3, <3>4, <1>4 DEF Takes, Completes, p
    <2>2. Peer(p) = n
      BY <1>1
    <2>3. CASE Holds(n)
      BY <2>1, <2>2, <2>3, <1>2, <1>3 DEF Holds, FateOf, p
    <2>4. CASE Takes(n)
      BY <2>1, <2>2, <2>4, <1>2, <1>3 DEF Takes, FateOf, p
    <2>5. CASE Passes(n)
      BY <2>1, <2>2, <2>5, <1>2, <1>3 DEF Passes, FateOf, p
    <2>. QED  BY <2>3, <2>4, <2>5, <1>3
  <1>12. ToldTheTruth'
    <2>1. told[p] # "none" => taken'[p] = taken[p]
      BY <1>2, <1>3 DEF Holds, Takes, Passes, FateOf, p
    <2>. QED  BY <2>1, <1>1, <1>2, <1>3, <1>9 DEF ToldTheTruth
  <1>. QED  BY <1>1, <1>10, <1>11, <1>12 DEF Fate

(* A call on an RR that ends a transaction ends it as it was to end.        *)
LEMMA RRFate ==
  ASSUME TInv, NEW n \in Node, ReceiveRR(n)
  PROVE  Fate'
PROOF
  <1>. DEFINE p == Peer(n)
  <1>1. p \in Node /\ p # n /\ Peer(p) = n /\ \A k \in Node : k = n \/ k = p
    BY PeerFacts
  <1>2. IInv /\ FateOf(n) /\ FateOf(p) /\ ToldTheTruth
    BY <1>1 DEF TInv, Fate
  <1>3. /\ chan[n] # <<>> /\ Head(chan[n]).s_or_r = 0
        /\ reg'[p] = reg[p] /\ told'[p] = told[p] /\ taken'[p] = taken[p]
        /\ Begins(n) \/ IsGranted(n) \/ Ends(n) \/ Idles(n)
    BY RREffect
  <1>4. PICK e \in Field : Handled(n, e) /\ e.s_or_r = 1
    BY RREffect
  <1>5. LoopOf(n, Head(chan[n])) = n
    BY <1>3 DEF LoopOf
  <1>. HIDE DEF p
  <1>6. ASSUME NEW m, Alive(m)
        PROVE  Alive(m)'
    BY <1>2, <1>3, <1>4, <1>6, LoopsGoOn
  <1>7. ASSUME NEW k \in Node, NEW i \in 1 .. Len(chan'[k]), chan'[k][i].s_or_r = 0
        PROVE  \E x \in 1 .. Len(chan[k]) :
                 chan'[k][i] = chan[k][x] /\ LoopOf(k, chan[k][x]) # n
    BY <1>2, <1>3, <1>4, <1>5, <1>7, AfterCall
  <1>8. FateOf(n)'
    <2>1. ASSUME NEW i \in 1 .. Len(chan'[n]), chan'[n][i].s_or_r = 0
          PROVE  FALSE
      BY <2>1, <1>7 DEF LoopOf
    <2>2. CASE Begins(n)
      BY <2>1, <2>2 DEF Begins, FateOf
    <2>3. CASE IsGranted(n)
      BY <2>1, <2>3, <1>2, <1>3 DEF IsGranted, FateOf, p
    <2>4. CASE Ends(n)
      BY <2>1, <2>4 DEF Ends, FateOf
    <2>5. CASE Idles(n)
      BY <2>1, <2>5 DEF Idles, FateOf
    <2>. QED  BY <2>2, <2>3, <2>4, <2>5, <1>3
  <1>9. FateOf(p)'
    <2>1. reg'[n].state = "Rb" <=> reg[n].state = "Rb"
      BY <1>3 DEF Begins, IsGranted, Ends, Idles
    <2>2. ASSUME reg'[p].state = "Rp",
                 NEW i \in 1 .. Len(chan'[p]), chan'[p][i].s_or_r = 0
          PROVE  Completes(reg'[p], chan'[p][i]) <=> taken'[p]
      <3>1. PICK x \in 1 .. Len(chan[p]) : chan'[p][i] = chan[p][x]
        BY <2>2, <1>1, <1>7
      <3>. QED  BY <2>2, <3>1, <1>2, <1>3 DEF FateOf
    <2>3. Alive(p) => Alive(p)'
      BY <1>6
    <2>4. Peer(p) = n
      BY <1>1
    <2>. QED  BY <2>1, <2>2, <2>3, <2>4, <1>2, <1>3 DEF FateOf
  <1>10. ToldTheTruth'
    <2>1. /\ told'[n] = "DONE" => taken'[n]
          /\ told'[n] = "DROP" => ~taken'[n]
      BY <1>2, <1>3 DEF Begins, IsGranted, Ends, Idles, ToldTheTruth
    <2>. QED  BY <2>1, <1>1, <1>2, <1>3 DEF ToldTheTruth
  <1>. QED  BY <1>1, <1>8, <1>9, <1>10 DEF Fate

(* A recovery packet says what became of the transaction of the loop it     *)
(* revives.                                                                *)
LEMMA RecoverFate ==
  ASSUME TInv, NEW n \in Node, SendRecover(n)
  PROVE  Fate'
PROOF
  <1>. DEFINE p == Peer(n)
              e == RecoverField(reg[n])
  <1>1. p \in Node /\ p # n /\ Peer(p) = n /\ \A k \in Node : k = n \/ k = p
    BY PeerFacts
  <1>2. /\ FateOf(n) /\ FateOf(p) /\ ToldTheTruth /\ WatchdogAt(n)
        /\ reg \in [Node -> Reg] /\ chan \in [Node -> Seq(Field)]
    BY <1>1 DEF TInv, Fate, IInv, Watchdog, TypeOK
  <1>3. /\ reg' = [reg EXCEPT ![n] = Recover(reg[n]).reg]
        /\ chan' = [chan EXCEPT ![p] = Append(@, e)]
        /\ taken' = taken /\ told' = told
    BY DEF SendRecover, Recover
  <1>4. e \in Field /\ e.s_or_r = 0
    <2>1. Recover(reg[n]).ret = e
      BY DEF Recover
    <2>. QED  BY <2>1, <1>2, RecoverFacts
  <1>5. e.recover = 1 /\ e.entt = IF reg[n].state = "Rb" THEN "ENTA" ELSE "ENTL"
    BY DEF RecoverField
  <1>6. ~Alive(p)
    BY <1>2 DEF SendRecover, WatchdogAt
  <1>. HIDE DEF p, e
  <1>7. /\ reg'[p] = reg[p]
        /\ reg'[n].state = IF reg[n].state = "Rb" THEN "NIL" ELSE reg[n].state
    BY <1>1, <1>2, <1>3 DEF Recover, Reg
  <1>8. /\ chan'[n] = chan[n]
        /\ Len(chan[p]) \in Nat /\ Len(chan'[p]) = Len(chan[p]) + 1
        /\ \A i \in 1 .. Len(chan[p]) : chan'[p][i] = chan[p][i]
        /\ chan'[p][Len(chan[p]) + 1] = e
    <2>1. chan[p] \in Seq(Field) /\ chan'[p] = Append(chan[p], e) /\ chan'[n] = chan[n]
      BY <1>1, <1>2, <1>3
    <2>. QED  BY <2>1, <1>4, AppendProperties, LenProperties
  <1>9. Alive(n) => Alive(n)'
    <2>. SUFFICES ASSUME NEW k \in Node, NEW x \in 1 .. Len(chan[k]),
                         LoopOf(k, chan[k][x]) = n
                  PROVE  x \in 1 .. Len(chan'[k]) /\ chan'[k][x] = chan[k][x]
      BY DEF Alive
    <2>. QED  BY <1>1, <1>8
  <1>10. Alive(p)'
    <2>1. Len(chan[p]) + 1 \in 1 .. Len(chan'[p])
      BY <1>8
    <2>2. LoopOf(p, chan'[p][Len(chan[p]) + 1]) = p
      BY <1>4, <1>8 DEF LoopOf
    <2>. QED  BY <2>1, <2>2, <1>1 DEF Alive
  <1>11. FateOf(n)'
    <2>1. reg'[n].state = "Rp" => \A f : Completes(reg'[n], f) <=> Completes(reg[n], f)
      BY <1>7 DEF Completes
    <2>. QED  BY <2>1, <1>2, <1>3, <1>7, <1>8, <1>9 DEF FateOf, p
  <1>12. FateOf(p)'
    <2>1. ASSUME reg'[p].state = "Rp",
                 NEW i \in 1 .. Len(chan'[p]), chan'[p][i].s_or_r = 0
          PROVE  Completes(reg'[p], chan'[p][i]) <=> taken'[p]
      <3>1. CASE i = Len(chan[p]) + 1
        <4>1. taken[p] <=> reg[n].state # "Rb"
          BY <2>1, <1>1, <1>2, <1>6, <1>7 DEF FateOf
        <4>2. Completes(reg'[p], e) <=> e.entt = "ENTL"
          BY <2>1, <1>5 DEF Completes
        <4>3. e.entt = "ENTL" <=> reg[n].state # "Rb"
          BY <1>5
        <4>. QED  BY <3>1, <4>1, <4>2, <4>3, <1>3, <1>8
      <3>2. CASE i \in 1 .. Len(chan[p])
        <4>1. LoopOf(p, chan[p][i]) = p
          BY <2>1, <3>2, <1>8 DEF LoopOf
        <4>. QED  BY <3>2, <4>1, <1>1, <1>6 DEF Alive
      <3>. QED  BY <3>1, <3>2, <1>8
    <2>2. Peer(p) = n
      BY <1>1
    <2>. QED  BY <2>1, <2>2, <1>2, <1>3, <1>7, <1>10 DEF FateOf
  <1>13. ToldTheTruth'
    BY <1>2, <1>3 DEF ToldTheTruth
  <1>. QED  BY <1>1, <1>11, <1>12, <1>13 DEF Fate

(* A loss spares the announcement of a cancelled transaction.               *)
LEMMA LoseFate ==
  ASSUME Reliable, TInv, NEW n \in Node, Lose(n)
  PROVE  Fate'
PROOF
  <1>1. Peer(n) \in Node /\ Peer(n) # n /\ \A k \in Node : k = n \/ k = Peer(n)
    BY PeerFacts
  <1>2. chan \in [Node -> Seq(Field)]
    BY DEF TInv, IInv, TypeOK
  <1>3. PICK d \in 1 .. Len(chan[n]) :
          /\ chan' = [chan EXCEPT ![n] = RemoveAt(@, d)]
          /\ chan[n][d].recover = 0
    BY DEF Lose, Reliable
  <1>4. reg' = reg /\ taken' = taken /\ told' = told
    BY DEF Lose
  <1>5. /\ Len(chan'[n]) = Len(chan[n]) - 1 /\ Len(chan[n]) \in Nat
        /\ \A i \in 1 .. Len(chan'[n]) :
             chan'[n][i] = chan[n][IF i < d THEN i ELSE i + 1]
        /\ chan'[Peer(n)] = chan[Peer(n)]
    BY <1>2, <1>3, LostSlots, LenProperties
  \* What is there was there, and what was there is, but for slot d.
  <1>6. ASSUME NEW k \in Node, NEW i \in 1 .. Len(chan'[k])
        PROVE  \E x \in 1 .. Len(chan[k]) : chan'[k][i] = chan[k][x]
    <2>1. CASE k = n
      <3>1. (IF i < d THEN i ELSE i + 1) \in 1 .. Len(chan[n])
        BY <2>1, <1>5
      <3>. QED  BY <2>1, <3>1, <1>5
    <2>2. CASE k = Peer(n)
      BY <2>2, <1>5
    <2>. QED  BY <2>1, <2>2, <1>1
  <1>7. ASSUME NEW k \in Node, NEW x \in 1 .. Len(chan[k]), ~(k = n /\ x = d)
        PROVE  \E i \in 1 .. Len(chan'[k]) : chan'[k][i] = chan[k][x]
    <2>1. CASE k = n /\ x < d
      <3>1. x \in 1 .. Len(chan'[n])
        BY <2>1, <1>5
      <3>. QED  BY <2>1, <3>1, <1>5
    <2>2. CASE k = n /\ x > d
      <3>1. x - 1 \in 1 .. Len(chan'[n]) /\ ~(x - 1 < d) /\ (x - 1) + 1 = x
        BY <2>2, <1>5
      <3>2. chan'[n][x - 1] = chan[n][x]
        BY <3>1, <1>5
      <3>. QED  BY <2>2, <3>1, <3>2
    <2>3. CASE k = Peer(n)
      BY <2>3, <1>5
    <2>4. k = n => x < d \/ x > d
      BY <1>5, <1>7
    <2>. QED  BY <2>1, <2>2, <2>3, <2>4, <1>1
  <1>8. ASSUME NEW m \in Node
        PROVE  FateOf(m)'
    <2>1. FateOf(m)
      BY DEF TInv, Fate
    <2>2. ASSUME reg[m].state = "Rp", reg[Peer(m)].state # "Rb", ~taken[m]
          PROVE  Alive(m)'
      <3>0. PICK k \in Node : \E x \in 1 .. Len(chan[k]) : LoopOf(k, chan[k][x]) = m
        BY <2>1, <2>2 DEF FateOf, Alive
      <3>1. PICK x \in 1 .. Len(chan[k]) : LoopOf(k, chan[k][x]) = m
        BY <3>0
      <3>2. chan[k][x] \in Field /\ Fits(k, chan[k][x], reg)
        <4>1. chan[k] \in Seq(Field)
          BY <1>2
        <4>. QED  BY <4>1, ElementOfSeq DEF TInv, Table, AllFit
      <3>3. chan[k][x].s_or_r = 0
        <4>1. chan[k][x].s_or_r \in {0, 1}
          BY <3>2 DEF Field, Bit
        <4>. SUFFICES ASSUME chan[k][x].s_or_r = 1 PROVE FALSE
          BY <4>1
        <4>2. Peer(k) = m /\ Peer(m) = k
          BY <3>1, PeerFacts DEF LoopOf
        <4>. QED  BY <2>2, <3>2, <4>2 DEF Fits, FitsSR
      <3>4. k = m
        BY <3>1, <3>3 DEF LoopOf
      <3>5. ~Completes(reg[m], chan[m][x])
        BY <2>1, <2>2, <3>3, <3>4 DEF FateOf
      <3>6. FitsRR(chan[m][x], reg[m], reg[Peer(m)])
        BY <3>2, <3>3, <3>4 DEF Fits
      <3>7. chan[m][x].recover # 0
        BY <2>2, <3>5, <3>6 DEF FitsRR, Completes
      <3>8. \E i \in 1 .. Len(chan'[m]) : chan'[m][i] = chan[m][x]
        BY <3>4, <3>7, <1>3, <1>7
      <3>. QED  BY <3>1, <3>4, <3>8 DEF Alive
    <2>3. ASSUME reg[m].state = "Rp",
                 NEW i \in 1 .. Len(chan'[m]), chan'[m][i].s_or_r = 0
          PROVE  Completes(reg[m], chan'[m][i]) <=> taken[m]
      BY <2>1, <2>3, <1>6 DEF FateOf
    <2>. QED  BY <2>1, <2>2, <2>3, <1>4 DEF FateOf
  <1>9. ToldTheTruth'
    BY <1>4 DEF TInv, Fate, ToldTheTruth
  <1>. QED  BY <1>8, <1>9 DEF Fate

(* No transaction yet. *)
LEMMA InitFate == Init => Fate
PROOF
  <1>. SUFFICES ASSUME Init PROVE Fate
    OBVIOUS
  <1>1. /\ \A n \in Node : reg[n] = InitReg /\ ~taken[n] /\ told[n] = "none"
        /\ InitReg.state = "NIL"
    BY DEF Init, InitReg
  <1>. QED  BY <1>1 DEF Fate, FateOf, ToldTheTruth

\* Steps that leave the link as it is leave the fate of transactions.
LEMMA StutterFate == Fate /\ UNCHANGED vars => Fate'
BY DEF Fate, FateOf, ToldTheTruth, Alive, vars

(* Every step of a link that loses no recovery packet keeps the invariant.  *)
LEMMA NextFate ==
  ASSUME Reliable, TInv, [Next]_vars
  PROVE  TInv'
PROOF
  <1>1. IInv' /\ Table'
    BY NextInv, NextTable DEF TInv
  <1>2. CASE Next
    BY <1>1, <1>2, SRFate, RRFate, RecoverFate, LoseFate DEF Next, TInv
  <1>3. CASE UNCHANGED vars
    BY <1>1, <1>3, StutterFate DEF TInv
  <1>. QED  BY <1>2, <1>3

(* Nothing has been asked and nothing told.                                 *)
LEMMA InitT == Init => TInv
BY InitInv, InitTable, InitFate DEF TInv

(* The invariant of a link that loses no recovery packet.                   *)
THEOREM FateHolds == Reliable => (Spec => []TInv)
PROOF
  <1>. SUFFICES ASSUME Reliable PROVE Spec => []TInv
    OBVIOUS
  <1>1. TInv /\ [Next]_vars => TInv'
    BY NextFate
  <1>. QED  BY <1>1, InitT, PTL DEF Spec

(* An initiator is told DONE only if its peer has finished the transaction, *)
(* and DROP only if it never will, whatever is lost but recovery packets    *)
(* (both loops at once included) and however the two ends' requests collide.*)
THEOREM VerdictsAreTrue == Reliable => (Spec => []ToldTheTruth)
PROOF
  <1>1. TInv => ToldTheTruth
    BY DEF TInv, Fate
  <1>. QED  BY <1>1, FateHolds, PTL

-----------------------------------------------------------------------------
(* Refinement *)

Asking(n) == reg[n].state \in {"Ra", "Rp"}

\* What AtomicTransfer sees of n's transaction stays.
Unseen(n) == Asking(n)' = Asking(n) /\ Progress(n)' = Progress(n) /\ told'[n] = told[n]

\* The steps of AtomicTransfer for n's transaction.
Asks(n) == /\ ~Asking(n) /\ Asking(n)'
           /\ Progress(n)' = "offered" /\ told'[n] = "none"

Moves(n) == /\ Asking(n)' = Asking(n) /\ told'[n] = told[n]
            /\ <<Progress(n), Progress(n)'>> \in
                 {<<"offered", "held">>, <<"offered", "none">>,
                  <<"held", "taken">>, <<"held", "none">>}

Tells(n) == /\ Asking(n) /\ ~Asking(n)'
            /\ Progress(n) \in {"none", "taken"} /\ Progress(n)' = Progress(n)
            /\ told'[n] = IF Progress(n) = "taken" THEN "DONE" ELSE "DROP"

(* A step that changes at most one transaction, as AtomicTransfer allows,   *)
(* is a step of AtomicTransfer.                                             *)
LEMMA AbstractStep ==
  ASSUME TypeOK, TypeOK', NEW n \in Node, Unseen(Peer(n)),
         Unseen(n) \/ Asks(n) \/ Moves(n) \/ Tells(n)
  PROVE  [Transfer!Next]_(Transfer!vars)
PROOF
  <1>. DEFINE asking == [m \in Node |-> reg[m].state \in {"Ra", "Rp"}]
              peer == [m \in Node |-> Progress(m)]
              p == Peer(n)
  <1>1. p # n /\ p \in Node /\ \A m \in Node : m = n \/ m = p
    BY PeerFacts
  <1>2. told \in [Node -> Outcome] /\ told' \in [Node -> Outcome]
    BY DEF TypeOK
  <1>3. /\ asking[n] = Asking(n) /\ asking'[n] = Asking(n)'
        /\ peer[n] = Progress(n) /\ peer'[n] = Progress(n)'
        /\ asking'[p] = asking[p] /\ peer'[p] = peer[p] /\ told'[p] = told[p]
    BY <1>1 DEF Asking, Unseen
  <1>4. /\ asking' = [asking EXCEPT ![n] = Asking(n)']
        /\ peer' = [peer EXCEPT ![n] = Progress(n)']
    <2>1. \A m \in Node : asking'[m] = IF m = n THEN Asking(n)' ELSE asking[m]
      BY <1>1, <1>3
    <2>2. \A m \in Node : peer'[m] = IF m = n THEN Progress(n)' ELSE peer[m]
      BY <1>1, <1>3
    <2>. QED  BY <2>1, <2>2
  <1>5. told' = [told EXCEPT ![n] = told'[n]]
    BY <1>1, <1>2, <1>3
  <1>6. Asking(n) \in BOOLEAN /\ Asking(n)' \in BOOLEAN
    BY DEF Asking
  <1>7. /\ Asking(n)' = Asking(n) => asking' = asking
        /\ Progress(n)' = Progress(n) => peer' = peer
        /\ told'[n] = told[n] => told' = told
    BY <1>2, <1>3, <1>4, <1>5
  <1>8. CASE Unseen(n)
    BY <1>7, <1>8 DEF Unseen, Transfer!vars
  <1>9. CASE Asks(n)
    <2>1. Transfer!Ask(n)
      BY <1>3, <1>4, <1>5, <1>9 DEF Asks, Transfer!Ask
    <2>. QED  BY <2>1 DEF Transfer!Next
  <1>10. CASE Moves(n)
    <2>1. asking' = asking /\ told' = told
      BY <1>7, <1>10 DEF Moves
    <2>2. \/ Progress(n) = "offered" /\ Progress(n)' = "held"
          \/ Progress(n) = "offered" /\ Progress(n)' = "none"
          \/ Progress(n) = "held" /\ Progress(n)' = "taken"
          \/ Progress(n) = "held" /\ Progress(n)' = "none"
      BY <1>10 DEF Moves
    <2>3. \/ Transfer!Hold(n) \/ Transfer!Refuse(n)
          \/ Transfer!Take(n) \/ Transfer!Release(n)
      BY <2>1, <2>2, <1>3, <1>4
         DEF Transfer!Hold, Transfer!Refuse, Transfer!Take, Transfer!Release,
             Transfer!Move
    <2>. QED  BY <2>3 DEF Transfer!Next
  <1>11. CASE Tells(n)
    <2>1. peer' = peer
      BY <1>7, <1>11 DEF Tells
    <2>2. asking[n] /\ Asking(n)' = FALSE /\ peer[n] \in {"none", "taken"}
      BY <1>3, <1>6, <1>11 DEF Tells
    <2>3. asking' = [asking EXCEPT ![n] = FALSE]
      BY <2>2, <1>4
    <2>4. told' = [told EXCEPT ![n] = IF peer[n] = "taken" THEN "DONE" ELSE "DROP"]
      BY <1>3, <1>5, <1>11 DEF Tells
    <2>5. Transfer!Tell(n)
      BY <2>1, <2>2, <2>3, <2>4 DEF Transfer!Tell
    <2>. QED  BY <2>5 DEF Transfer!Next
  <1>. QED  BY <1>8, <1>9, <1>10, <1>11

(* A request that is on its way is one its sender waits on.                 *)
LEMMA OfferedIsPending ==
  ASSUME TInv, NEW n \in Node, Offered(n)
  PROVE  reg[n].state = "Ra" /\ taken[n] = FALSE
PROOF
  <1>1. PICK i \in 1 .. Len(chan[Peer(n)]) :
          chan[Peer(n)][i].s_or_r = 1 /\ chan[Peer(n)][i].entt = "ENTT"
    BY DEF Offered
  <1>2. FitsSR(chan[Peer(n)][i], reg[n], reg[Peer(n)])
    BY <1>1, PeerFacts DEF TInv, Table, AllFit, Fits
  <1>3. reg[n].state = "Ra"
    BY <1>1, <1>2 DEF FitsSR
  <1>4. FateOf(n) /\ taken[n] \in BOOLEAN
    BY DEF TInv, Fate, IInv, TypeOK
  <1>. QED  BY <1>3, <1>4 DEF FateOf

(* What a call does to requests that are on their way: it takes the one it  *)
(* is handed, and sends the one that its answer is.                         *)
LEMMA OffersAfterCall ==
  ASSUME IInv, NEW n \in Node, chan[n] # <<>>, NEW e \in Field, Handled(n, e),
         e.s_or_r = 1 - Head(chan[n]).s_or_r
  PROVE  /\ Head(chan[n]).s_or_r = 1 =>
              (Offered(n)' <=> Offered(n)) /\ ~Offered(Peer(n))'
         /\ Head(chan[n]).s_or_r = 0 =>
              /\ Offered(Peer(n))' <=> Offered(Peer(n))
              /\ ~Offered(n) /\ (Offered(n)' <=> e.entt = "ENTT")
PROOF
  <1>. DEFINE p == Peer(n)
              f == Head(chan[n])
  <1>1. p \in Node /\ p # n /\ Peer(p) = n /\ Peer(n) = p
    BY PeerFacts
  <1>2. chan \in [Node -> Seq(Field)] /\ OnePacketPerLoop
    BY DEF IInv, TypeOK, Watchdog
  <1>3. /\ f = chan[n][1]
        /\ Len(chan[n]) \in Nat \ {0} /\ Len(chan[p]) \in Nat
        /\ Len(chan'[n]) = Len(chan[n]) - 1
        /\ \A i \in 1 .. Len(chan'[n]) : chan'[n][i] = chan[n][i + 1]
        /\ Len(chan'[p]) = Len(chan[p]) + 1
        /\ \A i \in 1 .. Len(chan[p]) : chan'[p][i] = chan[p][i]
        /\ chan'[p][Len(chan[p]) + 1] = e
    BY <1>2, HandledSlots
  <1>. HIDE DEF p, f
  <1>4. e.s_or_r = 1 - f.s_or_r /\ 1 \in 1 .. Len(chan[n])
    BY <1>3 DEF f
  <1>. DEFINE asks(g) == g.s_or_r = 1 /\ g.entt = "ENTT"
  <1>5. /\ Offered(n) <=> \E i \in 1 .. Len(chan[p]) : asks(chan[p][i])
        /\ Offered(n)' <=> \E i \in 1 .. Len(chan'[p]) : asks(chan'[p][i])
        /\ Offered(p) <=> \E i \in 1 .. Len(chan[n]) : asks(chan[n][i])
        /\ Offered(p)' <=> \E i \in 1 .. Len(chan'[n]) : asks(chan'[n][i])
    BY <1>1 DEF Offered
  <1>. HIDE DEF asks
  <1>6. Offered(n)' <=> Offered(n) \/ asks(e)
    <2>1. \A i \in 1 .. Len(chan'[p]) :
            i \in 1 .. Len(chan[p]) \/ i = Len(chan[p]) + 1
      BY <1>3
    <2>2. \A i \in 1 .. Len(chan[p]) : i \in 1 .. Len(chan'[p])
      BY <1>3
    <2>3. Len(chan[p]) + 1 \in 1 .. Len(chan'[p])
      BY <1>3
    <2>. QED  BY <2>1, <2>2, <2>3, <1>3, <1>5
  <1>7. Offered(p) <=> Offered(p)' \/ asks(f)
    <2>1. ASSUME NEW i \in 1 .. Len(chan[n]), i # 1
          PROVE  i - 1 \in 1 .. Len(chan'[n]) /\ chan'[n][i - 1] = chan[n][i]
      <3>1. i - 1 \in 1 .. Len(chan'[n]) /\ (i - 1) + 1 = i
        BY <2>1, <1>3
      <3>. QED  BY <3>1, <1>3
    <2>2. \A i \in 1 .. Len(chan'[n]) : i + 1 \in 1 .. Len(chan[n])
      BY <1>3
    <2>. QED  BY <2>1, <2>2, <1>3, <1>4, <1>5
  <1>8. ASSUME f.s_or_r = 1
        PROVE  (Offered(n)' <=> Offered(n)) /\ ~Offered(p)'
    <2>1. ~asks(e)
      BY <1>4, <1>8 DEF asks
    <2>2. ASSUME NEW i \in 1 .. Len(chan'[n]), asks(chan'[n][i])
          PROVE  FALSE
      <3>0. i \in 1 .. (Len(chan[n]) - 1) /\ Len(chan[n]) \in Nat
        BY <1>3
      <3>1. i + 1 \in 1 .. Len(chan[n]) /\ i + 1 # 1
        BY <3>0
      <3>2. chan'[n][i] = chan[n][i + 1]
        BY <1>3
      <3>3. LoopOf(n, chan[n][i + 1]) = LoopOf(n, chan[n][1])
        BY <2>2, <3>2, <1>3, <1>8 DEF LoopOf, asks
      <3>. QED  BY <3>1, <3>3, <1>2, <1>4, SamePacket
    <2>. QED  BY <2>1, <2>2, <1>5, <1>6
  <1>9. ASSUME f.s_or_r = 0
        PROVE  /\ Offered(p)' <=> Offered(p)
               /\ ~Offered(n) /\ (Offered(n)' <=> e.entt = "ENTT")
    <2>1. ~asks(f) /\ (asks(e) <=> e.entt = "ENTT")
      BY <1>4, <1>9 DEF asks
    <2>2. ASSUME NEW i \in 1 .. Len(chan[p]), asks(chan[p][i])
          PROVE  FALSE
      <3>1. LoopOf(p, chan[p][i]) = LoopOf(n, chan[n][1])
        BY <2>2, <1>1, <1>3, <1>9 DEF LoopOf, asks
      <3>. QED  BY <3>1, <1>1, <1>2, <1>4, SamePacket
    <2>. QED  BY <2>1, <2>2, <1>5, <1>6, <1>7
  <1>. QED  BY <1>8, <1>9 DEF p, f

(* A call on an SR moves its owner's transaction, or nothing.               *)
LEMMA SRStep ==
  ASSUME TInv, TypeOK', NEW n \in Node, ReceiveSR(n)
  PROVE  [Transfer!Next]_(Transfer!vars)
PROOF
  <1>. DEFINE p == Peer(n)
  <1>1. p \in Node /\ p # n /\ Peer(p) = n /\ Peer(n) = p
    BY PeerFacts
  <1>2. IInv /\ Table /\ TypeOK
    BY DEF TInv, IInv
  <1>3. /\ chan[n] # <<>> /\ Head(chan[n]).s_or_r = 1
        /\ reg'[p] = reg[p] /\ told' = told
        /\ \E e \in Field : Handled(n, e) /\ e.s_or_r = 0 /\ e.recover = 0
        /\ Holds(n) \/ Takes(n) \/ Passes(n)
    BY <1>2, SREffect
  <1>4. (Offered(n)' <=> Offered(n)) /\ ~Offered(p)'
    BY <1>2, <1>3, OffersAfterCall
  <1>. HIDE DEF p
  <1>5. Unseen(n)
    <2>1. Asking(n)' = Asking(n) /\ taken'[n] = taken[n]
      BY <1>3 DEF Asking, Holds, Takes, Passes
    <2>2. Progress(n)' = Progress(n)
      BY <2>1, <1>1, <1>3, <1>4 DEF Progress
    <2>. QED  BY <2>1, <2>2, <1>3 DEF Unseen
  <1>6. Asking(p)' = Asking(p) /\ told'[p] = told[p]
    BY <1>3 DEF Asking
  <1>7. /\ Progress(p) = IF reg[n].state = "Rb" THEN "held"
                         ELSE IF Offered(p) THEN "offered"
                         ELSE IF taken[p] THEN "taken" ELSE "none"
        /\ Progress(p)' = IF reg'[n].state = "Rb" THEN "held"
                          ELSE IF taken'[p] THEN "taken" ELSE "none"
    BY <1>1, <1>4 DEF Progress
  <1>8. Unseen(p) \/ Moves(p)
    <2>1. CASE Holds(n)
      <3>1. Offered(p)
        <4>1. chan \in [Node -> Seq(Field)]
          BY <1>2 DEF TypeOK
        <4>2. 1 \in 1 .. Len(chan[n]) /\ Head(chan[n]) = chan[n][1]
          BY <4>1, <1>3, HeadTailProperties, EmptySeq, LenProperties
        <4>. QED  BY <2>1, <4>2, <1>1, <1>3 DEF Offered, Holds
      <3>2. Progress(p) = "offered" /\ Progress(p)' = "held"
        BY <2>1, <3>1, <1>7 DEF Holds
      <3>. QED  BY <3>2, <1>6 DEF Moves
    <2>2. CASE Takes(n)
      <3>1. Progress(p) = "held" /\ Progress(p)' = "taken"
        BY <2>2, <1>1, <1>7 DEF Takes
      <3>. QED  BY <3>1, <1>6 DEF Moves
    <2>3. CASE Passes(n) /\ Offered(p)
      <3>1. taken[p] = FALSE
        BY <2>3, <1>1, OfferedIsPending
      <3>2. Progress(p) = "offered" /\ Progress(p)' = "none"
        BY <2>3, <3>1, <1>7 DEF Passes
      <3>. QED  BY <3>2, <1>6 DEF Moves
    <2>4. CASE Passes(n) /\ ~Offered(p)
      <3>1. Progress(p)' = Progress(p)
        BY <2>4, <1>7 DEF Passes
      <3>. QED  BY <3>1, <1>6 DEF Unseen
    <2>. QED  BY <2>1, <2>2, <2>3, <2>4, <1>3
  <1>. QED  BY <1>1, <1>2, <1>5, <1>8, AbstractStep

(* A call on an RR begins the end's own transaction, ends it as its state   *)
(* at the peer demands, or moves nothing.                                   *)
LEMMA RRStep ==
  ASSUME TInv, TypeOK', NEW n \in Node, ReceiveRR(n)
  PROVE  [Transfer!Next]_(Transfer!vars)
PROOF
  <1>. DEFINE p == Peer(n)
  <1>1. p \in Node /\ p # n /\ Peer(p) = n /\ Peer(n) = p
    BY PeerFacts
  <1>2. IInv /\ Table /\ TypeOK
    BY DEF TInv, IInv
  <1>3. /\ chan[n] # <<>> /\ Head(chan[n]).s_or_r = 0
        /\ reg'[p] = reg[p] /\ told'[p] = told[p] /\ taken'[p] = taken[p]
        /\ Begins(n) \/ IsGranted(n) \/ Ends(n) \/ Idles(n)
    BY RREffect
  <1>4. /\ Offered(p)' <=> Offered(p)
        /\ ~Offered(n) /\ (Offered(n)' <=> Begins(n))
    <2>1. PICK e \in Field : Handled(n, e) /\ e.s_or_r = 1 /\ (e.entt = "ENTT" <=> Begins(n))
      BY RREffect
    <2>. QED  BY <2>1, <1>2, <1>3, OffersAfterCall
  <1>. HIDE DEF p
  <1>5. Unseen(p)
    <2>1. reg'[n].state = "Rb" <=> reg[n].state = "Rb"
      BY <1>3 DEF Begins, IsGranted, Ends, Idles
    <2>2. Progress(p)' = Progress(p)
      BY <2>1, <1>1, <1>3, <1>4 DEF Progress
    <2>. QED  BY <2>2, <1>3 DEF Unseen, Asking
  <1>6. /\ Progress(n) = IF reg[p].state = "Rb" THEN "held"
                         ELSE IF taken[n] THEN "taken" ELSE "none"
        /\ Progress(n)' = IF reg[p].state = "Rb" THEN "held"
                          ELSE IF Begins(n) THEN "offered"
                          ELSE IF taken'[n] THEN "taken" ELSE "none"
    BY <1>1, <1>3, <1>4 DEF Progress
  <1>7. Unseen(n) \/ Asks(n) \/ Tells(n)
    <2>1. CASE Begins(n)
      <3>1. reg[p].state # "Rb"
        BY <2>1, <1>1, <1>2 DEF Begins, Table, HeldByRequester
      <3>. QED  BY <2>1, <3>1, <1>6 DEF Begins, Asks, Asking
    <2>2. CASE IsGranted(n)
      BY <2>2, <1>1, <1>6 DEF IsGranted, Unseen, Asking
    <2>3. CASE Ends(n)
      <3>1. ~Begins(n)
        BY <2>3 DEF Ends, Begins
      <3>. QED  BY <2>3, <3>1, <1>1, <1>6 DEF Ends, Tells, Asking
    <2>4. CASE Idles(n)
      <3>1. ~Begins(n)
        BY <2>4 DEF Idles, Begins
      <3>. QED  BY <2>4, <3>1, <1>6 DEF Idles, Unseen, Asking
    <2>. QED  BY <2>1, <2>2, <2>3, <2>4, <1>3
  <1>. QED  BY <1>1, <1>2, <1>5, <1>7, AbstractStep

(* A recovery releases the transaction that was held, if one was.           *)
LEMMA RecoverStep ==
  ASSUME TInv, TypeOK', NEW n \in Node, SendRecover(n)
  PROVE  [Transfer!Next]_(Transfer!vars)
PROOF
  <1>. DEFINE p == Peer(n)
              e == RecoverField(reg[n])
  <1>1. p \in Node /\ p # n /\ Peer(p) = n /\ Peer(n) = p
    BY PeerFacts
  <1>2. /\ FateOf(p) /\ HeldByRequester /\ WatchdogAt(n) /\ TypeOK
        /\ reg \in [Node -> Reg] /\ chan \in [Node -> Seq(Field)]
        /\ taken \in [Node -> BOOLEAN]
    BY <1>1 DEF TInv, Fate, Table, IInv, Watchdog, TypeOK
  <1>3. /\ reg' = [reg EXCEPT ![n] = Recover(reg[n]).reg]
        /\ chan' = [chan EXCEPT ![p] = Append(@, e)]
        /\ taken' = taken /\ told' = told
    BY DEF SendRecover, Recover
  <1>4. e \in Field /\ e.s_or_r = 0
    <2>1. Recover(reg[n]).ret = e
      BY DEF Recover
    <2>. QED  BY <2>1, <1>2, RecoverFacts
  <1>5. ~Alive(p)
    BY <1>2 DEF SendRecover, WatchdogAt
  <1>. HIDE DEF p, e
  <1>6. /\ reg'[p] = reg[p]
        /\ reg'[n].state = IF reg[n].state = "Rb" THEN "NIL" ELSE reg[n].state
    BY <1>1, <1>2, <1>3 DEF Recover, Reg
  <1>7. /\ chan'[n] = chan[n]
        /\ Len(chan[p]) \in Nat /\ Len(chan'[p]) = Len(chan[p]) + 1
        /\ \A i \in 1 .. Len(chan[p]) : chan'[p][i] = chan[p][i]
        /\ chan'[p][Len(chan[p]) + 1] = e
    <2>1. chan[p] \in Seq(Field) /\ chan'[p] = Append(chan[p], e) /\ chan'[n] = chan[n]
      BY <1>1, <1>2, <1>3
    <2>. QED  BY <2>1, <1>4, AppendProperties, LenProperties
  <1>8. Offered(n)' <=> Offered(n)
    <2>1. /\ Offered(n) <=> \E i \in 1 .. Len(chan[p]) :
                              chan[p][i].s_or_r = 1 /\ chan[p][i].entt = "ENTT"
          /\ Offered(n)' <=> \E i \in 1 .. Len(chan'[p]) :
                               chan'[p][i].s_or_r = 1 /\ chan'[p][i].entt = "ENTT"
      BY <1>1 DEF Offered
    <2>2. \A i \in 1 .. Len(chan[p]) : i \in 1 .. Len(chan'[p])
      BY <1>7
    <2>3. ASSUME NEW i \in 1 .. Len(chan'[p]), chan'[p][i].s_or_r = 1
          PROVE  i \in 1 .. Len(chan[p])
      BY <2>3, <1>4, <1>7
    <2>. QED  BY <2>1, <2>2, <2>3, <1>7
  <1>9. ~Offered(p) /\ ~Offered(p)'
    <2>1. ASSUME NEW i \in 1 .. Len(chan[n]), chan[n][i].s_or_r = 1
          PROVE  FALSE
      BY <2>1, <1>1, <1>5 DEF Alive, LoopOf
    <2>. QED  BY <2>1, <1>1, <1>7 DEF Offered
  <1>10. Unseen(n)
    <2>1. Asking(n)' = Asking(n)
      BY <1>6 DEF Asking
    <2>2. Progress(n)' = Progress(n)
      BY <1>1, <1>3, <1>6, <1>8 DEF Progress
    <2>. QED  BY <2>1, <2>2, <1>3 DEF Unseen
  <1>11. /\ Progress(p) = IF reg[n].state = "Rb" THEN "held"
                          ELSE IF taken[p] THEN "taken" ELSE "none"
         /\ Progress(p)' = IF taken[p] THEN "taken" ELSE "none"
         /\ Asking(p)' = Asking(p) /\ told'[p] = told[p]
    BY <1>1, <1>3, <1>6, <1>9 DEF Progress, Asking
  <1>12. Unseen(p) \/ Moves(p)
    <2>1. CASE reg[n].state = "Rb"
      <3>1. reg[p].state \in {"Ra", "Rp"}
        BY <2>1, <1>1, <1>2 DEF HeldByRequester
      <3>2. taken[p] = FALSE
        BY <2>1, <3>1, <1>1, <1>2 DEF FateOf
      <3>. QED  BY <2>1, <3>2, <1>11 DEF Moves
    <2>2. CASE reg[n].state # "Rb"
      BY <2>2, <1>11 DEF Unseen
    <2>. QED  BY <2>1, <2>2
  <1>. QED  BY <1>1, <1>2, <1>10, <1>12, AbstractStep

(* A lost request is a refused one; other losses move nothing.              *)
LEMMA LoseStep ==
  ASSUME TInv, TypeOK', NEW n \in Node, Lose(n)
  PROVE  [Transfer!Next]_(Transfer!vars)
PROOF
  <1>. DEFINE p == Peer(n)
  <1>1. p \in Node /\ p # n /\ Peer(p) = n /\ Peer(n) = p
    BY PeerFacts
  <1>2. TypeOK /\ chan \in [Node -> Seq(Field)]
    BY DEF TInv, IInv, TypeOK
  <1>3. PICK d \in 1 .. Len(chan[n]) : chan' = [chan EXCEPT ![n] = RemoveAt(@, d)]
    BY DEF Lose
  <1>4. reg' = reg /\ taken' = taken /\ told' = told
    BY DEF Lose
  <1>5. /\ Len(chan'[n]) = Len(chan[n]) - 1 /\ Len(chan[n]) \in Nat
        /\ \A i \in 1 .. Len(chan'[n]) :
             chan'[n][i] = chan[n][IF i < d THEN i ELSE i + 1]
        /\ chan'[p] = chan[p]
    BY <1>2, <1>3, LostSlots, LenProperties
  <1>. HIDE DEF p
  <1>6. Offered(n)' <=> Offered(n)
    BY <1>1, <1>5 DEF Offered
  <1>7. Offered(p)' => Offered(p)
    <2>1. ASSUME NEW i \in 1 .. Len(chan'[n])
          PROVE  \E x \in 1 .. Len(chan[n]) : chan'[n][i] = chan[n][x]
      <3>1. (IF i < d THEN i ELSE i + 1) \in 1 .. Len(chan[n])
        BY <1>5
      <3>. QED  BY <3>1, <1>5
    <2>. QED  BY <2>1, <1>1 DEF Offered
  <1>8. Unseen(n)
    BY <1>1, <1>4, <1>6 DEF Unseen, Progress, Asking
  <1>9. Unseen(p) \/ Moves(p)
    <2>1. Asking(p)' = Asking(p) /\ told'[p] = told[p]
      BY <1>4 DEF Asking
    <2>2. CASE Progress(p)' = Progress(p)
      BY <2>1, <2>2 DEF Unseen
    <2>3. CASE Progress(p)' # Progress(p)
      <3>1. reg[n].state # "Rb" /\ Offered(p) /\ ~Offered(p)'
        BY <2>3, <1>1, <1>4, <1>7 DEF Progress
      <3>2. taken[p] = FALSE
        BY <3>1, <1>1, OfferedIsPending
      <3>3. Progress(p) = "offered" /\ Progress(p)' = "none"
        BY <3>1, <3>2, <1>1, <1>4 DEF Progress
      <3>. QED  BY <2>1, <3>3 DEF Moves
    <2>. QED  BY <2>2, <2>3
  <1>. QED  BY <1>1, <1>2, <1>8, <1>9, AbstractStep

(* Nobody has asked, and the first SRs ask for nothing.                     *)
LEMMA InitMaps == Init => Transfer!Init
PROOF
  <1>. SUFFICES ASSUME Init PROVE Transfer!Init
    OBVIOUS
  <1>. DEFINE f == SendField(InitReg)
  <1>1. f.entt = "ENTL" /\ InitReg.state = "NIL"
    BY DEF SendField, InitReg
  <1>. HIDE DEF f
  <1>2. /\ \A n \in Node : /\ reg[n] = InitReg /\ taken[n] = FALSE
                           /\ Len(chan[n]) = 1 /\ chan[n][1] = f
        /\ told = [n \in Node |-> "none"]
    BY DEF Init, f
  <1>3. \A n \in Node : ~Offered(n)
    BY <1>1, <1>2, PeerFacts DEF Offered
  <1>4. \A n \in Node : Progress(n) = "none"
    BY <1>1, <1>2, <1>3, PeerFacts DEF Progress
  <1>5. \A n \in Node : (reg[n].state \in {"Ra", "Rp"}) = FALSE
    BY <1>1, <1>2
  <1>6. [n \in Node |-> reg[n].state \in {"Ra", "Rp"}] = [n \in Node |-> FALSE]
    BY <1>5
  <1>7. [n \in Node |-> Progress(n)] = [n \in Node |-> "none"]
    BY <1>4
  <1>. QED  BY <1>2, <1>6, <1>7 DEF Transfer!Init

(* Every step is one of the abstract transaction or none of its business.   *)
LEMMA NextMaps ==
  ASSUME Reliable, TInv, [Next]_vars
  PROVE  [Transfer!Next]_(Transfer!vars)
PROOF
  <1>1. TypeOK'
    BY NextFate DEF TInv, IInv
  <1>2. CASE Next
    BY <1>1, <1>2, SRStep, RRStep, RecoverStep, LoseStep DEF Next
  <1>3. CASE UNCHANGED vars
    BY <1>3 DEF vars, Transfer!vars, Progress, Offered
  <1>. QED  BY <1>2, <1>3

(* The two register machines implement the atomic transaction: whatever is  *)
(* lost but recovery packets, a request is taken by the peer at most once   *)
(* and its initiator is told the truth about it.                            *)
THEOREM TransferIsImplemented == Reliable => (Spec => ImplementsTransfer)
PROOF
  <1>. SUFFICES ASSUME Reliable PROVE Spec => ImplementsTransfer
    OBVIOUS
  <1>1. TInv /\ [Next]_vars => [Transfer!Next]_(Transfer!vars)
    BY NextMaps
  <1>. QED  BY <1>1, InitMaps, FateHolds, PTL DEF Spec, ImplementsTransfer, Transfer!Spec
=============================================================================
