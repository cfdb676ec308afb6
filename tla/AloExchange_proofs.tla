------------------------- MODULE AloExchange_proofs -------------------------
(***************************************************************************)
(* Theorems about AloExchange, for every width and number of registers, any *)
(* set of operations and any number of them.                                *)
(***************************************************************************)
EXTENDS AloExchange, AtomicLinkOp_proofs

-----------------------------------------------------------------------------
(* The invariant *)

\* What alo_initiate, alo_exec and alo_next have done to their engines.
Initiated == Initiate(ao[Src], job.op, job.sr, 0)
               = [alo |-> ao[Src], ret |-> 1, data |-> job.value]
Executed == Exec(ao[Dst], job.op, job.dt, job.value, 0).alo = ao[Dst]
Informed == NextStep(ao[Src], ao[Dst].rflag.ok, ao[Dst].retval) = ao[Src]

UnderWay == /\ step \in {"exec", "next", "complete"} => Initiated
            /\ step \in {"next", "complete"} => Executed
            /\ step = "complete" => Informed

\* Until alo_complete no register is written, and until alo_update none of
\* the destination.
NothingWritten ==
  /\ step \in {"exec", "next", "complete"} =>
       \A e \in End : ao[e].reg = copy[e].reg /\ ao[e].flags = copy[e].flags
  /\ step = "update" => ao[Dst].reg = copy[Dst].reg /\ ao[Dst].flags = copy[Dst].flags

IInv == /\ TypeOK /\ copy \in [End -> Alo]
        /\ UnderWay
        /\ NothingWritten

\* There are two ends.
LEMMA EndFacts == \A e \in End : 1 - e \in End /\ 1 - e # e /\ \A k \in End : k = e \/ k = 1 - e
BY DEF End

\* Before the first operation nothing is under way.
LEMMA InitInv == Init => IInv
  <1>. SUFFICES ASSUME Init PROVE IInv
    OBVIOUS
  <1>1. ao \in [End -> Alo]
    <2>. DEFINE fresh(f) == [reg |-> f, result |-> 0, retval |-> 0,
                             rflag |-> [ok |-> 0, zero |-> 0], flags |-> NoFlags,
                             pend |-> "none", at |-> 0]
    <2>1. ASSUME NEW f \in Fills
          PROVE  fresh(f) \in Alo
      <3>1. f \in [RegNo -> Word]
        BY OpsAssumption
      <3>. QED  BY <3>1, ZeroReg, WordsAreClosed DEF Alo, NoFlags
    <2>2. ao \in [End -> {fresh(f) : f \in Fills}]
      BY DEF Init
    <2>. HIDE DEF fresh
    <2>. QED  BY <2>1, <2>2
  <1>2. job \in Job
    <2>1. NOP \in Opcode
      BY DEF NOP, Opcode, Op
    <2>. QED  BY <2>1, ZeroReg, WordsAreClosed DEF Init, Job, End
  <1>3. TypeOK
    <2>1. last \in [End -> SUBSET RegNo]
      BY DEF Init
    <2>. QED  BY <1>1, <1>2, <2>1, OpsAssumption DEF Init, TypeOK
  <1>. QED  BY <1>1, <1>3 DEF Init, IInv, UnderWay, NothingWritten

\* What alo_initiate returns is settled by the register it reads.
LEMMA SameStart ==
  ASSUME NEW a \in Alo, NEW b \in Alo, NEW op \in Opcode, NEW r \in RegNo,
         b.reg = a.reg, Initiate(b, op, r, 0).alo = b
  PROVE  /\ Initiate(b, op, r, 0) = [alo |-> b, ret |-> Initiate(a, op, r, 0).ret,
                                     data |-> Initiate(a, op, r, 0).data]
         /\ Initiate(a, op, r, 0).alo = b => Initiate(b, op, r, 0) = Initiate(a, op, r, 0)
  <1>. DEFINE ca == Initiate(a, op, r, 0)
              cb == Initiate(b, op, r, 0)
  <1>1. /\ ca = [alo |-> ca.alo, ret |-> ca.ret, data |-> ca.data]
        /\ cb = [alo |-> cb.alo, ret |-> cb.ret, data |-> cb.data]
    BY DEF Initiate
  <1>2. cb.ret = ca.ret /\ cb.data = ca.data
    BY InitiateFacts, WordsAreClosed
  <1>. HIDE DEF ca, cb
  <1>. QED  BY <1>1, <1>2 DEF ca, cb

\* A start by alo_initiate, and a refusal.
LEMMA DoInitiateInv == IInv /\ DoInitiate => IInv'
  <1>. SUFFICES ASSUME IInv, DoInitiate PROVE IInv'
    OBVIOUS
  <1>1. TypeOK /\ copy \in [End -> Alo]
    BY DEF IInv
  <1>2. PICK src \in End, op \in Ops, place \in Places :
          LET call == Initiate(ao[src], op, place[1], 0)
          IN  /\ step = "initiate" /\ ops < MaxOps
              /\ ao' = [ao EXCEPT ![src] = call.alo]
              /\ job' = [src |-> src, op |-> op, sr |-> place[1], dt |-> place[2],
                         value |-> call.data, status |-> 0]
              /\ step' = IF call.ret = 1 THEN "exec" ELSE step
              /\ ops' = ops + 1
              /\ copy' = ao
              /\ UNCHANGED last
    BY DEF DoInitiate
  <1>. DEFINE call == Initiate(ao[src], op, place[1], 0)
  <1>3. place[1] \in RegNo /\ place[2] \in RegNo /\ op \in Opcode
    BY OpsAssumption
  <1>4. ao \in [End -> Alo]
    BY <1>1 DEF TypeOK
  <1>5. /\ call.alo \in Alo /\ call.data \in Word /\ call.ret \in {0, 1}
        /\ call.alo.reg = ao[src].reg /\ call.alo.flags = ao[src].flags
        /\ Initiate(call.alo, op, place[1], 0) = call
        /\ call = [alo |-> call.alo, ret |-> call.ret, data |-> call.data]
    <2>1. /\ call.alo \in Alo /\ call.data \in Word
          /\ call.ret = Truth(Begun(op, ao[src].reg[place[1]]))
          /\ call.data = Sent(op, ao[src].reg[place[1]], 0)
          /\ call.alo.reg = ao[src].reg /\ call.alo.flags = ao[src].flags
          /\ Initiate(call.alo, op, place[1], 0).alo = call.alo
      BY <1>3, <1>4, InitiateFacts, WordsAreClosed
    <2>4. /\ Initiate(call.alo, op, place[1], 0) = call
          /\ call = [alo |-> call.alo, ret |-> call.ret, data |-> call.data]
      BY <1>3, <1>4, <2>1, SameStart
    <2>. QED  BY <2>1, <2>4 DEF Truth
  <1>. HIDE DEF call
  <1>6. /\ ao' = [ao EXCEPT ![src] = call.alo]
        /\ job' = [src |-> src, op |-> op, sr |-> place[1], dt |-> place[2],
                   value |-> call.data, status |-> 0]
        /\ step = "initiate" /\ step' = IF call.ret = 1 THEN "exec" ELSE step
        /\ ops < MaxOps /\ ops' = ops + 1 /\ copy' = ao /\ last' = last
    BY <1>2 DEF call
  <1>7. TypeOK' /\ copy' \in [End -> Alo]
    <2>1. ao' \in [End -> Alo] /\ copy' \in [End -> Alo]
      BY <1>4, <1>5, <1>6
    <2>2. job' \in [src : End, op : Opcode, sr : RegNo, dt : RegNo, value : Word,
                    status : {0, 1}]
      BY <1>3, <1>5, <1>6
    <2>3. /\ step' \in {"initiate", "exec", "next", "complete", "update"}
          /\ ops' \in 0 .. MaxOps /\ last' \in [End -> SUBSET RegNo]
      BY <1>1, <1>6, OpsAssumption DEF TypeOK, Job
    <2>. QED  BY <2>1, <2>2, <2>3 DEF TypeOK, Job
  <1>8. ao'[src] = call.alo /\ job'.src = src /\ job'.op = op /\ job'.sr = place[1]
        /\ job'.value = call.data
    BY <1>4, <1>6
  <1>9. step' = "exec" => Initiated'
    <2>1. step' = "exec" => call = [alo |-> call.alo, ret |-> 1, data |-> call.data]
      BY <1>5, <1>6
    <2>. QED  BY <1>5, <1>8, <2>1 DEF Initiated, Src
  <1>. QED  BY <1>4, <1>5, <1>6, <1>7, <1>9 DEF IInv, UnderWay, NothingWritten

\* alo_exec at the destination.
LEMMA DoExecInv == IInv /\ DoExec => IInv'
  <1>. SUFFICES ASSUME IInv, DoExec PROVE IInv'
    OBVIOUS
  <1>1. TypeOK /\ copy \in [End -> Alo]
    BY DEF IInv
  <1>. DEFINE a == Exec(ao[Dst], job.op, job.dt, job.value, 0).alo
  <1>3. /\ Src \in End /\ Dst \in End /\ Src # Dst /\ \A e \in End : e = Src \/ e = Dst
        /\ job.dt \in RegNo
        /\ ao \in [End -> Alo] /\ copy \in [End -> Alo]
    BY <1>1, EndFacts DEF TypeOK, Job, Src, Dst
  <1>4. /\ a \in Alo /\ a.reg = ao[Dst].reg /\ a.flags = ao[Dst].flags
        /\ Exec(a, job.op, job.dt, job.value, 0).alo = a
    <2>1. ao[Dst] \in Alo /\ job.op \in Opcode /\ job.value \in Word
      BY <1>1, <1>3 DEF TypeOK, Job
    <2>. QED  BY <1>3, <2>1, ExecFacts
  <1>5. /\ step = "exec" /\ step' = "next" /\ ao' = [ao EXCEPT ![Dst] = a]
        /\ UNCHANGED <<job, ops, copy, last>>
    BY DEF DoExec
  <1>. HIDE DEF a
  <1>6. ao'[Dst] = a /\ ao'[Src] = ao[Src] /\ Src' = Src /\ Dst' = Dst
    BY <1>3, <1>5 DEF Src, Dst
  <1>7. TypeOK' /\ copy' \in [End -> Alo]
    BY <1>1, <1>3, <1>4, <1>5 DEF TypeOK, Job
  <1>8. Initiated'
    BY <1>5, <1>6 DEF IInv, UnderWay, Initiated
  <1>9. Executed'
    BY <1>4, <1>5, <1>6 DEF Executed
  <1>10. NothingWritten'
    BY <1>3, <1>4, <1>5, <1>6 DEF IInv, NothingWritten
  <1>. QED  BY <1>5, <1>7, <1>8, <1>9, <1>10 DEF IInv, UnderWay

(* The names of the two engines, and what may be read of them. *)
LEMMA StateFacts ==
  TypeOK =>
    /\ Src \in End /\ Dst \in End /\ Src # Dst /\ \A e \in End : e = Src \/ e = Dst
    /\ job.sr \in RegNo /\ job.dt \in RegNo /\ job.op \in Opcode /\ job.value \in Word
    /\ ao[Src] \in Alo /\ ao[Dst] \in Alo
    /\ ao[Dst].rflag.ok \in {0, 1} /\ ao[Dst].retval \in Word /\ ao[Src].rflag.ok \in {0, 1}
  <1>. SUFFICES ASSUME TypeOK
                PROVE  /\ Src \in End /\ Dst \in End /\ Src # Dst
                       /\ \A e \in End : e = Src \/ e = Dst
                       /\ job.sr \in RegNo /\ job.dt \in RegNo /\ job.op \in Opcode
                       /\ job.value \in Word /\ ao[Src] \in Alo /\ ao[Dst] \in Alo
                       /\ ao[Dst].rflag.ok \in {0, 1} /\ ao[Dst].retval \in Word
                       /\ ao[Src].rflag.ok \in {0, 1}
    OBVIOUS
  <1>1. /\ Src \in End /\ Dst \in End /\ Src # Dst /\ \A e \in End : e = Src \/ e = Dst
        /\ job.sr \in RegNo /\ job.dt \in RegNo /\ job.op \in Opcode /\ job.value \in Word
    BY EndFacts DEF TypeOK, Job, Src, Dst
  <1>2. ao[Src] \in Alo /\ ao[Dst] \in Alo
    BY <1>1 DEF TypeOK
  <1>3. \A a \in Alo : a.rflag.ok \in {0, 1} /\ a.retval \in Word
    BY DEF Alo
  <1>. QED  BY <1>1, <1>2, <1>3

\* alo_next with the destination's answer.
LEMMA DoNextInv == IInv /\ DoNext => IInv'
  <1>. SUFFICES ASSUME IInv, DoNext PROVE IInv'
    OBVIOUS
  <1>1. TypeOK /\ copy \in [End -> Alo]
    BY DEF IInv
  <1>. DEFINE a == NextStep(ao[Src], ao[Dst].rflag.ok, ao[Dst].retval)
  <1>2. /\ step = "next" /\ step' = "complete" /\ ao' = [ao EXCEPT ![Src] = a]
        /\ UNCHANGED <<job, ops, copy, last>>
    BY DEF DoNext
  <1>a. ao[Src] \in Alo /\ ao[Dst].rflag.ok \in {0, 1} /\ ao[Dst].retval \in Word
    BY <1>1, StateFacts
  <1>3. /\ a \in Alo /\ a.reg = ao[Src].reg /\ a.flags = ao[Src].flags
        /\ NextStep(a, ao[Dst].rflag.ok, ao[Dst].retval) = a
    BY <1>a, NextStepFacts
  <1>4. Initiate(a, job.op, job.sr, 0) = [alo |-> a, ret |-> 1, data |-> job.value]
    <2>1. Initiate(ao[Src], job.op, job.sr, 0)
            = [alo |-> ao[Src], ret |-> 1, data |-> job.value]
      BY <1>2 DEF IInv, UnderWay, Initiated
    <2>2. job.sr \in RegNo /\ job.op \in Opcode
      BY <1>1, StateFacts
    <2>3. Initiate(a, job.op, job.sr, 0).alo = a
      BY <1>a, <2>1, <2>2, NextKeepsInitiated
    <2>. QED  BY <1>3, <1>a, <2>1, <2>2, <2>3, SameStart
  <1>. HIDE DEF a
  <1>5. ao'[Src] = a /\ ao'[Dst] = ao[Dst] /\ Src' = Src /\ Dst' = Dst
    BY <1>1, <1>2, StateFacts DEF TypeOK, Job, Src, Dst
  <1>6. TypeOK' /\ copy' \in [End -> Alo]
    BY <1>1, <1>2, <1>3, StateFacts DEF TypeOK, Job
  <1>7. Initiated' /\ Executed' /\ Informed'
    BY <1>2, <1>3, <1>4, <1>5 DEF IInv, UnderWay, Initiated, Executed, Informed
  <1>8. NothingWritten'
    BY <1>1, <1>2, <1>3, <1>5, StateFacts DEF IInv, NothingWritten
  <1>. QED  BY <1>2, <1>6, <1>7, <1>8 DEF IInv, UnderWay

\* alo_complete writes, and then nothing of the source is to be remembered.
LEMMA DoCompleteInv == IInv /\ DoComplete => IInv'
  <1>. SUFFICES ASSUME IInv, DoComplete PROVE IInv'
    OBVIOUS
  <1>1. TypeOK /\ copy \in [End -> Alo]
    BY DEF IInv
  <1>2. /\ step = "complete" /\ step' = "update"
        /\ ao' = [ao EXCEPT ![Src] = Complete(ao[Src]).alo]
        /\ job' = [job EXCEPT !.status = Complete(ao[Src]).ret]
        /\ last' = last \/ last' = [last EXCEPT ![Src] = {job.sr}]
        /\ UNCHANGED <<ops, copy>>
    BY DEF DoComplete
  <1>3. Complete(ao[Src]).alo \in Alo /\ Complete(ao[Src]).ret \in {0, 1}
    BY <1>1, StateFacts, CompleteFacts
  <1>4. last' \in [End -> SUBSET RegNo]
    BY <1>1, <1>2, StateFacts DEF TypeOK
  <1>5. TypeOK' /\ copy' \in [End -> Alo]
    BY <1>1, <1>2, <1>3, <1>4, StateFacts DEF TypeOK, Job
  <1>6. ao'[Dst] = ao[Dst] /\ Dst' = Dst
    BY <1>1, <1>2, StateFacts DEF TypeOK, Job, Src, Dst
  <1>7. ao[Dst].reg = copy[Dst].reg /\ ao[Dst].flags = copy[Dst].flags
    BY <1>1, <1>2, StateFacts DEF IInv, NothingWritten
  <1>. QED  BY <1>2, <1>5, <1>6, <1>7 DEF IInv, UnderWay, NothingWritten

\* alo_update ends the operation.
LEMMA DoUpdateInv == IInv /\ DoUpdate => IInv'
  <1>. SUFFICES ASSUME IInv, DoUpdate PROVE IInv'
    OBVIOUS
  <1>1. TypeOK /\ copy \in [End -> Alo]
    BY DEF IInv
  <1>2. /\ step' = "initiate" /\ ao' = [ao EXCEPT ![Dst] = Update(ao[Dst], job.status).alo]
        /\ last' = last \/ last' = [last EXCEPT ![Dst] = {job.dt}]
        /\ UNCHANGED <<job, ops, copy>>
    BY <1>1, StateFacts DEF DoUpdate
  <1>3. Update(ao[Dst], job.status).alo \in Alo
    BY <1>1, StateFacts, UpdateFacts
  <1>4. last' \in [End -> SUBSET RegNo]
    BY <1>1, <1>2, StateFacts DEF TypeOK
  <1>5. TypeOK' /\ copy' \in [End -> Alo]
    BY <1>1, <1>2, <1>3, <1>4, StateFacts DEF TypeOK, Job
  <1>. QED  BY <1>2, <1>5 DEF IInv, UnderWay, NothingWritten

\* A stuttering step.
LEMMA StutterInv == IInv /\ UNCHANGED vars => IInv'
  <1>. SUFFICES ASSUME IInv, UNCHANGED vars PROVE IInv'
    OBVIOUS
  <1>1. TypeOK /\ copy \in [End -> Alo]
    BY DEF IInv
  <1>2. TypeOK' /\ copy' \in [End -> Alo]
    BY <1>1 DEF vars, TypeOK, Job
  <1>. QED
    BY <1>2 DEF IInv, vars, UnderWay, Initiated, Executed, Informed, NothingWritten, Src, Dst

(* Whatever the registers hold and in whatever order the two ends do which  *)
(* operations, what a call has done is still to be read off its engine when *)
(* the next one is made, and no register is written before alo_complete.    *)
THEOREM Invariance == Spec => []IInv
  <1>1. IInv /\ [Next]_vars => IInv'
    BY DoInitiateInv, DoExecInv, DoNextInv, DoCompleteInv, DoUpdateInv, StutterInv DEF Next
  <1>. QED  BY <1>1, InitInv, PTL DEF Spec

(* Every value in an engine stays a word of its width, whatever operations  *)
(* are done: the sums, differences and bit masks of alo_initiate and        *)
(* alo_exec never carry out of it.                                          *)
THEOREM TypeCorrect == Spec => []TypeOK
  <1>1. IInv => TypeOK
    BY DEF IInv
  <1>. QED  BY <1>1, Invariance, PTL

-----------------------------------------------------------------------------
(* What an operation does *)

\* The engines after alo_complete and alo_update, of what they were before
\* the operation.
Outcome(src, dst, src0, dst0) ==
  LET expect == Expected(job.op, src0.reg[job.sr], dst0.reg[job.dt])
  IN  AsExpected(src, src0, job.sr, expect[1]) /\ AsExpected(dst, dst0, job.dt, expect[2])

(* When alo_complete is called both ends have agreed what to do: it does it *)
(* at the source and alo_update will do it at the destination.              *)
LEMMA CompleteDecides ==
  ASSUME IInv, DoComplete
  PROVE  /\ Src' = Src /\ Dst' = Dst /\ ao'[Dst] = ao[Dst] /\ step' = "update"
         /\ job'.op = job.op /\ job'.sr = job.sr /\ job'.dt = job.dt /\ copy' = copy
         /\ job'.status = ao[Dst].rflag.ok
         /\ Outcome(ao'[Src], Update(ao[Dst], job'.status).alo, ao[Src], ao[Dst])
  <1>1. TypeOK /\ copy \in [End -> Alo]
    BY DEF IInv
  <1>2. /\ step = "complete" /\ step' = "update" /\ copy' = copy
        /\ ao' = [ao EXCEPT ![Src] = Complete(ao[Src]).alo]
        /\ job' = [job EXCEPT !.status = Complete(ao[Src]).ret]
    BY DEF DoComplete
  <1>3. Initiated /\ Executed /\ Informed
    BY <1>2 DEF IInv, UnderWay
  <1>. DEFINE s == ao[Src].reg[job.sr]
              d == ao[Dst].reg[job.dt]
  <1>a. /\ ao[Src] \in Alo /\ ao[Dst] \in Alo /\ job.op \in Opcode
        /\ job.sr \in RegNo /\ job.dt \in RegNo
        /\ ao[Dst].rflag.ok \in {0, 1} /\ ao[Dst].retval \in Word
    BY <1>1, StateFacts
  <1>4. /\ Initiate(ao[Src], job.op, job.sr, 0).alo = ao[Src]
        /\ job.value = Sent(job.op, s, 0)
        /\ job.op.name \in BitOp => BitAllows(job.op, s)
    <2>1. /\ Initiate(ao[Src], job.op, job.sr, 0).alo = ao[Src]
          /\ Initiate(ao[Src], job.op, job.sr, 0).ret = 1
          /\ Initiate(ao[Src], job.op, job.sr, 0).data = job.value
      BY <1>3 DEF Initiated
    <2>2. Begun(job.op, s) /\ job.value = Sent(job.op, s, 0)
      BY <1>a, <2>1, InitiateFacts, WordsAreClosed DEF Truth
    <2>. QED  BY <2>1, <2>2 DEF Begun, NeedsReply, CountsAtSource, BitOp
  <1>5. /\ ao[Dst].rflag.ok = Truth(Executes(job.op, d, Sent(job.op, s, 0)))
        /\ Executes(job.op, d, Sent(job.op, s, 0)) /\ job.op.name \in NeedsReply =>
             ao[Dst].retval = SourceKeeps(job.op, s, d)
        /\ AsExpected(Update(ao[Dst], ao[Dst].rflag.ok).alo, ao[Dst], job.dt,
                      Effect(job.op, s, d)[2])
    <2>1. Exec(ao[Dst], job.op, job.dt, Sent(job.op, s, 0), 0).alo = ao[Dst]
      BY <1>3, <1>4 DEF Executed
    <2>. QED  BY <1>a, <1>4, <2>1, DestinationDone
  <1>6. ao[Src].rflag.ok = ao[Dst].rflag.ok
    BY <1>a, <1>3, NextStepFacts DEF Informed
  <1>7. AsExpected(Complete(ao[Src]).alo, ao[Src], job.sr, Effect(job.op, s, d)[1])
    <2>1. ao[Dst].rflag.ok = 1 /\ job.op.name \in NeedsReply =>
            ao[Dst].retval = SourceKeeps(job.op, s, d)
      BY <1>5 DEF Truth
    <2>. QED  BY <1>a, <1>3, <1>4, <1>5, <1>6, <2>1, SourceDone DEF Informed
  <1>8. Effect(job.op, s, d) = Expected(job.op, s, d)
    BY <1>a, EffectIsTested
  <1>9. job'.status = ao[Dst].rflag.ok
    BY <1>1, <1>2, <1>6, StateFacts, CompleteFacts DEF TypeOK, Job
  <1>10. /\ ao'[Src] = Complete(ao[Src]).alo /\ ao'[Dst] = ao[Dst]
         /\ Src' = Src /\ Dst' = Dst
         /\ job'.op = job.op /\ job'.sr = job.sr /\ job'.dt = job.dt
    BY <1>1, <1>2, StateFacts DEF TypeOK, Job, Src, Dst
  <1>. QED  BY <1>2, <1>5, <1>7, <1>8, <1>9, <1>10 DEF Outcome

-----------------------------------------------------------------------------
(* Operations do what their tests expect *)

Settled == step = "update" =>
             Outcome(ao[Src], Update(ao[Dst], job.status).alo, copy[Src], copy[Dst])

\* What alo_complete settles is what there is once alo_update is done.
LEMMA SettledAndTested == Spec => [](Settled /\ AsTested)
  <1>1. Init => Settled /\ AsTested
    BY DEF Init, Settled, AsTested
  <1>2. IInv /\ Settled /\ AsTested /\ [Next]_vars => Settled' /\ AsTested'
    <2>. SUFFICES ASSUME IInv, Settled, AsTested, [Next]_vars PROVE Settled' /\ AsTested'
      OBVIOUS
    <2>1. TypeOK /\ copy \in [End -> Alo]
      BY DEF IInv
    <2>2. CASE DoInitiate
      <3>1. PICK src \in End, op \in Ops, place \in Places :
              LET call == Initiate(ao[src], op, place[1], 0)
              IN  /\ step = "initiate"
                  /\ ao' = [ao EXCEPT ![src] = call.alo]
                  /\ job' = [src |-> src, op |-> op, sr |-> place[1], dt |-> place[2],
                             value |-> call.data, status |-> 0]
                  /\ step' = IF call.ret = 1 THEN "exec" ELSE step
                  /\ copy' = ao
        BY <2>2 DEF DoInitiate
      <3>. DEFINE a == Initiate(ao[src], op, place[1], 0).alo
                  dst == 1 - src
                  d == ao[dst].reg[place[2]]
      <3>2. /\ place[1] \in RegNo /\ place[2] \in RegNo /\ op \in Opcode
            /\ dst \in End /\ dst # src /\ ao[src] \in Alo /\ ao[dst] \in Alo
        BY <2>1, OpsAssumption, EndFacts DEF TypeOK, Job
      <3>3. CASE Initiate(ao[src], op, place[1], 0).ret = 1
        BY <3>1, <3>3 DEF Settled, AsTested
      <3>4. CASE Initiate(ao[src], op, place[1], 0).ret = 0
        <4>1. a.reg = ao[src].reg /\ a.flags = ao[src].flags
          BY <3>2, InitiateFacts, WordsAreClosed
        <4>2. Src' = src /\ Dst' = dst /\ ao'[src] = a /\ ao'[dst] = ao[dst]
              /\ job'.op = op /\ job'.sr = place[1] /\ job'.dt = place[2]
          BY <2>1, <3>1, <3>2 DEF TypeOK, Job, Src, Dst
        <4>3. Expected(op, ao[src].reg[place[1]], d)
                = <<Leaves(ao[src].reg[place[1]]), Leaves(d)>>
          BY <3>2, <3>4, RefusedFacts, WordsAreClosed
        <4>4. AsExpected(a, ao[src], place[1], Leaves(ao[src].reg[place[1]]))
          BY <3>2, <4>1, LeftAlone
        <4>5. AsExpected(ao[dst], ao[dst], place[2], Leaves(d))
          BY <3>2, LeftAlone
        <4>. HIDE DEF a, dst, d
        <4>6. Outcome(ao[Src], ao[Dst], copy[Src], copy[Dst])'
          BY <3>1, <4>2, <4>3, <4>4, <4>5 DEF Outcome, d
        <4>. QED  BY <3>1, <3>4, <4>6, LoweredNoFlags
                  DEF Settled, AsTested, Outcome, AsExpected, Expects
      <3>5. Initiate(ao[src], op, place[1], 0).ret \in {0, 1}
        BY <3>2, InitiateCases
      <3>. QED  BY <3>3, <3>4, <3>5
    <2>3. CASE DoExec \/ DoNext
      BY <2>3 DEF DoExec, DoNext, Settled, AsTested
    <2>4. CASE DoComplete
      <3>1. /\ Src' = Src /\ Dst' = Dst /\ ao'[Dst] = ao[Dst] /\ step' = "update"
            /\ job'.op = job.op /\ job'.sr = job.sr /\ job'.dt = job.dt /\ copy' = copy
            /\ Outcome(ao'[Src], Update(ao[Dst], job'.status).alo, ao[Src], ao[Dst])
        BY <2>4, CompleteDecides
      <3>2. /\ ao[Src].reg = copy[Src].reg /\ ao[Src].flags = copy[Src].flags
            /\ ao[Dst].reg = copy[Dst].reg /\ ao[Dst].flags = copy[Dst].flags
        BY <2>1, <2>4, StateFacts DEF DoComplete, IInv, NothingWritten, TypeOK
      <3>. QED  BY <3>1, <3>2 DEF Settled, AsTested, Outcome, AsExpected, Expects
    <2>5. CASE DoUpdate
      <3>1. /\ step = "update" /\ step' = "initiate" /\ UNCHANGED <<job, ops, copy>>
            /\ Src' = Src /\ Dst' = Dst /\ ao'[Src] = ao[Src]
            /\ ao'[Dst] = Update(ao[Dst], job.status).alo
        BY <2>1, <2>5, StateFacts DEF DoUpdate, TypeOK, Job, Src, Dst
      <3>2. Outcome(ao[Src], ao[Dst], copy[Src], copy[Dst])'
        BY <3>1 DEF Settled, Outcome
      <3>. QED  BY <3>1, <3>2, LoweredNoFlags
                DEF Settled, AsTested, Outcome, AsExpected, Expects
    <2>6. CASE UNCHANGED vars
      BY <2>6 DEF vars, Settled, AsTested, Outcome, Src, Dst, Expects
    <2>. QED  BY <2>2, <2>3, <2>4, <2>5, <2>6 DEF Next
  <1>. QED  BY <1>1, <1>2, Invariance, PTL DEF Spec

(* Of every operation, on any registers, after any operations: each end has *)
(* in its registers what the operation's test expects, and its flags say so.*)
THEOREM OperationsAsTested == Spec => []AsTested
BY SettledAndTested, PTL

-----------------------------------------------------------------------------
(* The flags *)

\* An operation says of each end that it writes it or that it does not.
LEMMA ExpectsOrNot ==
  TypeOK => Expects(1).written \in BOOLEAN /\ Expects(2).written \in BOOLEAN
  <1>. SUFFICES ASSUME TypeOK
                PROVE  Expects(1).written \in BOOLEAN /\ Expects(2).written \in BOOLEAN
    OBVIOUS
  <1>. DEFINE s == copy[Src].reg[job.sr]
              d == copy[Dst].reg[job.dt]
  <1>1. \A n \in {1, 2} : Expects(n) = Effect(job.op, s, d)[n]
    BY StateFacts, EffectIsTested DEF Expects
  <1>2. /\ \A v : Writes(v).written \in BOOLEAN /\ Leaves(v).written \in BOOLEAN
        /\ \A n \in {1, 2} : \E v : \/ Effect(job.op, s, d)[n] = Writes(v)
                                  \/ Effect(job.op, s, d)[n] = Leaves(v)
    <2>1. \A v : Writes(v).written \in BOOLEAN /\ Leaves(v).written \in BOOLEAN
      BY DEF Writes, Leaves
    <2>2. \A n \in {1, 2} : \E v : \/ Effect(job.op, s, d)[n] = Writes(v)
                                 \/ Effect(job.op, s, d)[n] = Leaves(v)
      BY DEF Effect
    <2>. QED  BY <2>1, <2>2
  <1>. QED  BY <1>1, <1>2

(* Whatever operations are done, refused or fail, and in whatever order, an *)
(* engine's flags are about the register that it wrote last: alo_complete   *)
(* and alo_update leave nothing in them of a register written before.       *)
THEOREM FlagsAreTrue == Spec => []FlagsTellTheTruth
  <1>1. FlagsTellTheTruth <=> \A e \in End : SpeaksOf(ao[e], last[e])
    BY DEF FlagsTellTheTruth, SpeaksOf
  <1>2. Init => FlagsTellTheTruth
    BY DEF Init, FlagsTellTheTruth, NoFlags
  <1>3. IInv /\ IInv' /\ Settled /\ FlagsTellTheTruth /\ [Next]_vars => FlagsTellTheTruth'
    <2>. SUFFICES ASSUME IInv, IInv', Settled, FlagsTellTheTruth, [Next]_vars, NEW e \in End
                  PROVE  SpeaksOf(ao'[e], last'[e])
      BY DEF FlagsTellTheTruth, SpeaksOf
    <2>1. TypeOK /\ ao' \in [End -> Alo]
      BY DEF IInv, TypeOK
    <2>a. \A k \in End : SpeaksOf(ao[k], last[k])
      BY <1>1
    <2>b. ASSUME NEW k \in End, NEW b, ao' = [ao EXCEPT ![k] = b], last' = last,
                 b.reg = ao[k].reg /\ b.flags = ao[k].flags
          PROVE  SpeaksOf(ao'[e], last'[e])
      <3>1. SpeaksOf(b, last[k])
        BY <2>a, <2>b DEF SpeaksOf
      <3>2. ao'[e] = IF e = k THEN b ELSE ao[e]
        BY <2>1, <2>b DEF TypeOK
      <3>. QED  BY <2>a, <2>b, <3>1, <3>2
    <2>2. CASE DoInitiate
      <3>1. PICK src \in End, op \in Ops, place \in Places :
              /\ ao' = [ao EXCEPT ![src] = Initiate(ao[src], op, place[1], 0).alo]
              /\ last' = last
        BY <2>2 DEF DoInitiate
      <3>2. place[1] \in RegNo /\ op \in Opcode /\ ao[src] \in Alo
        BY <2>1, OpsAssumption DEF TypeOK
      <3>. DEFINE b == Initiate(ao[src], op, place[1], 0).alo
      <3>3. b.reg = ao[src].reg /\ b.flags = ao[src].flags
        BY <3>2, InitiateFacts, WordsAreClosed
      <3>. HIDE DEF b
      <3>. QED  BY <2>b, <3>1, <3>3 DEF b
    <2>3. CASE DoExec
      <3>. DEFINE b == Exec(ao[Dst], job.op, job.dt, job.value, 0).alo
      <3>1. Dst \in End /\ b.reg = ao[Dst].reg /\ b.flags = ao[Dst].flags
        BY <2>1, StateFacts, ExecFacts
      <3>2. ao' = [ao EXCEPT ![Dst] = b] /\ last' = last
        BY <2>3 DEF DoExec
      <3>. HIDE DEF b
      <3>. QED  BY <2>b, <3>1, <3>2
    <2>4. CASE DoNext
      <3>. DEFINE b == NextStep(ao[Src], ao[Dst].rflag.ok, ao[Dst].retval)
      <3>1. Src \in End /\ b.reg = ao[Src].reg /\ b.flags = ao[Src].flags
        BY <2>1, StateFacts, NextStepFacts
      <3>2. ao' = [ao EXCEPT ![Src] = b] /\ last' = last
        BY <2>4 DEF DoNext
      <3>. HIDE DEF b
      <3>. QED  BY <2>b, <3>1, <3>2
    <2>5. CASE DoComplete
      <3>. DEFINE x == Expects(1)
      <3>1. /\ Outcome(ao'[Src], Update(ao[Dst], job'.status).alo, ao[Src], ao[Dst])
            /\ ao'[Dst] = ao[Dst]
        BY <2>5, CompleteDecides
      <3>2. ao[Src].reg = copy[Src].reg /\ ao[Dst].reg = copy[Dst].reg
        BY <2>1, <2>5, StateFacts DEF DoComplete, IInv, NothingWritten
      <3>3. AsExpected(ao'[Src], ao[Src], job.sr, x)
        BY <3>1, <3>2 DEF Outcome, Expects
      <3>4. last' = IF x.written THEN [last EXCEPT ![Src] = {job.sr}] ELSE last
        BY <2>5 DEF DoComplete
      <3>5. x.written \in BOOLEAN
        BY <2>1, ExpectsOrNot
      <3>. HIDE DEF x
      <3>6. SpeaksOf(ao'[Src], IF x.written THEN {job.sr} ELSE last[Src])
        BY <2>1, <2>a, <3>3, <3>5, StateFacts, FlagsFollow
      <3>7. /\ last'[Src] = IF x.written THEN {job.sr} ELSE last[Src]
            /\ last'[Dst] = last[Dst]
        BY <2>1, <3>4, StateFacts DEF TypeOK
      <3>. QED  BY <2>1, <2>a, <3>1, <3>6, <3>7, StateFacts
    <2>6. CASE DoUpdate
      <3>. DEFINE x == Expects(2)
                  b == Update(ao[Dst], job.status).alo
      <3>1. AsExpected(b, copy[Dst], job.dt, x)
        BY <2>6 DEF DoUpdate, Settled, Outcome, Expects
      <3>2. ao[Dst].reg = copy[Dst].reg /\ ao[Dst].flags = copy[Dst].flags
        BY <2>6 DEF DoUpdate, IInv, NothingWritten
      <3>3. AsExpected(b, ao[Dst], job.dt, x)
        BY <3>1, <3>2 DEF AsExpected
      <3>4. /\ ao' = [ao EXCEPT ![Dst] = b]
            /\ last' = IF x.written THEN [last EXCEPT ![Dst] = {job.dt}] ELSE last
        BY <2>6 DEF DoUpdate
      <3>5. x.written \in BOOLEAN
        BY <2>1, ExpectsOrNot
      <3>. HIDE DEF x, b
      <3>6. ao'[Dst] = b /\ ao'[Src] = ao[Src] /\ b \in Alo
        BY <2>1, <3>4, StateFacts DEF TypeOK
      <3>7. SpeaksOf(b, IF x.written THEN {job.dt} ELSE last[Dst])
        BY <2>1, <2>a, <3>3, <3>5, <3>6, StateFacts, FlagsFollow
      <3>8. /\ last'[Dst] = IF x.written THEN {job.dt} ELSE last[Dst]
            /\ last'[Src] = last[Src]
        BY <2>1, <3>4, StateFacts DEF TypeOK
      <3>. QED  BY <2>1, <2>a, <3>6, <3>7, <3>8, StateFacts
    <2>7. CASE UNCHANGED vars
      BY <2>a, <2>7 DEF vars
    <2>. QED  BY <2>2, <2>3, <2>4, <2>5, <2>6, <2>7 DEF Next
  <1>4. Spec => []Settled
    BY SettledAndTested, PTL
  <1>. QED  BY <1>2, <1>3, <1>4, Invariance, PTL DEF Spec

-----------------------------------------------------------------------------
(* The refinement *)

\* The instance computes with the same words.
LEMMA SameWords ==
  /\ Memory!RegNo = RegNo /\ Memory!Word = Word
  /\ \A op, s, d : Memory!Expected(op, s, d) = Expected(op, s, d)
  <1>1. Memory!RegNo = RegNo /\ Memory!Word = Word
    BY DEF RegNo, Word, Memory!RegNo, Memory!Word
  <1>2. \A op, s, d : Memory!Expected(op, s, d) = Expected(op, s, d)
    BY DEF AloNopTest, AloAddTest, AloSubsTest, AloSubdTest, AloAndTest, AloOrTest,
           AloIncTest, AloDecTest, AloIncsTest, AloIncdTest, AloDecsTest, AloDecdTest,
           AloRdTest, AloWrTest, AloSwapTest, AloBsetTest, AloBresetTest,
           AloBtestsetTest, AloBtestresetTest, TestValues, Writes, Leaves, Both,
           Untouched, Plus, Minus, And, Or, Xor, ByBits, BitAt, Word, Expected,
           Memory!AloNopTest, Memory!AloAddTest, Memory!AloSubsTest, Memory!AloSubdTest,
           Memory!AloAndTest, Memory!AloOrTest, Memory!AloIncTest, Memory!AloDecTest,
           Memory!AloIncsTest, Memory!AloIncdTest, Memory!AloDecsTest,
           Memory!AloDecdTest, Memory!AloRdTest, Memory!AloWrTest, Memory!AloSwapTest,
           Memory!AloBsetTest, Memory!AloBresetTest, Memory!AloBtestsetTest,
           Memory!AloBtestresetTest, Memory!TestValues, Memory!Writes, Memory!Leaves,
           Memory!Both, Memory!Untouched, Memory!Plus, Memory!Minus, Memory!And,
           Memory!Or, Memory!Xor, Memory!ByBits, Memory!BitAt, Memory!Word,
           Memory!Expected
  <1>. QED  BY <1>1, <1>2

\* What the refinement mapping takes for the memory.
Mem == [e \in End |-> IF Decided(e) THEN Update(ao[e], 1).alo.reg ELSE ao[e].reg]

(* Every operation on the link changes the registers of both ends in one    *)
(* step, that of alo_complete, as its test expects, or changes nothing.     *)
THEOREM MemoryIsImplemented == Spec => ImplementsMemory
  <1>1. Init => Memory!Init
    <2>. SUFFICES ASSUME Init PROVE Memory!Init
      OBVIOUS
    <2>1. step # "update" /\ \A e \in End : ao[e].reg \in [RegNo -> Word]
      BY OpsAssumption DEF Init
    <2>2. Mem \in [End -> [RegNo -> Word]]
      BY <2>1 DEF Mem, Decided
    <2>. QED  BY <2>2, SameWords DEF Memory!Init, Mem
  <1>2. IInv /\ [Next]_vars => Memory!Next \/ Mem' = Mem
    <2>. SUFFICES ASSUME IInv, [Next]_vars PROVE Memory!Next \/ Mem' = Mem
      OBVIOUS
    <2>1. TypeOK /\ copy \in [End -> Alo]
      BY DEF IInv
    <2>2. ASSUME step # "update", step' # "update", \A e \in End : ao'[e].reg = ao[e].reg
          PROVE  Mem' = Mem
      BY <2>2 DEF Mem, Decided
    <2>3. CASE DoInitiate
      <3>1. PICK src \in End, op \in Ops, place \in Places :
              /\ ao' = [ao EXCEPT ![src] = Initiate(ao[src], op, place[1], 0).alo]
              /\ step = "initiate" /\ step' # "update"
        BY <2>3 DEF DoInitiate
      <3>2. place[1] \in RegNo /\ op \in Opcode /\ ao[src] \in Alo
        BY <2>1, OpsAssumption DEF TypeOK
      <3>3. Initiate(ao[src], op, place[1], 0).alo.reg = ao[src].reg
        BY <3>2, InitiateFacts, WordsAreClosed
      <3>. QED  BY <2>1, <2>2, <3>1, <3>3 DEF TypeOK, Job
    <2>4. CASE DoExec
      <3>1. /\ Dst \in End /\ ao[Dst] \in Alo /\ job.dt \in RegNo
            /\ job.op \in Opcode /\ job.value \in Word
        BY <2>1, StateFacts DEF TypeOK, Job
      <3>2. Exec(ao[Dst], job.op, job.dt, job.value, 0).alo.reg = ao[Dst].reg
        BY <3>1, ExecFacts
      <3>. QED  BY <2>1, <2>2, <2>4, <3>1, <3>2 DEF DoExec, TypeOK, Job
    <2>5. CASE DoNext
      <3>1. Src \in End
            /\ NextStep(ao[Src], ao[Dst].rflag.ok, ao[Dst].retval).reg = ao[Src].reg
        BY <2>1, StateFacts, NextStepFacts
      <3>. QED  BY <2>1, <2>2, <2>5, <3>1 DEF DoNext, TypeOK, Job
    <2>6. CASE DoComplete
      <3>1. /\ Src' = Src /\ Dst' = Dst /\ ao'[Dst] = ao[Dst] /\ step' = "update"
            /\ job'.op = job.op /\ job'.sr = job.sr /\ job'.dt = job.dt
            /\ job'.status = ao[Dst].rflag.ok
            /\ Outcome(ao'[Src], Update(ao[Dst], job'.status).alo, ao[Src], ao[Dst])
        BY <2>6, CompleteDecides
      <3>. DEFINE expect == Expected(job.op, ao[Src].reg[job.sr], ao[Dst].reg[job.dt])
      <3>2. Mem = [e \in End |-> ao[e].reg]
        BY <2>6 DEF DoComplete, Mem, Decided
      <3>3. Mem'[Src] = ao'[Src].reg
        BY <2>1, <3>1, StateFacts DEF Mem, Decided
      <3>4. Mem'[Dst] = Update(ao[Dst], job'.status).alo.reg
        <4>1. CASE Decided(Dst)'
          BY <2>1, <3>1, <4>1, StateFacts DEF Mem, Decided
        <4>2. CASE ~Decided(Dst)'
          <5>1. ~(ao[Dst].pend # "none" /\ job'.status = 1)
            BY <2>1, <3>1, <4>2, StateFacts DEF Decided
          <5>. QED  BY <2>1, <3>1, <4>2, <5>1, StateFacts, UpdateOfNothing DEF Mem
        <4>. QED  BY <4>1, <4>2
      <3>5. Mem' = [Mem EXCEPT ![Src][job.sr] = expect[1].value,
                               ![Dst][job.dt] = expect[2].value]
        <4>1. /\ Mem'[Src] = [ao[Src].reg EXCEPT ![job.sr] = expect[1].value]
              /\ Mem'[Dst] = [ao[Dst].reg EXCEPT ![job.dt] = expect[2].value]
          BY <3>1, <3>3, <3>4 DEF Outcome, AsExpected
        <4>2. Mem' = [e \in End |-> Mem'[e]] /\ Mem[Src] = ao[Src].reg /\ Mem[Dst] = ao[Dst].reg
          BY <2>1, <3>2, StateFacts DEF Mem
        <4>. HIDE DEF expect
        <4>. QED  BY <2>1, <3>2, <4>1, <4>2, StateFacts
      <3>. DEFINE a == [op |-> job.op, sr |-> job.sr, dt |-> job.dt]
                  asked == [e \in End |-> IF e = Src THEN {a} ELSE {}]
      <3>6. Src \in End /\ Dst \in End /\ Src # Dst /\ a \in asked[Src]
        BY <2>1, StateFacts
      <3>7. LET x == Expected(a.op, Mem[Src][a.sr], Mem[Dst][a.dt])
            IN  Mem' = [Mem EXCEPT ![Src][a.sr] = x[1].value, ![Dst][a.dt] = x[2].value]
        <4>1. Mem[Src] = ao[Src].reg /\ Mem[Dst] = ao[Dst].reg
          BY <3>2, <3>6
        <4>. QED  BY <3>5, <4>1
      <3>8. \E src, dst \in End : \E y \in asked[src] : src # dst /\
              LET x == Expected(y.op, Mem[src][y.sr], Mem[dst][y.dt])
              IN  Mem' = [Mem EXCEPT ![src][y.sr] = x[1].value, ![dst][y.dt] = x[2].value]
        <4>. HIDE DEF a, asked
        <4>. QED  BY <3>6, <3>7
      <3>9. \E src, dst \in End : \E y \in asked[src] : src # dst /\
              LET x == Memory!Expected(y.op, Mem[src][y.sr], Mem[dst][y.dt])
              IN  Mem' = [Mem EXCEPT ![src][y.sr] = x[1].value, ![dst][y.dt] = x[2].value]
        <4>. HIDE DEF a, asked
        <4>. QED  BY <3>8, SameWords
      <3>. QED  BY <3>9 DEF Memory!Next, Memory!Operate, Mem
    <2>7. CASE DoUpdate
      <3>1. /\ step = "update" /\ step' = "initiate"
            /\ Src \in End /\ Dst \in End /\ Src # Dst /\ \A e \in End : e = Src \/ e = Dst
            /\ ao'[Src] = ao[Src] /\ ao'[Dst] = Update(ao[Dst], job.status).alo
        BY <2>1, <2>7, StateFacts DEF DoUpdate, TypeOK, Job
      <3>2. Mem'[Src] = Mem[Src]
        BY <3>1 DEF Mem, Decided
      <3>3. Mem'[Dst] = Mem[Dst]
        <4>1. CASE ao[Dst].pend # "none" /\ job.status = 1
          BY <3>1, <4>1 DEF Mem, Decided
        <4>2. CASE ~(ao[Dst].pend # "none" /\ job.status = 1)
          <5>1. Update(ao[Dst], job.status).alo.reg = ao[Dst].reg
            BY <2>1, <4>2, StateFacts, UpdateOfNothing
          <5>. QED  BY <3>1, <4>2, <5>1 DEF Mem, Decided
        <4>. QED  BY <4>1, <4>2
      <3>4. Mem = [e \in End |-> Mem[e]] /\ Mem' = [e \in End |-> Mem'[e]]
        BY DEF Mem
      <3>. QED  BY <3>1, <3>2, <3>3, <3>4
    <2>8. CASE UNCHANGED vars
      BY <2>8 DEF vars, Mem, Decided, Dst
    <2>. QED  BY <2>3, <2>4, <2>5, <2>6, <2>7, <2>8 DEF Next
  <1>3. IInv /\ [Next]_vars => [Memory!Next]_Mem
    BY <1>2
  <1>. QED  BY <1>1, <1>3, Invariance, PTL DEF Spec, ImplementsMemory, Memory!Spec, Mem
=============================================================================
