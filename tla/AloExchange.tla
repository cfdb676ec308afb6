---------------------------- MODULE AloExchange ----------------------------
(***************************************************************************)
(* Two atomic link engines that do operations one after the other, driven   *)
(* as alo_exec_ops of alo_tester.c drives them: alo_initiate at the source, *)
(* alo_exec at the destination, alo_next and alo_complete at the source,    *)
(* alo_update at the destination.  Either engine may be the source.  There  *)
(* is no link between them here: EcControlPair adds it.                     *)
(***************************************************************************)
EXTENDS AtomicLinkOp, AloTests

CONSTANTS Ops,     \* the opcodes that are tried
          Places,  \* the source and destination registers that they name
          Fills,   \* what the test may write into the registers of an engine
          MaxOps   \* bound on the number of operations in a behaviour

ASSUME OpsAssumption == /\ Ops \subseteq Opcode /\ Places \subseteq RegNo \X RegNo
                        /\ Fills \subseteq [RegNo -> Word] /\ MaxOps \in Nat

VARIABLES ao,    \* ao[e]: the engine of end e
          job,   \* the operation under way
          step,  \* the next call
          ops,   \* operations started
          copy,  \* the engines before the operation (src_copy, dst_copy)
          last   \* history: last[e] is the register of e written last, if any

vars == <<ao, job, step, ops, copy, last>>

End == {0, 1}

Job == [src : End, op : Opcode, sr : RegNo, dt : RegNo, value : Word, status : {0, 1}]

Src == job.src
Dst == 1 - job.src

TypeOK == /\ ao \in [End -> Alo]
          /\ job \in Job
          /\ step \in {"initiate", "exec", "next", "complete", "update"}
          /\ ops \in 0 .. MaxOps
          /\ last \in [End -> SUBSET RegNo]

\* The engines hold what the test wrote into their registers.
Init == /\ ao \in [End -> {[reg |-> f, result |-> 0, retval |-> 0,
                            rflag |-> [ok |-> 0, zero |-> 0], flags |-> NoFlags,
                            pend |-> "none", at |-> 0] : f \in Fills}]
        /\ job = [src |-> 0, op |-> NOP, sr |-> 0, dt |-> 0, value |-> 0, status |-> 0]
        /\ step = "initiate"
        /\ ops = 0
        /\ copy = ao
        /\ last = [e \in End |-> {}]

\* What the test of the operation expects of its source (1) and destination
\* (2), whatever the engines do.
Expects(side) == Expected(job.op, copy[Src].reg[job.sr], copy[Dst].reg[job.dt])[side]

\* alo_exec_ops does nothing more when alo_initiate fails.
DoInitiate ==
  \E src \in End, op \in Ops, place \in Places :
    LET call == Initiate(ao[src], op, place[1], 0)
    IN  /\ step = "initiate" /\ ops < MaxOps
        /\ ao' = [ao EXCEPT ![src] = call.alo]
        /\ job' = [src |-> src, op |-> op, sr |-> place[1], dt |-> place[2],
                   value |-> call.data, status |-> 0]
        /\ step' = IF call.ret = 1 THEN "exec" ELSE step
        /\ ops' = ops + 1
        /\ copy' = ao
        /\ UNCHANGED last

DoExec ==
  LET call == Exec(ao[Dst], job.op, job.dt, job.value, 0)
  IN  /\ step = "exec"
      /\ ao' = [ao EXCEPT ![Dst] = call.alo]
      /\ step' = "next"
      /\ UNCHANGED <<job, ops, copy, last>>

DoNext ==
  /\ step = "next"
  /\ ao' = [ao EXCEPT ![Src] = NextStep(@, ao[Dst].rflag.ok, ao[Dst].retval)]
  /\ step' = "complete"
  /\ UNCHANGED <<job, ops, copy, last>>

DoComplete ==
  LET call == Complete(ao[Src])
  IN  /\ step = "complete"
      /\ ao' = [ao EXCEPT ![Src] = call.alo]
      /\ job' = [job EXCEPT !.status = call.ret]
      /\ step' = "update"
      /\ last' = IF Expects(1).written THEN [last EXCEPT ![Src] = {job.sr}] ELSE last
      /\ UNCHANGED <<ops, copy>>

DoUpdate ==
  /\ step = "update"
  /\ ao' = [ao EXCEPT ![Dst] = Update(@, job.status).alo]
  /\ step' = "initiate"
  /\ last' = IF Expects(2).written THEN [last EXCEPT ![Dst] = {job.dt}] ELSE last
  /\ UNCHANGED <<job, ops, copy>>

Next == DoInitiate \/ DoExec \/ DoNext \/ DoComplete \/ DoUpdate

Spec == Init /\ [][Next]_vars

-----------------------------------------------------------------------------
(* The destination's register counts as written once the source's is. *)
Decided(e) == step = "update" /\ e = Dst /\ job.status = 1 /\ ao[e].pend # "none"

Memory == INSTANCE AtomicMemory
            WITH mem <- [e \in End |-> IF Decided(e) THEN Update(ao[e], 1).alo.reg
                                       ELSE ao[e].reg],
                 asked <- [e \in End |-> IF e = Src
                                         THEN {[op |-> job.op, sr |-> job.sr, dt |-> job.dt]}
                                         ELSE {}]

(* Each operation changes the two registers it names as its table says,     *)
(* both or neither, and no other register, whatever was done before it.     *)
ImplementsMemory == Memory!Spec

(* Once an operation is over each of its registers is as its test expects,  *)
(* every other register is as the test copied it, and the flags name the    *)
(* register that was written; an engine that was not written does not raise *)
(* flags that were clear.                                                   *)
AsTested ==
  step = "initiate" /\ ops > 0 =>
    LET asExpected(e, at, x) ==
          /\ ao[e].reg = [copy[e].reg EXCEPT ![at] = x.value]
          /\ x.written => ao[e].flags = [ok |-> 1, zero |-> Truth(x.value = 0),
                                        changed |-> 1, at |-> at]
          /\ ~x.written /\ copy[e].flags = NoFlags => ao[e].flags = NoFlags
    IN  asExpected(Src, job.sr, Expects(1)) /\ asExpected(Dst, job.dt, Expects(2))

(* An engine's flags speak of the register that it wrote last, and are      *)
(* clear if it wrote none: they say ok, and zero if and only if that        *)
(* register is zero, and while the change bit is up they name it.  What an  *)
(* operation that fails or is refused leaves (alo_complete and alo_initiate *)
(* keep the flags, alo_update takes the change bit down) is still about it. *)
FlagsTellTheTruth ==
  \A e \in End :
    /\ last[e] = {} => ao[e].flags = NoFlags
    /\ \A r \in last[e] : /\ ao[e].flags.ok = 1
                          /\ ao[e].flags.zero = Truth(ao[e].reg[r] = 0)
                          /\ ao[e].flags.changed = 1 => ao[e].flags.at = r
=============================================================================
