----------------------------- MODULE UnitTests -----------------------------
(***************************************************************************)
(* The unit tests of the repository, run on the models of the code that     *)
(* they test: ec_link_unit_test on EcLink, ec_control_unit_test on EcControl *)
(* (and with it AtomicLinkOp), and the main of cyc_random.c on CycRandom.    *)
(* The tests of atomic_link_op.c are in AloExchange.                         *)
(*                                                                         *)
(* A test stops at the first call that goes wrong.  Here it goes on, so that *)
(* the calls after it are compared as well.                                  *)
(***************************************************************************)
EXTENDS EcControlTests, CycRandom, SequencesExt

CONSTANTS Suites,    \* of {"link", "control", "random"}
          Widths,    \* of the random values
          AnyResult  \* may alo_next return anything when it returns no value

ASSUME SuitesAssumption == /\ Suites \subseteq {"link", "control", "random"}
                           /\ Widths \subseteq Width
                           /\ AnyResult \in BOOLEAN

VARIABLES suite,  \* the test program that runs
          at,     \* how many of its calls are done
          reg,    \* ec_link_test_main.cpp: the register
          mcn,    \* ec_control_test_main.cpp: the two machines
          wire,   \* daddr0 and daddr1
          kept,   \* src_copy and dst_copy
          got,    \* what the last call returned
          rd,     \* cyc_random.c: the generator
          given   \* the values drawn in this round

vars == <<suite, at, reg, mcn, wire, kept, got, rd, given>>
linkVars == <<reg>>
controlVars == <<mcn, wire, kept>>
randomVars == <<rd, given>>

LinkRows == FlattenSeq(LinkTests)
ControlSteps == FlattenSeq(ControlTests)

Slot == {0, 1}
ZeroRegs == [r \in RegNo |-> 0]

\* The test programs' static memory.
ZeroMachine ==
  [reg |-> InitReg, last |-> "AIT", fw |-> FALSE,
   ao |-> [reg |-> ZeroRegs, result |-> 0, retval |-> 0,
           rflag |-> [ok |-> 0, zero |-> 0], flags |-> NoFlags, pend |-> "none", at |-> 0]]

Init == /\ suite \in Suites
        /\ at = 0
        /\ reg = InitReg
        /\ mcn = [n \in Slot |-> ZeroMachine]
        /\ wire = [s \in Slot |-> Plain(NoField)]
        /\ kept = [n \in Slot |-> ZeroRegs]
        /\ got = [flag |-> {}, act |-> {}, out |-> Plain(NoField)]
        /\ rd \in {AllocCycRandom(width) : width \in IF suite = "random" THEN Widths ELSE {1}}
        /\ given = {}

-----------------------------------------------------------------------------
(* ec_link_test_main.cpp: SetUp makes a register for each test. *)

LinkCall(call, reg2, flag, field) ==
  /\ suite = "link" /\ at < Len(LinkRows)
  /\ LinkRows[at + 1].call = call
  /\ at' = at + 1
  /\ reg' = reg2
  /\ got' = [flag |-> flag, act |-> {}, out |-> Plain(field)]
  /\ UNCHANGED <<suite, controlVars, randomVars>>

DoLinkInit == LinkCall("init", InitReg, {}, NoField)
DoLinkSend == LinkCall("send", reg, {}, SendField(reg))
DoLinkRecover ==
  LET link == Recover(reg) IN LinkCall("recover", link.reg, link.flag, link.ret)
DoLinkAction ==
  /\ suite = "link" /\ at < Len(LinkRows)
  /\ \E f \in LinkRows[at + 1].f :
       LET link == LinkAction(reg, f, LinkRows[at + 1].entt, LinkRows[at + 1].qfull)
       IN  LinkCall("action", link.reg, link.flag, link.ret)

-----------------------------------------------------------------------------
(* ec_control_test_main.cpp *)

ControlStep(do) ==
  /\ suite = "control" /\ at < Len(ControlSteps)
  /\ ControlSteps[at + 1].do = do
  /\ at' = at + 1
  /\ UNCHANGED <<suite, linkVars, randomVars>>

\* A call of the step's machine returned call.
Returned(step, call) ==
  /\ mcn' = [mcn EXCEPT ![step.n] = call.mcn]
  /\ wire' = [wire EXCEPT ![step.loop] = call.out]
  /\ got' = [flag |-> call.flag, act |-> call.act, out |-> call.out]
  /\ UNCHANGED kept

\* Mutant: the machines of the last test are used as they are.
StateInitSkipped ==
  /\ ControlStep("init")
  /\ LET step == ControlSteps[at + 1]
     IN  Returned(step, [mcn |-> mcn[step.n], act |-> {}, flag |-> {},
                         out |-> Plain(SendField(mcn[step.n].reg))])

DoStateInit ==
  /\ ControlStep("init")
  /\ LET step == ControlSteps[at + 1]
         m == StateInit(mcn[step.n])
     IN  Returned(step, [mcn |-> m, act |-> {}, flag |-> {}, out |-> Plain(SendField(m.reg))])

\* When alo_next has nothing to write it evaluates return_flag, the status,
\* and returns nothing: a build may still leave that value to the caller.
NextResults(m, p) == IF AnyResult THEN NextReturns(m.ao, p.st) ELSE {p.st}

DoReceived ==
  /\ ControlStep("receive")
  /\ LET step == ControlSteps[at + 1]
         p == wire[step.loop]
     IN  \E res \in NextResults(mcn[step.n], p) :
           Returned(step, Received(mcn[step.n], p, step.ask.ait, step.ask.cmd, FALSE, res, 0))

DoRecovered ==
  /\ ControlStep("recover")
  /\ LET step == ControlSteps[at + 1] IN Returned(step, Recovered(mcn[step.n]))

\* rand_regs and copy_regs.
DoFill ==
  /\ ControlStep("fill")
  /\ kept' \in [Slot -> [RegNo -> Word]]
  /\ ControlSteps[at + 1].unequal => kept'[0][0] # kept'[1][0]
  /\ mcn' = [n \in Slot |-> [mcn[n] EXCEPT !.ao.reg = kept'[n]]]
  /\ UNCHANGED <<wire, got>>

DoCompare ==
  /\ ControlStep("compare")
  /\ UNCHANGED <<controlVars, got>>

-----------------------------------------------------------------------------
(* The main of cyc_random.c: rounds of 2^width values. *)

DoCycRandom ==
  /\ suite = "random"
  /\ \E s \in Draws(rd), z \in Draws(rd) :
       LET call == CycRandom(rd, s, z)
           again == at = 2^rd.width
       IN  /\ rd' = call.rd
           /\ given' = (IF again THEN {} ELSE given) \cup {call.value}
           /\ at' = IF again THEN 1 ELSE at + 1
  /\ UNCHANGED <<suite, got, linkVars, controlVars>>

Next == \/ DoLinkInit \/ DoLinkSend \/ DoLinkRecover \/ DoLinkAction
        \/ DoStateInit \/ DoReceived \/ DoRecovered \/ DoFill \/ DoCompare
        \/ DoCycRandom

Spec == Init /\ [][Next]_vars

-----------------------------------------------------------------------------
\* Flags as the link tests name them: 0 for NEXT, DROP for CLER.
AsNamed(flag) == IF "CLER" \in flag THEN (flag \ {"CLER"}) \cup {"DROP"} ELSE flag \ {"NEXT"}

(* Every call of the link tests sends the field and leaves the register that *)
(* the test expects, and returns its flags, up to the two names above.       *)
LinkCallsAsTested ==
  suite = "link" /\ at > 0 =>
    LET row == LinkRows[at]
    IN  /\ AsNamed(got.flag) \in row.flag
        /\ got.out.f \in row.out
        /\ reg \in row.reg

(* ec_link_tester.c:881 and its like: a call that goes on to the next step    *)
(* returns 0, and one that cancels a transaction returns ENTT_DROP.          *)
LinkFlagsAsTested ==
  suite = "link" /\ at > 0 => got.flag \in LinkRows[at].flag

(* Through back-off, transactions both ways and a recovery that cancels one, *)
(* the two machines send each other the packets, ask for the actions and     *)
(* have the registers that the control tests expect.                         *)
ControlCallsAsTested ==
  suite = "control" /\ at > 0 /\ ControlSteps[at].do \in {"init", "receive", "recover"} =>
    LET step == ControlSteps[at]
    IN  /\ step.act \subseteq got.act
        /\ [got.out EXCEPT !.value = 0] \in step.out
        /\ mcn[step.n].reg \in step.reg

(* A write that is done writes the register it names and no other, at one    *)
(* end; one whose condition fails, or that is cancelled, writes none.        *)
RegistersAsTested ==
  suite = "control" /\ at > 0 /\ ControlSteps[at].do = "compare" =>
    LET step == ControlSteps[at]
    IN  /\ \A n \in Slot : \A r \in RegNo \ step.may[n + 1] :
             mcn[n].ao.reg[r] = kept[n][r]
        /\ step.wrote => mcn[1].ao.reg[0] = kept[0][0]

(* A round of the generator gives every value once, zero among them, wherever *)
(* it starts and wherever the zero is put in.                                *)
NoValueTwice == suite = "random" => Cardinality(given) = at
=============================================================================
