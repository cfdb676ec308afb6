# EC_Link: a verification development

EC_Link is the protocol core of an Earth Computing port: two ends of one cable
that keep two packets going round between them, detect and repair the loss of a
packet without timers, and carry transactions over those packets: transfers of
messages (AIT) and atomic operations on the registers of the two ends (ALO).
This directory holds TLA+ models of it, what TLC checks about them and what
TLAPS proves about them. Line numbers are those of the files they name, at the
root of the repository unless a directory is given.

## The system

| component | state | operations | where |
|---|---|---|---|
| link register machine | `ec_link_reg_t`: last values `sr`, `rr`; toggle `tt`, its failure count `tc`, link-up `tf`; `token`; transaction `state` (NIL, Ra, Rb, Rp); back-off counts | `ec_link_init`, `ec_link_send`, `ec_link_recover`, `ec_link_action` | `ec_link.c`, `ec_link.h` |
| atomic link engine | `alo_regs_t`: 32 registers, `result_buffer`, `return_value`, `return_flag`, `flags`, `state` (what is pending, on which register) | `alo_regs_init`, `alo_initiate`, `alo_exec`, `alo_next`, `alo_complete`, `alo_update` | `atomic_link_op.c`, `.h` |
| entl state machine | the two above, `last_alo_command`, `last_d_addr`, six counters | `entl_state_init`, `entl_received`, `entl_recover` | `ec_control.c`, `.h` |
| callers | port, AIT queue, egress queue, forwarding | feed packets, answer `ENTL_ACTION_xxx` | not in the repository |
| unit tests | the machines under test, the packets of the two loops, copies of the registers | three test programs, one for each `.c` file | `*_unit_test/*_tester.c`, `*_test_main.cpp` |
| random test values | `cyc_random_t`: a shift register, where it started, where zero is put in | `alloc_cyc_random`, `cyc_random` | `*_unit_test/cyc_random.c` (two equal copies) |
| build files | | | `*_unit_test/CMakeLists.txt` |

`entl_received` makes one call of `ec_link_action` for each packet, sends what
it returns, and turns the flags it returns into calls of the atomic link engine
and into actions for its caller. Nothing is shared between the two ends but
the packets; at one end, the register and the engine are shared by the two
roles (initiator and responder) the end may have.

**Loops.** Each end starts a loop: it sends an SR, the peer answers with an RR,
the end answers that with its next SR, whose value is flipped. An end that gets
an RR without having seen an SR of the peer since the last one counts a missed
toggle; past `TC_THRESHHOLD` it concludes that the peer's loop has lost its
packet, and its caller makes `ec_link_recover` send an RR on the peer's behalf.

**Transactions.** An initiator goes NIL → Ra (asked) → Rp (granted) → NIL, the
responder NIL → Rb (holds) → NIL. They end with DONE/FNSH, or with
DROP/DROP/CLER after refusals, conflicts and recoveries. The token, created by
a success, lets its holder start without back-off.

**What is hard.** Two loops interleave freely; packets are lost at any point of
a transaction; recovery cancels a transaction at one end and must tell the
other; both ends may start at once; the engine's buffers are shared by both
roles and survive operations; `entl_state_init` leaves memory unset. What each
component must get right follows from that: no false alarm and no forked loop;
no event skipped or repeated; one holder for one initiator; true verdicts; the
two registers of an operation written both or neither; no starvation. The
`hazards` of `PROJECT.json` list all of them, each at its line, with the
properties that cover it.

## Modules

| module | what it is |
|---|---|
| `EcLink` | `ec_link.c` as operators: a call returns the register, the field to send and the flags |
| `AtomicTransfer` | abstract: a request is taken at most once, and its initiator is told the truth |
| `EcLinkPair` | two register machines on two FIFO wires that may lose packets; refines `AtomicTransfer` |
| `EcLinkPair_proofs` | proofs about `EcLinkPair`: types and the watchdog |
| `EcLinkTable_proofs` | ... transactions and alternating values |
| `EcLinkTransfer_proofs` | ... verdicts, and the refinement of `AtomicTransfer` |
| `EcLinkToken_proofs` | ... the token |
| `Words` | registers, words modulo 2^W, opcodes, conditions |
| `AloTests` | what the unit test of each operation expects of the two registers |
| `AtomicMemory` | abstract: an operation changes a register at each end in one step, as its test expects |
| `AtomicLinkOp` | `atomic_link_op.c` as operators on the engine record |
| `AloExchange` | two engines driven as `alo_exec_ops` of `alo_tester.c` drives them, and what its tests compare; refines `AtomicMemory` |
| `AtomicLinkOp_proofs` | lemmas on words and on the engine: arithmetic and bit operations stay in their words, what each call leaves, what an operation comes to |
| `AloExchange_proofs` | proofs about `AloExchange`: types, flags, operations, and the refinement of `AtomicMemory` |
| `EcControl` | `ec_control.c` as operators, over `EcLink` and `AtomicLinkOp` |
| `EcControlPair` | two complete ends on lossy wires; refines `EcLinkPair` (and so `AtomicTransfer`) and `AtomicMemory` |
| `EcControlPair_proofs` | proofs that `EcControlPair` implements `EcLinkPair`, and what of the link's theorems holds of the complete ends |
| `EcControlMemory_proofs` | proofs of what the complete ends make of commands: types, verdicts, forwarding, and the refinement of `AtomicMemory` |
| `EcLinkTests`, `EcControlTests` | the unit tests of `ec_link.c` and `ec_control.c`: each call and what is accepted after it |
| `CycRandom` | `cyc_random.c` as operators |
| `UnitTests` | the test programs: the calls of those tests on the models of the code under test |
| `MC...` | values of constants that a `.cfg` cannot write |

`PROJECT.json` maps each definition to its lines. Where a definition follows
the code closely there is nothing to add; the choices that need a word:

- **Calls, not statements.** `ec_link_action` reads one register and one field
  and is called by one caller, so it is one step. `OnSR` and `OnRR` give each
  field of the register its value by the conditions under which the code
  assigns it. Conditions that several assignments share have names (`Starts`,
  `Granted`, `Completes`, ...). The token of a packet is stored before the state
  is looked at (`HasToken`), as in the code.
- **Widths.** The back-off counts have 4 bits (`BKOFF_RANGE`); `token_bkoff`
  wraps, `entt_bkoff` is reset before it can. `tc` has 16 bits and is bounded by
  `TC_THRESHHOLD + 1`, as the type invariant and its proof show.
- **Wires.** `chan[n]` holds the packets on their way to `n`, in order. `Lose`
  removes any of them. There is no duplication and no reordering: the wire is a
  cable, and the code has no means against them. `CanLose`, `LoseRecover` and
  `LoseBoth` say what may be lost.
- **Callers.** `entt` and `qfull`, and the command on top of the queue, are any
  value of a set at each call: a caller may withdraw a request it has not
  started, as `ec_control_tester.c` does. A caller that is given RECOVER calls
  `entl_recover` before it hands over the next packet.
- **What callers know.** `taken` and `told` are history variables: whether the
  peer has FNSHed a transaction, and what its initiator was told.
- **What was written last.** `last` of `AloExchange` is a history variable too: the
  register of an engine that was written last, by the test's table of what the
  operation should write and not by what the engine did.
- **Engine.** `alr->state` is `pend` (none, write the own result, write the
  peer's reply) and `at`. `sent_value` and `sent_flag` are never read, the
  change bit and register number of `return_flag` are computed again before
  they are used: they are left out. A status and an opcode are two readings of
  one field of `d_addr`; no packet has both, and they are two fields here.
- **Undefined values.** What `entl_state_init` leaves unset is any value
  (`Stale`), each end having its own: in `control_good` every command and FW bit with
  the engine's part zero or full.
  `alo_data` that a bit operation does not write is any word.
  `alo_next` has a path without `return` (`NextReturns`): it yields 0 or 1.
- **Destination register.** Packed at bit 37 and unpacked at bit 36, so
  `DecodedDT` doubles it.
- **Counters** of the entl state machine (`recover_count` ... `aop_count`) are
  written and never read, and are left out.
- **Unit tests.** The tests are an independent statement of what the code should
  do, written call by call, and the models are put to the same test as the code.
  `EcLinkTests` and `EcControlTests` have a row for each call: its arguments, and
  what the test compares (`check_field`, `expect_state`, `check_daddr`,
  `expect_link_state`, the flags where they are looked at). A comparison that
  only prints is not in the row. Tests stop at their first failure; `UnitTests`
  goes on, so that the rows behind it count. The link tests leave `recover` of
  some fields unset (`EitherRecover`), and both values are tried. The control
  tests use the same two machines from test to test, first zero, as static
  memory is, then whatever the last test left (`entl_state_init` does not reset
  it). The stages that the tests of messages and of writes have in common are
  written once, with what differs as a parameter (`AIT`, `ALO`, `CondFalse`).
  The condition test's registers are taken to differ, as 64-bit random values do
  and the test needs. `AsNamed` renames the two flags that the link tests name
  otherwise, see below. `entt_alo_cond_false` has no `return`, and its result is
  whatever the build makes of it: what counts are its comparisons.
- **`cyc_random.c`.** A value is the set of its bits. What `mt19937` returns, the
  seed included, is any value. `swap_point` is 0 in the code, and what it would
  do is left out.

## Runs

Link pair (module `MCEcLinkPair`):

| run | shows | bounds |
|---|---|---|
| `link_safety` | type invariant; no false alarm (`NoFalseRecovery`), no forked loop (`OnePacketPerLoop`), their inductive strengthening (`Watchdog`); values alternate (`SRAlternates`); no error branch (`NoProtocolError`); a holder has an initiator (`HeldByRequester`); never two granted (`NeverBothGranted`); a dead loop is noticed within a bounded number of RRs that nothing winds back (`LossIsNoticed`) | every loss at every moment; thresholds 1, 1, 1; any callers. About 1.9 million states |
| `link_liveness` | true verdicts (`ToldTheTruth`); refinement of `AtomicTransfer` with its fairness (transactions end), lost loops are revived, the link is up when losses end | `TC_THRESHHOLD` 1, the others 0; one loop lost at a time, recovery packets arrive |
| `link_served` | a sole requester is served again and again | the code's thresholds; losses as above |

Atomic operations (`MCAloExchange`) and complete ends (`MCEcControlPair`):

| run | shows | bounds |
|---|---|---|
| `alo` | every opcode leaves the registers and flags that its test expects (`AsTested`), refines `AtomicMemory`, and has flags that are about the register written last, whatever failed or was refused since (`FlagsTellTheTruth`) | every sequence of two operations, any conditions and bits, either end the source; two registers of 2 bits at each end, the first of any value. 0.66 million states |
| `control_good` | the ends refine `EcLinkPair` and `AtomicMemory`; nothing stays pending between transactions; the two ends agree on the verdict; the token is neither lost nor held too long; a transaction is forwarded when its initiator asked for it (`ForwardsAsAsked`) | the code's thresholds 3, 4, 2, 16; both ends ask; stale memory as above, of each end. 1.04 million states |
| `control_lossy` | the same with losses, and refinement of `AtomicTransfer`; an end holds a transaction as what its initiator asked for (`HeldAsAsked`); a caller hears what becomes of a message it was given (`HeldMessageResolved`), and a message leaves its sender's queue just if it was taken (`DequeuedIfTaken`) | thresholds 0; both ends ask all the time, one for swaps and one for transfers; recovery packets arrive. 0.61 million states |

Unit tests (`UnitTests`):

| run | shows | bounds |
|---|---|---|
| `unit_tests` | every call of the link and control tests sends the packet, asks for the actions and leaves the register that the test expects (`LinkCallsAsTested`, `ControlCallsAsTested`), a write changes the one register it names, at one end (`RegistersAsTested`); a round of `cyc_random` gives each value once (`NoValueTwice`) | the code's thresholds; 2 registers of 1 bit for the 32 of 64; widths 2 to 5, all starts and all points for the zero |

Why the bounds suffice. A link holds two packets, so its state space is finite
without a bound on the channels; no counter is cut. The thresholds are the
only sizes: what they decide is whether a count has passed, and with 0 or 1
each count still does both. (With the code's values the safety properties of
`link_safety` were checked under single losses as well.) `control_good` has the
code's values, for the token's bound is about them. Two bits tell all
opcodes and conditions apart, carries and borrows included (3 bits, with one
operation on two registers, were checked once); two operations in sequence are
enough to meet what one leaves behind, since each engine has one buffer of each
kind and both ends may be the source. In `control_lossy` a swap is the operation
that shows a half-committed pair at once. (With callers
that may also be idle, and with a second kind of operation at the other end, it
has 3.8 million states; it was checked once and holds.) The generator has no
bound but the width; 2 to 5 have the two kinds of tap that the widths in use, 5 and 6, have.

Three levels. `EcControlPair` is shown to refine `EcLinkPair` (`ImplementsLink`),
and through that mapping it refines `AtomicTransfer` (`ImplementsTransfer`) and
has the token properties of the link. These are stated at the lowest
level, where `entl_received` and its callers take part.

Deadlock is switched off where the system may stop: when both loops have lost
their packet nothing happens any more, by design of the code (no timer),
`AloExchange` stops after `MaxOps` operations, and the test programs of
`UnitTests` end.

**Fairness.** Weak fairness of `Receive(n)` and of `SendRecover(n)` for each
end: the caller polls its port and does what it is asked to. There is no
fairness on losses or on what the queues hold. `LossesEnd`, the premise of two
properties, says that the wire is eventually good.

### Disagreements the runs show

| run | what the code does |
|---|---|
| `link_lost_recover` | the second recovery after a lost cancelling one no longer announces the cancellation: the initiator is told DONE (`ec_link.c:47`) |
| `control_refused` | a bit test refused by `alo_initiate` is done at the destination (`ec_control.c:65`), if `alo_next`, which has no `return` for it, yields 1 |
| `control_register` | destination register `dt` becomes `2 dt mod 32` (`ec_control.h:48`, `atomic_link_op.h:30`) |
| `link_tests` | the link tests stop at the first accepted request: `ec_link_action` returns NEXT where they expect 0 (`ec_link_tester.c:881` and six more), and `ec_link_recover` CLER where they expect DROP (`:1221`) |
| `control_tests` | `alo_next` returns nothing where the source has nothing to write, as in the tested `ALO_WR` (`atomic_link_op.c:217`), and `ec_control.c:80-84` sends what it returned as the T flag: where that is 0 the destination does not write and the source signals SIG_ALO all the same |

The passing runs stay clear of these: recovery packets arrive in `link_liveness`
and in the control runs, these have register 0, no bit tests and no `ALO_WR`;
`unit_tests` compares flags by `AsNamed` and has the value that the control
tests need from `alo_next`, the status it was given (`AnyResult = FALSE`).

Seen while modelling, with no run of their own:

- Two ends that ask at the same pace collide for ever, for the back-off is
  fixed. The comment at `ec_link.c:159` knows it ("should use random").
- A holder gives the token away also in an RR that accepts a request; a comment
  at `ec_link.h:81` says that it should not.
- `aop_count` counts an operation at NEXT and again at DONE (`ec_control.c:85`,
  `97`).
- Two tokens can exist at once, even on a good wire, and BRESET sets a bit that
  was clear. Nothing in the repository says otherwise.
- The second comparison of registers in `entt_alo_sequence` exempts the register
  that was written and compares `mcn1`'s register 0 with itself, so the write
  in that direction is not tested (`ec_control_tester.c:1825-1830`). Several
  comparisons of actions there print and go on.
- `cyc_random.c:242` shifts an `int`, which is wrong from width 32 on, and a
  generator of width 1 stays at 0; no test has either.

## Proofs

The runs check small instances; the theorems hold for every value of the
constants that the assumptions allow. The properties stated are also
checked by runs, but for the token properties of `EcLinkPair` (which
`control_good` checks of the complete ends), `BothWrite`, `ForwardsSomeCommand`,
`ChangesByCommand`, `OperatesTogether` and `CommandedRegisterOnly`: these say without a
premise, or with fewer, what `VerdictsAgree`, `ForwardsAsAsked`, `ImplementsMemory`
and `NamedRegisterOnly` say. `NamedRegisterOnly` itself is
refuted by the run `control_register`.

| module | theorem | of |
|---|---|---|
| `EcLinkPair_proofs` | `TypeCorrect`, `NoFalseAlarm`, `LoopsNeverFork`, `WatchdogHolds`, `LossesAreNoticed` | any thresholds, callers and losses |
| `EcLinkTable_proofs` | `ValuesAlternate`, `HeldEndsHaveRequesters`, `OneTransactionGranted`, `ErrorBranchesAreDead` | the same |
| `EcLinkTransfer_proofs` | `VerdictsAreTrue`, `TransferIsImplemented` | ... if recovery packets arrive (`Reliable`) |
| `EcLinkToken_proofs` | `TokenGivenInTime`, `TokenNeverLost` | ... if nothing is lost (`GoodWire`) |
| `AloExchange_proofs` | `TypeCorrect`, `FlagsAreTrue`, `OperationsAsTested`, `MemoryIsImplemented` | any width, number of registers, set of operations and number of them |
| `EcControlPair_proofs` | `LinkIsImplemented`, `NothingStaysPending` | any thresholds, widths, commands, stale memory and losses |
| | `EndGivesTokenInTime`, `EndsKeepToken` | ... if nothing is lost |
| | `EndsTransferAtomically` | ... if recovery packets arrive |
| `EcControlMemory_proofs` | `TypeCorrect`, `BothEndsWrite`, `ForwardsOnCommand`, `RegistersOnCommand`, `MessagesHeldAsAsked`, `HeldMessagesResolved` | any thresholds, widths, commands, stale memory and losses |
| | `VerdictsAreTrue` | ... if no caller asks for WR or a bit test (`AsksDefinite`) |
| | `ForwardsTruly` | ... if a caller forwards all transactions of a kind or none (`ForwardsByKind`) |
| | `OperationsAreDone`, `DequeuedTruly` | ... if recovery packets arrive |
| | `OperationsAreAtomic` | ... if recovery packets arrive and no caller asks for BTESTSET or BTESTRESET (`NoBitTests`) |
| | `EndsOperateAtomically` | ... if besides the destination registers decode (`DestinationsDecode`) |

Assumptions. `ThresholdsAssumption`: thresholds are naturals and fit the 4-bit
counters. `EnvironmentAssumption`: the sets of inputs are not empty and have the
right elements. `SizesAssumption`: at least one bit and one register.
`OpsAssumption`: operations, registers and values
are of their kinds. `PowersAssumption` is what `^` means, which the provers have no
rule for; TLC evaluates it as it does the others.

The premises of theorems are needed, each for what a run or the code shows. Without
`Reliable` (`LoseRecover = FALSE` of the complete ends) the verdicts are false (run
`link_lost_recover`). On a wire that is not good a lost packet takes the token that
is in it along. After `ALO_WR` and refused bit tests the source may have nothing to
write while the destination does; `alo_next` then has nothing true to return (runs
`control_tests`, `control_refused`), so verdicts need `AsksDefinite`. The registers
need less: an `ALO_WR` that is left undone leaves them alone, which is atomic too, so
`OperationsAreAtomic` excludes bit tests only (`NoBitTests`), and `OperationsAreDone`
excludes nothing and says what a refused bit test does (the destination alone).
`DestinationsDecode` leaves register 0 (run `control_register`);
`OperationsAreDone`, `OperationsAreAtomic` and `RegistersOnCommand` do without it and
name the register that the code does write. `ForwardsByKind` makes "what
was asked" well defined: a caller whose queue may hold both a transfer to forward and one
to keep has asked for both, and which one was taken shows in the packets only.
`control_good` and `control_lossy` have values that meet all of them.

**Watchdog.** `NoFalseRecovery` alone is not inductive: whether an end has
missed a toggle depends on the order in which it will see the packets on the
wires. The inductive invariant is `IInv == TypeOK /\ Watchdog`. `Watchdog` says
that there is at most one packet of each loop, and (`WatchdogAt(n)`) that
if `n` will get its own loop's RR before the peer's packet, then it has seen the
peer's SR since the last RR (`tt = 1`) or has not missed a toggle yet
(`tc = 0`). The reason is that both packets travel the same ring in the same
direction and cannot overtake, so an end sees SR and RR in turn; the exception
is the first RR after a recovery, which `tc = 0` allows for: whoever
sends a recovery has just reset `tc`. One miss is never enough, whatever
the threshold, which is why `TC_THRESHHOLD = 0` is allowed.
There is one lemma for each action (`ReceiveInv`, `RecoverInv`, `LoseInv`),
over lemmas about the handlers (`OnSRFacts`, `OnRRFacts`, `RecoverFacts`) and
about where packets are after a step (`HandledSlots`, `HandledLoops`,
`LostSlots`).

`LossIsNoticed` is the other half, that the watchdog does bite. An end whose peer's
loop is dead gets no SR, and only an SR sets `tt`. From there each RR takes one off
`Patience`, the number of RRs before RECOVER, and no call or loss gives one back.
Since the patience is at most `TC_THRESHHOLD + 2`, that is a bound on how long
a loss stays unnoticed, counted in RRs of the other loop; that these arrive is
fairness, and stays with `LoopsRevive`.

**Transactions.** The state of a transaction is in three places, the two
registers and the packet of its initiator's loop, and `Table` says which
combinations there are: an SR with ENTT belongs to an owner in Ra, one with ENTA
to an owner in Rp while the peer is held in Rb (`FitsSR`); an RR with ENTT grants,
and one with ENTA ends a granted transaction, unless a recovery has cancelled it
(`FitsRR`). A packet fits the registers it was sent from, and what happens at the
other loop meanwhile does not change what the table sees of them (`SameFits`).
The values of SRs are in the same table (`f.value # peer.rr`). It needs the
watchdog: a false alarm would put a second packet into the loop, which fits
nothing. That an error branch is never taken falls out of it, for those branches
are the packets that fit no row.

**Verdicts.** A granted transaction that the peer has not finished and no longer
holds has been cancelled by a recovery, and the packet that says so must be on
its way: `FateOf(n)` adds this to the table, that the RR on its way to a granted
initiator completes the transaction just if it was taken, and that the loop is
then alive. That is the place where recovery packets must arrive. The refinement
needs no more invariant: by what a step does to the two registers (`Begins`,
`Holds`, `Takes`, `Ends`, ...) it is the abstract step of that name, or none.

**Token.** On a good wire both loops live for ever and nobody owes a recovery,
so SR and RR alternate at each end (`InTurn`). A holder that has started as often
as it may (`Overdue`) is in the middle of a transaction or has had no SR since it
ended. The next packet is then an SR, in whose answer it gives the token away,
before the RR that would let it start once more. An SR never carries the token, so
what an end takes from itself is in the RR it sends, and is stored when that
arrives.

**Operations.** What the engines hold in the middle of an operation is what the
calls so far have made of what they held at its start, most of which is gone by
then. The invariant says so without it: each call, made again with the same arguments on the
engine it has left, changes nothing more (`Initiated`, `Executed`, `Informed`). At
the last call the operation as a whole can be read off the final engines
and compared with the test's table, opcode by opcode. The values are
elements of any set for this; only `EffectIsTested` looks at what arithmetic makes of them,
and the bit operations and conditions are the same formulas on both sides. That
they are words is `WordsAreClosed`: the result of a bit operation is the word that
has the bits it should have, and there is one (`SomeWord`, by induction over
its bits, the set of widths for which there is one being all of `Nat`).
These lemmas are in `AtomicLinkOp_proofs`, for the complete ends use them too.
`FlagsAreTrue` follows from the same table: what it says an end writes sets the flags
anew, and where it says that an end writes nothing the flags are kept or lowered
(`FlagsFollow`).
`MemoryIsImplemented` maps an operation to one step of `AtomicMemory`, at the
point where the engine that writes last decides.

**Complete ends.** `entl_received` makes its call of `ec_link_action` first, and
every branch behind it leaves the link register, the field in the packet and
the alarm alone (`Passes`, `BranchFacts`, `ReceivedFacts`). So each step of
`EcControlPair` is a step of `EcLinkPair` on the register parts of the machines
and the field parts of the packets. The invariant `EInv` adds that an operation
is pending only inside a transaction, and only while `last_alo_command` says ALO
(`Settled`): `LinkMoves` shows that every call that ends a transaction raises one
of DONE, FNSH and DROP, and each of their branches clears what is pending. The
invariants of the link hold in this instance of it (`LP`), which is `Link` with the
theorems (`SameLink`), and its properties follow once more from their
lemmas.

**Operations of complete ends.** There the packets of an operation may be lost at
any point, recovery may cancel it at either end, and both roles of an end share
one engine. `OpTable` goes with the table of transactions. For each end that has
asked (Ra or Rp) it says that some command its caller gave it accounts for all
there is of the operation: the engine is where `alo_initiate` leaves it
(`Initiated`); a packet that asks carries the command and the value (`Requests`),
and one that commits says "write" if the source is going to (`Commits`); a peer
that is held is where `alo_exec` leaves it (`Executed`), its answer carries what
that said (`Answers`), and a granted source has been told of it (`Informed`). As
for two engines, these hold because a call made once more changes nothing, so
the invariant does not remember what the engine was. An end accepts and starts
only between transactions, so while it is in one nothing else touches its
engine; which packets and which held peer belong to which transaction is what
the link's `Table` says (`Agree`). `OInv` is `EInv`, `LP!Table`, the types
(`Typed`) and `OpTable`. At the commit `Executed`, `Informed` and `Commits` meet,
which gives `BothEndsWrite`; that what is executed was also begun is
`BegunTogether`, for `AsksDefinite` commands, and gives `VerdictsAreTrue`. They
also say at which register each engine will write, which gives
`RegistersOnCommand` (`WritesPending`, `SourceRegister`, `DestinationRegister`).

`ForwardsAsAsked` speaks of the flags of a step, which may be up for several
steps of others. `FInv` adds that while taking a transaction is the last thing an
end did, it is idle, took it as asked, and its peer is still in that transaction
or has no packet on which to start the next (`TakenLast`).

For the memory, `MInv` adds the fate of transactions (`LP!TInv`). `Mem` is the
refinement mapping: an end's registers are those of its engine, but of a source
whose operation has been taken they are what `alo_complete` will make of them,
for it will be told DONE. So an operation happens at both ends in the step in
which the destination takes it. `DecidedOperation` reads off the two engines what it will be:
what the test expects (`Settles`); nothing, when the destination did not execute
it or the commit does not say "write" (`SettlesNothing`); or a bit test at the destination alone
(`SettlesAlone`). DONE then writes what was counted already, and every other step
leaves `Mem` alone.

**Messages.** `OpTable` says of both ends of a transaction whether it is a message,
hence `HeldAsAsked`. What a call tells the caller about messages depends on
`last_alo_command` and on the flag that chooses the branch only (`Tells`,
`ReceivedTells`). A held message is not dropped in silence because the only DROP
of a held end is an error branch, and those are dead (`NoProtocolError`).
`DequeuedTruly` needs the fate of transactions (`FateFacts`): at DONE and DROP what the
initiator is told is what the peer did.

Only model-checked: what the unit tests compare (`LinkCallsAsTested`,
`ControlCallsAsTested`, `RegistersAsTested`: finite scripts on fixed thresholds, which TLC
runs to their end), the generator (`NoValueTwice`: its period is a fact about the
tap polynomials, width by width), and all liveness. Liveness under fairness and
ENABLED are out of the provers' reach. Induction is over sets of naturals
(`NatInduct`), since the library's rules take an operator that the provers cannot
instantiate.

## Not modelled

The callers (driver, queues, forwarding to other ports) beyond the interface in
`ec_control.h`: an end tells its caller to propagate a packet, and what the
caller then does at other ports is not in the repository. Packet fields that the
code never reads (`ALO_SC`, MAC source). `entt_alo_sequence_p` and
`entt_alo_resend` of `ec_control_tester.c`, which no test program calls.
`mt19937_port.h`, a vendored generator, is an input; so are the test programs'
random registers. The scaffolding of the test programs (gtest), what they print,
and the build files. `NETRONOME_HOST` selects headers only.

## Status

Every safety invariant and action property that a passing run checks of the link,
the engine and the complete ends is also a theorem, some with the premises named
above, and so are the three refinements; the liveness part of the abstract
transfer's specification is checked only.

Open: the restart of an end (`entl_state_init` while the peer runs), the only
event that revives a link whose loops are both dead. When it happens and what becomes
of packets on the cable is up to callers that are not in the repository; nothing is
persisted, so there is no state to recover.
