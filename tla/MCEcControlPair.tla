-------------------------- MODULE MCEcControlPair --------------------------
(* Values of EcControlPair's constants that a .cfg cannot write. *)
EXTENDS EcControlPair

ALO(name, arg, sr, dt) ==
  [ait |-> FALSE, cmd |-> [op |-> [name |-> name, arg |-> arg],
                           sr |-> sr, dt |-> dt, fw |-> FALSE]]
AIT == [ait |-> TRUE, cmd |-> NoCommand]

\* Operations that are computed at each end and under a condition, and a
\* plain transfer; either end asks.  One of the operations is forwarded.
Both == [n \in Node |-> IF n = 0 THEN {Idling, ALO("SWAP", 2, 0, 0)}
                        ELSE {Idling, AIT, [ALO("INC", 0, 0, 0) EXCEPT !.cmd.fw = TRUE]}]
\* Both ends ask all the time, one for exchanges of registers and the other
\* for transfers of messages.
Rivals == [n \in Node |-> IF n = 0 THEN {ALO("SWAP", 0, 0, 0)} ELSE {AIT}]

Busy(ask) == [n \in Node |-> IF n = 0 THEN {ask} ELSE {Idling}]
BTestSet == Busy(ALO("BTESTSET", 0, 0, 0))
ToRegister1 == Busy(ALO("INC", 0, 0, 1))

\* Memory with the engine's part zero or full, each end having its own, and
\* memory that is zero.
SomeMemory == {m \in Memories : /\ m.ao.retval = m.ao.rflag.ok
                                /\ m.ao.retval = m.ao.rflag.zero}
ZeroMemory == {m \in Memories : /\ m.last = "AIT" /\ ~m.fw /\ m.ao.retval = 0
                                /\ m.ao.rflag = [ok |-> 0, zero |-> 0]}
=============================================================================
