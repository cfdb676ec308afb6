--------------------------- MODULE AtomicTransfer ---------------------------
(***************************************************************************)
(* What an Earth Computing link promises about transactions (AIT transfers  *)
(* and atomic link operations): each request is taken by the peer at most   *)
(* once, and its initiator is told the truth.  The end that asks is told    *)
(* DONE if the peer took it and DROP if the peer will never take it; it is  *)
(* told nothing while the peer still holds it undecided.                    *)
(***************************************************************************)
CONSTANT Node

VARIABLES asking,  \* asking[n]: n waits for the outcome of a transaction
          peer,    \* peer[n]: where the transaction is with the peer
          told     \* told[n]: the outcome n was told

vars == <<asking, peer, told>>

Peers == {"none", "offered", "held", "taken"}
Outcomes == {"none", "DONE", "DROP"}

TypeOK == /\ asking \in [Node -> BOOLEAN]
          /\ peer \in [Node -> Peers]
          /\ told \in [Node -> Outcomes]

Init == /\ asking = [n \in Node |-> FALSE]
        /\ peer = [n \in Node |-> "none"]
        /\ told = [n \in Node |-> "none"]

Ask(n) == /\ ~asking[n]
          /\ asking' = [asking EXCEPT ![n] = TRUE]
          /\ peer' = [peer EXCEPT ![n] = "offered"]
          /\ told' = [told EXCEPT ![n] = "none"]

Move(n, from, to) == /\ peer[n] = from
                     /\ peer' = [peer EXCEPT ![n] = to]
                     /\ UNCHANGED <<asking, told>>

\* The request is accepted, or it is refused or lost for good.
Hold(n) == Move(n, "offered", "held")
Refuse(n) == Move(n, "offered", "none")

\* The held transaction is finished, or it is cancelled for good.
Take(n) == Move(n, "held", "taken")
Release(n) == Move(n, "held", "none")

Tell(n) == /\ asking[n]
           /\ peer[n] \in {"none", "taken"}
           /\ asking' = [asking EXCEPT ![n] = FALSE]
           /\ told' = [told EXCEPT ![n] = IF peer[n] = "taken" THEN "DONE" ELSE "DROP"]
           /\ UNCHANGED peer

Next == \E n \in Node : \/ Ask(n) \/ Hold(n) \/ Refuse(n)
                        \/ Take(n) \/ Release(n) \/ Tell(n)

Spec == Init /\ [][Next]_vars

\* A request is answered, a held transaction is decided, an outcome is told.
Fairness == \A n \in Node : /\ WF_vars(Hold(n) \/ Refuse(n))
                            /\ WF_vars(Take(n) \/ Release(n))
                            /\ WF_vars(Tell(n))

FairSpec == Spec /\ Fairness
=============================================================================
