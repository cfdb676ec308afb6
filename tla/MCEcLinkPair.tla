---------------------------- MODULE MCEcLinkPair ----------------------------
(* Values of EcLinkPair's constants that a .cfg cannot write. *)
EXTENDS EcLinkPair

\* Callers that may ask or not at each call; one that always asks an idle peer.
WantAny == [n \in Node |-> BOOLEAN]
WantOne == [n \in Node |-> IF n = 0 THEN {TRUE} ELSE {FALSE}]
=============================================================================
