------------------------------- MODULE EcLink -------------------------------
(***************************************************************************)
(* The link register machine of ec_link.c, as operators: what ec_link_init, *)
(* ec_link_send, ec_link_recover and ec_link_action compute from a register *)
(* and a received field.  A call is the record                              *)
(*                                                                         *)
(*    [reg |-> the register after it, ret |-> the field to send,            *)
(*     flag |-> the set of ENTL_ACTION_xxx bits it returns]                 *)
(*                                                                         *)
(* A field is the 16-bit link field of a packet.  SR fields (s_or_r = 1)    *)
(* are sent by the end that owns the packet's loop, RR fields (s_or_r = 0)  *)
(* answer them.                                                            *)
(***************************************************************************)
EXTENDS Naturals

CONSTANTS TC_THRESHHOLD,             \* missed toggles tolerated (3 in the code)
          TOKEN_BACKOFF_THRESHHOLD,  \* RRs to wait without token (4)
          TOKEN_HOLD_THRESHHOLD,     \* starts before the token is passed (2)
          BKOFF_RANGE                \* 2^4: the back-off fields have 4 bits

ASSUME ThresholdsAssumption ==
  /\ TC_THRESHHOLD \in Nat
  /\ TOKEN_BACKOFF_THRESHHOLD \in Nat
  /\ TOKEN_HOLD_THRESHHOLD \in Nat
  /\ BKOFF_RANGE \in Nat
  /\ TOKEN_BACKOFF_THRESHHOLD < BKOFF_RANGE
  /\ TOKEN_HOLD_THRESHHOLD < BKOFF_RANGE

Bit == {0, 1}

\* ENTT_NIL, ENTT_Ra, ENTT_Rb, ENTT_Rp
EnttState == {"NIL", "Ra", "Rb", "Rp"}

\* FIELD_ENTL (none), FIELD_ENTT (request and its answer), FIELD_ENTA (ack)
EnttField == {"ENTL", "ENTT", "ENTA"}

LinkFlag == {"RECOVER", "STRT", "NEXT", "DONE", "RECV", "FNSH",
             "DROP", "CLER", "LKUP", "LKDN", "EROR"}

Reg == [sr : Bit, rr : Bit, tt : Bit, tf : Bit, token : Bit,
        tc : 0 .. (TC_THRESHHOLD + 1), state : EnttState,
        entt_bkoff : 0 .. (BKOFF_RANGE - 1),
        token_bkoff : 0 .. (BKOFF_RANGE - 1)]

Field == [valid : Bit, s_or_r : Bit, value : Bit, entt : EnttField,
          token : Bit, recover : Bit]

\* ret->_raw = 0: what an invalid field is answered with
NoField == [valid |-> 0, s_or_r |-> 0, value |-> 0, entt |-> "ENTL",
            token |-> 0, recover |-> 0]

InitReg == [sr |-> 0, rr |-> 0, tt |-> 0, tf |-> 0, token |-> 0, tc |-> 0,
            state |-> "NIL", entt_bkoff |-> 0, token_bkoff |-> 0]

\* The flags of a call, from the conditions that set them.
When(cond, fs) == IF cond THEN fs ELSE {}

-----------------------------------------------------------------------------
(* ec_link_send: the first SR of an end's own loop. *)
SendField(r) ==
  [valid |-> 1, s_or_r |-> 1, value |-> 1 - r.sr, entt |-> "ENTL",
   token |-> 0, recover |-> 0]

(***************************************************************************)
(* ec_link_recover: the RR that revives the peer's loop.  It repeats the    *)
(* last value received and cancels a transaction the end was holding.       *)
(***************************************************************************)

\* Mutant: the packet carries the next value, not the last one.
RecoverFieldFlipped(r) ==
  [valid |-> 1, s_or_r |-> 0, value |-> 1 - r.rr,
   entt |-> IF r.state = "Rb" THEN "ENTA" ELSE "ENTL",
   token |-> 0, recover |-> 1]

\* Mutant: the packet does not announce the cancelled transaction.
RecoverFieldSilent(r) ==
  [valid |-> 1, s_or_r |-> 0, value |-> r.rr, entt |-> "ENTL",
   token |-> 0, recover |-> 1]

RecoverField(r) ==
  [valid |-> 1, s_or_r |-> 0, value |-> r.rr,
   entt |-> IF r.state = "Rb" THEN "ENTA" ELSE "ENTL",
   token |-> 0, recover |-> 1]

\* Mutant: the transaction is announced as cancelled but still held.
RecoverStillHeld(r) ==
  [reg |-> r, ret |-> RecoverField(r), flag |-> When(r.state = "Rb", {"CLER"})]

Recover(r) ==
  [reg  |-> [r EXCEPT !.state = IF @ = "Rb" THEN "NIL" ELSE @],
   ret  |-> RecoverField(r),
   flag |-> When(r.state = "Rb", {"CLER"})]

-----------------------------------------------------------------------------
(* ec_link_action on a received SR. *)

\* Mutant: a holder keeps the token for as long as its queue is not empty.
HoardsToken(r, entt) == r.token = 1 /\ ~entt

\* An end with an empty queue gives the token away at once; one with a
\* non-empty queue only between transactions and after too many starts.
PassesToken(r, entt) ==
  /\ r.token = 1
  /\ \/ ~entt
     \/ r.state = "NIL" /\ r.token_bkoff > TOKEN_HOLD_THRESHHOLD

Accepts(r, f, qfull) ==
  /\ r.state = "NIL"
  /\ f.recover = 0 /\ f.entt = "ENTT"
  /\ ~qfull

Finishes(r, f) == r.state = "Rb" /\ f.entt = "ENTA"

Aborts(r, f) == r.state = "Rb" /\ f.entt # "ENTA"

OnSR(r, f, entt, qfull) ==
  [reg  |-> [r EXCEPT !.rr = f.value,
                      !.tt = 1,
                      !.token = IF PassesToken(r, entt) THEN 0 ELSE @,
                      !.token_bkoff = IF PassesToken(r, entt) THEN 0 ELSE @,
                      !.state = IF Accepts(r, f, qfull) THEN "Rb"
                                ELSE IF @ = "Rb" THEN "NIL" ELSE @],
   ret  |-> [valid |-> 1, s_or_r |-> 0, value |-> f.value, recover |-> 0,
             entt  |-> IF Accepts(r, f, qfull) THEN "ENTT"
                       ELSE IF Finishes(r, f) THEN "ENTA" ELSE "ENTL",
             token |-> IF PassesToken(r, entt) THEN 1 ELSE 0],
   flag |-> When(Accepts(r, f, qfull), {"RECV"})
              \cup When(Finishes(r, f), {"FNSH"})
              \cup When(Aborts(r, f), {"DROP", "EROR"})]

-----------------------------------------------------------------------------
(* ec_link_action on a received RR. *)

\* Mutant: the token of the packet overwrites the end's own.
HasOnlyNewToken(r, f) == f.token = 1

\* The token field is stored before the state is looked at.
HasToken(r, f) == r.token = 1 \/ f.token = 1

Wants(r, f, entt) == r.state = "NIL" /\ f.recover = 0 /\ entt

Starts(r, f, entt) ==
  /\ Wants(r, f, entt)
  /\ HasToken(r, f) \/ r.entt_bkoff + 1 > TOKEN_BACKOFF_THRESHHOLD

\* Mutant: any answer to a request is taken for a grant.
GrantedByAnyAnswer(r, f) == r.state = "Ra" /\ f.recover = 0

Granted(r, f) == r.state = "Ra" /\ f.recover = 0 /\ f.entt = "ENTT"

Refused(r, f) == r.state = "Ra" /\ ~Granted(r, f)

\* Mutant: a recovery packet always drops the transaction.
CompletesWithoutRecovery(r, f) ==
  r.state = "Rp" /\ f.recover = 0 /\ f.entt = "ENTA"

Completes(r, f) ==
  r.state = "Rp" /\ f.entt = IF f.recover = 1 THEN "ENTL" ELSE "ENTA"

Fails(r, f) == r.state = "Rp" /\ ~Completes(r, f)

\* "impossible sequence" and the two "error" branches
Impossible(r, f) ==
  \/ Refused(r, f) /\ f.recover = 0 /\ f.entt = "ENTA"
  \/ Fails(r, f) /\ ~(f.recover = 1 /\ f.entt = "ENTA")

\* Mutants: the first missing toggle counts; the threshold is off by one.
ExpiresAtOnce(r) == r.tt = 0

ExpiresLate(r) == r.tt = 0 /\ r.tc > TC_THRESHHOLD + 1

\* No SR was seen since the last RR, and not for the first few times.
Expires(r) == r.tt = 0 /\ r.tc > TC_THRESHHOLD

\* Mutants: the count is not restarted with a recovery; it is never incremented.
TcNotRestarted(r) == IF r.tt = 1 THEN 0 ELSE IF Expires(r) THEN r.tc ELSE r.tc + 1

TcStuck(r) == IF Expires(r) \/ r.tt = 1 THEN 0 ELSE r.tc

TcAfterRR(r) == IF Expires(r) \/ r.tt = 1 THEN 0 ELSE r.tc + 1

\* Mutant: a good toggle does not bring the link up.
TfNotSet(r) == IF Expires(r) THEN 0 ELSE r.tf

TfAfterRR(r) == IF Expires(r) THEN 0 ELSE IF r.tt = 1 THEN 1 ELSE r.tf

TokenAfterRR(r, f) ==
  IF HasToken(r, f) \/ (Completes(r, f) /\ f.recover = 0) THEN 1 ELSE 0

\* Mutant: a refused request goes on waiting.
StateKeptWhenRefused(r, f, entt) ==
  IF Starts(r, f, entt) THEN "Ra"
  ELSE IF Granted(r, f) THEN "Rp"
  ELSE IF r.state \in {"Ra", "Rb"} THEN r.state ELSE "NIL"

StateAfterRR(r, f, entt) ==
  IF Starts(r, f, entt) THEN "Ra"
  ELSE IF Granted(r, f) THEN "Rp"
  ELSE IF r.state = "Rb" THEN "Rb" ELSE "NIL"

\* Mutant: waiting without the token is not counted.
EnttBkoffNotCounted(r, f, entt) ==
  IF f.token = 1 \/ r.state \in {"Ra", "Rp"} THEN 0 ELSE r.entt_bkoff

EnttBkoffAfterRR(r, f, entt) ==
  IF \/ f.token = 1
     \/ r.state \in {"Ra", "Rp"}
     \/ Starts(r, f, entt) /\ ~HasToken(r, f) THEN 0
  ELSE IF Wants(r, f, entt) /\ ~HasToken(r, f) THEN r.entt_bkoff + 1
  ELSE r.entt_bkoff

TokenBkoffAfterRR(r, f, entt) ==
  LET base == IF f.token = 1 THEN 0 ELSE r.token_bkoff
  IN  IF Starts(r, f, entt) /\ HasToken(r, f)
      THEN (base + 1) % BKOFF_RANGE ELSE base

OnRR(r, f, entt) ==
  [reg  |-> [r EXCEPT !.sr = f.value,
                      !.tt = 0,
                      !.tc = TcAfterRR(r),
                      !.tf = TfAfterRR(r),
                      !.token = TokenAfterRR(r, f),
                      !.state = StateAfterRR(r, f, entt),
                      !.entt_bkoff = EnttBkoffAfterRR(r, f, entt),
                      !.token_bkoff = TokenBkoffAfterRR(r, f, entt)],
   ret  |-> [valid |-> 1, s_or_r |-> 1, value |-> 1 - f.value, recover |-> 0,
             entt  |-> IF Starts(r, f, entt) THEN "ENTT"
                       ELSE IF Granted(r, f) THEN "ENTA" ELSE "ENTL",
             token |-> 0],
   flag |-> When(Expires(r), {"RECOVER"})
              \cup When(Expires(r) /\ r.tf = 1, {"LKDN"})
              \cup When(r.tt = 1 /\ r.tf = 0, {"LKUP"})
              \cup When(Starts(r, f, entt), {"STRT"})
              \cup When(Granted(r, f), {"NEXT"})
              \cup When(Completes(r, f), {"DONE"})
              \cup When(Refused(r, f) \/ Fails(r, f), {"DROP"})
              \cup When(Impossible(r, f), {"EROR"})]

(* ec_link_action: an invalid field changes nothing and gets NoField back. *)
LinkAction(r, f, entt, qfull) ==
  IF f.valid = 0 THEN [reg |-> r, ret |-> NoField, flag |-> {}]
  ELSE IF f.s_or_r = 1 THEN OnSR(r, f, entt, qfull)
  ELSE OnRR(r, f, entt)
=============================================================================
