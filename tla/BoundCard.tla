------------------------------- MODULE BoundCard -------------------------------
(***************************************************************************)
(* A card bound through NVML and one write of its power limit at a time    *)
(* (nvml/nvml_loader.cpp, nvml/power_operation.hpp).  The worker binds by  *)
(* the identity of the card first protected, whatever the order the driver *)
(* lists cards in; a write is a setter, a read-back and at most one more   *)
(* read, between which the driver may clamp, lose or delay the value and   *)
(* other tools may write.  NVML and the cards are external.                *)
(***************************************************************************)
EXTENDS Naturals, Sequences, FiniteSets

CONSTANTS
  Cards,        (* identities of cards                                     *)
  Limits,       (* power limits, those no card accepts included            *)
  Accepted,     (* of a card: the limits within its constraints            *)
  Nothing       (* no card, no limit, no identity                          *)

VARIABLES
  listed,       (* the cards the driver lists, in its order                *)
  limit,        (* the limit in force on every card                        *)
  initialized,  (* the library is loaded and initialised                   *)
  identity,     (* the identity of the card first protected                *)
  bound,        (* bound_device_: the card the handle is of                *)
  boundUuid,    (* bound_uuid_                                             *)
  constraints,  (* the limits within bound_minimum and bound_maximum       *)
  op,           (* the write under way                                     *)
  result,       (* last_power_result_                                      *)
  held,         (* observer: the requested limit was in force after the    *)
                (* setter of this write had succeeded                      *)
  setters,      (* observer: setters called for this write                 *)
  touched       (* observer: the cards ever written                        *)

binding == <<initialized, identity, bound, boundUuid, constraints>>
writing == <<op, result, held, setters>>
vars == <<listed, limit, binding, writing, touched>>

Codes == {"Success", "Retryable", "Fatal"}
Failure(retryable) == [verified |-> FALSE, retryable |-> retryable, onRecheck |-> FALSE]
Idle == [stage |-> "Idle", requested |-> Nothing]

Orders == {s \in UNION {[1 .. n -> Cards] : n \in 0 .. Cardinality(Cards)} :
             Cardinality({s[i] : i \in DOMAIN s}) = Len(s)}

Init ==
  /\ listed \in Orders /\ limit \in [Cards -> Limits]
  /\ initialized = FALSE /\ identity = Nothing
  /\ bound = Nothing /\ boundUuid = Nothing /\ constraints = {}
  /\ op = Idle /\ result = Failure(FALSE)
  /\ held = FALSE /\ setters = 0 /\ touched = {}

-----------------------------------------------------------------------------
(* Reset and Initialize: missing exports, a failed nvmlInit.               *)
Initialize ==
  /\ op = Idle
  /\ initialized' \in BOOLEAN
  /\ bound' = Nothing /\ constraints' = {}
  /\ UNCHANGED <<listed, limit, identity, boundUuid, writing, touched>>

Unbind == bound' = Nothing /\ boundUuid' = Nothing

(* BindDevice: identity and constraints are read from the handle.          *)
Bind(card) ==
  /\ bound' = card /\ boundUuid' = card
  /\ constraints' = Accepted[card]

BindDevice(i) ==
  \/ i \in DOMAIN listed /\ Bind(listed[i])
  \/ Unbind /\ UNCHANGED constraints

(* A mutant: the card that is found last is the one that stays bound.      *)
BindByUuidToLast(uuid) ==
  \/ \E i \in DOMAIN listed : Bind(listed[i])
  \/ Unbind /\ UNCHANGED constraints

(* The loop of BindDeviceByUuid leaves the card bound that has the         *)
(* identity, or none; the constraints may be another card's then.          *)
BindByUuid(uuid) ==
  \/ \E i \in DOMAIN listed : listed[i] = uuid /\ Bind(listed[i])
  \/ Unbind /\ constraints' \in {constraints} \cup {Accepted[listed[i]] : i \in DOMAIN listed}

(* LocalProtectionWorker::Run, at its start and when it starts again: the  *)
(* first card that is bound gives the identity.                            *)
BindProtectedCard ==
  /\ initialized /\ op = Idle
  /\ IF identity = Nothing THEN BindDevice(1) ELSE BindByUuid(identity)
  /\ identity' = IF identity = Nothing THEN boundUuid' ELSE identity
  /\ UNCHANGED <<listed, limit, initialized, writing, touched>>

-----------------------------------------------------------------------------
(* SetBoundPowerLimitWatts.  What it needs is checked first.               *)
BeginWrite(w) ==
  /\ op = Idle
  /\ held' = FALSE /\ setters' = 0
  /\ IF bound # Nothing /\ w \in constraints
     THEN op' = [stage |-> "Set", requested |-> w] /\ UNCHANGED result
     ELSE result' = Failure(FALSE) /\ UNCHANGED op
  /\ UNCHANGED <<listed, limit, binding, touched>>

Finish(r) == op' = Idle /\ result' = r

(* The setter may fail and yet take effect, or succeed and be clamped.     *)
Setter ==
  /\ op.stage = "Set"
  /\ setters' = setters + 1 /\ touched' = touched \cup {bound}
  /\ \E code \in Codes, got \in Accepted[bound] \cup {limit[bound]} :
       /\ limit' = [limit EXCEPT ![bound] = got]
       /\ held' = (code = "Success" /\ got = op.requested)
       /\ IF code = "Success"
          THEN op' = [op EXCEPT !.stage = "Read"] /\ UNCHANGED result
          ELSE Finish(Failure(code = "Retryable"))
  /\ UNCHANGED <<listed, binding>>

(* A mutant: an answer is enough, whatever the value.                      *)
MatchesAnyAnswer(code, value) == code = "Success"

Matches(code, value) == code = "Success" /\ value = op.requested

(* The answer of the driver is of the card, or of none.                    *)
Answers == {[code |-> "Success", value |-> limit[bound]]}
           \cup {[code |-> c, value |-> Nothing] : c \in Codes \ {"Success"}}

Readback ==
  /\ op.stage = "Read"
  /\ \E a \in Answers :
       IF Matches(a.code, a.value)
       THEN Finish([verified |-> TRUE, retryable |-> FALSE, onRecheck |-> FALSE])
       ELSE IF a.code = "Fatal" THEN Finish(Failure(FALSE))
       ELSE op' = [op EXCEPT !.stage = "Recheck"] /\ UNCHANGED result
  /\ UNCHANGED <<listed, limit, binding, held, setters, touched>>

(* Exactly one additional read; a mismatch may be retried by the caller.   *)
Recheck ==
  /\ op.stage = "Recheck"
  /\ \E a \in Answers :
       IF Matches(a.code, a.value)
       THEN Finish([verified |-> TRUE, retryable |-> FALSE, onRecheck |-> TRUE])
       ELSE Finish(Failure(a.code \in {"Success", "Retryable"}))
  /\ UNCHANGED <<listed, limit, binding, held, setters, touched>>

(* An allocation of the diagnostics fails after any of the calls.          *)
EvidenceFails ==
  /\ op.stage \in {"Read", "Recheck"}
  /\ Finish(Failure(FALSE))
  /\ UNCHANGED <<listed, limit, binding, held, setters, touched>>

-----------------------------------------------------------------------------
(* The driver lists the cards anew, other tools and the driver itself      *)
(* change limits.                                                          *)
Relist ==
  /\ listed' \in Orders \ {listed}
  /\ UNCHANGED <<limit, binding, writing, touched>>

Tamper(card) ==
  /\ \E got \in Accepted[card] \ {limit[card]} :
       /\ limit' = [limit EXCEPT ![card] = got]
       /\ held' = (held \/ (op.stage \in {"Read", "Recheck"} /\ card = bound /\ got = op.requested))
  /\ UNCHANGED <<listed, binding, op, result, setters, touched>>

Next ==
  \/ Initialize \/ BindProtectedCard
  \/ \E w \in Limits : BeginWrite(w)
  \/ Setter \/ Readback \/ Recheck \/ EvidenceFails
  \/ Relist \/ \E card \in Cards : Tamper(card)

Spec == Init /\ [][Next]_vars

-----------------------------------------------------------------------------
(* A write that reports success has been in force: after the setter        *)
(* answered, the card had the requested limit.  It is written once, it is  *)
(* not success and to be retried at the same time, and no card but the     *)
(* first protected one is ever written, however the driver lists them.     *)
WritesAreHonest ==
  /\ op = Idle /\ result.verified => held
  /\ ~(result.verified /\ result.retryable)
  /\ setters <= 1
  /\ touched \subseteq {identity} /\ bound \in {Nothing, identity}
=============================================================================
