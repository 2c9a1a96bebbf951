----------------------------- MODULE LifecycleGate -----------------------------
(***************************************************************************)
(* The gate between the overlay's drawing and the game's own changes of a  *)
(* swap chain (src/overlay/integration/d3d12_lifecycle_gate.hpp), one step *)
(* per atomic operation.  Any thread of the game may come from Present     *)
(* (TryDraw), which never waits, or from a resize or a colour change       *)
(* (BeginTransition), which publishes its reservation first, then polls    *)
(* for the owner flag within a budget of time.                             *)
(*                                                                         *)
(* pc[t]:                                                                  *)
(*   "out"                 not in the gate's code                          *)
(*   "looking", "taking", "rechecking", "confirming", "dropping"           *)
(*                         in TryDraw, next: the load of transition_, the  *)
(*                         test_and_set, the two loads after it, the clear *)
(*                         of a refused draw                               *)
(*   "drawing"             TryDraw returned true                           *)
(*   "reserving", "barring"                                                *)
(*                         in BeginTransition before the exchange, and     *)
(*                         after losing it                                 *)
(*   "reserved", "polling", "grabbing", "expiring", "verifying", "yielding"*)
(*                         after it: the load before the loop, the load    *)
(*                         and the deadline at its head, the test_and_set, *)
(*                         giving up, the load after success, the clear    *)
(*   "changing"            BeginTransition returned true                   *)
(*   "freeing", "reopening"                                                *)
(*                         in EndTransition: the two stores at its end     *)
(***************************************************************************)
EXTENDS Naturals

CONSTANTS Threads   (* threads of the game                                 *)

VARIABLES
  pc,           (* where each thread is in the gate                        *)
  owner,        (* owner_                                                  *)
  transition,   (* transition_                                             *)
  disabled,     (* disabled_                                               *)
  first,        (* thread -> first_poll of its BeginTransition             *)
  spent         (* thread -> its budget of time is used up                 *)

gate == <<pc, owner, transition, disabled, first, spent>>

Trying == {"looking", "taking", "rechecking", "confirming", "dropping"}
Waiting == {"reserved", "polling", "grabbing", "expiring", "verifying", "yielding"}
Ending == {"freeing", "reopening"}

TypeOK ==
  /\ pc \in [Threads ->
       {"out", "drawing", "reserving", "barring", "changing"} \cup Trying \cup Waiting \cup Ending]
  /\ owner \in BOOLEAN /\ transition \in BOOLEAN /\ disabled \in BOOLEAN
  /\ first \in [Threads -> BOOLEAN]
  /\ spent \in [Threads -> BOOLEAN]

Init ==
  /\ pc = [t \in Threads |-> "out"]
  /\ owner = FALSE /\ transition = FALSE /\ disabled = FALSE
  /\ first = [t \in Threads |-> FALSE]
  /\ spent = [t \in Threads |-> FALSE]

(* Thread t moves on; the flags are left to the step.                      *)
Go(t, from, to) ==
  /\ pc[t] = from
  /\ pc' = [pc EXCEPT ![t] = to]

(* A load of a flag decides where t goes on.                               *)
Load(t, from, flag, yes, no) ==
  /\ Go(t, from, IF flag THEN yes ELSE no)
  /\ UNCHANGED <<owner, transition, disabled, first, spent>>

-----------------------------------------------------------------------------
(* TryDraw and EndDraw.                                                    *)

TryDraw(t) == Load(t, "out", disabled, "out", "looking")

LookAtTransition(t) == Load(t, "looking", transition, "out", "taking")

TakeOwner(t) ==
  /\ Go(t, "taking", IF owner THEN "out" ELSE "rechecking")
  /\ owner' = TRUE
  /\ UNCHANGED <<transition, disabled, first, spent>>

RecheckDisabled(t) == Load(t, "rechecking", disabled, "dropping", "confirming")

RecheckTransition(t) == Load(t, "confirming", transition, "dropping", "drawing")

Drop(t) ==
  /\ Go(t, "dropping", "out")
  /\ owner' = FALSE
  /\ UNCHANGED <<transition, disabled, first, spent>>

EndDraw(t) ==
  /\ Go(t, "drawing", "out")
  /\ owner' = FALSE
  /\ UNCHANGED <<transition, disabled, first, spent>>

-----------------------------------------------------------------------------
(* BeginTransition.                                                        *)

(* The deadline starts with the call.                                      *)
BeginTransition(t) ==
  /\ Go(t, "out", IF disabled THEN "out" ELSE "reserving")
  /\ spent' = [spent EXCEPT ![t] = FALSE]
  /\ first' = [first EXCEPT ![t] = TRUE]
  /\ UNCHANGED <<owner, transition, disabled>>

Reserve(t) ==
  /\ Go(t, "reserving", IF transition THEN "barring" ELSE "reserved")
  /\ transition' = TRUE
  /\ UNCHANGED <<owner, disabled, first, spent>>

(* Two transitions at once: the second one stops the overlay for good.     *)
Bar(t) ==
  /\ Go(t, "barring", "out")
  /\ disabled' = TRUE
  /\ UNCHANGED <<owner, transition, first, spent>>

CheckReserved(t) == Load(t, "reserved", disabled, "out", "polling")

(* The head of the loop; the first poll does not look at the clock.        *)
Poll(t) ==
  /\ Go(t, "polling", IF disabled THEN "out" ELSE IF ~first[t] /\ spent[t] THEN "expiring" ELSE "grabbing")
  /\ first' = [first EXCEPT ![t] = FALSE]
  /\ UNCHANGED <<owner, transition, disabled, spent>>

(* Mutant of Grab: a waiter that is out of time goes on polling.           *)
GrabForEver(t) ==
  /\ Go(t, "grabbing", IF ~owner THEN "verifying" ELSE "grabbing")
  /\ owner' = TRUE
  /\ UNCHANGED <<transition, disabled, first, spent>>

Grab(t) ==
  /\ Go(t, "grabbing", IF ~owner THEN "verifying" ELSE IF spent[t] THEN "expiring" ELSE "polling")
  /\ owner' = TRUE
  /\ UNCHANGED <<transition, disabled, first, spent>>

(* Out of time: the overlay stops for good, the reservation stays.         *)
Expire(t) ==
  /\ Go(t, "expiring", "out")
  /\ disabled' = TRUE
  /\ UNCHANGED <<owner, transition, first, spent>>

VerifyEnabled(t) == Load(t, "verifying", disabled, "yielding", "changing")

Yield(t) ==
  /\ Go(t, "yielding", "out")
  /\ owner' = FALSE
  /\ UNCHANGED <<transition, disabled, first, spent>>

(* The clock: any waiting thread may run out of its budget.                *)
Elapse(t) ==
  /\ pc[t] \in Waiting \cup {"reserving", "changing"}
  /\ ~spent[t]
  /\ spent' = [spent EXCEPT ![t] = TRUE]
  /\ UNCHANGED <<pc, owner, transition, disabled, first>>

-----------------------------------------------------------------------------
(* EndTransition.                                                          *)

EndTransition(t, qualified) ==
  /\ Go(t, "changing", "freeing")
  /\ disabled' = (disabled \/ ~qualified)
  /\ UNCHANGED <<owner, transition, first, spent>>

Free(t) ==
  /\ Go(t, "freeing", "reopening")
  /\ owner' = FALSE
  /\ UNCHANGED <<transition, disabled, first, spent>>

Reopen(t) ==
  /\ Go(t, "reopening", "out")
  /\ transition' = FALSE
  /\ UNCHANGED <<owner, disabled, first, spent>>

(* The steps of the gate's own code after an operation was called.         *)
Inside(t) ==
  \/ LookAtTransition(t) \/ TakeOwner(t) \/ RecheckDisabled(t) \/ RecheckTransition(t) \/ Drop(t)
  \/ Reserve(t) \/ Bar(t) \/ CheckReserved(t) \/ Poll(t) \/ Grab(t) \/ Expire(t)
  \/ VerifyEnabled(t) \/ Yield(t) \/ Free(t) \/ Reopen(t)

Next ==
  \E t \in Threads :
     \/ TryDraw(t) \/ EndDraw(t) \/ BeginTransition(t)
     \/ \E qualified \in BOOLEAN : EndTransition(t, qualified)
     \/ Inside(t)
     \/ Elapse(t)

Spec == Init /\ [][Next]_gate

(* A thread in the gate's code runs on, time passes, and the game's own    *)
(* call made during a transition returns.                                  *)
Fairness ==
  \A t \in Threads :
     /\ WF_gate(Inside(t))
     /\ WF_gate(Elapse(t))
     /\ WF_gate(\E qualified \in BOOLEAN : EndTransition(t, qualified))

FairSpec == Spec /\ Fairness

-----------------------------------------------------------------------------
(* Nobody draws while another thread draws or changes the chain, and only  *)
(* one thread changes it (D3d12LifecycleGate): the owner flag is tried,    *)
(* rechecked and given back in separate steps by threads that do not know  *)
(* of each other.                                                          *)
MutualExclusion ==
  \A t, u \in Threads :
     pc[t] \in {"drawing", "changing"} /\ pc[u] \in {"drawing", "changing"} => t = u

(* The reservation that turns draws away is never left behind by a thread  *)
(* that went away, unless the overlay was stopped for good: drawing does   *)
(* not die silently (BeginTransition's early returns).                     *)
ReservationIsOwned ==
  transition => disabled \/ \E t \in Threads : pc[t] \in Waiting \cup Ending \cup {"changing"}

(* How far a place in the gate's code has come for its caller.             *)
PhaseOf(place) ==
  IF place = "drawing" THEN "drawing"
  ELSE IF place \in {"changing", "freeing"} THEN "changing"
  ELSE IF place \in {"out", "reopening"} THEN "out"
  ELSE "asking"

Phase == [t \in Threads |-> PhaseOf(pc[t])]

(* The gate keeps what DrawAdmission promises: every step of its code is   *)
(* one of DrawAdmission's or none.                                         *)
Admission == INSTANCE DrawAdmission WITH closed <- disabled, phase <- Phase

ImplementsAdmission == Admission!Spec

(* A thread that reserved a transition is let in or stops the overlay,     *)
(* even while a draw never ends: the game's resize is held up only for the *)
(* budget (kTransitionWaitMs).                                             *)
Decides(t) ==
  pc[t] = "reserved" ~> pc[t] = "changing" \/ (pc[t] = "out" /\ disabled)

TransitionDecides == \A t \in Threads : Decides(t)
=============================================================================
