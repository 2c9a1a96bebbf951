----------------------------- MODULE DrawAdmission -----------------------------
(***************************************************************************)
(* What the lifecycle gate of the overlay promises its callers, without    *)
(* its flags (src/overlay/integration/d3d12_lifecycle_gate.hpp): a thread  *)
(* asks, is let in to draw or to change the swap chain, or is refused; one *)
(* thread is inside at a time; once closed, nobody may ask any more.  Only *)
(* a thread that has to give up, or one that changed the chain and could   *)
(* not qualify it again, closes the gate.                                  *)
(***************************************************************************)
CONSTANTS Threads

VARIABLES
  phase,    (* thread -> "out", "asking", "drawing" or "changing"          *)
  closed

TypeOK ==
  /\ phase \in [Threads -> {"out", "asking", "drawing", "changing"}]
  /\ closed \in BOOLEAN

Init ==
  /\ phase = [t \in Threads |-> "out"]
  /\ closed = FALSE

NoneInside == \A t \in Threads : phase[t] \in {"out", "asking"}

Ask(t) ==
  /\ ~closed
  /\ phase[t] = "out"
  /\ phase' = [phase EXCEPT ![t] = "asking"]
  /\ UNCHANGED closed

Enter(t) ==
  /\ phase[t] = "asking"
  /\ NoneInside
  /\ \E inside \in {"drawing", "changing"} : phase' = [phase EXCEPT ![t] = inside]
  /\ UNCHANGED closed

(* Refused; a thread that waited in vain closes the gate as it leaves.     *)
Refuse(t) ==
  /\ phase[t] = "asking"
  /\ phase' = [phase EXCEPT ![t] = "out"]
  /\ closed' \in {closed, TRUE}

(* The chain could not be qualified again.                                 *)
Close(t) ==
  /\ phase[t] = "changing"
  /\ closed' = TRUE
  /\ UNCHANGED phase

Leave(t) ==
  /\ phase[t] \in {"drawing", "changing"}
  /\ phase' = [phase EXCEPT ![t] = "out"]
  /\ UNCHANGED closed

Next == \E t \in Threads : Ask(t) \/ Enter(t) \/ Refuse(t) \/ Close(t) \/ Leave(t)

vars == <<phase, closed>>

Spec == Init /\ [][Next]_vars
=============================================================================
