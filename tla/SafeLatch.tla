------------------------------- MODULE SafeLatch -------------------------------
(***************************************************************************)
(* What the protection controller promises, without its predictor, its     *)
(* states or its sensor bookkeeping (README.md, "Safe latch": after a trip *)
(* safe power remains active until stable cooling permits a restore).      *)
(*                                                                         *)
(* latched: a trip happened and was not restored.  calm: how long the GPU  *)
(* has been seen cool without a break, or Unset.  A trip may come at any   *)
(* time; the latch opens only after Stable units of calm, and calm can     *)
(* only be gained by watching for as long as it claims.                    *)
(***************************************************************************)
EXTENDS Integers

CONSTANTS
  Stable,   (* units of unbroken cooling a release needs, at least one     *)
  Steps     (* how much time may pass at once                              *)

VARIABLES latched, calm

Never == -1

TypeOK ==
  /\ latched \in BOOLEAN
  /\ calm \in Never .. Stable

Init ==
  /\ latched = FALSE
  /\ calm = Never

(* A trip: a hot reading, a predicted crossing, a delayed reading close to *)
(* the limit, blindness, or a latch handed over by an earlier process.     *)
Engage ==
  /\ latched' = TRUE
  /\ calm' = Never

(* The watch on the cooling GPU starts over or is broken.                  *)
Interrupt ==
  /\ latched
  /\ calm' \in {Never, 0}
  /\ UNCHANGED latched

Watch(d) ==
  /\ latched
  /\ calm # Never
  /\ calm' = IF calm + d < Stable THEN calm + d ELSE Stable
  /\ UNCHANGED latched

Release ==
  /\ latched
  /\ calm = Stable
  /\ latched' = FALSE
  /\ calm' = Never

Next ==
  \/ Engage
  \/ Interrupt
  \/ \E d \in Steps : Watch(d)
  \/ Release

vars == <<latched, calm>>

Spec == Init /\ [][Next]_vars
=============================================================================
