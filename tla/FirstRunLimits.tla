----------------------------- MODULE FirstRunLimits -----------------------------
(***************************************************************************)
(* The limits of an install that nobody configured (core/power_envelope    *)
(* .hpp and main_dialog.cpp): the window starts with a built-in pair       *)
(* without headroom, proposes one derived from the first complete reading  *)
(* of the card, and starts its worker with whatever it has, before the     *)
(* user saved anything.  Readings may be incomplete, the worker and the    *)
(* program may end, and another tool may move the limit.                   *)
(***************************************************************************)
EXTENDS Integers

CONSTANTS
  Watts,          (* limits in question                                    *)
  Temperatures,   (* triggers a user may enter                             *)
  Cards,          (* [minimum, maximum, default, slowdown]                 *)
  Fallback,       (* the built-in [normal, safe, trigger]                  *)
  None            (* no worker, nothing stored                             *)

Configurations == [normal : Int, safe : Int, trigger : Int]

(* What the theorems assume of the constants.                              *)
LimitsAssumption ==
  /\ Watts \subseteq Nat \ {0} /\ Temperatures \subseteq Int
  /\ Cards \subseteq [minimum : Watts, maximum : Watts, default : Watts, slowdown : Nat]
  /\ \A k \in Cards : k.minimum <= k.maximum
  /\ Fallback \in [normal : Watts, safe : Watts, trigger : 40 .. 100]
  /\ Fallback.safe <= Fallback.normal
  /\ None \notin Configurations

VARIABLES
  card,        (* the card                                                 *)
  limit,       (* the limit in force                                       *)
  config,      (* config_ of the window                                    *)
  fresh,       (* first_run_ /\ ~first_run_defaults_applied_               *)
  ranged,      (* the window has read the range of the card                *)
  worker,      (* the configuration of the running worker, or None         *)
  latched,     (* the worker's controller holds a latch                    *)
  stored,      (* the configuration in the registry, or None               *)
  storedLatch, (* the safe latch in the registry                           *)
  fault,       (* the next worker has to recover from a fault              *)
  allowed,     (* observer: the highest limit the user or another tool     *)
               (* chose, or the built-in one once it was written           *)
  reason       (* observer: what entitles the program to write             *)

vars == <<card, limit, config, fresh, ranged, worker, latched, stored, storedLatch, fault,
          allowed, reason>>

program == <<config, fresh, ranged, worker, latched, stored, storedLatch, fault>>

Least(a, b)      == IF a < b THEN a ELSE b
Higher(a, b)     == IF a < b THEN b ELSE a
Clamp(x, lo, hi) == IF x < lo THEN lo ELSE IF hi < x THEN hi ELSE x

(* The conditions of ValidateConfig on what the window changes.            *)
Valid(c) ==
  0 < c.safe /\ c.safe <= c.normal /\ c.trigger \in 40 .. 100

IsMonitorOnly(c) == c.safe = c.normal

IsUsable(k, current) ==
  0 < k.minimum /\ k.minimum <= k.maximum /\ 0 < current /\ 0 < k.default

(* Mutant: the stock limit of the card is taken for the working limit.     *)
DeriveFromDefault(k, current) ==
  LET working == Clamp(k.default, k.minimum, k.maximum)
  IN [working |-> working, safe |-> Clamp(Least(k.default, current), k.minimum, working)]

(* Mutant: safe is the stock limit.                                        *)
DeriveStockSafe(k, current) ==
  [working |-> Clamp(current, k.minimum, k.maximum),
   safe    |-> Clamp(k.default, k.minimum, k.maximum)]

Derive(k, current) ==
  LET working == Clamp(current, k.minimum, k.maximum)
  IN [working |-> working, safe |-> Clamp(Least(k.default, current), k.minimum, working)]

DeriveTriggerTemperature(slowdown, fallback) ==
  IF 0 < slowdown /\ slowdown - 1 \in 40 .. 100 THEN slowdown - 1 ELSE fallback

HasHeadroom(defaults) == defaults.safe < defaults.working

(* A write that the card accepts, as SetBoundPowerLimitWatts.              *)
Writable(w) == card.minimum <= w /\ w <= card.maximum
Write(w)    == limit' = IF Writable(w) THEN w ELSE limit

(* The configuration of a window that has not read the card.               *)
Unconfigured == [Fallback EXCEPT !.safe = Fallback.normal]

(* The safe limit of a configuration is written, and the latch recorded    *)
(* once that is verified.  Before the card was read it is the built-in     *)
(* one, which nobody chose, and it may be above the limit in force:        *)
(* allowed counts it all the same.                                         *)
WriteSafe(c) ==
  /\ Write(c.safe)
  /\ storedLatch' = (storedLatch \/ Writable(c.safe))
  /\ allowed' = IF c = Unconfigured THEN Higher(allowed, c.safe) ELSE allowed

-----------------------------------------------------------------------------
(* OnInitDialog: equal limits until the card was read.                     *)
Opened(c) == IF c # None THEN c ELSE Unconfigured

Init ==
  /\ card \in Cards
  /\ limit \in {w \in Watts : Writable(w)}
  /\ config = Opened(None) /\ fresh = TRUE /\ ranged = FALSE
  /\ worker = None /\ latched = FALSE /\ stored = None /\ storedLatch = FALSE /\ fault = FALSE
  /\ allowed = limit /\ reason = "none"

(* The program ends, cleanly or not, and is started again.                 *)
Restart ==
  /\ config' = Opened(stored) /\ fresh' = (stored = None) /\ ranged' = FALSE
  /\ worker' = None /\ latched' = FALSE
  /\ fault' \in BOOLEAN /\ (fault => fault')
  /\ UNCHANGED <<card, limit, stored, storedLatch, allowed, reason>>

(* ApplyFirstRunDefaults on the first complete reading; its message box    *)
(* comes after the assignments, and the timer goes on under it.            *)
ApplyFirstRunDefaults ==
  LET defaults == Derive(card, limit)
  IN /\ fresh /\ IsUsable(card, limit)
     /\ fresh' = FALSE /\ ranged' = TRUE
     /\ config' = [config EXCEPT
                     !.normal  = defaults.working,
                     !.safe    = defaults.safe,
                     !.trigger = DeriveTriggerTemperature(card.slowdown, config.trigger)]
     /\ reason' = IF HasHeadroom(defaults) /\ reason = "none" THEN "headroom" ELSE reason
     /\ UNCHANGED <<card, limit, worker, latched, stored, storedLatch, fault, allowed>>

(* A reading without the range: the window shows it and goes on.           *)
Unread ==
  /\ ranged /\ ranged' = FALSE
  /\ UNCHANGED <<card, limit, config, fresh, worker, latched, stored, storedLatch, fault,
                 allowed, reason>>

Read ==
  /\ ~ranged /\ ~fresh /\ ranged' = TRUE
  /\ UNCHANGED <<card, limit, config, fresh, worker, latched, stored, storedLatch, fault,
                 allowed, reason>>

(* RefreshSnapshot starts a worker when none runs; with a latch to inherit *)
(* the worker writes the safe limit at once, monitor-only or not.          *)
StartWorker ==
  LET inherits == storedLatch \/ fault
  IN /\ worker = None /\ worker' = config
     /\ fault' = FALSE
     /\ latched' = (inherits /\ ~IsMonitorOnly(config))
     /\ IF inherits
        THEN WriteSafe(config) /\ reason' = "fault"
        ELSE UNCHANGED <<limit, storedLatch, allowed, reason>>
     /\ UNCHANGED <<card, config, fresh, ranged, stored>>

WorkerEnds ==
  /\ worker # None /\ worker' = None /\ latched' = FALSE /\ fault' \in {fault, TRUE}
  /\ UNCHANGED <<card, limit, config, fresh, ranged, stored, storedLatch, allowed, reason>>

(* A trip, recorded once the write was verified; monitor-only never trips. *)
Trip ==
  /\ worker # None /\ ~IsMonitorOnly(worker) /\ ~latched
  /\ latched' = TRUE /\ WriteSafe(worker)
  /\ UNCHANGED <<card, config, fresh, ranged, worker, stored, fault, reason>>

Restore ==
  /\ worker # None /\ latched
  /\ Writable(worker.normal) /\ Write(worker.normal)
  /\ latched' = FALSE /\ storedLatch' = FALSE
  /\ UNCHANGED <<card, config, fresh, ranged, worker, stored, fault, allowed, reason>>

(* OnValidateSettings and what the worker makes of it: applied, though     *)
(* perhaps not saved, or not written and back at the safe limit.           *)
SaveAndApply(c) ==
  /\ worker # None /\ ~latched /\ Valid(c)
  /\ ranged => /\ \A w \in {c.normal, c.safe} : Writable(w)
               /\ 0 < card.slowdown => c.trigger < card.slowdown
  /\ reason' = "user"
  /\ \/ /\ Writable(c.normal) /\ Write(c.normal)
        /\ allowed' = Higher(allowed, c.normal)
        /\ worker' = c /\ config' = c /\ stored' \in {stored, c}
        /\ UNCHANGED <<latched, storedLatch>>
     \/ /\ WriteSafe(worker) /\ latched' = ~IsMonitorOnly(worker)
        /\ UNCHANGED <<worker, config, stored>>
  /\ UNCHANGED <<card, fresh, ranged, fault>>

(* Another tool, or the driver.                                            *)
SomeoneSets(w) ==
  /\ Writable(w) /\ limit' = w /\ allowed' = Higher(allowed, w)
  /\ UNCHANGED <<card, program, reason>>

Next ==
  \/ Restart \/ ApplyFirstRunDefaults \/ Unread \/ Read
  \/ StartWorker \/ WorkerEnds \/ Trip \/ Restore
  \/ \E n, s \in Watts, t \in Temperatures :
       SaveAndApply([normal |-> n, safe |-> s, trigger |-> t])
  \/ \E w \in Watts : SomeoneSets(w)

Spec == Init /\ [][Next]_vars

-----------------------------------------------------------------------------
TypeOK ==
  /\ card \in Cards /\ limit \in Int /\ Writable(limit) /\ allowed \in Int
  /\ config \in Configurations
  /\ worker \in Configurations \cup {None} /\ stored \in Configurations \cup {None}
  /\ {fresh, ranged, latched, storedLatch, fault} \subseteq BOOLEAN
  /\ reason \in {"none", "headroom", "fault", "user"}

(* No sequence of proposals, trips, restores, restarts and new proposals   *)
(* leaves the card above every limit chosen by its user or by another      *)
(* tool, except at most at the built-in safe limit, where a fault was      *)
(* recovered from before the card was read (main_dialog.cpp:578-586 says   *)
(* that nothing can be written then).                                      *)
NeverRaised == limit <= allowed

(* What the window holds, starts a worker with or stores is accepted by    *)
(* ValidateConfig, also when it was derived from an odd card.              *)
AlwaysAccepted ==
  \A c \in {config, worker, stored} \ {None} : Valid(c)

(* A worker guards a card that nobody saved a configuration for only if a  *)
(* reading of the card had shown a limit above the stock one, or after a   *)
(* worker had to recover from a fault.  That one guards at all is not what *)
(* the window says: NothingBeforeSave.                                     *)
UninvitedOnlyAboveStock ==
  worker # None /\ ~IsMonitorOnly(worker) => reason # "none"

(* Once the window has proposed limits with headroom, the guard does not   *)
(* hold the card at the proposed safe limit before Save & Apply is pressed *)
(* (main_dialog.cpp:2025-2026).  A worker that is started after the        *)
(* proposal - the service answered when the window opened, or the first    *)
(* worker ended or could not be started - takes the proposed limits.       *)
NothingBeforeSave == reason = "headroom" => ~latched

LimitsHold == LimitsAssumption /\ NeverRaised /\ AlwaysAccepted /\ UninvitedOnlyAboveStock
=============================================================================
