--------------------------- MODULE ProtectionPolicy ---------------------------
(***************************************************************************)
(* The thermal state machine of src/core/protection.cpp as functions on a  *)
(* controller record.  The code copies controllers by value ("auto         *)
(* candidate = controller"), so every method is an operator that returns   *)
(* the controller it leaves behind; ProtectionController and               *)
(* LocalProtectionWorker assign the result to their variable.              *)
(*                                                                         *)
(* Time.  The code keeps time stamps and only ever compares `now - stamp'  *)
(* with a limit.  The model keeps that difference, the age of the stamp,   *)
(* saturated at the limit it is compared with: every comparison gives the  *)
(* same answer and the ages stay finite.  Unset is the empty std::optional *)
(* (for sampleAge: no sample in the ring).                                 *)
(*                                                                         *)
(* Temperature trend.  CalculateRiseRate's verdict (slope and predicted    *)
(* crossing both over their thresholds) is the Boolean input `rising'; the *)
(* code's requirement of four samples is kept through the sample count.    *)
(***************************************************************************)
EXTENDS Integers

CONSTANTS
  Configs,         (* protection configurations: records, see ConfigShape  *)
  Temps,           (* temperatures the sensor may report                   *)
  Band,            (* predictive_band_c                                    *)
  Delta,           (* recovery_delta_c                                     *)
  LossLimit,       (* sensor_unavailable_fail_safe_ms, in time units       *)
  RecoveryStable,  (* recovery_stable_ms, in time units                    *)
  MinSamples       (* samples CalculateRiseRate needs for a slope          *)

ConfigShape == [normal : Nat, safe : Nat, trigger : Int, auto : BOOLEAN]

ASSUME PolicyAssumption ==
  /\ Configs \subseteq ConfigShape
  /\ Temps \subseteq Int
  /\ Band \in Nat \ {0}
  /\ Delta \in Nat \ {0}
  /\ LossLimit \in Nat \ {0}
  /\ RecoveryStable \in Nat \ {0}
  /\ MinSamples \in Nat \ {0}

Unset == -1

ProtectionState == {"Armed", "MonitorOnly", "PreTrip", "SafeLatched",
                    "ReadyToRestore", "GpuUnavailable", "Fault"}

Controller == [cfg         : Configs,
               state       : ProtectionState,
               latched     : BOOLEAN,
               hits        : 0 .. 1,
               samples     : 0 .. MinSamples,
               sampleAge   : Unset .. LossLimit,
               recoveryAge : Unset .. RecoveryStable,
               lostAge     : Unset .. LossLimit]

-----------------------------------------------------------------------------
(* Time passes. *)

Aged(age, d, limit) ==
  IF age = Unset THEN Unset ELSE IF age + d < limit THEN age + d ELSE limit

Elapsed(c, d) ==
  [c EXCEPT !.sampleAge   = Aged(@, d, LossLimit),
            !.recoveryAge = Aged(@, d, RecoveryStable),
            !.lostAge     = Aged(@, d, LossLimit)]

-----------------------------------------------------------------------------
(* Configuration. *)

IsMonitorOnly(cfg) == cfg.safe = cfg.normal

ValidateConfig(cfg) ==
  /\ cfg.normal > 0
  /\ cfg.safe \in 1 .. cfg.normal
  /\ Delta < cfg.trigger

RecoveryTemperature(cfg) == cfg.trigger - Delta

Near(cfg, t) == t >= cfg.trigger - Band

Inert(c) == c.state \in {"Fault", "MonitorOnly"}

(* The constructor. *)
Fresh(cfg) ==
  [cfg         |-> cfg,
   state       |-> IF ~ValidateConfig(cfg) THEN "Fault"
                   ELSE IF IsMonitorOnly(cfg) THEN "MonitorOnly" ELSE "Armed",
   latched     |-> FALSE,
   hits        |-> 0,
   samples     |-> 0,
   sampleAge   |-> Unset,
   recoveryAge |-> Unset,
   lostAge     |-> Unset]

(* UpdateWorkingConfig: whether it accepts, and what it leaves. *)
Configurable(c, cfg) ==
  /\ ~c.latched
  /\ c.state \in {"Armed", "MonitorOnly"}
  /\ ValidateConfig(cfg)

UpdateWorkingConfig(c, cfg) ==
  [c EXCEPT !.cfg   = cfg,
            !.state = IF IsMonitorOnly(cfg) THEN "MonitorOnly" ELSE "Armed"]

-----------------------------------------------------------------------------
(* Readings. *)

ResetPredictor(c) ==
  [c EXCEPT !.hits = 0, !.samples = 0, !.sampleAge = Unset]

Trip(c) ==
  [c EXCEPT !.latched = TRUE, !.state = "SafeLatched",
            !.recoveryAge = Unset, !.hits = 0]

(* The gap before this reading is not evidence of anything: the sensor was *)
(* away, the clock did not advance, or too long passed since the sample.   *)
Discontinuity(c) ==
  \/ c.lostAge # Unset
  \/ c.samples > 0 /\ (c.sampleAge = 0 \/ c.sampleAge >= LossLimit)

(* Mutant of PushSample: the ring grows past its capacity.                 *)
PushSampleUnbounded(c) ==
  [c EXCEPT !.samples = @ + 1, !.sampleAge = 0]

PushSample(c) ==
  [c EXCEPT !.samples   = IF @ < MinSamples THEN @ + 1 ELSE @,
            !.sampleAge = 0]

(* Lines 170-182: what every reading does before it is judged. *)
Sampled(c) ==
  LET kept == IF Discontinuity(c)
              THEN [ResetPredictor(c) EXCEPT !.recoveryAge = Unset]
              ELSE c
  IN  PushSample([kept EXCEPT !.lostAge = Unset])

(* CalculateRiseRate is 0 with fewer samples, so nothing is predicted.     *)
PredictedCrossing(c, t, rising) ==
  rising /\ Near(c.cfg, t) /\ c.samples >= MinSamples

(* Mutant of MustTrip: the trigger temperature itself does not trip.       *)
MustTripAbove(c, t, delayed, rising) ==
  \/ t > c.cfg.trigger
  \/ delayed /\ Near(c.cfg, t)
  \/ PredictedCrossing(c, t, rising) /\ c.hits = 1

MustTrip(c, t, delayed, rising) ==
  \/ t >= c.cfg.trigger
  \/ delayed /\ Near(c.cfg, t)
  \/ PredictedCrossing(c, t, rising) /\ c.hits = 1

Watch(c, t, delayed, rising) ==
  IF MustTrip(c, t, delayed, rising) THEN Trip(c)
  ELSE IF PredictedCrossing(c, t, rising)
       THEN [c EXCEPT !.hits = 1, !.state = "PreTrip"]
       ELSE [c EXCEPT !.hits = 0, !.state = "Armed"]

(* Mutant of Cool: a warm reading does not restart the cooling clock.      *)
CoolKeepsClock(c, t) ==
  LET since == IF c.recoveryAge = Unset THEN 0 ELSE c.recoveryAge
  IN  IF t <= RecoveryTemperature(c.cfg)
      THEN [c EXCEPT !.recoveryAge = since,
                     !.state = IF since >= RecoveryStable
                               THEN "ReadyToRestore" ELSE "SafeLatched"]
      ELSE [c EXCEPT !.state = "SafeLatched"]

(* Mutant of Cool: every cool reading restarts the cooling clock.          *)
CoolRestartsClock(c, t) ==
  [c EXCEPT !.recoveryAge = IF t <= RecoveryTemperature(c.cfg) THEN 0 ELSE Unset,
            !.state = "SafeLatched"]

Cool(c, t) ==
  LET since == IF c.recoveryAge = Unset THEN 0 ELSE c.recoveryAge
  IN  IF t <= RecoveryTemperature(c.cfg)
      THEN [c EXCEPT !.recoveryAge = since,
                     !.state = IF since >= RecoveryStable
                               THEN "ReadyToRestore" ELSE "SafeLatched"]
      ELSE [c EXCEPT !.recoveryAge = Unset, !.state = "SafeLatched"]

ObserveTemperature(c, t, delayed, rising) ==
  IF Inert(c) THEN c
  ELSE IF c.latched THEN Cool(Sampled(c), t)
  ELSE Watch(Sampled(c), t, delayed, rising)

(* Mutant of SensorUnavailable: each failing read restarts the loss clock. *)
SensorUnavailableRestarts(c) ==
  IF Inert(c) THEN c
  ELSE [c EXCEPT !.recoveryAge = Unset, !.hits = 0, !.lostAge = 0,
                 !.state = "GpuUnavailable"]

SensorUnavailable(c) ==
  LET lost == IF c.lostAge # Unset THEN c.lostAge
              ELSE IF c.samples > 0 THEN c.sampleAge ELSE 0
      held == [c EXCEPT !.recoveryAge = Unset, !.hits = 0, !.lostAge = lost]
  IN  IF Inert(c) THEN c
      ELSE IF ~c.latched /\ lost >= LossLimit THEN Trip(held)
      ELSE [held EXCEPT !.state = "GpuUnavailable"]

SensorRecovered(c) ==
  LET cleared == [ResetPredictor(c) EXCEPT !.lostAge = Unset, !.recoveryAge = Unset]
  IN  IF c.state = "MonitorOnly" THEN cleared
      ELSE [cleared EXCEPT !.state = IF c.latched THEN "SafeLatched" ELSE "Armed"]

-----------------------------------------------------------------------------
(* Latch and restore. *)

RestorePersistedSafeLatch(c) ==
  IF c.state = "MonitorOnly" THEN c
  ELSE [ResetPredictor(c) EXCEPT !.latched = TRUE, !.state = "SafeLatched",
                                 !.recoveryAge = Unset]

(* Mutant of RequestRestore: the age of the last sample is not checked.    *)
RequestRestoreStale(c, t) ==
  IF \/ c.state # "ReadyToRestore"
     \/ t > RecoveryTemperature(c.cfg)
     \/ c.samples = 0
  THEN c
  ELSE [ResetPredictor(c) EXCEPT !.latched = FALSE, !.state = "Armed",
                                 !.recoveryAge = Unset]

(* Mutant of RequestRestore: a cool latch is released without its window.  *)
RequestRestoreEarly(c, t) ==
  IF ~c.latched \/ t > RecoveryTemperature(c.cfg) \/ c.samples = 0
  THEN c
  ELSE [ResetPredictor(c) EXCEPT !.latched = FALSE, !.state = "Armed",
                                 !.recoveryAge = Unset]

RequestRestore(c, t) ==
  IF \/ c.state # "ReadyToRestore"
     \/ t > RecoveryTemperature(c.cfg)
     \/ c.samples = 0
  THEN c
  ELSE IF c.sampleAge >= LossLimit
  THEN [c EXCEPT !.recoveryAge = Unset, !.state = "SafeLatched"]
  ELSE [ResetPredictor(c) EXCEPT !.latched = FALSE, !.state = "Armed",
                                 !.recoveryAge = Unset]

(* The decision carries ApplySafePower exactly when the latch is set by it, *)
(* and RequestRestore carries ApplyNormalPower exactly when it proposes to  *)
(* release the latch.                                                       *)
Trips(before, after) == ~before.latched /\ after.latched
Releases(before, after) == before.latched /\ ~after.latched
=============================================================================
