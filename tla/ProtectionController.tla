------------------------- MODULE ProtectionController -------------------------
(***************************************************************************)
(* ProtectionController (src/core/protection.cpp) driven the way its two   *)
(* owners drive it, the tray worker and the service: a reading that        *)
(* follows missing ones first calls SensorRecovered; a restore is          *)
(* requested with the last good reading, and committed only if the caller's *)
(* power write was verified (RestoreWithVerification); the working         *)
(* configuration changes through ApplyWorkingPower's guard.                *)
(*                                                                         *)
(* c is the controller.  lost is the owner's sensor_unavailable flag.  The *)
(* other variables observe from outside what the GPU showed, without       *)
(* looking at the controller's own bookkeeping:                            *)
(*   temp    last good reading (Unset before the first)                    *)
(*   quiet   time since the last good reading                              *)
(*   coolRun time since the first reading of the current unbroken run of   *)
(*           cool readings, Unset if there is none                         *)
(*   blind   time since the first failed reading of the current run of     *)
(*           failed readings, Unset if the last reading succeeded          *)
(***************************************************************************)
EXTENDS ProtectionPolicy

VARIABLES c, lost, temp, quiet, coolRun, blind

watched == <<temp, quiet, coolRun, blind>>
controller == <<c, lost, watched>>

ControllerTypeOK ==
  /\ c \in Controller
  /\ lost \in BOOLEAN
  /\ temp \in Temps \cup {Unset}
  /\ quiet \in 0 .. LossLimit
  /\ coolRun \in Unset .. RecoveryStable
  /\ blind \in Unset .. LossLimit

(* Both owners start from a validated configuration.                       *)
ControllerInit ==
  /\ \E cfg \in Configs : ValidateConfig(cfg) /\ c = Fresh(cfg)
  /\ lost = FALSE
  /\ temp = Unset
  /\ quiet = 0
  /\ coolRun = Unset
  /\ blind = Unset

TimePasses(d) ==
  /\ c' = Elapsed(c, d)
  /\ quiet' = Aged(quiet, d, LossLimit)
  /\ coolRun' = Aged(coolRun, d, RecoveryStable)
  /\ blind' = Aged(blind, d, LossLimit)
  /\ UNCHANGED <<lost, temp>>

(* The unbroken run of cool readings, judged from the readings alone.      *)
CoolRunAfter(t) ==
  IF t > RecoveryTemperature(c.cfg) THEN Unset
  ELSE IF coolRun = Unset \/ quiet >= LossLimit THEN 0
  ELSE coolRun

ReadTemperature(t, delayed, rising) ==
  /\ c' = ObserveTemperature(IF lost THEN SensorRecovered(c) ELSE c,
                             t, delayed, rising)
  /\ lost' = FALSE
  /\ temp' = t
  /\ quiet' = 0
  /\ coolRun' = CoolRunAfter(t)
  /\ blind' = Unset

ReadFails ==
  /\ c' = SensorUnavailable(c)
  /\ lost' = TRUE
  /\ coolRun' = Unset
  /\ blind' = IF blind = Unset THEN 0 ELSE blind
  /\ UNCHANGED <<temp, quiet>>

(* A restore with the reading of this iteration: an owner asks for one     *)
(* only when the reading succeeded.  A proposal commits only if the power  *)
(* write was verified; anything else RequestRestore did always commits.    *)
Restore(verified) ==
  LET candidate == RequestRestore(c, temp)
  IN  /\ ~lost
      /\ temp # Unset
      /\ c' = IF Releases(c, candidate) /\ ~verified THEN c ELSE candidate
      /\ UNCHANGED <<lost, watched>>

(* The owner holds a latch from an earlier process, or a failed Apply left *)
(* the power limit uncertain.                                              *)
TakeLatch ==
  /\ c' = RestorePersistedSafeLatch(c)
  /\ UNCHANGED <<lost, watched>>

(* Apply with a reading below both configurations' prediction band and a   *)
(* verified write (ApplyWorkingPower).  The run of cool readings is judged *)
(* by the configuration it was read under, so it starts over.              *)
Apply(cfg) ==
  /\ ~lost
  /\ temp # Unset
  /\ Configurable(c, cfg)
  /\ ~Near(c.cfg, temp)
  /\ ~Near(cfg, temp)
  /\ c' = UpdateWorkingConfig(c, cfg)
  /\ coolRun' = Unset
  /\ UNCHANGED <<lost, temp, quiet, blind>>

ControllerNext ==
  \/ \E d \in 1 .. LossLimit : TimePasses(d)
  \/ \E t \in Temps, delayed, rising \in BOOLEAN :
        ReadTemperature(t, delayed, rising)
  \/ ReadFails
  \/ \E verified \in BOOLEAN : Restore(verified)
  \/ TakeLatch
  \/ \E cfg \in Configs : Apply(cfg)

ControllerSpec == ControllerInit /\ [][ControllerNext]_controller

-----------------------------------------------------------------------------
(* Properties. *)

(* ReadyToRestore is offered only on a latched controller whose GPU was     *)
(* seen cool, without a break as long as the telemetry-loss limit, for the  *)
(* whole stable-cooling window, whatever calls came in between.             *)
ReadyMeansCooled ==
  c.state = "ReadyToRestore" => c.latched /\ coolRun >= RecoveryStable

(* A guard that is blind trips: once reads have been failing for the       *)
(* telemetry-loss limit, the next failing read leaves the latch set, unless *)
(* the configuration leaves nothing to guard.                              *)
BlindnessTrips ==
  [][ReadFails /\ blind >= LossLimit => c'.latched \/ Inert(c)]_controller

(* MonitorOnly is left only by a new configuration, and a latch and        *)
(* MonitorOnly exclude each other: the owner can never be asked to write    *)
(* power by a controller that was configured not to.                       *)
MonitorOnlyIsQuiet ==
  (c.state = "MonitorOnly") <=> (IsMonitorOnly(c.cfg) /\ ~c.latched)

(* The latch opens only on evidence that still holds: the GPU was seen     *)
(* cool for the whole window, the last reading is cool by the configuration *)
(* in force, and it is younger than the telemetry-loss limit, so a restore *)
(* asked for during a stall or a gap is refused (RequestRestore).          *)
RestoreIsFresh ==
  [][Releases(c, c') => /\ coolRun >= RecoveryStable
                        /\ quiet < LossLimit
                        /\ temp <= RecoveryTemperature(c.cfg)]_controller

(* The controller implements the abstract latch.  The calm it has gathered *)
(* is its recovery age; after the window is complete and the GPU is still  *)
(* watched, it is exactly RecoveryStable.                                  *)
Latch == INSTANCE SafeLatch
           WITH Stable  <- RecoveryStable,
                Steps   <- 1 .. LossLimit,
                latched <- c.latched,
                calm    <- IF c.latched THEN c.recoveryAge ELSE Unset

ImplementsSafeLatch == Latch!Spec
=============================================================================
