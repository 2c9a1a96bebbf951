------------------------ MODULE ProtectionPolicyProofs ------------------------
(***************************************************************************)
(* What every call on a ProtectionController preserves, whoever makes it   *)
(* and in whatever order: its type, and Coherent, the relation between its *)
(* members that the code never states but relies on.                       *)
(***************************************************************************)
EXTENDS ProtectionPolicy, TLAPS

(* MonitorOnly is the state of exactly the configurations that have        *)
(* nothing to do; such a controller is never latched; the cooling clock    *)
(* runs only on a latched controller that is being sampled; and a restore  *)
(* is offered only once that clock has reached the stable-cooling window.  *)
SampleStamped(k) == k.samples > 0 <=> k.sampleAge # Unset

Coherent(k) ==
  /\ SampleStamped(k)
  /\ k.state # "Fault"
  /\ IsMonitorOnly(k.cfg) <=> k.state = "MonitorOnly"
  /\ k.latched => k.state # "MonitorOnly"
  /\ k.recoveryAge # Unset => k.latched /\ k.samples > 0
  /\ k.state = "ReadyToRestore" => k.latched /\ k.recoveryAge = RecoveryStable

-----------------------------------------------------------------------------
(* The values the calls assign lie in their ranges.                        *)
LEMMA Values ==
  /\ 0 \in 0 .. 1 /\ 1 \in 0 .. 1
  /\ 0 \in 0 .. MinSamples
  /\ Unset \in Unset .. LossLimit /\ 0 \in Unset .. LossLimit
  /\ Unset \in Unset .. RecoveryStable /\ 0 \in Unset .. RecoveryStable
  /\ {"Armed", "MonitorOnly", "PreTrip", "SafeLatched", "ReadyToRestore",
      "GpuUnavailable", "Fault"} \subseteq ProtectionState
BY PolicyAssumption DEF Unset, ProtectionState

(* Ageing keeps a time stamp's age in its range, and an empty one empty.   *)
LEMMA AgedType ==
  ASSUME NEW limit \in Nat, NEW age \in Unset .. limit, NEW d \in Nat
  PROVE  /\ Aged(age, d, limit) \in Unset .. limit
         /\ Aged(age, d, limit) = Unset <=> age = Unset
         /\ age # Unset => Aged(age, d, limit) >= age
BY DEF Aged, Unset

(* Time only ages the three stamps.                                        *)
LEMMA ElapsedSound ==
  ASSUME NEW k \in Controller, NEW d \in Nat
  PROVE  /\ Elapsed(k, d) \in Controller
         /\ Coherent(k) => Coherent(Elapsed(k, d))
<1>1. /\ k.sampleAge \in Unset .. LossLimit
      /\ k.recoveryAge \in Unset .. RecoveryStable
      /\ k.lostAge \in Unset .. LossLimit
  BY DEF Controller
<1>2. /\ Aged(k.sampleAge, d, LossLimit) \in Unset .. LossLimit
      /\ Aged(k.sampleAge, d, LossLimit) = Unset <=> k.sampleAge = Unset
      /\ Aged(k.lostAge, d, LossLimit) \in Unset .. LossLimit
      /\ Aged(k.recoveryAge, d, RecoveryStable) \in Unset .. RecoveryStable
      /\ Aged(k.recoveryAge, d, RecoveryStable) = Unset <=> k.recoveryAge = Unset
      /\ k.recoveryAge = RecoveryStable
            => Aged(k.recoveryAge, d, RecoveryStable) = RecoveryStable
  BY <1>1, PolicyAssumption DEF Aged, Unset
<1>3. Elapsed(k, d) \in Controller
  BY <1>2 DEF Elapsed, Controller
<1>4. Coherent(k) => Coherent(Elapsed(k, d))
  BY <1>2 DEF Elapsed, Coherent, SampleStamped, Controller
<1> QED  BY <1>3, <1>4

(* A new controller.                                                       *)
LEMMA FreshSound ==
  ASSUME NEW cfg \in Configs
  PROVE  /\ Fresh(cfg) \in Controller
         /\ ValidateConfig(cfg) => Coherent(Fresh(cfg))
<1>1. Fresh(cfg) \in Controller
  BY PolicyAssumption DEF Fresh, Controller, ProtectionState, Unset
<1>2. ValidateConfig(cfg) => Coherent(Fresh(cfg))
  BY DEF Fresh, Coherent, SampleStamped, Unset
<1> QED  BY <1>1, <1>2

(* A new working configuration, taken only by an unlatched controller.     *)
LEMMA UpdateSound ==
  ASSUME NEW k \in Controller, NEW cfg \in Configs, Configurable(k, cfg)
  PROVE  /\ UpdateWorkingConfig(k, cfg) \in Controller
         /\ Coherent(k) => Coherent(UpdateWorkingConfig(k, cfg))
<1>1. UpdateWorkingConfig(k, cfg) \in Controller
  BY DEF UpdateWorkingConfig, Controller, ProtectionState
<1>2. Coherent(k) => Coherent(UpdateWorkingConfig(k, cfg))
  BY DEF UpdateWorkingConfig, Coherent, SampleStamped, Controller, Configurable
<1> QED  BY <1>1, <1>2

(* Forgetting the samples.                                                 *)
LEMMA ResetPredictorType ==
  ASSUME NEW k \in Controller
  PROVE  ResetPredictor(k) \in Controller
BY Values DEF ResetPredictor, Controller

(* A trip latches a controller that is not MonitorOnly.                    *)
LEMMA TripSound ==
  ASSUME NEW k \in Controller
  PROVE  /\ Trip(k) \in Controller
         /\ ~IsMonitorOnly(k.cfg) /\ SampleStamped(k) => Coherent(Trip(k))
<1>1. Trip(k) \in Controller
  BY Values DEF Trip, Controller
<1>2. ~IsMonitorOnly(k.cfg) /\ SampleStamped(k) => Coherent(Trip(k))
  BY DEF Trip, Coherent, SampleStamped, Controller, Unset
<1> QED  BY <1>1, <1>2

(* What every reading leaves before it is judged: one sample at least, and *)
(* a cooling clock that survives only if there was no gap.                 *)
LEMMA SampledSound ==
  ASSUME NEW k \in Controller
  PROVE  /\ Sampled(k) \in Controller
         /\ Sampled(k).samples > 0
         /\ Sampled(k).sampleAge = 0
         /\ Sampled(k).lostAge = Unset
         /\ Sampled(k).cfg = k.cfg
         /\ Sampled(k).state = k.state
         /\ Sampled(k).latched = k.latched
         /\ Sampled(k).recoveryAge =
              IF Discontinuity(k) THEN Unset ELSE k.recoveryAge
<1> DEFINE kept == IF Discontinuity(k)
                   THEN [ResetPredictor(k) EXCEPT !.recoveryAge = Unset]
                   ELSE k
           seen == [kept EXCEPT !.lostAge = Unset]
<1>1. seen \in Controller
  BY Values, ResetPredictorType DEF Controller
<1>2. /\ seen.cfg = k.cfg
      /\ seen.state = k.state
      /\ seen.latched = k.latched
      /\ seen.lostAge = Unset
      /\ seen.recoveryAge = IF Discontinuity(k) THEN Unset ELSE k.recoveryAge
  BY DEF ResetPredictor, Controller
<1>3. Sampled(k) = PushSample(seen)
  BY DEF Sampled
<1> HIDE DEF seen
<1>4. (IF seen.samples < MinSamples THEN seen.samples + 1 ELSE seen.samples)
         \in (0 .. MinSamples) \ {0}
  BY <1>1, PolicyAssumption DEF Controller
<1>5. PushSample(seen) \in Controller
  BY <1>1, <1>4, Values DEF PushSample, Controller
<1>6. /\ PushSample(seen).samples > 0
      /\ PushSample(seen).sampleAge = 0
      /\ PushSample(seen).lostAge = seen.lostAge
      /\ PushSample(seen).cfg = seen.cfg
      /\ PushSample(seen).state = seen.state
      /\ PushSample(seen).latched = seen.latched
      /\ PushSample(seen).recoveryAge = seen.recoveryAge
  BY <1>1, <1>4 DEF PushSample, Controller
<1> QED  BY <1>2, <1>3, <1>5, <1>6

-----------------------------------------------------------------------------
(* An unlatched reading: a trip, a pending prediction or nothing.          *)
LEMMA WatchSound ==
  ASSUME NEW k \in Controller, NEW t, NEW delayed, NEW rising
  PROVE  /\ Watch(k, t, delayed, rising) \in Controller
         /\ ~IsMonitorOnly(k.cfg) /\ ~k.latched /\ k.recoveryAge = Unset /\ SampleStamped(k)
              => Coherent(Watch(k, t, delayed, rising))
         /\ k.recoveryAge = Unset => Watch(k, t, delayed, rising).recoveryAge = Unset
<1> DEFINE pending == [k EXCEPT !.hits = 1, !.state = "PreTrip"]
           nothing == [k EXCEPT !.hits = 0, !.state = "Armed"]
<1>1. pending \in Controller /\ nothing \in Controller
  BY Values DEF Controller
<1>2. ~IsMonitorOnly(k.cfg) /\ ~k.latched /\ k.recoveryAge = Unset /\ SampleStamped(k)
        => Coherent(pending) /\ Coherent(nothing)
  BY DEF Coherent, SampleStamped, Controller
<1>3. /\ pending.recoveryAge = k.recoveryAge
      /\ nothing.recoveryAge = k.recoveryAge
      /\ Trip(k).recoveryAge = Unset
  BY DEF Trip, Controller
<1>4. Watch(k, t, delayed, rising) \in {Trip(k), pending, nothing}
  BY DEF Watch
<1> HIDE DEF pending, nothing
<1> QED  BY <1>1, <1>2, <1>3, <1>4, TripSound

(* A latched reading: the cooling clock goes on, starts or stops, and only *)
(* a complete one offers the restore.                                      *)
LEMMA CoolSound ==
  ASSUME NEW k \in Controller, NEW t \in Int, k.latched
  PROVE  /\ Cool(k, t) \in Controller
         /\ ~IsMonitorOnly(k.cfg) /\ k.samples > 0 /\ SampleStamped(k)
              => Coherent(Cool(k, t))
         /\ Cool(k, t).latched
         /\ Cool(k, t).sampleAge = k.sampleAge
         /\ Cool(k, t).samples = k.samples
         /\ Cool(k, t).lostAge = k.lostAge
         /\ Cool(k, t).cfg = k.cfg
         /\ Cool(k, t).recoveryAge =
              IF t <= RecoveryTemperature(k.cfg)
              THEN IF k.recoveryAge = Unset THEN 0 ELSE k.recoveryAge
              ELSE Unset
<1> DEFINE since == IF k.recoveryAge = Unset THEN 0 ELSE k.recoveryAge
           verdict == IF since >= RecoveryStable THEN "ReadyToRestore" ELSE "SafeLatched"
           cooling == [k EXCEPT !.recoveryAge = since, !.state = verdict]
           warm == [k EXCEPT !.recoveryAge = Unset, !.state = "SafeLatched"]
<1>1. /\ since \in (Unset .. RecoveryStable) \ {Unset}
      /\ verdict \in ProtectionState \ {"Fault", "MonitorOnly"}
      /\ verdict = "ReadyToRestore" => since = RecoveryStable
  BY PolicyAssumption DEF Controller, Unset, ProtectionState
<1>2. Cool(k, t) = IF t <= RecoveryTemperature(k.cfg) THEN cooling ELSE warm
  BY DEF Cool
<1> HIDE DEF since, verdict
<1>3. cooling \in Controller /\ warm \in Controller
  BY <1>1, Values DEF Controller
<1>4. ~IsMonitorOnly(k.cfg) /\ k.samples > 0 /\ SampleStamped(k)
        => Coherent(cooling) /\ Coherent(warm)
  BY <1>1 DEF Coherent, SampleStamped, Controller
<1>5. \A x \in {cooling, warm} :
        /\ x.latched
        /\ x.sampleAge = k.sampleAge
        /\ x.samples = k.samples
        /\ x.lostAge = k.lostAge
        /\ x.cfg = k.cfg
  BY DEF Controller
<1>6. cooling.recoveryAge = since /\ warm.recoveryAge = Unset
  BY DEF Controller
<1> HIDE DEF cooling, warm
<1>7. CASE t <= RecoveryTemperature(k.cfg)
  BY <1>7, <1>2, <1>3, <1>4, <1>5, <1>6 DEF since
<1>8. CASE ~(t <= RecoveryTemperature(k.cfg))
  BY <1>8, <1>2, <1>3, <1>4, <1>5, <1>6
<1> QED  BY <1>7, <1>8

(* A reading keeps a coherent controller coherent, never releases a latch, *)
(* and moves the cooling clock on only if the reading is cool and nothing  *)
(* interrupted the watch.                                                  *)
LEMMA ObserveSound ==
  ASSUME NEW k \in Controller, Coherent(k),
         NEW t \in Int, NEW delayed \in BOOLEAN, NEW rising \in BOOLEAN
  PROVE  LET after == ObserveTemperature(k, t, delayed, rising)
         IN  /\ after \in Controller
             /\ Coherent(after)
             /\ k.latched =>
                  /\ after.latched
                  /\ after.cfg = k.cfg
                  /\ after.sampleAge = 0
                  /\ after.recoveryAge =
                       IF t <= RecoveryTemperature(k.cfg)
                       THEN IF Discontinuity(k) \/ k.recoveryAge = Unset
                            THEN 0 ELSE k.recoveryAge
                       ELSE Unset
             /\ ~k.latched => after.recoveryAge = Unset
<1> DEFINE after == ObserveTemperature(k, t, delayed, rising)
<1>1. CASE Inert(k)
  BY <1>1 DEF ObserveTemperature, Inert, Coherent
<1>2. CASE ~Inert(k) /\ k.latched
  <2>1. /\ Sampled(k) \in Controller
        /\ Sampled(k).latched
        /\ SampleStamped(Sampled(k))
        /\ ~IsMonitorOnly(Sampled(k).cfg)
    BY <1>2, SampledSound DEF Coherent, SampleStamped, Unset
  <2>2. after = Cool(Sampled(k), t)
    BY <1>2 DEF ObserveTemperature
  <2> HIDE DEF after
  <2> QED  BY <1>2, <2>1, <2>2, SampledSound, CoolSound DEF after
<1>3. CASE ~Inert(k) /\ ~k.latched
  <2>1. /\ Sampled(k) \in Controller
        /\ ~Sampled(k).latched
        /\ Sampled(k).recoveryAge = Unset
        /\ SampleStamped(Sampled(k))
        /\ ~IsMonitorOnly(Sampled(k).cfg)
    BY <1>3, SampledSound DEF Coherent, SampleStamped, Inert, Unset
  <2>2. after = Watch(Sampled(k), t, delayed, rising)
    BY <1>3 DEF ObserveTemperature
  <2> QED  BY <1>3, <2>1, <2>2, WatchSound
<1> QED  BY <1>1, <1>2, <1>3

(* A failed read stops the cooling clock, dates the loss from the last     *)
(* good sample at the latest, and trips once the loss is as long as the    *)
(* limit; it never releases a latch.                                       *)
LEMMA UnavailableSound ==
  ASSUME NEW k \in Controller, Coherent(k)
  PROVE  LET after == SensorUnavailable(k)
         IN  /\ after \in Controller
             /\ Coherent(after)
             /\ after.recoveryAge = Unset
             /\ k.latched => after.latched
             /\ Inert(k) => after = k
             /\ ~Inert(k) =>
                  /\ ~Inert(after)
                  /\ after.lostAge >= 0
                  /\ k.lostAge # Unset => after.lostAge = k.lostAge
                  /\ after.lostAge >= LossLimit => after.latched
<1> DEFINE lost == IF k.lostAge # Unset THEN k.lostAge
                   ELSE IF k.samples > 0 THEN k.sampleAge ELSE 0
           held == [k EXCEPT !.recoveryAge = Unset, !.hits = 0, !.lostAge = lost]
           gone == [held EXCEPT !.state = "GpuUnavailable"]
<1>1. lost \in Unset .. LossLimit /\ lost >= 0
  BY PolicyAssumption DEF Controller, Coherent, SampleStamped, Unset
<1>2. SensorUnavailable(k) = IF Inert(k) THEN k
                             ELSE IF ~k.latched /\ lost >= LossLimit THEN Trip(held) ELSE gone
  BY DEF SensorUnavailable
<1>3. k.lostAge # Unset => lost = k.lostAge
  OBVIOUS
<1> HIDE DEF lost
<1>4. held \in Controller
  BY <1>1, Values DEF Controller
<1>5. /\ held.cfg = k.cfg /\ held.latched = k.latched
      /\ held.samples = k.samples /\ held.sampleAge = k.sampleAge
      /\ held.recoveryAge = Unset /\ held.lostAge = lost
  BY DEF Controller
<1> HIDE DEF held
<1>6. /\ gone \in Controller
      /\ gone.cfg = k.cfg /\ gone.latched = k.latched
      /\ gone.samples = k.samples /\ gone.sampleAge = k.sampleAge
      /\ gone.recoveryAge = Unset /\ gone.lostAge = lost
      /\ gone.state = "GpuUnavailable"
  BY <1>4, <1>5, Values DEF Controller
<1>7. /\ Trip(held).latched /\ Trip(held).recoveryAge = Unset
      /\ Trip(held).lostAge = lost /\ Trip(held).state = "SafeLatched"
  BY <1>4, <1>5 DEF Trip, Controller
<1> HIDE DEF gone
<1>8. CASE Inert(k)
  BY <1>8, <1>2 DEF Inert, Coherent
<1>9. ASSUME ~Inert(k)
      PROVE  ~IsMonitorOnly(k.cfg) /\ SampleStamped(held)
  BY <1>9, <1>5 DEF Inert, Coherent, SampleStamped
<1>10. CASE ~Inert(k) /\ ~k.latched /\ lost >= LossLimit
  BY <1>10, <1>1, <1>2, <1>3, <1>4, <1>5, <1>7, <1>9, TripSound DEF Inert
<1>11. CASE ~Inert(k) /\ ~(~k.latched /\ lost >= LossLimit)
  <2>1. Coherent(gone)
    BY <1>11, <1>5, <1>6, <1>9 DEF Coherent, SampleStamped
  <2> QED  BY <1>11, <1>1, <1>2, <1>3, <1>6, <2>1 DEF Inert
<1> QED  BY <1>8, <1>10, <1>11

(* The first good read after missing ones forgets the history, not the     *)
(* latch.                                                                  *)
LEMMA RecoveredSound ==
  ASSUME NEW k \in Controller, Coherent(k)
  PROVE  LET after == SensorRecovered(k)
         IN  /\ after \in Controller
             /\ Coherent(after)
             /\ after.recoveryAge = Unset
             /\ after.latched = k.latched
             /\ after.cfg = k.cfg
<1> DEFINE cleared == [ResetPredictor(k) EXCEPT !.lostAge = Unset, !.recoveryAge = Unset]
           back == [cleared EXCEPT !.state = IF k.latched THEN "SafeLatched" ELSE "Armed"]
<1>1. cleared \in Controller
  BY Values, ResetPredictorType DEF Controller
<1>2. /\ cleared.cfg = k.cfg /\ cleared.latched = k.latched /\ cleared.state = k.state
      /\ cleared.samples = 0 /\ cleared.sampleAge = Unset /\ cleared.recoveryAge = Unset
  BY DEF ResetPredictor, Controller
<1>3. SensorRecovered(k) = IF k.state = "MonitorOnly" THEN cleared ELSE back
  BY DEF SensorRecovered
<1> HIDE DEF cleared
<1>4. /\ back \in Controller
      /\ back.cfg = k.cfg /\ back.latched = k.latched
      /\ back.state = IF k.latched THEN "SafeLatched" ELSE "Armed"
      /\ back.samples = 0 /\ back.sampleAge = Unset /\ back.recoveryAge = Unset
  BY <1>1, <1>2, Values DEF Controller
<1> HIDE DEF back
<1> QED  BY <1>1, <1>2, <1>3, <1>4 DEF Coherent, SampleStamped

(* A latch handed over by an earlier process, or by an Apply whose write   *)
(* failed.                                                                 *)
LEMMA RestorePersistedSound ==
  ASSUME NEW k \in Controller, Coherent(k)
  PROVE  LET after == RestorePersistedSafeLatch(k)
         IN  /\ after \in Controller
             /\ Coherent(after)
             /\ after.recoveryAge = Unset
             /\ after.lostAge = k.lostAge
             /\ after.cfg = k.cfg
             /\ Inert(k) => after = k
             /\ ~Inert(k) => after.latched /\ ~Inert(after)
<1> DEFINE engaged == [ResetPredictor(k) EXCEPT !.latched = TRUE, !.state = "SafeLatched",
                                                !.recoveryAge = Unset]
<1>1. engaged \in Controller
  BY Values, ResetPredictorType DEF Controller
<1>2. /\ engaged.cfg = k.cfg /\ engaged.latched /\ engaged.state = "SafeLatched"
      /\ engaged.samples = 0 /\ engaged.sampleAge = Unset
      /\ engaged.recoveryAge = Unset /\ engaged.lostAge = k.lostAge
  BY DEF ResetPredictor, Controller
<1>3. RestorePersistedSafeLatch(k) = IF k.state = "MonitorOnly" THEN k ELSE engaged
  BY DEF RestorePersistedSafeLatch
<1> HIDE DEF engaged
<1> QED  BY <1>1, <1>2, <1>3 DEF Coherent, SampleStamped, Inert

(* A restore request changes nothing, takes back a stale offer, or releases *)
(* a latch whose window is complete, whose reading is cool and whose last  *)
(* sample is younger than the telemetry-loss limit.                        *)
LEMMA RequestRestoreSound ==
  ASSUME NEW k \in Controller, Coherent(k), NEW t
  PROVE  LET after == RequestRestore(k, t)
         IN  /\ after \in Controller
             /\ Coherent(after)
             /\ after.cfg = k.cfg
             /\ after.lostAge = k.lostAge
             /\ \/ after = k
                \/ k.latched /\ after.latched /\ after.recoveryAge = Unset
                \/ /\ Releases(k, after)
                   /\ after.recoveryAge = Unset
                   /\ k.recoveryAge = RecoveryStable
                   /\ k.samples > 0
                   /\ ~(k.sampleAge >= LossLimit)
                   /\ ~(t > RecoveryTemperature(k.cfg))
             /\ after # k => ~Inert(k) /\ ~Inert(after)
<1> DEFINE revoked  == [k EXCEPT !.recoveryAge = Unset, !.state = "SafeLatched"]
           released == [ResetPredictor(k) EXCEPT !.latched = FALSE, !.state = "Armed",
                                                 !.recoveryAge = Unset]
           refused  == \/ k.state # "ReadyToRestore"
                       \/ t > RecoveryTemperature(k.cfg)
                       \/ k.samples = 0
<1>1. revoked \in Controller /\ released \in Controller
  BY Values, ResetPredictorType DEF Controller
<1>2. /\ revoked.cfg = k.cfg /\ revoked.latched = k.latched
      /\ revoked.state = "SafeLatched" /\ revoked.lostAge = k.lostAge
      /\ revoked.samples = k.samples /\ revoked.sampleAge = k.sampleAge
      /\ revoked.recoveryAge = Unset
  BY DEF Controller
<1>3. /\ released.cfg = k.cfg /\ released.latched = FALSE
      /\ released.state = "Armed" /\ released.lostAge = k.lostAge
      /\ released.samples = 0 /\ released.sampleAge = Unset
      /\ released.recoveryAge = Unset
  BY DEF ResetPredictor, Controller
<1>4. RequestRestore(k, t) = IF refused THEN k
                             ELSE IF k.sampleAge >= LossLimit THEN revoked ELSE released
  BY DEF RequestRestore
<1>5. ~refused => k.samples > 0
  BY PolicyAssumption DEF Controller
<1> HIDE DEF revoked, released
<1> QED  BY <1>1, <1>2, <1>3, <1>4, <1>5 DEF Coherent, SampleStamped, Inert, Releases

-----------------------------------------------------------------------------
(* What the calls keep beside the latch: the configuration, which only     *)
(* UpdateWorkingConfig changes, and the verdict of a hot reading.          *)

(* The fields of a configuration.                                          *)
LEMMA ConfigType ==
  ASSUME NEW cfg \in Configs
  PROVE  /\ cfg.normal \in Nat /\ cfg.safe \in Nat
         /\ cfg.trigger \in Int /\ cfg.auto \in BOOLEAN
         /\ RecoveryTemperature(cfg) \in Int
BY PolicyAssumption DEF ConfigShape, RecoveryTemperature

LEMMA FreshKeeps ==
  ASSUME NEW cfg \in Configs
  PROVE  /\ Fresh(cfg).cfg = cfg
         /\ ~Fresh(cfg).latched
         /\ Fresh(cfg).state = "MonitorOnly" => IsMonitorOnly(cfg)
BY DEF Fresh

LEMMA ElapsedKeeps ==
  ASSUME NEW k \in Controller, NEW d
  PROVE  /\ Elapsed(k, d).cfg = k.cfg
         /\ Elapsed(k, d).state = k.state
         /\ Elapsed(k, d).latched = k.latched
BY DEF Elapsed, Controller

LEMMA UpdateKeeps ==
  ASSUME NEW k \in Controller, NEW cfg
  PROVE  /\ UpdateWorkingConfig(k, cfg).cfg = cfg
         /\ UpdateWorkingConfig(k, cfg).latched = k.latched
BY DEF UpdateWorkingConfig, Controller

(* A reading at the trigger temperature or above leaves a guarding         *)
(* controller latched, and not ready to restore.                           *)
LEMMA ObserveKeeps ==
  ASSUME NEW k \in Controller, Coherent(k),
         NEW t \in Int, NEW delayed \in BOOLEAN, NEW rising \in BOOLEAN
  PROVE  LET after == ObserveTemperature(k, t, delayed, rising)
         IN  /\ after.cfg = k.cfg
             /\ ~IsMonitorOnly(k.cfg) /\ t >= k.cfg.trigger
                  => after.latched /\ after.state = "SafeLatched"
<1> DEFINE after == ObserveTemperature(k, t, delayed, rising)
           s == Sampled(k)
<1>1. /\ s \in Controller /\ s.cfg = k.cfg /\ s.latched = k.latched
      /\ k.cfg \in Configs
  BY SampledSound DEF Controller
<1>2. CASE Inert(k)
  BY <1>2 DEF ObserveTemperature, Inert, Coherent
<1>3. CASE ~Inert(k) /\ k.latched
  <2>1. after = Cool(s, t)
    BY <1>3 DEF ObserveTemperature
  <2>2. Cool(s, t).latched /\ Cool(s, t).cfg = s.cfg
    BY <1>1, <1>3, CoolSound
  <2>3. ASSUME t >= k.cfg.trigger
        PROVE  Cool(s, t).state = "SafeLatched"
    <3>1. ~(t <= RecoveryTemperature(s.cfg))
      BY <1>1, <2>3, ConfigType, PolicyAssumption DEF RecoveryTemperature
    <3>2. Cool(s, t) = [s EXCEPT !.recoveryAge = Unset, !.state = "SafeLatched"]
      BY <3>1 DEF Cool
    <3> QED  BY <1>1, <3>2 DEF Controller
  <2> QED  BY <1>1, <2>1, <2>2, <2>3
<1>4. CASE ~Inert(k) /\ ~k.latched
  <2>1. after = Watch(s, t, delayed, rising)
    BY <1>4 DEF ObserveTemperature
  <2>2. /\ Trip(s).cfg = s.cfg /\ Trip(s).latched /\ Trip(s).state = "SafeLatched"
        /\ [s EXCEPT !.hits = 1, !.state = "PreTrip"].cfg = s.cfg
        /\ [s EXCEPT !.hits = 0, !.state = "Armed"].cfg = s.cfg
    BY <1>1 DEF Trip, Controller
  <2>3. t >= k.cfg.trigger => after = Trip(s)
    BY <1>1, <2>1 DEF Watch, MustTrip
  <2> QED  BY <1>1, <2>1, <2>2, <2>3 DEF Watch
<1> QED  BY <1>2, <1>3, <1>4

LEMMA UnavailableKeeps ==
  ASSUME NEW k \in Controller
  PROVE  SensorUnavailable(k).cfg = k.cfg
BY DEF SensorUnavailable, Trip, Controller

(* Only an offered restore changes anything.                               *)
LEMMA RequestKeeps ==
  ASSUME NEW k, NEW t, k.state # "ReadyToRestore"
  PROVE  RequestRestore(k, t) = k
BY DEF RequestRestore
=============================================================================
