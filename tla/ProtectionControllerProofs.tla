---------------------- MODULE ProtectionControllerProofs ----------------------
(***************************************************************************)
(* Theorems about ProtectionController for every configuration set, every  *)
(* set of temperatures and delays and every value of the thresholds.       *)
(*                                                                         *)
(* IInv joins Coherent, which every call preserves (ProtectionPolicyProofs), *)
(* with what ties the controller's own stamps to what was seen from        *)
(* outside: as long as the cooling clock runs, the run of cool readings is *)
(* at least as old, and the last sample is as old as the last reading.     *)
(* None of the properties is inductive without it.                         *)
(***************************************************************************)
EXTENDS ProtectionController, ProtectionPolicyProofs

(* The clock of ReadyToRestore never runs ahead of the GPU.                *)
ClockIsEarned ==
  c.recoveryAge # Unset =>
    /\ coolRun >= c.recoveryAge
    /\ c.sampleAge = quiet

(* A blind controller dates the loss at least as far back as the readings. *)
LossIsDated ==
  blind # Unset => lost /\ (Inert(c) \/ c.lostAge >= blind)

IInv ==
  /\ ControllerTypeOK
  /\ Coherent(c)
  /\ ClockIsEarned
  /\ LossIsDated

LEMMA InitSound == ControllerInit => IInv
<1> SUFFICES ASSUME ControllerInit PROVE IInv
  OBVIOUS
<1>1. c \in Controller /\ Coherent(c)
  BY FreshSound DEF ControllerInit
<1>2. c.recoveryAge = Unset
  BY DEF ControllerInit, Fresh
<1>3. 0 \in 0 .. LossLimit
  BY PolicyAssumption
<1>4. ControllerTypeOK
  BY <1>1, <1>3, Values DEF ControllerInit, ControllerTypeOK
<1>5. ClockIsEarned /\ LossIsDated
  BY <1>2 DEF ControllerInit, ClockIsEarned, LossIsDated
<1> QED  BY <1>1, <1>4, <1>5 DEF IInv

-----------------------------------------------------------------------------
(* Each step preserves IInv. *)

LEMMA ElapseSound ==
  ASSUME IInv, NEW d \in 1 .. LossLimit, TimePasses(d)
  PROVE  IInv'
<1>1. d \in Nat
  BY PolicyAssumption
<1>2. c' \in Controller /\ Coherent(c)'
  BY <1>1, ElapsedSound DEF IInv, ControllerTypeOK, TimePasses, Coherent, SampleStamped
<1>3. /\ c'.recoveryAge = Aged(c.recoveryAge, d, RecoveryStable)
      /\ c'.sampleAge = Aged(c.sampleAge, d, LossLimit)
      /\ c'.lostAge = Aged(c.lostAge, d, LossLimit)
      /\ Inert(c)' <=> Inert(c)
  BY DEF TimePasses, Elapsed, IInv, ControllerTypeOK, Controller, Inert
<1>4. ControllerTypeOK'
  BY <1>1, <1>2, PolicyAssumption DEF IInv, ControllerTypeOK, TimePasses, Aged, Unset
<1>5. ClockIsEarned'
  BY <1>1, <1>3, PolicyAssumption
     DEF IInv, ClockIsEarned, TimePasses, Aged, Unset, ControllerTypeOK, Controller
<1>6. LossIsDated'
  BY <1>1, <1>3, PolicyAssumption
     DEF IInv, LossIsDated, TimePasses, Aged, Unset, ControllerTypeOK, Controller
<1> QED  BY <1>2, <1>4, <1>5, <1>6 DEF IInv

LEMMA ReadTemperatureSound ==
  ASSUME IInv, NEW t \in Temps, NEW delayed \in BOOLEAN, NEW rising \in BOOLEAN,
         ReadTemperature(t, delayed, rising)
  PROVE  IInv'
<1> DEFINE back == IF lost THEN SensorRecovered(c) ELSE c
<1>1. /\ back \in Controller /\ Coherent(back)
      /\ back.latched = c.latched /\ back.cfg = c.cfg
      /\ back.recoveryAge # Unset => ~lost /\ back = c
  BY RecoveredSound DEF IInv, ControllerTypeOK
<1>2. c' = ObserveTemperature(back, t, delayed, rising)
  BY DEF ReadTemperature
<1> HIDE DEF back
<1>3. /\ c' \in Controller /\ Coherent(c')
      /\ back.latched =>
           /\ c'.sampleAge = 0
           /\ c'.recoveryAge =
                IF t <= RecoveryTemperature(back.cfg)
                THEN IF Discontinuity(back) \/ back.recoveryAge = Unset
                     THEN 0 ELSE back.recoveryAge
                ELSE Unset
      /\ ~back.latched => c'.recoveryAge = Unset
  <2>1. t \in Int
    BY PolicyAssumption
  <2> QED BY <2>1, <1>1, <1>2, ObserveSound
<1>4. ControllerTypeOK'
  <2>1. CoolRunAfter(t) \in Unset .. RecoveryStable
    BY PolicyAssumption DEF IInv, ControllerTypeOK, CoolRunAfter, Unset
  <2>2. 0 \in 0 .. LossLimit
    BY PolicyAssumption
  <2>3. /\ lost' \in BOOLEAN
        /\ temp' \in Temps \cup {Unset}
        /\ quiet' \in 0 .. LossLimit
        /\ coolRun' \in Unset .. RecoveryStable
        /\ blind' \in Unset .. LossLimit
    BY <2>1, <2>2, Values DEF ReadTemperature
  <2> QED  BY <1>3, <2>3 DEF ControllerTypeOK
<1>5. ClockIsEarned'
  <2>1. RecoveryTemperature(c.cfg) \in Int /\ t \in Int
    BY PolicyAssumption
       DEF IInv, ControllerTypeOK, Controller, ConfigShape, RecoveryTemperature
  <2>2. SUFFICES ASSUME c'.recoveryAge # Unset
                 PROVE  coolRun' >= c'.recoveryAge /\ c'.sampleAge = quiet'
    BY DEF ClockIsEarned
  <2>3. back.latched /\ t <= RecoveryTemperature(c.cfg) /\ c'.sampleAge = quiet'
    BY <1>1, <1>3, <2>2 DEF ReadTemperature
  <2>4. CASE back.recoveryAge = Unset \/ Discontinuity(back)
    BY <1>1, <1>3, <2>1, <2>3, <2>4 DEF IInv, ControllerTypeOK, ReadTemperature, CoolRunAfter, Unset
  <2>5. CASE back.recoveryAge # Unset /\ ~Discontinuity(back)
    <3>1. coolRun >= c.recoveryAge /\ c.sampleAge = quiet /\ c.samples > 0 /\ coolRun # Unset
      BY <1>1, <2>5, PolicyAssumption
         DEF IInv, ClockIsEarned, Coherent, ControllerTypeOK, Controller, Unset
    <3>2. quiet < LossLimit
      BY <1>1, <2>5, <3>1, PolicyAssumption DEF Discontinuity, IInv, ControllerTypeOK
    <3>3. coolRun' = coolRun
      BY <2>1, <2>3, <3>1, <3>2, PolicyAssumption
         DEF ReadTemperature, CoolRunAfter, IInv, ControllerTypeOK
    <3> QED  BY <1>1, <1>3, <2>3, <2>5, <3>1, <3>3
  <2> QED  BY <2>4, <2>5
<1>6. LossIsDated'
  BY DEF LossIsDated, ReadTemperature
<1> QED  BY <1>3, <1>4, <1>5, <1>6 DEF IInv

LEMMA ReadFailsSound ==
  ASSUME IInv, ReadFails
  PROVE  IInv'
<1>1. /\ c' \in Controller /\ Coherent(c')
      /\ c'.recoveryAge = Unset
      /\ Inert(c) => c' = c
      /\ ~Inert(c) => /\ c'.lostAge >= 0
                      /\ c.lostAge # Unset => c'.lostAge = c.lostAge
  BY UnavailableSound DEF IInv, ControllerTypeOK, ReadFails
<1>2. ControllerTypeOK'
  BY <1>1, PolicyAssumption DEF IInv, ControllerTypeOK, ReadFails, Unset
<1>3. ClockIsEarned'
  BY <1>1 DEF ClockIsEarned
<1>4. LossIsDated'
  BY <1>1, PolicyAssumption
     DEF LossIsDated, ReadFails, IInv, Inert, ControllerTypeOK, Controller, Unset
<1> QED  BY <1>1, <1>2, <1>3, <1>4 DEF IInv

LEMMA RestoreSound ==
  ASSUME IInv, NEW verified \in BOOLEAN, Restore(verified)
  PROVE  IInv'
<1> DEFINE candidate == RequestRestore(c, temp)
<1>1. /\ candidate \in Controller /\ Coherent(candidate)
      /\ candidate = c \/ candidate.recoveryAge = Unset
  BY RequestRestoreSound DEF IInv, ControllerTypeOK
<1>2. c' \in {c, candidate} /\ UNCHANGED <<lost, temp, quiet, coolRun, blind>> /\ ~lost
  BY DEF Restore, watched
<1> HIDE DEF candidate
<1>3. ControllerTypeOK' /\ Coherent(c')
  BY <1>1, <1>2 DEF IInv, ControllerTypeOK
<1>4. ClockIsEarned' /\ LossIsDated'
  BY <1>1, <1>2 DEF IInv, ClockIsEarned, LossIsDated
<1> QED  BY <1>3, <1>4 DEF IInv

LEMMA TakeLatchSound ==
  ASSUME IInv, TakeLatch
  PROVE  IInv'
<1>1. /\ c' \in Controller /\ Coherent(c')
      /\ c'.recoveryAge = Unset
      /\ c'.lostAge = c.lostAge
      /\ Inert(c) => c' = c
  BY RestorePersistedSound DEF IInv, ControllerTypeOK, TakeLatch
<1>2. UNCHANGED <<lost, temp, quiet, coolRun, blind>>
  BY DEF TakeLatch, watched
<1>3. ControllerTypeOK'
  BY <1>1, <1>2 DEF IInv, ControllerTypeOK
<1>4. ClockIsEarned' /\ LossIsDated'
  BY <1>1, <1>2 DEF IInv, ClockIsEarned, LossIsDated, Inert
<1> QED  BY <1>1, <1>3, <1>4 DEF IInv

LEMMA ApplySound ==
  ASSUME IInv, NEW cfg \in Configs, Apply(cfg)
  PROVE  IInv'
<1>1. c' \in Controller /\ Coherent(c')
  BY UpdateSound DEF IInv, ControllerTypeOK, Apply
<1>2. c'.recoveryAge = Unset
  BY DEF Apply, Configurable, UpdateWorkingConfig, IInv, ControllerTypeOK, Controller, Coherent
<1>3. ControllerTypeOK'
  BY <1>1, PolicyAssumption DEF IInv, ControllerTypeOK, Apply, Unset
<1>4. ClockIsEarned' /\ LossIsDated'
  BY <1>2 DEF IInv, ClockIsEarned, LossIsDated, Apply
<1> QED  BY <1>1, <1>3, <1>4 DEF IInv

LEMMA StutterSound ==
  ASSUME IInv, UNCHANGED controller
  PROVE  IInv'
BY DEF IInv, ControllerTypeOK, Coherent, SampleStamped, ClockIsEarned, LossIsDated, controller,
       watched,
       Inert

LEMMA NextSound == IInv /\ [ControllerNext]_controller => IInv'
<1> SUFFICES ASSUME IInv, [ControllerNext]_controller PROVE IInv'
  OBVIOUS
<1>1. CASE \E d \in 1 .. LossLimit : TimePasses(d)
  BY <1>1, ElapseSound
<1>2. CASE \E t \in Temps, delayed, rising \in BOOLEAN : ReadTemperature(t, delayed, rising)
  BY <1>2, ReadTemperatureSound
<1>3. CASE ReadFails
  BY <1>3, ReadFailsSound
<1>4. CASE \E verified \in BOOLEAN : Restore(verified)
  BY <1>4, RestoreSound
<1>5. CASE TakeLatch
  BY <1>5, TakeLatchSound
<1>6. CASE \E cfg \in Configs : Apply(cfg)
  BY <1>6, ApplySound
<1>7. CASE UNCHANGED controller
  BY <1>7, StutterSound
<1> QED  BY <1>1, <1>2, <1>3, <1>4, <1>5, <1>6, <1>7 DEF ControllerNext

(* The invariant behind all the others: the controller's private clocks    *)
(* agree with what could be seen from outside, after every call.           *)
THEOREM Inductive == ControllerSpec => []IInv
<1> QED  BY InitSound, NextSound, PTL DEF ControllerSpec

-----------------------------------------------------------------------------
(* The controller's variables stay in their ranges.                        *)
THEOREM TypeCorrect == ControllerSpec => []ControllerTypeOK
<1>1. IInv => ControllerTypeOK
  BY DEF IInv
<1> QED  BY <1>1, Inductive, PTL

(* A restore is offered only after the GPU was seen cool, without a break, *)
(* for the whole stable-cooling window (ReadyMeansCooled).                 *)
THEOREM ReadyIsEarned == ControllerSpec => []ReadyMeansCooled
<1>1. IInv => ReadyMeansCooled
  BY PolicyAssumption DEF IInv, ClockIsEarned, Coherent, ReadyMeansCooled, Unset
<1> QED  BY <1>1, Inductive, PTL

(* A configuration with nothing to do is never latched and is MonitorOnly; *)
(* every other one is never MonitorOnly (MonitorOnlyIsQuiet).              *)
THEOREM MonitorOnlyHasNoLatch == ControllerSpec => []MonitorOnlyIsQuiet
<1>1. IInv => MonitorOnlyIsQuiet
  BY DEF IInv, Coherent, MonitorOnlyIsQuiet
<1> QED  BY <1>1, Inductive, PTL

(* Of all actions only a restore opens the latch, and RequestRestore then  *)
(* found the clock at its end, a sample and a temperature in range.        *)
LEMMA OnlyRestoreReleases ==
  ASSUME IInv, [ControllerNext]_controller, Releases(c, c')
  PROVE  /\ \E verified \in BOOLEAN : Restore(verified)
         /\ c.recoveryAge = RecoveryStable
         /\ c.samples > 0
         /\ ~(c.sampleAge >= LossLimit)
         /\ ~(temp > RecoveryTemperature(c.cfg))
         /\ c'.recoveryAge = Unset
<1>1. CASE \E d \in 1 .. LossLimit : TimePasses(d)
  BY <1>1 DEF TimePasses, Elapsed, Releases, IInv, ControllerTypeOK, Controller
<1>2. CASE \E t \in Temps, delayed, rising \in BOOLEAN : ReadTemperature(t, delayed, rising)
  <2>1. PICK t \in Temps, delayed, rising \in BOOLEAN : ReadTemperature(t, delayed, rising)
    BY <1>2
  <2> DEFINE back == IF lost THEN SensorRecovered(c) ELSE c
  <2>2. back \in Controller /\ Coherent(back) /\ back.latched = c.latched
    BY RecoveredSound DEF IInv, ControllerTypeOK
  <2>3. c' = ObserveTemperature(back, t, delayed, rising)
    BY <2>1 DEF ReadTemperature
  <2> HIDE DEF back
  <2>4. back.latched => c'.latched
    BY <2>2, <2>3, ObserveSound, PolicyAssumption
  <2> QED  BY <2>2, <2>4 DEF Releases
<1>3. CASE ReadFails
  BY <1>3, UnavailableSound DEF ReadFails, Releases, IInv, ControllerTypeOK
<1>4. CASE \E verified \in BOOLEAN : Restore(verified)
  <2> DEFINE candidate == RequestRestore(c, temp)
  <2>1. c' = c \/ c' = candidate
    BY <1>4 DEF Restore
  <2>2. \/ candidate = c
        \/ c.latched /\ candidate.latched /\ candidate.recoveryAge = Unset
        \/ /\ Releases(c, candidate)
           /\ candidate.recoveryAge = Unset
           /\ c.recoveryAge = RecoveryStable
           /\ c.samples > 0
           /\ ~(c.sampleAge >= LossLimit)
           /\ ~(temp > RecoveryTemperature(c.cfg))
    BY RequestRestoreSound DEF IInv, ControllerTypeOK
  <2> HIDE DEF candidate
  <2> QED  BY <1>4, <2>1, <2>2 DEF Releases
<1>5. CASE TakeLatch
  BY <1>5, RestorePersistedSound DEF TakeLatch, Releases, Inert, IInv, ControllerTypeOK
<1>6. CASE \E cfg \in Configs : Apply(cfg)
  BY <1>6 DEF Apply, Configurable, Releases
<1>7. CASE UNCHANGED controller
  BY <1>7 DEF controller, Releases
<1> QED  BY <1>1, <1>2, <1>3, <1>4, <1>5, <1>6, <1>7 DEF ControllerNext

(* The latch opens only on evidence that still holds (RestoreIsFresh): the *)
(* card has been seen cool for the whole recovery time, its last reading   *)
(* is young and at or below the recovery temperature.                      *)
THEOREM RestoreOnEvidence == ControllerSpec => RestoreIsFresh
<1>1. IInv /\ [ControllerNext]_controller =>
        [Releases(c, c') => /\ coolRun >= RecoveryStable
                            /\ quiet < LossLimit
                            /\ temp <= RecoveryTemperature(c.cfg)]_controller
  <2> SUFFICES ASSUME IInv, [ControllerNext]_controller, Releases(c, c')
               PROVE  /\ coolRun >= RecoveryStable
                      /\ quiet < LossLimit
                      /\ temp <= RecoveryTemperature(c.cfg)
    OBVIOUS
  <2>1. c.recoveryAge = RecoveryStable /\ c.recoveryAge # Unset
    BY OnlyRestoreReleases, PolicyAssumption DEF Unset
  <2>2. coolRun >= RecoveryStable /\ c.sampleAge = quiet
    BY <2>1 DEF IInv, ClockIsEarned
  <2>3. quiet \in Int /\ LossLimit \in Int
    BY PolicyAssumption DEF IInv, ControllerTypeOK
  <2>4. temp \in Int /\ RecoveryTemperature(c.cfg) \in Int
    BY PolicyAssumption
       DEF IInv, ControllerTypeOK, Controller, ConfigShape, RecoveryTemperature, Unset
  <2> QED  BY <2>2, <2>3, <2>4, OnlyRestoreReleases
<1> QED  BY <1>1, Inductive, PTL DEF ControllerSpec, RestoreIsFresh

(* A blind guard trips (BlindnessTrips).                                   *)
THEOREM BlindGuardTrips == ControllerSpec => BlindnessTrips
<1>1. IInv /\ [ControllerNext]_controller =>
        [ReadFails /\ blind >= LossLimit => c'.latched \/ Inert(c)]_controller
  <2> SUFFICES ASSUME IInv, ReadFails, blind >= LossLimit, ~Inert(c)
               PROVE  c'.latched
    OBVIOUS
  <2>1. blind \in Int /\ blind # Unset /\ LossLimit \in Int /\ c.lostAge \in Int
    BY PolicyAssumption DEF IInv, ControllerTypeOK, Controller, Unset
  <2>2. c.lostAge >= blind /\ c.lostAge # Unset
    BY <2>1, PolicyAssumption DEF IInv, LossIsDated, Unset
  <2>3. /\ c'.lostAge = c.lostAge
        /\ c'.lostAge >= LossLimit => c'.latched
    BY <2>2, UnavailableSound DEF IInv, ControllerTypeOK, ReadFails
  <2> QED  BY <2>1, <2>2, <2>3
<1> QED  BY <1>1, Inductive, PTL DEF ControllerSpec, BlindnessTrips

-----------------------------------------------------------------------------
(* Refinement: the abstract latch sees a step of its own or nothing.       *)

calm == IF c.latched THEN c.recoveryAge ELSE Unset

LEMMA LatchInit == ControllerInit => Latch!Init
<1> SUFFICES ASSUME ControllerInit PROVE Latch!Init
  OBVIOUS
<1>1. PICK cfg \in Configs : c = Fresh(cfg)
  BY DEF ControllerInit
<1> QED  BY <1>1 DEF Fresh, Latch!Init, Latch!Never, Unset

LEMMA LatchNext == IInv /\ [ControllerNext]_controller => [Latch!Next]_Latch!vars
<1> SUFFICES ASSUME IInv, [ControllerNext]_controller PROVE [Latch!Next]_Latch!vars
  OBVIOUS
<1> USE DEF Latch!vars
<1>a. /\ c \in Controller /\ Coherent(c)
      /\ c.latched \in BOOLEAN
      /\ calm = c.recoveryAge
  BY DEF IInv, ControllerTypeOK, Controller, Coherent, calm
<1>b. IInv'
  BY NextSound
<1>c. /\ c' \in Controller /\ c'.latched \in BOOLEAN
      /\ calm' = c'.recoveryAge
  BY <1>b DEF IInv, ControllerTypeOK, Controller, Coherent, calm
<1>1. ASSUME NEW d \in 1 .. LossLimit, TimePasses(d)
      PROVE  [Latch!Next]_Latch!vars
  <2>1. c'.latched = c.latched /\ c'.recoveryAge = Aged(c.recoveryAge, d, RecoveryStable)
    BY <1>1, <1>a DEF TimePasses, Elapsed, Controller
  <2>2. CASE c.recoveryAge = Unset
    BY <2>1, <2>2, <1>a, <1>c DEF Aged, calm
  <2>3. CASE c.recoveryAge # Unset
    <3>1. c.latched
      BY <2>3, <1>a DEF Coherent
    <3>2. Latch!Watch(d)
      BY <2>1, <2>3, <3>1, <1>a, <1>c DEF Latch!Watch, Latch!Never, Aged, Unset, calm
    <3> QED  BY <3>2, <1>1 DEF Latch!Next
  <2> QED  BY <2>2, <2>3
<1>2. ASSUME NEW t \in Temps, NEW delayed \in BOOLEAN, NEW rising \in BOOLEAN,
             ReadTemperature(t, delayed, rising)
      PROVE  [Latch!Next]_Latch!vars
  <2> DEFINE back == IF lost THEN SensorRecovered(c) ELSE c
  <2>1. /\ back \in Controller /\ Coherent(back) /\ back.latched = c.latched
        /\ back.recoveryAge \in {c.recoveryAge, Unset}
    BY <1>a, RecoveredSound
  <2>2. c' = ObserveTemperature(back, t, delayed, rising)
    BY <1>2 DEF ReadTemperature
  <2> HIDE DEF back
  <2>3. t \in Int
    BY PolicyAssumption
  <2>4. /\ back.latched =>
             /\ c'.latched
             /\ c'.recoveryAge =
                  IF t <= RecoveryTemperature(back.cfg)
                  THEN IF Discontinuity(back) \/ back.recoveryAge = Unset
                       THEN 0 ELSE back.recoveryAge
                  ELSE Unset
        /\ ~back.latched => c'.recoveryAge = Unset
    BY <2>1, <2>2, <2>3, ObserveSound
  <2>5. /\ back.latched => c'.latched /\ c'.recoveryAge \in {0, Unset, back.recoveryAge}
        /\ ~back.latched => c'.recoveryAge = Unset
    BY <2>4
  <2>6. CASE ~c.latched /\ ~c'.latched
    BY <2>6, <1>a, <1>c, <2>1, <2>5 DEF Coherent, calm
  <2>7. CASE ~c.latched /\ c'.latched
    <3>1. Latch!Engage
      BY <2>7, <1>a, <1>c, <2>1, <2>5 DEF Latch!Engage, Latch!Never, Unset, calm
    <3> QED  BY <3>1 DEF Latch!Next
  <2>8. CASE c.latched
    <3>1. c'.latched /\ (c'.recoveryAge = c.recoveryAge \/ c'.recoveryAge \in {0, Unset})
      BY <2>8, <2>1, <2>5
    <3>2. CASE c'.recoveryAge = c.recoveryAge
      BY <3>1, <3>2, <2>8, <1>a, <1>c DEF calm
    <3>3. CASE c'.recoveryAge \in {0, Unset}
      <4>1. Latch!Interrupt
        BY <3>1, <3>3, <2>8, <1>a, <1>c DEF Latch!Interrupt, Latch!Never, Unset, calm
      <4> QED  BY <4>1 DEF Latch!Next
    <3> QED  BY <3>1, <3>2, <3>3
  <2> QED  BY <2>6, <2>7, <2>8
<1>3. CASE ReadFails
  <2>1. c'.recoveryAge = Unset /\ (c.latched => c'.latched)
    BY <1>3, <1>a, UnavailableSound DEF ReadFails
  <2>2. CASE ~c.latched /\ ~c'.latched
    BY <2>1, <2>2, <1>a, <1>c DEF Coherent, calm
  <2>3. CASE c'.latched
    <3>1. Latch!Engage
      BY <2>1, <2>3, <1>c DEF Latch!Engage, Latch!Never, Unset, calm
    <3> QED  BY <3>1 DEF Latch!Next
  <2> QED  BY <2>1, <2>2, <2>3
<1>4. CASE \E verified \in BOOLEAN : Restore(verified)
  <2> DEFINE candidate == RequestRestore(c, temp)
  <2>1. c' = c \/ c' = candidate
    BY <1>4 DEF Restore
  <2>2. \/ candidate = c
        \/ c.latched /\ candidate.latched /\ candidate.recoveryAge = Unset
        \/ /\ Releases(c, candidate)
           /\ candidate.recoveryAge = Unset
           /\ c.recoveryAge = RecoveryStable
    BY <1>a, RequestRestoreSound
  <2> HIDE DEF candidate
  <2>3. CASE c' = c
    BY <2>3, <1>a, <1>c DEF calm
  <2>4. CASE c.latched /\ c'.latched /\ c'.recoveryAge = Unset
    <3>1. Latch!Interrupt
      BY <2>4, <1>a, <1>c DEF Latch!Interrupt, Latch!Never, Unset, calm
    <3> QED  BY <3>1 DEF Latch!Next
  <2>5. CASE Releases(c, c') /\ c'.recoveryAge = Unset /\ c.recoveryAge = RecoveryStable
    <3>1. Latch!Release
      BY <2>5, <1>a, <1>c DEF Latch!Release, Latch!Never, Releases, Unset, calm
    <3> QED  BY <3>1 DEF Latch!Next
  <2> QED  BY <2>1, <2>2, <2>3, <2>4, <2>5
<1>5. CASE TakeLatch
  <2>1. /\ c'.recoveryAge = Unset
        /\ Inert(c) => c' = c
        /\ ~Inert(c) => c'.latched
    BY <1>5, <1>a, RestorePersistedSound DEF TakeLatch
  <2>2. CASE c' = c
    BY <2>2, <1>a, <1>c DEF calm
  <2>3. CASE c'.latched
    <3>1. Latch!Engage
      BY <2>1, <2>3, <1>c DEF Latch!Engage, Latch!Never, Unset, calm
    <3> QED  BY <3>1 DEF Latch!Next
  <2> QED  BY <2>1, <2>2, <2>3
<1>6. CASE \E cfg \in Configs : Apply(cfg)
  <2>1. c'.latched = c.latched /\ c'.recoveryAge = c.recoveryAge
    BY <1>6, <1>a DEF Apply, UpdateWorkingConfig, Controller
  <2> QED  BY <2>1, <1>a, <1>c DEF calm
<1>7. CASE UNCHANGED controller
  BY <1>7 DEF controller, calm
<1> QED  BY <1>1, <1>2, <1>3, <1>4, <1>5, <1>6, <1>7 DEF ControllerNext

(* The controller implements the safe latch of SafeLatch (ImplementsSafeLatch): *)
(* it engages at will, but opens only after unbroken, watched cooling.     *)
THEOREM ControllerImplementsLatch == ControllerSpec => ImplementsSafeLatch
<1> QED  BY LatchInit, LatchNext, Inductive, PTL DEF ControllerSpec, ImplementsSafeLatch, Latch!Spec
=============================================================================
