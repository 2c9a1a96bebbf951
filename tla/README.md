# A verification project for GPU Thermal Guard

GPU Thermal Guard watches the temperature of an NVIDIA card and, when it comes
too close to a limit, lowers the card's power limit and keeps it low (the *safe
latch*) until the card has been cool for long enough. Around that core it has a
Windows service that can take the guard over, a supervisor that replaces a dead
tray process, a desktop OSD with charts, frame rates and network figures, and an
overlay that draws the same figures inside a game. These TLA+ modules describe
the parts on which its promises rest, the TLC configurations check them on small
instances, and the proof modules prove the most important statements for every
value of the constants.

Paths below are those of the repository (`src/core/...`, `overlay/...`);
`PROJECT.json` maps every definition to its lines.

## 1. Inventory

### 1.1 The guard
*Thermal state machine* (`src/core/protection.cpp`). A configuration, a state
(`Armed`, `MonitorOnly`, `PreTrip`, `SafeLatched`, `ReadyToRestore`,
`GpuUnavailable`, `Fault`), the latch, a ring of samples, when cooling began, when
the sensor was lost. Hard: long sequences of legal calls, gaps in time, a restore
with an old reading. Correct when a release rests on a complete, unbroken, still
fresh run of cool readings, and a blind guard trips.

*Local protection worker* (`src/protection/local_protection_worker.cpp`). One loop
every 200 ms: read, decide, trip, apply, restore, retry, publish; `Start`, `Stop`,
`RequestApply`, `RequestManualRestore` from the UI thread. Hard: every power write
may fail or half succeed, other tools move the limit, the registry is written in
several steps, the process may die anywhere. Correct when a claimed safe limit is
in force, a recorded trip survives restarts, the limit is raised only on evidence.

*Service, pipe and tray window* (`src/service`, `src/ipc/client.cpp`,
`src/tray/main_dialog.cpp`). The service runs the same loop in another process;
`WriterLease` keeps the two apart; the window chooses between them and asks for a
restore over a pipe with a two-second lease. Hard: either side dies or hands over
at any point; an answer is lost after the restore happened; prompts nest. Correct
when there is one writer, no trip is forgotten, no consent is used twice.

*Supervisor* (`src/supervision`). Recovery duty, the card's identity, back-off and
watchdog, a mapping shared with the child. Correct when the same card is protected
after every restart, a fault leads to safe power, a user exit is final.

*Card, cadence, first run* (`src/nvml`, `src/timing`, `src/core/power_envelope.hpp`).
Binding by identity and one verified write; the slots the sensor is sampled at;
the limits proposed before anybody saved any.

### 1.2 The overlay in the game
*Drawing* (`overlay/integration/d3d12_*`): a lifecycle gate of four atomics, slots
and textures behind a fence, the order of draw and swap-chain transition.
*Pictures* (`overlay/ipc/osd_section.hpp`, `overlay/probe/published_bitmap.hpp`): a
double buffer in shared memory that nobody locks.
*What to draw on* (`overlay/injector`, `fresh_output.hpp`): which chain, queue and
output, with handover and probation.
*How it gets there* (`runtime.cpp`, `helper.cpp`, `install_policy.hpp`,
`staged_attach.hpp`): sessions, consent, the helper, readiness, staged
installation with rollback.

### 1.3 The desktop
*OSD* (`src/tray/osd_*.cpp`): shown or suppressed, actions with an indicator and a
worker of their own, its place above other windows and across restarts, the
arrangement of its cells. *Frame rate* (`src/fps`): the trace, the correlation of
presents with flips, rates, curve, play time. *Network* (`src/net`): rates and the
verdict on a path. *Log queue* (`src/logging`).

### 1.4 Interactions
The UI thread starts and stops the worker and talks to it through three atomics
(Apply mailbox, manual request, stop flag). The worker writes the card through
NVML and the registry through `settings`. Worker and UI report health into the
supervisor's mapping; the supervisor replaces the whole tray process and hands the
duty to latch to the next. The service does what the worker does; the UI stops its
worker when the service answers. The tray's timer follows the sessions of the
overlay, publishes pictures into a section per game, and hides the desktop OSD
while a game shows them.

## 2. Modules

| module | models | proofs |
| --- | --- | --- |
| `ProtectionPolicy` | `protection.cpp` as functions on a controller record (the code copies controllers by value) | `ProtectionPolicyProofs` |
| `ProtectionController`, `SafeLatch` | the controller driven as its owners drive it, beside observers that look only at the sensor; the abstract promise it implements | `ProtectionControllerProofs` |
| `LocalProtectionWorker` | the worker loop, UI requests, card, registry, crashes, other tools | `LocalProtectionWorkerProofs` |
| `ServicePipe`, `GuardOwnership` | the pipe as functions of its record; service and tray as two guards under one lease, the window's conversation and prompts | `GuardOwnershipProofs` |
| `Supervisor` | the supervisor, the mapping and the child's lifecycle | `SupervisorProofs` |
| `FirstRunLimits` | proposed limits, what is written before anybody saved any | `ProvedMechanisms` |
| `BoundCard`, `PollCadence` | one bound card and one verified write; slots, late wakes and overruns of the sampling loop | `ProvedMechanisms` |
| `LifecycleGate`, `DrawAdmission` | the gate of the overlay, step by step; the admission of draws it implements | `BackgroundProofs` |
| `OverlaySection` | the picture in shared memory, written and copied at the same time | `BackgroundProofs` |
| `OverlayDraw` | drawing against swap-chain transitions | `ProvedMechanisms` |
| `OverlayFrames` | slots and textures against the fence | `OverlayProofs` |
| `ChainSelection` | which backend, chain and queue are drawn with, and how a failure is told | `OverlayProofs` |
| `ChainHandoff`, `FreshOutput` | when a new chain takes over; the qualification of an output | `OverlayProofs` |
| `OverlaySessions` | the tray's sessions, the refused targets, the hotkey and the timer | `OverlayProofs` |
| `OverlayStart`, `StagedInstall` | helper, section, library and readiness; the hooks and their rollback | `OverlayProofs` |
| `FrameRateObserver` | the threads that follow the foreground, keep a trace and record its frames | `BackgroundProofs` |
| `DisplayedFrames` | which presents were displayed | `ProvedMechanisms` |
| `FrameRateWindow`, `FrameRateHistory` | the rate; its curve | |
| `PlayTime` | time played | `ProvedMechanisms` |
| `NetworkRate`, `PathVerdict` | the rate of the adapter that has the route; the verdict on a program's connections | `ProvedMechanisms` |
| `OsdPresence`, `OsdTopmost` | when the desktop OSD is shown, what it runs, its place above other windows | `BackgroundProofs` |
| `OsdPlacement` | its position over drags, monitors, scales and restarts | `ProvedMechanisms` |
| `CompactArrangement` | its cells | |
| `DeferredLog` | the log queue, one step per atomic, and its writer | `BackgroundProofs` |
| `ProvedMechanisms` | the composition (`CoreSpec`) of nine parts that share no state, with the proofs of all nine: `OverlayDraw`, `BoundCard`, `PollCadence`, `FirstRunLimits`, `OsdPlacement`, `PlayTime`, `NetworkRate`, `PathVerdict`, `DisplayedFrames` | itself |
| `OverlayProofs` | extends it: the composition (`OverlaySpec`) of the overlay's seven parts | itself |
| `MCMechanisms`, `MCBackground` | modules that share no state, checked in one run each: the initial state chooses the part that moves. `MCMechanisms` extends `OverlayProofs` and adds the three parts without a proof | |
| `MC...` | values of the constants | |

**Correspondence.** One action per operation or per stretch of code between two
effects that another actor can see. A step writes at most one of card, registry,
pipe, shared memory; whoever else acts may come between any two.

**Time.** The code keeps stamps and compares `now - stamp` with a limit. The models
keep the difference (an age), saturated at that limit, so that every comparison
has the code's answer and the state space is finite. Where timestamps of several
sources meet (rates, play time, network) the clock is kept, and bounded.

**Data.** Temperatures are one value per region of the policy; the slope of
`CalculateRiseRate` (floating point) is the Boolean `rising`; a picture is its
serial, a chain its address, a rate the set of frames it was made of.

**Observers** are variables the code does not have, named as such where they are
declared: `held` (a trip was recorded and no verified restore happened since),
`foreign` (another tool moved the limit), `consent` (what became of the user's
YES), `stale` (the local worker was told of the stored latch before the service
recorded a trip), `held` of the overlay (what is on the screen), `late` of the
log, and so on. No guard reads them.

**Worker.** `pc` names the point between two effects. `SetLimit(w, verified)` is
`SetBoundPowerLimitWatts`: a verified call has taken effect, a failed one may or
may not have. `lag` is how long ago this iteration took its reading. `Save` leaves
a mixture of old and new values when it fails or the process dies. `uiCfg` is the
window's own configuration: a worker started again in the same process uses it, a
new process loads the registry.

**Ownership.** Both guards run one chain of stages, `guard[g].pc`, with the
manual stage before the retry in the worker and after it, around the pipe, in the
service. The controller is abstracted to the choices `SafeLatch` leaves. The pipe
has one instance: what the server knows of it, what the client's end does, and
what lies in its two directions. `OnInitDialog` is one step.

Beside a definition some modules keep a second, mutated form of it (`Acquired` and
`AcquiredAlways`, `RequestRestore` and `RequestRestoreStale`, ...): the plausible
bug a property is there to catch. Substituting it makes TLC find that property
violated; `PROJECT.json` ("mutants") names one for every property of every passing
run. A few more are kept for properties that join several statements
(`AttemptsAddUp`, `AcceptedOnce`, `MayLoadAnyway`, `ConcludesClean`,
`CurrentUnchecked`, `AdvanceDeadlineInclusive`, `DeriveFromDefault`,
`RateAcrossAdapters`, `BaselineFromZero`, `AddLast` and others).

## 3. Runs

| run | question | states | result |
| --- | --- | --- | --- |
| `guardian` | is the latch honest against the sensor, and a safe latch; does the right card come back, at safe power? | 356 thousand | holds |
| `worker_guard` | is the guard honest under every failure? | 1.7 million | holds |
| `worker_apply` | does Apply keep the promises across configurations? | 2.4 million | holds |
| `worker_live` | does the guard act, answer and recover? | 154 thousand | holds |
| `ownership` | one writer, no trip forgotten, honest answers, and the guard comes back? | 172 thousand | holds |
| `mechanisms` | safety of nineteen modules that share no state | 1.4 million | holds |
| `background` | what must come to an end or come back, and what runs beside it | 365 thousand | holds |
| `monitor_writes` | "The guard watches and records, and never writes." | | violated |
| `monitor_armed` | MonitorOnly "must never be reported as `Armed`" | | violated |
| `apply_fails` | "Working power Apply failed; safe latch retained" | | violated |
| `nested_prompt` | "same latch must not create a nested prompt" | | violated |
| `first_run` | "nothing is changed before that" (Save & Apply) | | violated |

### 3.1 What the properties say
`guardian` runs `ProtectionController` and `Supervisor`, which share no state, as two
parts. Controller: `ReadyMeansCooled`, `RestoreIsFresh`, `BlindnessTrips` compare the
controller with observers of the sensor; `ImplementsSafeLatch` is the refinement.
`worker_*`: `ClaimIsHonest` (a published safe limit is in force unless another tool
moved it), `HotIterationEndsLatched` (Apply and restores in one iteration do not
add up to an unlatched hot card), `RecordedTripIsHeld` and `ApplyKeepsTrips`
(across crashes and Apply), `RaiseNeedsCooling`, `TripsCountedWhenVerified`; live:
`LimitComesDown`, `ApplyIsAnswered`, `CoolGuardRecovers`.
Supervisor: the identity and the duty to start at safe power get to the right
child; a user exit is final; a stuck child is replaced; protection returns.
`ownership`: `WriterIsOne`, `LatchHeld`, `ConsentPerRestore` (one YES, at most one
restore), `AnswerIsHonest` (what the tray is told of its YES is what became of it),
`GuardIsKept`.
`mechanisms`: `DrawsUnnoticed` (a game's resize never fails over buffers of the
overlay; nothing is drawn on a chain that was told to be something other than SDR
since the hooks came, and on a 10-bit one under the strict policy only if it was told
to be SDR. What a chain was set to before cannot be asked for: an 8-bit chain, or one
under the policy that assumes, may have been PQ), `NothingFreedInUse`,
`OneChainDrawn` (output, choice and handoff of the chain; it also carries the types of
`OverlayFrames`), `AttachedOnce` (sessions, start, installation),
`RatesAreTrue` (rate and curve), `ArrangementHolds`, `KeptAndCounted` (the place
of the OSD, play time, network rate, verdict, displayed frames), `SensedAndWritten`
(verified writes, sampled slots, limits raised no further than the user, another tool
or the program's own fallback goes).
`background`: `NoTornFrame` (what the game shows is one picture at one placement),
`AdmittedIsWritten`, `ReadingIsMeasured` (a rate shown was measured, for the program it is
shown for), `ActionIsWatched` (where Windows refused the timer of an action there is
none), `ShownAsWanted`; live: `TransitionDecides` and `SettlesDown`.

### 3.2 Bounds
*Guard.* Temperatures: cool (at or below the recovery temperature), between, inside
the prediction band, at the trigger; `guardian` has them for two triggers at
once. The loss limit and the cooling window are 2 to 4 units: a window can
complete, be broken, and outlast a gap. `MaxStall` equals the loss limit, so one
stall makes a reading stale. The restore budget has two attempts two units apart
in `worker_live` (used, waited for, exhausted, renewed), one in the larger runs.
`MaxTrips` caps a counter nothing else reads. `OutsideLimits` is the normal limit
(another tool undoing the guard). `worker_guard` lets registry writes fail;
`worker_apply` lets a crash cut a save, with a guarding configuration, what half a
save leaves, and a monitor-only one. The supervisor has two cards, two delays and two
faults: a second fault can hit the replacement at every point of its life.
`ownership`: a connection lease of one poll, one attempt, one prompt at a time;
`nested_prompt` two prompts and the trip count, which only the prompt gate reads.

*Card and first run.* Two cards, limits 1..3 of which the driver accepts two; three
cards with usable, odd and unknown ranges; the sampling period is 3 and time runs
to 14, so wakes are on time, late by less than, exactly, and more than a period.

*Overlay.* Two threads for drawing, three at the gate (all alike, so progress is asked of
one of them); one running frame; chains of every format, SDR or PQ when the hooks come;
two slots, four descriptors, four frames; a section of two buffers with three
pictures of two frames, so a buffer is lapped while it is copied; one to three
chains with two windows, three chains with two queues; two helpers of one game; a
session table of two slots; two threads and two methods to install with three
snapshot attempts.

*Figures.* Displayed frames: two surfaces, two presents, two flips, tables of two, and
one mishap (a gap of two seconds, a restart of DWM, or a trace that begins between an
event and what belongs to it).
Rate: three surfaces and a window, rings of two, all windows of time one unit; play
time three programs and a handover of four, so that three can take turns before the
first is given up; curve two. Network two adapters whose indices are not used
again, one change; verdict two connections, two events, and reads that fail at either
end of the window. OSD: four records of which two are optional, two other windows; one
screen, or a small one with the origin and one of twice its scale beside it. Log: two producers, a
ring of two, three records.

Each of these is the smallest value at which the case a property is about
happens: for every property the mutated form of one definition makes it fail
under the same bounds.

### 3.3 Fairness
`worker_live`: the thread goes on (weak: a thread of its own at raised priority
that never waits for the UI), time passes (strong, since `Start`/`Stop` may
interrupt a tick), and the driver does not refuse every write of the safe limit for
ever (strong fairness of `SafeWriteHolds`; without it the limit can never be known
to come down). `CoolGuardRecovers` excludes sensors that stay away, a user who keeps
asking for manual restores, and an exhausted budget, the code's documented end.

`guardian`: time, the supervisor's loop, Windows carrying out a termination, a
starting worker going on; reports, hangs and user actions have none.
`ProtectionReturns` says that once faults cease, a delay ends in protection.

`ownership`: the loops of service and worker and the UI thread go on (weak); a
query, a start of the worker and a successful initialization happen if they are
possible again and again (strong: probes of NVML may fail, but not always). A
service that finds a connection older than its lease at every poll may never be
found; `ServiceIsFound` excludes it.

`background`: a thread inside the gate goes on and its time passes; the tray's
timers run (those that Windows granted); an action's worker returns; other windows sometimes leave the top
(strong, `Lowers`); the helper and the installation go on, and a recovery
succeeds at last (strong, `RecoversWell`: the code retries without end).

### 3.4 Runs that find a violation
Three are about `MonitorOnly` (safe limit equal to the normal limit): a
monitor-only process that starts after a fault writes the limit and persists a
latch; the iteration that applies a monitor-only configuration still publishes
the state decided before it; a failed Apply in `MonitorOnly` reports a latch that
`RestorePersistedSafeLatch` refused. The fourth: a trip that is counted late, by
the retry that verifies its limit, is taken for a new trip and reopens the prompt
gate. The fifth: a first run whose window has proposed limits. The first worker was
started before, monitor-only; but one that is started after the proposal, because the
service that answered at start went away or the first worker ended, takes the proposed
limits from `config_`, trips, and writes the proposed safe limit, while the message on
the screen says that nothing is changed before Save & Apply. `MCFirstRun.cfg` has the
constants of `MCMechanisms.cfg` and that part only. `findings` in `PROJECT.json` quotes
the lines.

## 4. Proofs

All assumptions are the ones named in the modules (`PolicyAssumption`,
`WorkerAssumption`, `PipeAssumption`, `OwnershipAssumption`, ...: positive limits,
configurations of the right shape, non-empty sets); TLC evaluates them in the
runs. Each proof module follows one pattern: an inductive invariant `IInv` of named
parts, a lemma per action that it is kept, `Spec => []IInv`, then the properties
from `IInv`. Every `IInv` was first checked by TLC as an invariant on the instances
of the runs.

### 4.1 Controller
`Inductive` proves `IInv`: `ControllerTypeOK`; `Coherent` (state, latch and configuration
agree, the ring has a newest sample exactly when it is not empty); `ClockIsEarned`
(the cooling clock never runs ahead of the cool run seen from outside);
`LossIsDated`. `ReadyMeansCooled` alone is not inductive: a controller may keep its
clock over calls that do not show `ReadyToRestore`. From `IInv`: `TypeCorrect`,
`ReadyIsEarned`, `MonitorOnlyHasNoLatch`, and the action properties
`RestoreOnEvidence` and `BlindGuardTrips`. `ControllerImplementsLatch` is the
refinement of `SafeLatch` with `latched <- c.latched` and `calm <- recoveryAge`.

### 4.2 Worker
`WorkerInvariant` proves, for all configurations, temperatures and limits, what
holds at every `pc`:
- `ConfigsAreValid`, `MailboxHolds`: no thread starts with, runs with or stores a
  configuration `ValidateConfig` refuses; an Apply is answered by the iteration
  that took it and taken back before the next thread starts;
- `DecisionAgrees`: what the iteration decided is about the controller's latch,
  but for the two steps in which a failed Apply has just set it;
- `VerdictsHold`, `SafeIsInForce`: what `safe_limit_verified` is worth, stage by
  stage; before the write that a new latch calls for the flag is that of an
  earlier episode and says nothing, which is why the invariant excludes `trip` and
  `applyFallback`;
- `HotIsLatched`: a hot reading stays latched to the end of its iteration;
- `OneConfig`: without failing saves, thread, registry and window agree but while
  an Apply is answered;
- `TripIsKept`: a recorded trip is in the registry, in every controller from the
  first step of a thread, and the stored configuration is one that guards.

The last is proved under `SavesKeepGuarding` (`SavesMayFail` implies that no
configuration is monitor-only). Without it the statement is false, and TLC shows
why: a save of a guarding configuration over a monitor-only one that fails half
way leaves a monitor-only registry; a later trip is recorded, the process dies,
and the next one loads a configuration that refuses the latch. The hypothesis
holds of both worker runs that check these properties.
Theorems: `ClaimHonest`, `HotReadingLatches`, `AppliedHolds`, `TripIsHeld`,
`ApplyKeepsTheTrip`, `RaisesOnlyWhenCool`, `CountsOnlyVerified`.

### 4.3 Ownership
`OwnershipInvariant` proves, for every lease, budget, configuration and nesting of
prompts, with failing saves, the conjunction of
- `Ownership`: a guard in its loop owns the lease, the service gives it back last;
- `LatchIsKept`: a recorded trip is in the registry; between the release of the
  controller's latch and the save that says so nothing is recorded; stages that
  record a trip hold it;
- `Conversation`: `PipeInOrder` (a new connection is a clean slate, a request is
  answered at most once, an answer lies there for its reader only), `ServedAlone`
  (the request being served is the only one there is), `TalksAlone` (what lies in
  the pipe is what the UI thread asked), `YesIsUsedOnce` (a request for a restore
  that nobody executed yet stands for an unused YES; one that a dead tray left
  behind is over before the next tray asks its user), `VerdictIsTrue` (the answer
  says what became of the YES, in the service and on its way back).

The third conjunct of `YesIsUsedOnce` is the one that is easy to miss: the pipe
outlives the tray, so a request of a dead tray may be executed while the next tray
runs; it is harmless because the new tray cannot get an answer to its first query,
hence show a prompt, on the one instance before that request is gone.
Theorems: `NeverTwoWriters`, `TripOutlivesItsGuard`, `OneYesOneRestore`,
`AnswersAreHonest`.

### 4.4 Supervisor
`SupervisorInductive`: types; `Watched` (a living child belongs to a watching
supervisor); `IdentityCarried` (the card is in the supervisor, in the mapping, or
in the child about to announce it); `RecoveryCarried`; `CleanCarried`. From it
`SupervisorTypes`, `UserExitIsFinal`, `FaultIsInherited`, `IdentityIsKept`.

### 4.5 Lifecycle gate
`GateInvariant` proves, for every set of threads, `GateInv`: the types; `Owned` (whoever
is between `test_and_set` and `clear` holds the flag, and there is one such thread);
`Reserved` (between the exchange and the store that ends the transition the flag
belongs to one thread, and a flag that is up with nobody behind it means that the
overlay is disabled). Mutual exclusion alone is not inductive: the flag says nothing
of who raised it. From it `GateTypeCorrect`, `OneInside`,
`NoOrphanedReservation`, and `GateImplementsAdmission`: with `phase` read off the places of the threads, every step is a step
of `DrawAdmission` or a stutter.

### 4.6 Resources of the overlay
`FramesInductive` proves, for any number of slots, descriptors and frames:
- `ListsInOrder`: the lists the GPU has not finished carry growing fence values
  above the one it has reached; a list without one, because its signal failed, is
  the last, and the overlay has failed since;
- `SlotsAreHeld`, `TexturesAreHeld`: a list's slot is pending on that very value or
  quarantined, and a texture it draws is the current one or retired behind it;
- `OneIsOpen`, `DrainedMeansIdle`: a frame is recorded on a reserved slot and only
  while nothing failed, and a wait that was let through leaves no list.

`NothingFreedInUse` alone is not inductive: it does not say why a fence that was
passed covers the lists before it. `NothingIsFreedInUse` follows. The GPU is assumed
to run lists and signals in the order they were queued.

### 4.7 Shared picture
`SectionInvariant` proves, for every number of pictures, placements and resizes:
- `BuffersInOrder`, `SpotInOrder`: only the buffer that is not published, and only
  while the tray writes, holds parts of two pictures, and then its two serials
  differ;
- `CopyInOrder`, `PlaceInOrder`: what the reader copied is of the serial it began
  with unless the serial in front has changed since, however often the tray came
  round in between; serials are never used again, so it cannot change back;
- `Untorn`: what was uploaded and what it is held at.

`NeverTorn` follows: the texture is of one picture and its placement of one record.
The argument rests on the order of loads and stores of x64 (section 6).

### 4.8 Log queue
`LogInvariant` proves, for every capacity, every finite set of producers and any
number of records (`LogAssumption`, a hypothesis of both theorems):
- `OneProducer`: the flag of the ring belongs to one producer at a time;
- `RingInOrder`, `RingHolds`: the ring is a window on the admitted records; what is
  in it is whole, and the one cell a producer fills lies in front of it, also when
  the counters have wrapped around the ring;
- `TakenInOrder`, `WrittenInOrder`: the writer holds the next record, whole, and
  what it wrote is a prefix of what was admitted;
- `WriterAwake`: while something is in the ring the writer is about to look, the
  event is set, or the producer that pushed last is about to set it;
- `EndInOrder`, `LateCounted`: after `Shutdown` has taken the event only producers
  that had passed the check bring records, and each brings one.

`NoRecordIsLost` follows: `AdmittedIsWritten`. That the ring and the text agree is
not inductive without the writer's side: a record taken out of the ring is not
written yet.

### 4.9 Choice of the chain
`SelectionInvariant` proves, for every set of threads, chains and queues
(`SelectionAssumption`: no chain, queue, thread or refusal is the null value):
- `DrawersAdmitted`: what a thread on its way through `Render` has found: the
  backend of its chain, a binding that is ready and is for its chain, and the one
  drawing it owns;
- `QueueBound`: a bound queue, and one about to be bound, is of its chain's device;
- `DrawnAlike`: what was drawn agrees with the backend and the binding of today;
- `FailureStays`: a failure is told, or a thread is about to tell it, and how many
  of its three tries the presents under way may still spoil.

`OneChainIsDrawn` follows: `SelectionHolds`, the part of `OneChainDrawn` that is
about `ChainSelection`. `FailureStays` is where the number three comes from: the
word can leave `none` once, and the one thread that was drawing when the failure
came moves it at most once more.

### 4.10 Sessions
`SessionsInvariant` proves, for every number of slots, programs and every capacity
of the list of the refused, `AttachedAreKnown` (a running program that was attached
has a session or is among the refused, unless the list could not keep it) and
`ChoiceIsOfNew` (the question stands for a program the tray does not know, and it
still does not know it when the answer comes, because nothing else attaches while
it is open). `AttachedOnce` alone is not inductive: it does not say why a program that
is asked for has not been attached before.

That the list of the refused stays within its capacity and holds nobody twice
(`SessionsListed`) is a fact about a fold over the list of dead programs. The library's
induction theorems take an operator, which the provers cannot instantiate; so
`SetInduction` proves induction for a *set* of numbers, from the least element of what
is not in it, and `FiniteRecursion` with it that a function defined by recursion on
`0 .. n` has the values its equations say. `PartOf` and the lemmas after it reason about
the fold that way.

### 4.11 Frame rate
`RateInvariant` proves, for any programs and any number of traces,
`FramesAreOfTheTrace` (what the tracker holds was recorded by the trace that began
last, for one program and of one kind, and a frame that is not right came after a
loss the trace knows of) and that every reading on its way (in the controller's
hands, published, shown) was taken from such a tracker. `RateIsMeasured` follows:
`ReadingIsMeasured`. The window's comparison of names is what makes a reading of
the last program, published late, harmless.

### 4.12 Desktop OSD
`OsdInvariant` joins three facts about `OsdPresence`: `ActionIsWatched` with the
types (a timer is on, off, or was refused when it was asked for: `SetTimer` may fail and
the code goes on); `HandOnHeader` (while the pointer is captured the header is awake), without
which `UnlockedIsShown` is not inductive, because the lock is opened by a captured
pointer that makes no hit test; and `ChoiceKept`. The model has no constants but its
three Boolean settings, so that the run covers it too. `PlaceInvariant` proves of
`OsdTopmost`, for any set of other windows, that passes are left while the repair
timer runs and that the window is shown as it was told. `WorkIsWatched` and
`OsdIsShownAsWanted` follow: `ActionIsWatched` and `ShownAsWanted`.

### 4.13 The proved mechanisms
`ProvedMechanisms` puts nine parts together (`CoreSpec`) and states the three
properties of them that the run `mechanisms` checks. Every step of `MechanismsSpec`
is a step of `CoreNext` or leaves its variables alone. `CoreAssumption` gathers what
is assumed: a number of slots, a sampling period above zero, no card whose identity
is the empty one, and `LimitsAssumption`.

*Drawing.* `DrawInvariant` proves, for every number of threads and slots and every
policy:
- `AllPlaced`: what each place in `Present`, `ResizeBuffers` and `SetColorSpace1`
  holds of the gate, and that one thread at most is inside;
- `Prepared`, `LetGo`: a renderer that was not initialized holds nothing; a resize of
  the selected chain that goes on to the game's own call has drained the overlay, or
  finds the hook closed;
- `Seen`, `Barred`: what was observed of the colours is what the chain was told last,
  but inside a transition; on a chain that was told to be PQ a draw is out of the
  question, or a thread that is about to say so is still inside the gate. Of what the
  chain was before the hooks came nothing is assumed.

The properties `ResizeUnhindered` and `SdrOnly` alone are not inductive: neither
says why the observation of an earlier chain cannot outlive it. The theorem for the
composition is `DrawingGoesUnnoticed` (`DrawsUnnoticed`).

*One verified write.* `CardInvariant`: `BoundIsProtected` (the handle is of the card
that was first protected, whatever order the cards are listed in later), `WrittenOnce`
(one setter in a write), `HeldIsSeen` (if the limit in force is the one asked for, it
was in force after the setter: this is what makes a read-back after a clamp, or a write of
another tool in between, evidence). `WritesHonest` follows.

*Samples.* `SlotsAreCounted`: for every period, horizon and delay each slot was
answered once or counted as missed once, and the next is at most a period after the
end of the last iteration. The division of `AdvanceDeadline` is reasoned about in
`NextIsNext`, `Gap` and `Missed`; that the counters are the numbers of slots passed over is
`SlotCount`, a bijection between the slots of a stretch of time and `1 .. n`, which needs no
induction.

*First run.* `LimitsInvariant`: who wanted the limit in force, and where every
configuration at hand came from; `LimitsAlwaysHold` and, for every card, `DeriveFits`
and `TriggerFits`.

`SensingIsTrue` (`SensedAndWritten`) joins the last three for the composition. It
bounds the limit by what user, other tools and the built-in fallback name; the fallback
is nobody's wish, and a write before Save & Apply is possible (3.4).

*Place of the OSD.* `PlacementInv`, for every arrangement of screens that do not
overlap and have one at the origin, with a scale each, and every width, threshold and
margin: the positions are typed, a window left behind is not being dragged, and what a normal exit
stored is where the window was (`LeftBehind`). `NeverStuck` alone does not say that; it
is what makes `Reopens` an action property of every step. The nearest screen and the
spot on it that fits are chosen by a least distance and a greatest overlap: `SmallestOf`
and `GreatestOf`, from the well-foundedness of the numbers.

`Reopens` speaks of a window left on a screen of the primary one's scale: on another the
code lays it out for the primary one first, and Windows then moves it (6).

*Play time.* `PlayInv`: what is counted, and what waits, is exactly what an observer
credits their programs with for their present turn, and the program with the last
reading is the one that waits, or the one counted when nobody waits. A turn ends when a
third program has a reading: what was waiting then is lost (6).

*Network.* `NetworkInv`: the adapter of the last reading counted no more since
than it carried (`CountedIsCarried`; a restart only lowers its counter), the samples
are in order and no younger than the last sample taken, and a lookup later than the last
move of the route found the route. `NetworkHolds` follows at every step.

*Verdict.* `PathInv`: what a connection counted since its baseline happened while the
action watched it (`HappenedInWindow`) - a connection whose baseline could not be read is
charged with all it ever counted, as in the code -, a connection whose statistics are off has no
counts, and a judged row belongs to a connection that the second look has passed. The grade of
a verdict is the worst of a finite set of grades, which is found without an induction.

*Displayed frames.* `DisplayInv`, for all sets of threads and surfaces, tables of any
size and any number of presents and flips; restarts of DWM, failed presents, entries
that grow old, full tables and a trace that begins in the middle of it all included.
- `ScreenInv`: an image is in a flip only once DWM took it, and DWM has one flip at a
  time that is not queued.
- `CandsInv`: in a trace that was whole from its start, every present that awaits its
  token is a fresh candidate that no token has claimed. The guess of `OnToken`, the
  oldest candidate and only if there is one surface, then meets the right surface.
- `TokensInv`, `WaitingInv`: a token has its present's surface, an update that waits is
  in no flip yet.
- `FlipsInv`, `DwmInv`: the tokens held for a flip were in it, the number it is queued
  under is its own, and the thread that flips is the one that is known as DWM's.
- `CountedInv`: the flip of a counted frame was shown, and what is left of its token is
  marked displayed. Without that mark nothing says why a present is not counted twice.

`FlipsPaired` mentions none of the tables and is far from inductive. Where the trace was
not whole, the invariant keeps only what is still true (the image had been flipped by
then), and a failed correlation empties the tables. `PairedAlways` is the theorem.

`DesktopIsTrue` (`KeptAndCounted`) joins these five for the composition.

### 4.14 Output, handover, start, installation
*Output.* `OutputInv`, for every set of monitors: the factory an answer came from was made
after the last change of the displays, or is found stale when asked afterwards; an
answer that counts was SDR then.

*Handover.* `HandoffInvariant`, for any number of chains, threads, devices and windows,
and addresses that are used again: `OwnerInOrder`, `PendingInOrder`, `CallInOrder` (the
chain drawn on and the one under observation are kept alive by references, so an
address means the same chain from one call to the next; generations only grow; what a
call has seen is of the chain it will be counted for). `HandoverQualified` alone does
not say why three samples are of one chain.

*Start.* `StartInvariant`, for any finite set of helpers: `LoadsAreCounted`,
`LibraryInOrder`, `GateInOrder`, `ChoiceInOrder`, `SessionInOrder`. Every load of the
library is counted, the session is with the section its helper made, and what helper and
library say to each other is said in one order.

*Installation.* `InstallInvariant`, for any threads, methods and tries:
`MethodsInOrder` (what is replaced, being tried and untouched), `AwakeElsewhere` (which
threads may be asleep), `SaidAtTheEnd`. With these a recovery can be told what it has to
put back, and `NothingIsLeftBehind` follows.

*Together.* `OverlayProofs` composes the overlay's seven parts (`OverlaySpec`).
`OneChainAtATime` is the theorem for `OneChainDrawn` (resources, choice, handover,
output), `AttachedOnlyOnce` the one for `AttachedOnce` (sessions, start, installation).
`OverlayAssumption` gathers the hypotheses.

### 4.15 Only model-checked
- Liveness (`LimitComesDown`, `ApplyIsAnswered`, `CoolGuardRecovers`,
  `StuckChildIsReplaced`, `ProtectionReturns`, `GuardIsKept`, `TransitionDecides`,
  `SettlesDown`): fairness and `ENABLED` are outside what TLAPS proves.
- `RatesAreTrue` (the frames of a rate, the strokes of the curve) and
  `ArrangementHolds`: what a computation over a whole history or a whole arrangement
  gives, through `SelectSeq`, sums over rows and folds. What these return is found by
  induction over data, and `SelectSeq` has no definition that the provers could expand.
- The worker's `RecordedTripIsHeld` and `ApplyKeepsTrips` where a half-saved
  configuration could be monitor-only: there they do not hold (4.2).

## 5. Not modelled
- Wording, logging, colours, layout, timing statistics, localization, resources.
- The arithmetic of the temperature slope; it is a Boolean of the environment.
- `TryPublish` dropping a snapshot when the UI holds the lock: the UI sees an older
  one, and nothing that acts reads it.
- Telemetry history and charts, the memory view, snapshots: displays of the past.
- How the library is placed in the game's process, and what Direct3D, NVML and
  Windows do inside: they are external, as the code relies on them.
- `RefreshSnapshot`, which returns without a heartbeat when NVML cannot be probed
  though the service guards: no module has both the window's service mode and the
  supervisor.
- The service binding device 0 again after a failed read, with cards told apart.
- Tests, tools and vendored code.

## 6. Observations
Met while reading the code; none is needed for a property above.

*Guard.*
- A worker started before the card was read writes the built-in 350 W when it has to
  recover from a fault, although the comment at `main_dialog.cpp` 578-586 says that
  nothing can be written then; `NeverRaised` counts that limit as allowed. After a trip
  and a restart the lowered limit is taken for the working limit. (That a worker guards
  with proposed limits is the run `first_run`.)
- A save that replaces a monitor-only configuration and fails half way leaves the
  registry monitor-only; a trip and a crash later the latch is refused (4.2).
- The text "safe power remains locked" after a failed `Send`
  (`main_dialog.cpp` 2393-2397) may be false: the service may have executed it.
- A hung service blocks the client in `ReadFile`. A client that connects and goes
  before `ConnectNamedPipe` can leave the pipe answering `ERROR_NO_DATA` for ever
  (`pipe_server.hpp` 32); a request left in its inbox stays unserved.
- `startLatch` (`main_dialog.cpp` 1932) may be older than a trip of the service.
- After a failed read the service binds device 0 (`service_main.cpp` 219-221).
- A command that wakes the worker early, and whose work passes the next slot, uses
  up that slot.
- `OnInitDialog` is one step in `GuardOwnership`.

*Overlay.*
- A game that set its colour space before the hooks came cannot be asked for it
  (`product_overlay_hook.cpp` 337-340): an 8-bit chain that is PQ, or a 10-bit one under
  the policy that assumes, is drawn on as if it were SDR.
- A session whose request, window or monitor cannot be read stops drawing but stays
  published (`runtime.cpp` 343-359, 452), so the desktop OSD stays hidden while nothing
  is drawn; `embed_policy.hpp` 18 speaks of a session that "is really drawing".
  `OsdComesBack` excludes that case by name (`shows = "stopped"`).
- When the queue binding turns ambiguous, `Render` returns without a count and the
  session, which watches failures and control errors, never stops: the tray is not
  told that nothing is drawn.
- An early `return 1` of the feature session leaves `control->state` at `Starting`.
- A pending answer counts as a mismatch (`render_direct.cpp` 164-166), and `Confirm`
  looks at `failures` but not at `control_errors`.
- A library that was loaded twice stays resident when its worker unloads.
- A section is zero at first: its gate is open until `release = 1` is written.
- `published_bitmap.hpp` 352-353 says that an image for another frame is never drawn;
  lines 382 and 362 draw the old one.
- The serials need the store order of x64; the overlay is built for nothing else.

*Figures.*
- "Switching games loses nothing" (`play_clock.hpp` 17-19) fails for A, C, B, C: the
  first time of C is dropped when B begins to wait (lines 44-48). `PlayTimeIsEarned`
  says what the code does keep.
- A connection whose baseline read fails is judged on all it counted since it was
  opened (`estats_win32.cpp` 192 and 247-249); `VerdictHolds` speaks of the others.
- The token table holds displayed tokens for two seconds: above 1024 presents in
  that time the trace is marked lost and starts again every five seconds.
- A `Present` that blocks for two seconds loses its correlation; a trace that begins
  between the schedule of a flip and the flip may pair wrongly (`whole`).
- `last_counts_` is written without the tracker's lock (`dxgi_observer.cpp` 776).
- `NetworkRate` assumes that interface indices are not used again; the verdict that
  statistics start from zero when they are turned on.

*Desktop OSD.*
- The insertion side is off by one within a row; a record switched during a drag
  leaves `drag_from_` stale; the press on the O is kept when the capture is lost
  (`osd_overlay.cpp` 2164-2174).
- `BeginAction` leaves `action_slot_` when the indicator cannot be created (`stray`);
  `SetNetEnabled`, `SetScalePercent`, `OnDpiChanged` and `SetCompactLayout` do not
  end an action; its indicator stays behind while the window is moved.
- The first layout is computed with the scale of the primary monitor
  (`osd_overlay.cpp` 884-892), so on a monitor of another scale the window may not open
  where it was left; `Reopens` excludes that.
- The result of `SetTimer` is ignored: an action whose timer was refused (line 1753)
  keeps its indicator up and its result unseen until the user does something, which
  `IndicatorComesDown` excludes by name (`timer = "Refused"`); a window shown without
  its refresh timer (line 1079) is not drawn.

*Log.* A producer past the check of the event when `Shutdown` takes it may push a
record that nobody writes (`late`).

## 7. What is left
1. Proofs for `FrameRateWindow`, `FrameRateHistory` and `CompactArrangement`, whose
   windows, strokes and orders would have to be stated without `SelectSeq` and folds.
2. A module with the window's service mode and the supervisor's heartbeat.
