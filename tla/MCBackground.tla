------------------------------ MODULE MCBackground ------------------------------
(***************************************************************************)
(* What threads and timers that run beside the rest promise: the tray and  *)
(* the game's thread with the pictures in shared memory (OverlaySection,   *)
(* which this module extends), the gate in the game (LifecycleGate), the   *)
(* timer of the overlay sessions (OverlaySessions), the log's thread       *)
(* (DeferredLog), the threads that read frames off the system's trace      *)
(* with the window that shows their rate (FrameRateObserver), the desktop  *)
(* OSD with its pointer, its timers and its place above other windows      *)
(* (OsdPresence, OsdTopmost), the helper that starts the overlay in a      *)
(* game (OverlayStart) and the library's worker there (StagedInstall).     *)
(* They share no state: a behaviour is one of the part chosen at its       *)
(* start.  BackgroundProofs proves what the pictures, the log, the rate    *)
(* and the OSD promise.                                                    *)
(***************************************************************************)
EXTENDS OverlaySection

CONSTANTS
  Parts, Threads, Targets, Nobody, Windows,
  Producers, LogCapacity, LogRecords,      (* of DeferredLog                *)
  MaxTraces                                (* of FrameRateObserver          *)

VARIABLES
  part,
  pc, owner, transition, disabled, first, spent,
  alive, front, sessionsOn, choosing, slots, refused, timer, suppressed, attached, again, forgotten,
  main, event, stopping, signalled, logPc, record, busy, ring, head, tail, logWriter, taken,
  asked, admitted, written, late,
  trace, tracker, control, desired, published, window,
  visible, collapsed, locked, mark, moving, pressed, drag, captured, action, slot, indicator,
  worker, osdTimer, age, hold, stray, osdSuppressed, kept, stored, refresh, here, quiet, idle,
  awake,
  onTop, onTopWanted, sessionLocked, display, secure, over, topmost, previous, checkDue, repairDue,
  passes, repairTimer, posted,
  startTray, startControl, startAt, startName, startSection, startLoads, startLoaded,
  startWorker, startMine, startInspected,
  instAt, instSite, instAlive, instSnapshot, instAttempt, instSlots, instStage,
  instUncertain, instPublished, instWritable, instOutcome, instActive, instState

gate == <<pc, owner, transition, disabled, first, spent>>
sessions == <<alive, front, sessionsOn, choosing, slots, refused, timer, suppressed,
              attached, again, forgotten>>
log == <<main, event, stopping, signalled, logPc, record, busy, ring, head, tail, logWriter, taken,
         asked, admitted, written, late>>
reading == <<trace, tracker, control, desired, published, window>>
osd == <<visible, collapsed, locked, mark, moving, pressed, drag, captured, action, slot,
         indicator, worker, osdTimer, age, hold, stray, osdSuppressed, kept, stored, refresh,
         here, quiet, idle, awake>>
place == <<onTop, onTopWanted, sessionLocked, display, secure, over, topmost, previous, checkDue,
           repairDue, passes, repairTimer, posted>>
start == <<startTray, startControl, startAt, startName, startSection, startLoads,
           startLoaded, startWorker, startMine, startInspected>>
install == <<instAt, instSite, instAlive, instSnapshot, instAttempt, instSlots,
             instStage, instUncertain, instPublished, instWritable, instOutcome,
             instActive, instState>>
pictures == vars
all == <<part, pictures, gate, sessions, log, reading, osd, place, start, install>>

Gate == INSTANCE LifecycleGate
Sessions == INSTANCE OverlaySessions WITH MaxSlots <- 1, Capacity <- 1, enabled <- sessionsOn
Log == INSTANCE DeferredLog WITH
  Capacity <- LogCapacity, MaxRecords <- LogRecords, pc <- logPc, writer <- logWriter

Observer == INSTANCE FrameRateObserver

Osd == INSTANCE OsdPresence WITH timer <- osdTimer, suppressed <- osdSuppressed
Topmost == INSTANCE OsdTopmost WITH
  visible <- onTop, wanted <- onTopWanted, locked <- sessionLocked, timer <- repairTimer

Start == INSTANCE OverlayStart WITH
  Helpers <- {1}, Choices <- {"sdr"}, None <- 0,
  tray <- startTray, control <- startControl, at <- startAt, name <- startName,
  section <- startSection, loads <- startLoads, loaded <- startLoaded,
  worker <- startWorker, mine <- startMine, inspected <- startInspected
Install == INSTANCE StagedInstall WITH
  Threads <- {1, 2}, Methods <- 2, Attempts <- 3,
  at <- instAt, site <- instSite, alive <- instAlive, snapshot <- instSnapshot,
  attempt <- instAttempt, slots <- instSlots, stage <- instStage,
  uncertain <- instUncertain, published <- instPublished, writable <- instWritable,
  outcome <- instOutcome, active <- instActive, state <- instState

(* What a part may start with is left open only in that part.              *)
BackgroundInit ==
  /\ part \in Parts
  /\ Init /\ (part # "section" => target = CHOOSE f \in Frames : TRUE)
  /\ Gate!Init /\ Sessions!Init /\ Log!Init /\ Observer!Init
  /\ Osd!Init /\ (part # "osd" => visible /\ collapsed /\ locked /\ refresh)
  /\ Topmost!Init /\ (part # "topmost" => onTop)
  /\ Start!Init /\ Install!Init /\ (part # "install" => instAlive = {1})

BackgroundNext ==
  \/ part = "section" /\ Next
     /\ UNCHANGED <<part, gate, sessions, log, reading, osd, place, start, install>>
  \/ part = "gate" /\ Gate!Next /\ UNCHANGED <<part, pictures, sessions, log, reading, osd, place, start, install>>
  \/ part = "sessions" /\ Sessions!Next /\ UNCHANGED <<part, pictures, gate, log, reading, osd, place, start, install>>
  \/ part = "log" /\ Log!Next /\ UNCHANGED <<part, pictures, gate, sessions, reading, osd, place, start, install>>
  \/ part = "reading" /\ Observer!Next
     /\ UNCHANGED <<part, pictures, gate, sessions, log, osd, place, start, install>>
  \/ part = "osd" /\ Osd!Next /\ UNCHANGED <<part, pictures, gate, sessions, log, reading, place, start, install>>
  \/ part = "topmost" /\ Topmost!Next /\ UNCHANGED <<part, pictures, gate, sessions, log, reading, osd, start, install>>
  \/ part = "start" /\ Start!Next
     /\ UNCHANGED <<part, pictures, gate, sessions, log, reading, osd, place, install>>
  \/ part = "install" /\ Install!Next
     /\ UNCHANGED <<part, pictures, gate, sessions, log, reading, osd, place, start>>

(* The fairness of the parts.                                              *)
FairSpec ==
  /\ BackgroundInit /\ [][BackgroundNext]_all
  /\ \A t \in Threads :
       /\ WF_gate(part = "gate" /\ Gate!Inside(t))
       /\ WF_gate(part = "gate" /\ Gate!Elapse(t))
       /\ WF_gate(part = "gate" /\ \E qualified \in BOOLEAN : Gate!EndTransition(t, qualified))
  /\ WF_sessions(part = "sessions" /\ Sessions!Tick)
  /\ WF_osd(part = "osd" /\ Osd!OnOverlayTimer /\ Osd!Elsewhere)
  /\ WF_osd(part = "osd" /\ Osd!WorkerReturns /\ Osd!Elsewhere)
  /\ WF_osd(part = "osd" /\ Osd!TimePasses /\ Osd!Elsewhere)
  /\ WF_osd(part = "osd" /\ Osd!AttachEnds)
  /\ WF_place(part = "topmost" /\ Topmost!CheckZOrder)
  /\ WF_place(part = "topmost" /\ Topmost!ThreeSeconds)
  /\ WF_place(part = "topmost" /\ Topmost!ThirtySeconds)
  /\ SF_place(part = "topmost" /\ Topmost!Lowers)
  /\ WF_start(part = "start" /\ Start!Helps(1))
  /\ WF_install(part = "install" /\ Install!Worker)
  /\ SF_install(part = "install" /\ Install!RecoversWell)

-----------------------------------------------------------------------------
(* The properties of the parts, stated in their modules.                   *)

(* LifecycleGate: a reserved transition is let in or stops the overlay; of *)
(* one thread, which stands for all of them, for the gate treats all alike.*)
TransitionDecides == Gate!Decides(CHOOSE t \in Threads : TRUE)

(* OverlaySessions, OsdPresence, OsdTopmost, OverlayStart, StagedInstall:   *)
(* the desktop OSD hidden for a game comes back, its indicator comes down, *)
(* no ordinary window stays above it, a helper that laid out a section     *)
(* closes its gate, and the installation in the game ends.                 *)
SettlesDown ==
  /\ part = "sessions" => Sessions!OsdComesBack
  /\ part = "osd" => Osd!IndicatorComesDown
  /\ part = "topmost" => Topmost!StaysOnTop
  /\ part = "start" => Start!GateCloses
  /\ part = "install" => Install!InstallEnds

(* OsdPresence: well typed; an action has its indicator, its worker and    *)
(* its timer, and the header that shows an open lock stays.                *)
ActionIsWatched == part = "osd" => Osd!TypeOK /\ Osd!ActionIsWatched /\ Osd!UnlockedIsShown

(* OsdPresence, OsdTopmost: the OSD is shown exactly when it is wanted,    *)
(* through games and through repairs of its place.                         *)
ShownAsWanted ==
  /\ part = "osd" => Osd!ChoiceKept
  /\ part = "topmost" => Topmost!NeverShownUnwanted

(* DeferredLog: what was admitted is written.                              *)
AdmittedIsWritten == Log!AdmittedIsWritten

(* FrameRateObserver: a rate shown was measured.                           *)
ReadingIsMeasured == Observer!ReadingIsMeasured
=============================================================================
