------------------------------ MODULE Supervisor ------------------------------
(***************************************************************************)
(* The process that starts, watches and replaces the tray process          *)
(* (src/supervision/supervisor.cpp, recovery_policy.hpp), and the child's  *)
(* side of the memory they share.  The child is a tray process whose       *)
(* protection worker, UI thread or service connection reports health; it   *)
(* may crash, hang or quit at any moment, and the supervisor looks at the  *)
(* shared memory only when its poll interval has passed.  One tick stands  *)
(* for a poll interval (500 ms).                                           *)
(*                                                                         *)
(* shared is the mapping; the supervisor's locals are recovery, uuid,      *)
(* failures, steadyAge (healthy_since_), healthyAge (last_healthy),        *)
(* killing (termination_requested) and backoff (what is left of Sleep).    *)
(* Ages are saturated as in ProtectionPolicy, Absent stands for no stamp.  *)
(***************************************************************************)
EXTENDS Integers, Sequences

CONSTANTS
  Gpus,           (* identities of the cards that may be present           *)
  NoGpu,          (* the empty uuid                                        *)
  HeartbeatLimit, (* 1500 ms: a heartbeat as old as this is not healthy    *)
  Watchdog,       (* options.watchdog_ms                                   *)
  SteadyLimit,    (* 60 s of health that forgive earlier failures          *)
  Delays,         (* the restart delays, a sequence                        *)
  ReadyCount,     (* Readiness: valid samples in a row                     *)
  ReadyGap,       (* Readiness: the gap that breaks the row                *)
  BootTime,       (* ticks a child may take to start protecting: Watchdog  *)
                  (* leaves it free                                        *)
  MaxFaults       (* bound: crashes, hangs and requests for a restart      *)

ASSUME SupervisorAssumption ==
  /\ NoGpu \notin Gpus
  /\ {HeartbeatLimit, Watchdog, SteadyLimit, ReadyCount, ReadyGap} \subseteq Nat \ {0}
  /\ BootTime \in 1 .. Watchdog /\ MaxFaults \in Nat
  /\ Delays \in Seq(Nat \ {0}) /\ Len(Delays) > 0

VARIABLES
  sup,        (* launching, watching, backoff or gone                      *)
  recovery, uuid, failures, steadyAge, healthyAge, killing, backoff,
  pollDue,    (* the 500 ms wait is over                                   *)
  shared,     (* the mapping                                               *)
  child,      (* what the child process is doing                           *)
  gpu,        (* the card its worker bound                                 *)
  row, rowAge,(* the worker's Readiness                                    *)
  bootAge,    (* ticks the child has been starting                         *)
  served,     (* observer: the card protected under this supervisor        *)
  quit,       (* observer: the user quit                                   *)
  owed,       (* observer: a child of this supervisor ended uncleanly      *)
  inherited,  (* observer: this child took the recovery latch              *)
  faults      (* bound: how many faults have happened                      *)

local     == <<recovery, uuid, failures, steadyAge, healthyAge, killing, backoff, pollDue>>
worker    == <<gpu, row, rowAge, bootAge>>
observers == <<served, quit, owed, inherited, faults>>
vars == <<sup, local, shared, child, worker, observers>>

Absent == -1
Older(age, limit) == IF age = Absent THEN Absent ELSE IF age < limit THEN age + 1 ELSE limit

Alive == child \notin {"none", "exited"}

Shared == [recovery : BOOLEAN, clean : BOOLEAN, restart : BOOLEAN, ready : BOOLEAN,
           beatAge : Absent .. HeartbeatLimit, uuid : Gpus \cup {NoGpu},
           identified : BOOLEAN]

TypeOK ==
  /\ sup \in {"launching", "watching", "backoff", "gone"}
  /\ recovery \in BOOLEAN /\ uuid \in Gpus \cup {NoGpu}
  /\ failures \in 1 .. Len(Delays)
  /\ steadyAge \in Absent .. SteadyLimit /\ healthyAge \in 0 .. Watchdog
  /\ killing \in BOOLEAN /\ backoff \in Nat /\ pollDue \in BOOLEAN
  /\ shared \in Shared
  /\ child \in {"none", "booting", "bound", "pinned", "protecting", "delegating",
                "stuck", "exited"}
  /\ gpu \in Gpus \cup {NoGpu}
  /\ row \in 0 .. ReadyCount /\ rowAge \in Absent .. ReadyGap
  /\ bootAge \in 0 .. BootTime
  /\ served \in Gpus \cup {NoGpu}
  /\ quit \in BOOLEAN /\ owed \in BOOLEAN /\ inherited \in BOOLEAN
  /\ faults \in 0 .. MaxFaults

(* Mutant of FreshShared: the mapping keeps what the last child wrote.     *)
StaleShared == [shared EXCEPT !.recovery = recovery, !.clean = FALSE]

(* What a launch writes into the mapping before the child exists.          *)
FreshShared ==
  [recovery |-> recovery, clean |-> FALSE, restart |-> FALSE, ready |-> FALSE,
   beatAge |-> Absent, uuid |-> uuid, identified |-> uuid # NoGpu]

Init ==
  /\ sup = "launching"
  /\ recovery = FALSE /\ uuid = NoGpu /\ failures = 1
  /\ steadyAge = Absent /\ healthyAge = 0 /\ killing = FALSE /\ backoff = 0
  /\ pollDue = FALSE
  /\ shared = [recovery |-> FALSE, clean |-> FALSE, restart |-> FALSE, ready |-> FALSE,
               beatAge |-> Absent, uuid |-> NoGpu, identified |-> FALSE]
  /\ child = "none" /\ gpu = NoGpu /\ row = 0 /\ rowAge = Absent /\ bootAge = 0
  /\ served = NoGpu /\ quit = FALSE /\ owed = FALSE /\ inherited = FALSE
  /\ faults = 0

-----------------------------------------------------------------------------
(* The supervisor. *)

Launch ==
  /\ sup = "launching"
  /\ shared' = FreshShared
  /\ sup' = "watching" /\ child' = "booting"
  /\ healthyAge' = 0 /\ killing' = FALSE /\ pollDue' = FALSE
  /\ gpu' = NoGpu /\ row' = 0 /\ rowAge' = Absent /\ bootAge' = 0
  /\ inherited' = FALSE
  /\ UNCHANGED <<recovery, uuid, failures, steadyAge, backoff, served, quit, owed, faults>>

(* An error the supervisor does not retry: it returns, and the job object  *)
(* takes the child with it.                                                *)
GiveUp ==
  /\ sup \in {"launching", "watching"}
  /\ sup' = "gone"
  /\ child' = IF child = "none" THEN "none" ELSE "exited"
  /\ UNCHANGED <<local, shared, worker, observers>>

(* Mutant of Healthy: the flag is believed however old the heartbeat is.   *)
HealthyByFlag == shared.ready

Healthy == shared.beatAge \in 0 .. HeartbeatLimit - 1 /\ shared.ready

(* One turn of the poll loop.  A heartbeat stored after the supervisor read *)
(* its clock lies in the future and counts as unhealthy (raced).           *)
Poll ==
  /\ sup = "watching" /\ Alive /\ pollDue
  /\ pollDue' = FALSE
  /\ \E raced \in BOOLEAN :
       LET healthy == Healthy /\ ~raced
           streak  == IF ~healthy THEN Absent ELSE IF steadyAge = Absent THEN 0 ELSE steadyAge
       IN /\ raced => shared.beatAge = 0
          /\ steadyAge' = streak
          /\ failures' = IF streak >= SteadyLimit THEN 1 ELSE failures
          /\ healthyAge' = IF healthy THEN 0 ELSE healthyAge
  /\ killing' = (killing \/ shared.restart \/ healthyAge' >= Watchdog)
  /\ UNCHANGED <<sup, recovery, uuid, backoff, shared, child, worker, observers>>

(* Mutant of NextFailure: one past the longest delay.                      *)
NextFailureUncapped == failures + 1

(* The index of the delay after the next failure.                          *)
NextFailure == IF failures < Len(Delays) THEN failures + 1 ELSE failures

(* What the end of a child leaves behind: keep says which identity, clean  *)
(* whether the end was the user's.                                         *)
Reaped(keep, clean) ==
  /\ sup = "watching" /\ child = "exited"
  /\ \/ /\ clean
        /\ sup' = "gone"
        /\ UNCHANGED <<uuid, failures, steadyAge, backoff, owed>>
     \/ /\ ~clean
        /\ sup' = "backoff"
        /\ uuid' = keep
        /\ backoff' = Delays[failures]
        /\ failures' = NextFailure
        /\ steadyAge' = Absent
        /\ owed' = TRUE
  /\ UNCHANGED <<recovery, healthyAge, killing, pollDue, shared, child, worker,
                 served, quit, inherited, faults>>

(* Mutant of Reap: the identity the child published is not kept.           *)
ReapForgets == Reaped(uuid, shared.clean)

(* Mutant of Reap: a child that had to be killed is never a clean exit.    *)
ReapKilledIsFault ==
  Reaped(IF shared.identified THEN shared.uuid ELSE uuid, shared.clean /\ ~killing)

(* The process handle is signaled: a clean exit is the end, any other is   *)
(* followed by a delay that grows with every failure.                      *)
Reap == Reaped(IF shared.identified THEN shared.uuid ELSE uuid, shared.clean)

(* Mutant of BackoffEnds: the replacement is started like a first child.   *)
BackoffForgets ==
  /\ sup = "backoff" /\ backoff = 0
  /\ sup' = "launching"
  /\ UNCHANGED <<local, shared, child, worker, observers>>

BackoffEnds ==
  /\ sup = "backoff" /\ backoff = 0
  /\ sup' = "launching"
  /\ recovery' = TRUE
  /\ UNCHANGED <<uuid, failures, steadyAge, healthyAge, killing, backoff, pollDue,
                 shared, child, worker, observers>>
-----------------------------------------------------------------------------
(* The child. *)

Fault == faults < MaxFaults /\ faults' = faults + 1

(* The worker binds: by the identity in the mapping when there is one, and *)
(* otherwise device 0, whichever card that is today.  The identity it      *)
(* bound is copied first and announced (Pin) afterwards.                   *)
Bind ==
  /\ child = "booting"
  /\ gpu' \in IF shared.identified THEN {shared.uuid} ELSE Gpus
  /\ shared' = IF shared.identified THEN shared ELSE [shared EXCEPT !.uuid = gpu']
  /\ child' = "bound"
  /\ UNCHANGED <<sup, local, row, rowAge, bootAge, observers>>

Pin ==
  /\ child = "bound"
  /\ shared' = [shared EXCEPT !.identified = TRUE]
  /\ child' = "pinned"
  /\ UNCHANGED <<sup, local, worker, observers>>

(* The worker boots; the latch is handed over once.                        *)
TakeRecoveryLatch ==
  /\ child = "pinned"
  /\ shared' = [shared EXCEPT !.recovery = FALSE]
  /\ inherited' = (inherited \/ shared.recovery)
  /\ child' = "protecting" /\ row' = 0 /\ rowAge' = Absent /\ bootAge' = 0
  /\ served' = gpu
  /\ UNCHANGED <<sup, local, gpu, quit, owed, faults>>

(* One report of the worker: ready once ReadyCount valid samples came in a *)
(* row, none too late after, or in the same millisecond as, the last.      *)
ReportHealth ==
  /\ child = "protecting"
  /\ \E valid, sameInstant \in BOOLEAN :
       /\ sameInstant => rowAge = 0
       /\ LET kept == IF valid /\ ~sameInstant /\ rowAge # ReadyGap THEN row ELSE 0
          IN row' = IF valid /\ kept < ReadyCount THEN kept + 1 ELSE kept
  /\ rowAge' = 0
  /\ shared' = [shared EXCEPT !.ready = row' >= ReadyCount, !.beatAge = 0]
  /\ UNCHANGED <<sup, local, child, gpu, bootAge, observers>>

(* NVML does not initialise, the card does not bind, or the temperature    *)
(* has been missing for 5 s.                                               *)
RequestRecovery ==
  /\ child \in {"booting", "protecting"} /\ Fault
  /\ shared' = [shared EXCEPT !.ready = FALSE, !.restart = TRUE]
  /\ UNCHANGED <<sup, local, child, worker, served, quit, owed, inherited>>

(* The UI reaches the service: it vouches for it and stops the worker,     *)
(* which finishes a start it is in the middle of.                          *)
ServiceAnswers ==
  /\ child \in {"booting", "bound", "pinned", "protecting", "delegating"}
  /\ shared' = [shared EXCEPT !.ready = TRUE, !.beatAge = 0]
  /\ IF child \in {"bound", "pinned"}
     THEN UNCHANGED <<child, worker>>
     ELSE /\ child' = "delegating"
          /\ gpu' = NoGpu /\ row' = 0 /\ rowAge' = Absent /\ bootAge' = 0
  /\ UNCHANGED <<sup, local, observers>>

(* The service is gone: the UI starts a worker of its own.                 *)
ServiceLost ==
  /\ child = "delegating"
  /\ child' = "booting"
  /\ UNCHANGED <<sup, local, shared, worker, observers>>

(* The user quits, or another tray is already running: the flag first, and *)
(* the process then ends or hangs on its way out.                          *)
Quit ==
  /\ Alive /\ ~quit
  /\ shared' = [shared EXCEPT !.clean = TRUE]
  /\ quit' = TRUE
  /\ child' \in {"exited", "stuck"}
  /\ UNCHANGED <<sup, local, worker, served, owed, inherited, faults>>

Hang ==
  /\ Alive /\ child # "stuck" /\ Fault
  /\ child' = "stuck"
  /\ UNCHANGED <<sup, local, shared, worker, served, quit, owed, inherited>>

Crash ==
  /\ Alive /\ Fault
  /\ child' = "exited"
  /\ UNCHANGED <<sup, local, shared, worker, served, quit, owed, inherited>>

(* TerminateProcess takes effect.                                          *)
Terminated ==
  /\ Alive /\ killing
  /\ child' = "exited"
  /\ UNCHANGED <<sup, local, shared, worker, observers>>

-----------------------------------------------------------------------------
Starting == child \in {"booting", "bound", "pinned"}

(* A tick of awake time.  A starting child is given BootTime ticks.        *)
Elapse ==
  /\ Starting => bootAge < BootTime \/ BootTime = Watchdog
  /\ bootAge' = IF Starting THEN Older(bootAge, BootTime) ELSE 0
  /\ shared' = [shared EXCEPT !.beatAge = Older(@, HeartbeatLimit)]
  /\ steadyAge' = Older(steadyAge, SteadyLimit)
  /\ healthyAge' = Older(healthyAge, Watchdog)
  /\ backoff' = IF backoff > 0 THEN backoff - 1 ELSE 0
  /\ rowAge' = Older(rowAge, ReadyGap)
  /\ pollDue' = TRUE
  /\ UNCHANGED <<sup, recovery, uuid, failures, killing, child, gpu, row, observers>>

Next ==
  \/ Launch \/ GiveUp \/ Poll \/ Reap \/ BackoffEnds
  \/ Bind \/ Pin \/ TakeRecoveryLatch \/ ReportHealth \/ RequestRecovery
  \/ ServiceAnswers \/ ServiceLost \/ Quit \/ Hang \/ Crash \/ Terminated
  \/ Elapse

Spec == Init /\ [][Next]_vars

(* Time passes, the supervisor's loop runs, Windows ends what was told to  *)
(* end, and a worker that is starting goes on.                             *)
FairSpec ==
  /\ Spec
  /\ WF_vars(Elapse) /\ WF_vars(Launch) /\ WF_vars(Poll) /\ WF_vars(Reap)
  /\ WF_vars(BackoffEnds) /\ WF_vars(Terminated)
  /\ WF_vars(Bind) /\ WF_vars(Pin) /\ WF_vars(TakeRecoveryLatch)

-----------------------------------------------------------------------------
(* Properties *)

(* Whatever crashes, hangs and reorders the cards, every worker this       *)
(* supervisor starts protects the card the first one protected: the        *)
(* identity survives in the supervisor, from mapping to mapping.           *)
IdentityKept == [][served # NoGpu => served' = served]_vars

(* A user who quits is never answered with a new tray process, even when   *)
(* the old one hangs on its way out and has to be killed.                  *)
CleanExitIsFinal == quit => sup \in {"watching", "gone"}

(* After an unclean end, no worker of this supervisor protects before some *)
(* worker of its process took the recovery latch: a restart after a fault  *)
(* begins at safe power.                                                   *)
RecoveryInherited == child = "protecting" /\ owed => inherited

(* A child that hangs, or that asked to be replaced, does not stay: the    *)
(* supervisor ends it and moves on, or returns.                            *)
StuckChildIsReplaced ==
  sup = "watching" /\ (child = "stuck" \/ shared.restart) ~> sup # "watching"

(* When faults cease, a delay after a fault ends with a worker protecting, *)
(* with the service answering, or with the supervisor gone.                *)
ProtectionReturns ==
  sup = "backoff" ~> child \in {"protecting", "delegating"} \/ sup = "gone"
=============================================================================
