------------------------ MODULE LocalProtectionWorker ------------------------
(***************************************************************************)
(* The protection thread of the tray process                               *)
(* (src/protection/local_protection_worker.cpp, Run), with everything it   *)
(* touches: the NVML power limit, the registry, the supervisor's recovery  *)
(* flag, the UI thread's requests, other tools that move the limit, and    *)
(* the death of the process between any two of its effects.                *)
(*                                                                         *)
(* One iteration of the loop is a chain of steps, each with at most one    *)
(* write to the hardware or the registry, so that a crash, a stall or an   *)
(* outside write may come in between:                                      *)
(*                                                                         *)
(*   wait -> [trip -> tripSave -> tripCount]                               *)
(*        -> apply -> [applySave | applyFallback -> applyLatch]            *)
(*        -> auto -> [autoSave | autoFallback]                             *)
(*        -> manual -> [manualSave | manualFallback]                       *)
(*        -> retry -> [retrySave -> retryCount] -> publish -> wait         *)
(*                                                                         *)
(* off is no thread; boot, bootWrite, bootSave are the code before the     *)
(* loop.  Time is kept in ages, as in ProtectionPolicy; lag is how long    *)
(* ago this iteration took its reading, which is the time now_ms that the  *)
(* code goes on comparing with.                                            *)
(***************************************************************************)
EXTENDS ProtectionPolicy

CONSTANTS
  OutsideLimits, (* limits another tool may set                            *)
  SafeRetry,     (* kSafeRetryMs                                           *)
  RetrySpacing,  (* RestoreRetryBudget: time between automatic attempts    *)
  MaxAttempts,   (* RestoreRetryBudget: attempts before it is exhausted    *)
  ApplyFresh,    (* ApplyWorkingPower: age of the oldest usable reading    *)
  MaxStall,      (* bound: how long one iteration may be held up           *)
  MaxTrips,      (* bound: the trip counter saturates here                 *)
  SavesMayFail   (* whether a registry write may fail                      *)

ASSUME WorkerAssumption ==
  /\ OutsideLimits \subseteq Nat
  /\ {SafeRetry, RetrySpacing, MaxAttempts, ApplyFresh} \subseteq Nat \ {0}
  /\ {MaxStall, MaxTrips} \subseteq Nat
  /\ SavesMayFail \in BOOLEAN

VARIABLES
  pc,           (* where the thread is                                     *)
  c,            (* the controller; c.cfg is also Run's `config'            *)
  lost,         (* sensor_unavailable                                      *)
  temp,         (* this iteration's reading, Unset if it failed            *)
  decision,     (* this iteration's decision: state and safe_latched       *)
  safeVerified, (* safe_limit_verified                                     *)
  counted,      (* safe_episode_counted                                    *)
  budget,       (* restore_budget                                          *)
  retryAge,     (* age of last_safe_retry_ms                               *)
  lag,          (* time since this iteration's reading                     *)
  due,          (* the deadline timer has fired                            *)
  published,    (* published.safe_latched and .trigger_count               *)
  apply,        (* the Apply mailbox: idle, requested, or a completion     *)
  applyCfg,     (* the configuration in the mailbox                        *)
  uiCfg,        (* MainDialog's config_, which starts a thread             *)
  manualReq,    (* manual_restore_requested_                               *)
  hw,           (* the power limit the card enforces                       *)
  foreign,      (* the last change of hw came from another tool            *)
  storedLatch, storedCount, storedCfg, (* the registry                     *)
  recovery,     (* the supervisor's recovery flag for this process         *)
  held          (* observer: a trip was recorded and not restored since    *)

loop     == <<c, lost, temp, decision, safeVerified, counted, budget, retryAge,
              lag, due, published>>
requests == <<apply, applyCfg, uiCfg, manualReq>>
card     == <<hw, foreign>>
registry == <<storedLatch, storedCount, storedCfg>>

vars == <<pc, loop, requests, card, registry, recovery, held>>

RetryCap   == SafeRetry + MaxStall
AttemptCap == RetrySpacing + MaxStall

Limits == OutsideLimits \cup {cfg.normal : cfg \in Configs}
                        \cup {cfg.safe : cfg \in Configs}

Stages == {"off", "boot", "bootWrite", "bootSave", "wait",
           "trip", "tripSave", "tripCount",
           "apply", "applySave", "applyFallback", "applyLatch",
           "auto", "autoSave", "autoFallback",
           "manual", "manualSave", "manualFallback",
           "retry", "retrySave", "retryCount", "publish"}

Completion == {"Rejected", "WriteFailed", "Applied", "AppliedNotSaved"}

Budget == [attempts : 0 .. MaxAttempts, age : 0 .. AttemptCap,
           latched : BOOLEAN, stopped : BOOLEAN]

TypeOK ==
  /\ pc \in Stages
  /\ c \in Controller
  /\ lost \in BOOLEAN
  /\ temp \in Temps \cup {Unset}
  /\ decision \in [state : ProtectionState, latched : BOOLEAN]
  /\ safeVerified \in BOOLEAN
  /\ counted \in BOOLEAN
  /\ budget \in Budget
  /\ retryAge \in 0 .. RetryCap
  /\ lag \in 0 .. MaxStall
  /\ due \in BOOLEAN
  /\ published \in [latched : BOOLEAN, count : 0 .. MaxTrips]
  /\ apply \in {"idle", "requested"} \cup Completion
  /\ {applyCfg, uiCfg} \subseteq Configs
  /\ manualReq \in BOOLEAN
  /\ hw \in Limits
  /\ foreign \in BOOLEAN
  /\ storedLatch \in BOOLEAN
  /\ storedCount \in 0 .. MaxTrips
  /\ storedCfg \in Configs
  /\ recovery \in BOOLEAN
  /\ held \in BOOLEAN

-----------------------------------------------------------------------------
(* Building blocks. *)

Decision(ctl) == [state |-> ctl.state, latched |-> ctl.latched]

FreshBudget == [attempts |-> 0, age |-> AttemptCap, latched |-> FALSE, stopped |-> FALSE]

ResetForManualRequest(b) ==
  [b EXCEPT !.attempts = 0, !.stopped = FALSE, !.age = AttemptCap]

(* A new latch, the rising edge, gets a fresh budget.                      *)
ObserveLatch(b, latched) ==
  [(IF latched /\ ~b.latched THEN ResetForManualRequest(b) ELSE b)
     EXCEPT !.latched = latched]

Exhausted(b) == b.stopped \/ b.attempts >= MaxAttempts

CanAttempt(b) ==
  ~Exhausted(b) /\ (b.attempts = 0 \/ b.age - lag >= RetrySpacing)

(* BeginAttempt, and StopRetrying after an error that cannot be retried.   *)
Attempted(b, mayRetry) ==
  [b EXCEPT !.attempts = @ + 1, !.age = 0, !.stopped = @ \/ ~mayRetry]

(* SetBoundPowerLimitWatts(w): `verified' only after the card read it      *)
(* back; a failed call may or may not have taken effect.                   *)
SetLimit(w, verified) ==
  \/ hw' = w /\ foreign' = FALSE
  \/ ~verified /\ UNCHANGED card

(* A registry write of the safe latch, whose failure the code ignores.     *)
SaveSafeLatch(latched) ==
  \/ storedLatch' = latched
  \/ SavesMayFail /\ UNCHANGED storedLatch

(* settings::Save writes the four values one after the other and stops at  *)
(* the first that fails; a crash stops it too.  Of the mixtures only those *)
(* in Configs are followed (Load replaces an invalid one by the defaults). *)
PartlySaved ==
  LET first  == [storedCfg EXCEPT !.normal = applyCfg.normal]
      second == [first EXCEPT !.safe = applyCfg.safe]
      third  == [second EXCEPT !.trigger = applyCfg.trigger]
  IN  {cfg \in {storedCfg, first, second, third} \cap Configs : ValidateConfig(cfg)}

Goto(label) == pc' = label

NothingPublished == [latched |-> FALSE, count |-> 0]

(* The values of an iteration's own variables between two iterations.      *)
NoDecision == [state |-> "Armed", latched |-> FALSE]

(* The thread is gone and its locals with it.                              *)
LoopGone(stored) ==
  /\ pc' = "off"
  /\ storedCfg' = stored
  /\ UNCHANGED <<storedLatch, storedCount>>
  /\ c' = Fresh(stored)
  /\ lost' = FALSE
  /\ temp' = Unset
  /\ decision' = NoDecision
  /\ safeVerified' = FALSE
  /\ counted' = FALSE
  /\ budget' = FreshBudget
  /\ retryAge' = RetryCap
  /\ lag' = 0
  /\ due' = TRUE
  /\ published' = NothingPublished

Init ==
  /\ pc = "off"
  /\ storedCfg \in {cfg \in Configs : ValidateConfig(cfg)}
  /\ c = Fresh(storedCfg)
  /\ lost = FALSE /\ temp = Unset /\ decision = NoDecision
  /\ safeVerified = FALSE /\ counted = FALSE
  /\ budget = FreshBudget /\ retryAge = RetryCap /\ lag = 0 /\ due = TRUE
  /\ published = NothingPublished
  /\ apply = "idle" /\ applyCfg = storedCfg /\ uiCfg = storedCfg
  /\ manualReq = FALSE
  /\ hw \in {storedCfg.normal, storedCfg.safe} /\ foreign = TRUE
  /\ storedLatch = FALSE /\ storedCount = 0
  /\ recovery = FALSE
  /\ held = FALSE

-----------------------------------------------------------------------------
(* The UI thread. *)

(* Start: a fresh thread with the window's configuration, which is the     *)
(* stored one until an Apply could not be saved.  The window first takes   *)
(* the answer to its Apply; a request nobody answered is dropped.          *)
Start ==
  /\ pc = "off"
  /\ apply \notin Completion
  /\ Goto("boot")
  /\ apply' = "idle" /\ manualReq' = FALSE
  /\ UNCHANGED <<loop, applyCfg, uiCfg, card, registry, recovery, held>>

(* Stop: the flag is read only between iterations, and the UI thread stays *)
(* in join until it was, so the request and the exit are one step.         *)
Stop ==
  /\ pc = "wait"
  /\ LoopGone(storedCfg)
  /\ UNCHANGED <<requests, card, recovery, held>>

(* The request also wakes the thread before its deadline.                  *)
RequestManualRestore ==
  /\ pc # "off"
  /\ manualReq' = TRUE
  /\ due' = TRUE
  /\ UNCHANGED <<pc, c, lost, temp, decision, safeVerified, counted, budget, retryAge,
                 lag, published, apply, applyCfg, uiCfg, card, registry, recovery, held>>

(* The mailbox is looked at once per iteration, in the apply step, and no  *)
(* step before it depends on it: a request that arrives during those steps *)
(* is one that had arrived before them.                                    *)
RequestApply(cfg) ==
  /\ pc = "wait"
  /\ apply = "idle"
  /\ apply' = "requested"
  /\ applyCfg' = cfg
  /\ UNCHANGED <<pc, loop, uiCfg, manualReq, card, registry, recovery, held>>

(* The window adopts a configuration that became active, saved or not.     *)
TakeApplyCompletion ==
  /\ pc \in {"off", "wait"}
  /\ apply \in Completion
  /\ apply' = "idle"
  /\ uiCfg' = IF apply \in {"Applied", "AppliedNotSaved"} THEN applyCfg ELSE uiCfg
  /\ UNCHANGED <<pc, loop, applyCfg, manualReq, card, registry, recovery, held>>

-----------------------------------------------------------------------------
(* Before the loop. *)

(* The writer lease is taken, NVML does not come up, or the timer cannot   *)
(* be created or armed: Run returns.                                       *)
Abandon ==
  /\ pc \in {"boot", "wait"}
  /\ LoopGone(storedCfg)
  /\ UNCHANGED <<requests, card, recovery, held>>

(* The latch of an earlier process: persisted, or owed because that        *)
(* process did not exit cleanly.  TakeRecoveryLatch clears the flag.       *)
(* Mutant of Boot: the persisted latch is forgotten.                       *)
BootForgets ==
  /\ pc = "boot"
  /\ c' = Fresh(uiCfg)
  /\ counted' = FALSE
  /\ recovery' = FALSE
  /\ published' = [published EXCEPT !.count = storedCount]
  /\ Goto("wait")
  /\ UNCHANGED <<lost, temp, decision, safeVerified, budget, retryAge, lag, due,
                 requests, card, registry, held>>

Boot ==
  LET inherit == storedLatch \/ recovery
      fresh   == Fresh(uiCfg)
  IN  /\ pc = "boot"
      /\ c' = IF inherit THEN RestorePersistedSafeLatch(fresh) ELSE fresh
      /\ counted' = inherit
      /\ recovery' = FALSE
      /\ published' = [published EXCEPT !.count = storedCount]
      /\ Goto(IF inherit THEN "bootWrite" ELSE "wait")
      /\ UNCHANGED <<lost, temp, decision, safeVerified, budget, retryAge, lag, due,
                     requests, card, registry, held>>

BootWrite(verified) ==
  /\ pc = "bootWrite"
  /\ SetLimit(c.cfg.safe, verified)
  /\ safeVerified' = verified
  /\ Goto(IF verified THEN "bootSave" ELSE "wait")
  /\ UNCHANGED <<c, lost, temp, decision, counted, budget, retryAge, lag, due,
                 published, requests, registry, recovery, held>>

BootSave ==
  /\ pc = "bootSave"
  /\ SaveSafeLatch(TRUE)
  /\ held' = (held \/ (c.latched /\ storedLatch'))
  /\ Goto("wait")
  /\ UNCHANGED <<loop, requests, card, storedCount, storedCfg, recovery>>

-----------------------------------------------------------------------------
(* Reading and deciding. *)

Woken ==
  /\ pc = "wait"
  /\ due
  /\ due' = FALSE
  /\ lag' = 0

ReadTemperature(t, delayed, rising) ==
  LET back  == IF lost THEN SensorRecovered(c) ELSE c
      after == ObserveTemperature(back, t, delayed, rising)
  IN  /\ Woken
      /\ c' = after
      /\ temp' = t
      /\ lost' = FALSE
      /\ decision' = Decision(after)
      /\ Goto(IF Trips(back, after) \/ (lost /\ c.latched) THEN "trip" ELSE "apply")
      /\ UNCHANGED <<safeVerified, counted, budget, retryAge, published, requests, card, registry, recovery, held>>

ReadFails ==
  LET after == SensorUnavailable(c)
  IN  /\ Woken
      /\ c' = after
      /\ temp' = Unset
      /\ lost' = TRUE
      /\ decision' = Decision(after)
      /\ Goto(IF Trips(c, after) THEN "trip" ELSE "apply")
      /\ UNCHANGED <<safeVerified, counted, budget, retryAge, published, requests, card, registry, recovery, held>>

(* Mutant of ApplySafePower: the trip is recorded though the write failed. *)
ApplySafePowerUnverified(verified) ==
  /\ pc = "trip"
  /\ SetLimit(c.cfg.safe, verified)
  /\ safeVerified' = verified
  /\ counted' = (counted /\ published.latched)
  /\ retryAge' = lag
  /\ Goto("tripSave")
  /\ UNCHANGED <<c, lost, temp, decision, budget, lag, due, published, requests,
                 registry, recovery, held>>

(* The decision says ApplySafePower.  An episode that was not shown as     *)
(* latched counts anew.                                                    *)
ApplySafePower(verified) ==
  /\ pc = "trip"
  /\ SetLimit(c.cfg.safe, verified)
  /\ safeVerified' = verified
  /\ counted' = (counted /\ published.latched)
  /\ retryAge' = lag
  /\ Goto(IF verified THEN "tripSave" ELSE "apply")
  /\ UNCHANGED <<c, lost, temp, decision, budget, lag, due, published, requests, registry, recovery, held>>

SafeLimitKnown(from, to, counting) ==
  /\ pc = from
  /\ SaveSafeLatch(TRUE)
  /\ held' = (held \/ storedLatch')
  /\ Goto(IF counted THEN to ELSE counting)
  /\ UNCHANGED <<loop, requests, card, storedCount, storedCfg, recovery>>

CountTrip(from, to) ==
  LET count == IF published.count < MaxTrips THEN published.count + 1 ELSE MaxTrips
  IN  /\ pc = from
      /\ counted' = TRUE
      /\ published' = [published EXCEPT !.count = count]
      /\ \/ storedCount' = count
         \/ SavesMayFail /\ UNCHANGED storedCount
      /\ Goto(to)
      /\ UNCHANGED <<c, lost, temp, decision, safeVerified, budget, retryAge, lag, due,
                     requests, card, storedLatch, storedCfg, recovery, held>>

(* Persist the latch and count the episode, once the safe limit is known   *)
(* to hold: right after the trip, or after a later retry.                  *)
RecordTrip ==
  \/ SafeLimitKnown("tripSave", "apply", "tripCount")
  \/ CountTrip("tripCount", "apply")
  \/ SafeLimitKnown("retrySave", "publish", "retryCount")
  \/ CountTrip("retryCount", "publish")

-----------------------------------------------------------------------------
(* Save & Apply, taken over between a decision and the restores. *)

Complete(result) == apply' = result

AcceptsApply ==
  /\ Configurable(c, applyCfg)
  /\ temp # Unset
  /\ lag < ApplyFresh
  /\ ~Near(c.cfg, temp)
  /\ ~Near(applyCfg, temp)

NoApply ==
  /\ pc = "apply"
  /\ apply # "requested"
  /\ Goto("auto")
  /\ UNCHANGED <<loop, requests, card, registry, recovery, held>>

(* Mutant of RejectApply: the early return leaves the request unanswered.  *)
RejectApplySilently ==
  /\ pc = "apply"
  /\ apply = "requested"
  /\ ~AcceptsApply
  /\ Goto("auto")
  /\ UNCHANGED <<loop, requests, card, registry, recovery, held>>

RejectApply ==
  /\ pc = "apply"
  /\ apply = "requested"
  /\ ~AcceptsApply
  /\ Complete("Rejected")
  /\ Goto("auto")
  /\ UNCHANGED <<loop, applyCfg, uiCfg, manualReq, card, registry, recovery, held>>

(* Mutant of ApplyWorkingPower: the controller keeps its configuration.    *)
ApplyPowerOnly(verified) ==
  /\ pc = "apply"
  /\ apply = "requested"
  /\ AcceptsApply
  /\ SetLimit(applyCfg.normal, verified)
  /\ c' = IF verified THEN c ELSE RestorePersistedSafeLatch(c)
  /\ Goto(IF verified THEN "applySave" ELSE "applyFallback")
  /\ UNCHANGED <<lost, temp, decision, safeVerified, counted, budget, retryAge, lag,
                 due, published, requests, registry, recovery, held>>

(* The requested working limit is written; the configuration changes only  *)
(* after it was verified.  decision still holds what was decided before.   *)
ApplyWorkingPower(verified) ==
  /\ pc = "apply"
  /\ apply = "requested"
  /\ AcceptsApply
  /\ SetLimit(applyCfg.normal, verified)
  /\ c' = IF verified THEN UpdateWorkingConfig(c, applyCfg)
                      ELSE RestorePersistedSafeLatch(c)
  /\ Goto(IF verified THEN "applySave" ELSE "applyFallback")
  /\ UNCHANGED <<lost, temp, decision, safeVerified, counted, budget, retryAge, lag,
                 due, published, requests, registry, recovery, held>>

ApplySave(saved) ==
  /\ pc = "applySave"
  /\ saved \/ SavesMayFail
  /\ IF saved THEN storedCfg' = applyCfg ELSE storedCfg' \in PartlySaved
  /\ Complete(IF saved THEN "Applied" ELSE "AppliedNotSaved")
  /\ Goto("auto")
  /\ UNCHANGED <<loop, applyCfg, uiCfg, manualReq, card, storedLatch, storedCount, recovery,
                 held>>

(* After a write that may or may not have happened: one write of the safe  *)
(* limit of the configuration still active, and the latch, which the retry *)
(* step of this same iteration verifies (last_safe_retry_ms = 0).          *)
ApplyFallback(verified) ==
  /\ pc = "applyFallback"
  /\ SetLimit(c.cfg.safe, verified)
  /\ safeVerified' = verified
  /\ Goto("applyLatch")
  /\ UNCHANGED <<c, lost, temp, decision, counted, budget, retryAge, lag, due,
                 published, requests, registry, recovery, held>>

ApplyLatch ==
  /\ pc = "applyLatch"
  /\ SaveSafeLatch(TRUE)
  /\ held' = (held \/ (c.latched /\ storedLatch'))
  /\ decision' = Decision(c)
  /\ retryAge' = RetryCap
  /\ Complete("WriteFailed")
  /\ Goto("auto")
  /\ UNCHANGED <<c, lost, temp, safeVerified, counted, budget, lag, due, published,
                 applyCfg, uiCfg, manualReq, card, storedCount, storedCfg, recovery>>

-----------------------------------------------------------------------------
(* Restores: RestoreWithSafeFallback, automatic and then manual. *)

After(stage) == IF stage = "auto" THEN "manual" ELSE "retry"

AfterRestore(stage, verified) ==
  CASE stage = "auto"   -> IF verified THEN "autoSave" ELSE "autoFallback"
    [] stage = "manual" -> IF verified THEN "manualSave" ELSE "manualFallback"

MayRestoreAutomatically ==
  /\ temp # Unset
  /\ c.cfg.auto
  /\ decision.state = "ReadyToRestore"
  /\ CanAttempt(ObserveLatch(budget, c.latched))

MayRestoreManually == temp # Unset /\ manualReq

MayRestore(stage) ==
  IF stage = "auto" THEN MayRestoreAutomatically ELSE MayRestoreManually

BudgetAt(stage) ==
  IF stage = "auto" THEN ObserveLatch(budget, c.latched)
  ELSE IF MayRestoreManually THEN ResetForManualRequest(budget)
  ELSE budget

Consume(stage) ==
  manualReq' = (manualReq /\ ~(stage = "manual" /\ MayRestoreManually))

(* Nothing to do, or RequestRestore did not propose a release: whatever it *)
(* left, a revoked ReadyToRestore included, is committed.                  *)
NoRestore(stage) ==
  LET candidate == RequestRestore(c, temp)
  IN  /\ pc = stage
      /\ ~(MayRestore(stage) /\ Releases(c, candidate))
      /\ budget' = BudgetAt(stage)
      /\ IF MayRestore(stage)
         THEN c' = candidate /\ decision' = Decision(candidate)
         ELSE UNCHANGED <<c, decision>>
      /\ Consume(stage)
      /\ Goto(After(stage))
      /\ UNCHANGED <<lost, temp, safeVerified, counted, retryAge, lag, due, published,
                     apply, applyCfg, uiCfg, card, registry, recovery, held>>

(* The normal-power write.  The controller releases the latch only if it   *)
(* was verified; from here on the safe limit is no longer assumed.         *)
(* Mutant of Restore: the release is committed before it is verified.      *)
RestoreCommitsFirst(stage, verified, mayRetry) ==
  LET candidate == RequestRestore(c, temp)
  IN  /\ pc = stage
      /\ MayRestore(stage)
      /\ Releases(c, candidate)
      /\ SetLimit(c.cfg.normal, verified)
      /\ safeVerified' = FALSE
      /\ budget' = Attempted(BudgetAt(stage), verified \/ mayRetry)
      /\ c' = candidate
      /\ decision' = Decision(candidate)
      /\ Consume(stage)
      /\ held' = (held /\ ~verified)
      /\ Goto(AfterRestore(stage, verified))
      /\ UNCHANGED <<lost, temp, counted, retryAge, lag, due, published, apply,
                     applyCfg, uiCfg, registry, recovery>>

Restore(stage, verified, mayRetry) ==
  LET candidate == RequestRestore(c, temp)
      left      == IF verified THEN candidate ELSE c
  IN  /\ pc = stage
      /\ MayRestore(stage)
      /\ Releases(c, candidate)
      /\ SetLimit(c.cfg.normal, verified)
      /\ safeVerified' = FALSE
      /\ budget' = Attempted(BudgetAt(stage), verified \/ mayRetry)
      /\ c' = left
      /\ decision' = Decision(left)
      /\ Consume(stage)
      /\ held' = (held /\ ~verified)
      /\ Goto(AfterRestore(stage, verified))
      /\ UNCHANGED <<lost, temp, counted, retryAge, lag, due, published, apply,
                     applyCfg, uiCfg, registry, recovery>>

RestoreSave ==
  /\ pc \in {"autoSave", "manualSave"}
  /\ counted' = FALSE
  /\ SaveSafeLatch(FALSE)
  /\ Goto(IF pc = "autoSave" THEN "manual" ELSE "retry")
  /\ UNCHANGED <<c, lost, temp, decision, safeVerified, budget, retryAge, lag, due,
                 published, requests, card, storedCount, storedCfg,
                 recovery, held>>

(* Mutant of RestoreFallback: the fallback is taken to have worked.        *)
RestoreFallbackAssumed(verified) ==
  /\ pc \in {"autoFallback", "manualFallback"}
  /\ SetLimit(c.cfg.safe, verified)
  /\ safeVerified' = TRUE
  /\ retryAge' = 0
  /\ Goto(IF pc = "autoFallback" THEN "manual" ELSE "retry")
  /\ UNCHANGED <<c, lost, temp, decision, counted, budget, lag, due, published,
                 requests, registry, recovery, held>>

RestoreFallback(verified) ==
  /\ pc \in {"autoFallback", "manualFallback"}
  /\ SetLimit(c.cfg.safe, verified)
  /\ safeVerified' = verified
  /\ retryAge' = 0
  /\ Goto(IF pc = "autoFallback" THEN "manual" ELSE "retry")
  /\ UNCHANGED <<c, lost, temp, decision, counted, budget, lag, due, published,
                 requests, registry, recovery, held>>

-----------------------------------------------------------------------------
(* The periodic check of the safe limit, and publication. *)

(* Mutant of RetryDue: only a limit that was verified before is checked.   *)
RetryDueIfVerified == decision.latched /\ safeVerified /\ retryAge - lag >= SafeRetry

RetryDue == decision.latched /\ retryAge - lag >= SafeRetry

NoRetry ==
  /\ pc = "retry"
  /\ ~RetryDue
  /\ Goto("publish")
  /\ UNCHANGED <<loop, requests, card, registry, recovery, held>>

(* The limit in force is read first, and written only if the read failed   *)
(* or it is above the safe limit.                                          *)
RetrySafePower(readable, verified) ==
  LET effective == readable /\ hw <= c.cfg.safe
  IN  /\ pc = "retry"
      /\ RetryDue
      /\ IF effective THEN verified /\ UNCHANGED card
                      ELSE SetLimit(c.cfg.safe, verified)
      /\ safeVerified' = verified
      /\ retryAge' = lag
      /\ Goto(IF verified /\ ~counted THEN "retrySave" ELSE "publish")
      /\ UNCHANGED <<c, lost, temp, decision, counted, budget, lag, due, published,
                     requests, registry, recovery, held>>

Publish ==
  /\ pc = "publish"
  /\ budget' = ObserveLatch(budget, c.latched)
  /\ published' = [published EXCEPT
       !.latched = decision.latched /\ safeVerified]
  /\ lag' = 0 /\ temp' = Unset /\ decision' = NoDecision
  /\ Goto("wait")
  /\ UNCHANGED <<c, lost, safeVerified, counted, retryAge, due, requests, card,
                 registry, recovery, held>>

-----------------------------------------------------------------------------
(* Everything else that happens. *)

(* Time passes while the thread waits, or a call holds up the iteration.   *)
Elapse(d) ==
  /\ \/ pc = "wait" /\ d = 1 /\ due' = TRUE /\ UNCHANGED lag
     \/ /\ pc \in {"apply", "auto", "manual"}
        /\ lag = 0 /\ d = MaxStall
        /\ lag' = d
        /\ UNCHANGED due
  /\ c' = Elapsed(c, d)
  /\ budget' = [budget EXCEPT !.age = Aged(@, d, AttemptCap)]
  /\ retryAge' = Aged(retryAge, d, RetryCap)
  /\ UNCHANGED <<pc, lost, temp, decision, safeVerified, counted, published, requests, card, registry, recovery, held>>

(* Another tool changes the power limit.                                   *)
OutsideWrite(w) ==
  /\ hw' = w
  /\ foreign' = TRUE
  /\ UNCHANGED <<pc, loop, requests, registry, recovery, held>>

(* The process dies: it crashed, was killed, or the supervisor ended it    *)
(* (RequestRecovery, the watchdog).  The next child starts with the flag.  *)
Crash ==
  /\ \E stored \in IF pc = "applySave" THEN PartlySaved \cup {applyCfg} ELSE {storedCfg} :
        LoopGone(stored) /\ uiCfg' = stored
  /\ recovery' = TRUE
  /\ apply' = "idle" /\ manualReq' = FALSE
  /\ UNCHANGED <<applyCfg, card, held>>

(* The user quits; the next start is a new supervisor's first child.       *)
Relaunch ==
  /\ pc = "off"
  /\ recovery' = FALSE
  /\ apply' = "idle" /\ manualReq' = FALSE
  /\ uiCfg' = storedCfg
  /\ UNCHANGED <<pc, loop, applyCfg, card, registry, held>>

UserInterface ==
  \/ Start
  \/ Stop
  \/ RequestManualRestore
  \/ \E cfg \in Configs : RequestApply(cfg)
  \/ TakeApplyCompletion

Reads ==
  \/ \E t \in Temps, delayed, rising \in BOOLEAN :
        ReadTemperature(t, delayed, rising)
  \/ ReadFails

(* The steps after the reading, which the thread takes on its own.         *)
Proceeds ==
  \/ Boot \/ BootSave
  \/ RecordTrip
  \/ NoApply \/ RejectApply \/ \E saved \in BOOLEAN : ApplySave(saved)
  \/ ApplyLatch
  \/ \E stage \in {"auto", "manual"} : NoRestore(stage)
  \/ RestoreSave
  \/ NoRetry
  \/ Publish

PowerWrite(verified) ==
  \/ BootWrite(verified)
  \/ ApplySafePower(verified)
  \/ ApplyWorkingPower(verified)
  \/ ApplyFallback(verified)
  \/ \E stage \in {"auto", "manual"}, mayRetry \in BOOLEAN :
        Restore(stage, verified, mayRetry)
  \/ RestoreFallback(verified)
  \/ \E readable \in BOOLEAN : RetrySafePower(readable, verified)

Thread == Reads \/ Proceeds \/ \E verified \in BOOLEAN : PowerWrite(verified)

Next ==
  \/ UserInterface
  \/ Thread
  \/ \E d \in {1, MaxStall} : Elapse(d)
  \/ Abandon
  \/ \E w \in OutsideLimits : OutsideWrite(w)
  \/ Crash
  \/ Relaunch

Spec == Init /\ [][Next]_vars

-----------------------------------------------------------------------------
(* Safety. *)

InLoop == pc \notin {"off", "boot", "bootWrite", "bootSave"}

(* What the window calls a held safe latch is true of the card: between    *)
(* two iterations of which the last published a verified latch, the limit  *)
(* in force is at most the safe limit, unless another tool moved it.  The  *)
(* program's own uncertain writes (a failed restore, a failed fallback)    *)
(* never hide behind the claim.                                            *)
SafeClaimIsHonest ==
  pc = "wait" /\ published.latched /\ ~foreign => hw <= c.cfg.safe

(* Well typed, and honest.                                                 *)
ClaimIsHonest == TypeOK /\ SafeClaimIsHonest

(* While the latch is set the program raises the limit above safe power in *)
(* one situation only: a restore whose controller has completed the        *)
(* stable-cooling window and whose reading is cool and not yet as old as   *)
(* the telemetry-loss limit, however long the iteration was held up.       *)
RaiseNeedsCooling ==
  [][hw' > hw /\ hw' > c.cfg.safe /\ ~foreign' /\ c.latched
       => /\ c.state = "ReadyToRestore"
          /\ c.recoveryAge = RecoveryStable
          /\ c.sampleAge < LossLimit
          /\ temp # Unset /\ temp <= RecoveryTemperature(c.cfg)]_vars

(* A hot reading ends its iteration latched, whatever Apply, automatic and *)
(* manual restore were asked to do in the same iteration.                  *)
HotIterationEndsLatched ==
  pc = "publish" /\ temp # Unset /\ temp >= c.cfg.trigger /\ ~IsMonitorOnly(c.cfg)
    => c.latched /\ c.state = "SafeLatched"

(* A recorded trip survives every crash, stop and relaunch: whenever the   *)
(* loop runs again the controller is latched, until a restore whose        *)
(* normal-power write was verified.                                        *)
RecordedTripIsHeld == held /\ InLoop => c.latched

(* The trip total counts an episode only while its safe limit is verified, *)
(* so a trip whose power write failed is not counted until it holds.       *)
TripsCountedWhenVerified ==
  [][published'.count > published.count /\ pc # "boot"
       => c.latched /\ safeVerified /\ (~foreign => hw <= c.cfg.safe)]_vars

(* Applied is what the window says of an Apply: the controller works with  *)
(* exactly the requested configuration, and a restart would load it.       *)
AppliedIsActive ==
  apply = "Applied" => storedCfg = applyCfg /\ (InLoop => c.cfg = applyCfg)

(* A Save and Apply that was accepted is what the worker runs with, and no *)
(* half-saved configuration makes a start forget a recorded trip.          *)
ApplyKeepsTrips == AppliedIsActive /\ RecordedTripIsHeld

-----------------------------------------------------------------------------
(* What the code says about MonitorOnly. *)

(* "The guard watches and records, and never writes."                      *)
MonitorOnlyNeverWrites ==
  [][c.state = "MonitorOnly" /\ c'.state = "MonitorOnly"
       => card' = card \/ foreign']_vars

(* "it must never be reported as `Armed', because what it does when the    *)
(* card gets hot is nothing."                                              *)
MonitorOnlyNeverReportedArmed ==
  pc = "publish" /\ c.state = "MonitorOnly" => decision.state # "Armed"

(* "Working power Apply failed; safe latch retained", which the window     *)
(* shows for every Apply whose write failed.                               *)
FailedApplyRetainsLatch ==
  [][apply = "requested" /\ apply' = "WriteFailed" => c'.latched]_vars

-----------------------------------------------------------------------------
(* Liveness. *)

(* The thread's own steps and the passage of time do not stop, a read is   *)
(* tried again at the next deadline, and the driver does not fail every    *)
(* write of the safe limit for ever.                                       *)
SafeWriteHolds ==
  \/ BootWrite(TRUE) \/ ApplySafePower(TRUE) \/ ApplyFallback(TRUE)
  \/ RestoreFallback(TRUE)
  \/ \E readable \in BOOLEAN : RetrySafePower(readable, TRUE)

Fairness ==
  /\ WF_vars(Thread)
  /\ SF_vars(Elapse(1))
  /\ SF_vars(SafeWriteHolds)

FairSpec == Spec /\ Fairness

(* A latched guard does not leave the card above safe power: the limit     *)
(* comes down, or the latch is released, or the thread ends.               *)
LimitComesDown ==
  [](InLoop /\ c.latched /\ hw > c.cfg.safe
       => <>(hw <= c.cfg.safe \/ ~c.latched \/ ~InLoop))

(* Every Apply request gets its answer unless the thread ends first.       *)
ApplyIsAnswered == (apply = "requested") ~> (apply # "requested" \/ ~InLoop)

(* A GPU that stays cool under Auto Restore does not stay throttled: the   *)
(* latch is released or the attempts are used up, unless readings fail     *)
(* or come further apart than the telemetry-loss limit, the user keeps     *)
(* asking, or the thread ends.                                             *)
CoolGuardRecovers ==
  ~<>[](/\ InLoop /\ c.latched /\ c.cfg.auto
        /\ c.recoveryAge # Unset /\ c.sampleAge < LossLimit
        /\ ~manualReq
        /\ ~Exhausted(budget))
=============================================================================
