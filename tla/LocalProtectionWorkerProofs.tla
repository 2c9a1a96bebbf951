---------------------- MODULE LocalProtectionWorkerProofs ----------------------
(***************************************************************************)
(* Theorems about LocalProtectionWorker for every set of configurations,   *)
(* temperatures and outside limits and every value of the thresholds.      *)
(*                                                                         *)
(* Most of what the thread relies on while it is between two of its        *)
(* effects is said nowhere in the code: IInv says it, stage by stage.      *)
(***************************************************************************)
EXTENDS LocalProtectionWorker, ProtectionPolicyProofs

(* The stages that follow a reading, until the iteration is published.     *)
Iteration ==
  {"trip", "tripSave", "tripCount", "apply", "applySave", "applyFallback", "applyLatch",
   "auto", "autoSave", "autoFallback", "manual", "manualSave", "manualFallback",
   "retry", "retrySave", "retryCount", "publish"}

(* No thread ever starts with, runs with or stores an invalid              *)
(* configuration.                                                          *)
ConfigsAreValid ==
  /\ ValidateConfig(storedCfg) /\ ValidateConfig(uiCfg)
  /\ pc = "applySave" \/ apply \in {"Applied", "AppliedNotSaved"} => ValidateConfig(applyCfg)

(* An Apply is answered by the iteration that took it, and the UI thread   *)
(* takes the answer before another thread starts.                          *)
MailboxHolds ==
  /\ pc \in {"boot", "bootWrite", "bootSave"} => apply = "idle"
  /\ pc \in {"applySave", "applyFallback", "applyLatch"} => apply = "requested"
  /\ pc = "applySave" => c.cfg = applyCfg /\ ~c.latched
  /\ apply = "Applied" => storedCfg = applyCfg /\ (InLoop => c.cfg = applyCfg)

(* What is decided after a reading is about the latch of the controller,   *)
(* but for the two steps in which a failed Apply has set it.               *)
DecisionAgrees ==
  pc \in Iteration \ {"applyFallback", "applyLatch"} => decision.latched = c.latched

(* safe_limit_verified, and what was published of it.                      *)
VerdictsHold ==
  /\ pc \in {"off", "boot", "bootWrite"} => ~safeVerified
  /\ pc \in {"trip", "tripSave", "tripCount", "retrySave", "retryCount"} => c.latched
  /\ pc \in {"tripSave", "tripCount", "retrySave", "retryCount"} => safeVerified
  /\ pc \in {"off", "boot", "bootWrite", "bootSave"} => ~published.latched
  /\ pc = "wait" /\ published.latched => c.latched /\ safeVerified

(* A verified safe limit is in force as long as the latch is set.  Before  *)
(* the write that a new latch calls for, the flag is that of an earlier    *)
(* episode and says nothing.                                               *)
SafeIsInForce ==
  c.latched /\ safeVerified /\ ~foreign /\ pc \notin {"trip", "applyFallback"}
    => hw <= c.cfg.safe

(* A hot reading stays latched to the end of its iteration.                *)
HotIsLatched ==
  pc \in Iteration /\ temp # Unset /\ temp >= c.cfg.trigger /\ ~IsMonitorOnly(c.cfg)
    => c.latched /\ c.state = "SafeLatched"

(* Without failing saves the thread, the registry and the window have one  *)
(* configuration but while an Apply is being answered.                     *)
OneConfig ==
  ~SavesMayFail =>
    /\ apply # "AppliedNotSaved"
    /\ pc \notin {"off", "boot", "applySave"} => c.cfg = storedCfg
    /\ apply # "Applied" => uiCfg = storedCfg

(* What a recorded trip needs to outlive the process: a registry whose     *)
(* configuration guards, should the thread's own be lost with it.  A save  *)
(* that fails half way may leave one that does not.                        *)
SavesKeepGuarding == SavesMayFail => \A cfg \in Configs : ~IsMonitorOnly(cfg)

(* A recorded trip is in the registry, and in every controller from the    *)
(* first step of a thread on.                                              *)
TripIsKept ==
  held => /\ storedLatch
          /\ pc \notin {"off", "boot"} => c.latched
          /\ pc \notin {"autoSave", "manualSave"}
          /\ ~IsMonitorOnly(storedCfg)

IInv ==
  /\ TypeOK
  /\ Coherent(c)
  /\ ConfigsAreValid
  /\ MailboxHolds
  /\ DecisionAgrees
  /\ VerdictsHold
  /\ SafeIsInForce
  /\ HotIsLatched
  /\ OneConfig
  /\ SavesKeepGuarding => TripIsKept

-----------------------------------------------------------------------------
(* Values and building blocks.                                             *)

LEMMA Caps ==
  /\ MaxStall \in Nat /\ MaxTrips \in Nat /\ MaxAttempts \in Nat \ {0}
  /\ RetryCap \in Nat /\ AttemptCap \in Nat
  /\ 0 \in 0 .. MaxStall /\ MaxStall \in 0 .. MaxStall
  /\ 0 \in 0 .. MaxTrips /\ 0 \in 0 .. RetryCap /\ RetryCap \in 0 .. RetryCap
  /\ 0 .. MaxStall \subseteq 0 .. RetryCap
BY WorkerAssumption DEF RetryCap, AttemptCap

LEMMA LimitsKnown ==
  /\ Limits \subseteq Nat
  /\ OutsideLimits \subseteq Limits
  /\ \A cfg \in Configs : cfg.normal \in Limits /\ cfg.safe \in Limits
BY ConfigType, WorkerAssumption DEF Limits

(* Ages of the loop, which are never empty.                                *)
LEMMA AgedInRange ==
  ASSUME NEW limit \in Nat, NEW age \in 0 .. limit, NEW d \in Nat
  PROVE  Aged(age, d, limit) \in 0 .. limit
BY DEF Aged, Unset

(* RestoreRetryBudget.                                                     *)
LEMMA FreshBudgetType == FreshBudget \in Budget
BY Caps DEF FreshBudget, Budget

LEMMA ResetType ==
  ASSUME NEW b \in Budget
  PROVE  /\ ResetForManualRequest(b) \in Budget
         /\ ResetForManualRequest(b).attempts = 0
<1>1. 0 \in 0 .. MaxAttempts /\ AttemptCap \in 0 .. AttemptCap
  BY Caps
<1> QED  BY <1>1 DEF ResetForManualRequest, Budget

LEMMA ObserveLatchType ==
  ASSUME NEW b \in Budget, NEW latched \in BOOLEAN
  PROVE  ObserveLatch(b, latched) \in Budget
<1> DEFINE k == IF latched /\ ~b.latched THEN ResetForManualRequest(b) ELSE b
<1>1. k \in Budget
  BY ResetType
<1>2. ObserveLatch(b, latched) = [k EXCEPT !.latched = latched]
  BY DEF ObserveLatch
<1> HIDE DEF k
<1> QED  BY <1>1, <1>2 DEF Budget

LEMMA AttemptedType ==
  ASSUME NEW b \in Budget, NEW mayRetry \in BOOLEAN, b.attempts < MaxAttempts
  PROVE  Attempted(b, mayRetry) \in Budget
<1>1. b.attempts + 1 \in 0 .. MaxAttempts /\ 0 \in 0 .. AttemptCap
  BY Caps DEF Budget
<1> QED  BY <1>1 DEF Attempted, Budget

(* No restore is attempted beyond the budget.                              *)
LEMMA BudgetType ==
  ASSUME TypeOK, NEW stage \in {"auto", "manual"}
  PROVE  /\ BudgetAt(stage) \in Budget
         /\ MayRestore(stage) => BudgetAt(stage).attempts < MaxAttempts
<1>1. budget \in Budget /\ c.latched \in BOOLEAN
  BY DEF TypeOK, Controller
<1>2. /\ ObserveLatch(budget, c.latched) \in Budget
      /\ ResetForManualRequest(budget) \in Budget
      /\ ResetForManualRequest(budget).attempts = 0
  BY <1>1, ObserveLatchType, ResetType
<1>3. CASE stage = "auto"
  <2>1. BudgetAt(stage) = ObserveLatch(budget, c.latched)
    BY <1>3 DEF BudgetAt
  <2>2. MayRestore(stage) => ~Exhausted(BudgetAt(stage))
    BY <1>3, <2>1 DEF MayRestore, MayRestoreAutomatically, CanAttempt
  <2>3. BudgetAt(stage).attempts \in Nat
    BY <1>2, <2>1 DEF Budget
  <2> QED  BY <1>2, <2>1, <2>2, <2>3, Caps DEF Exhausted
<1>4. CASE stage = "manual"
  BY <1>1, <1>2, <1>4, Caps DEF BudgetAt, MayRestore
<1> QED  BY <1>3, <1>4

(* The mixtures a half-way save may leave are valid configurations.        *)
LEMMA PartlySavedType ==
  \A cfg \in PartlySaved : cfg \in Configs /\ ValidateConfig(cfg)
BY DEF PartlySaved

LEMMA DecisionType ==
  ASSUME NEW k \in Controller
  PROVE  /\ Decision(k) \in [state : ProtectionState, latched : BOOLEAN]
         /\ Decision(k).latched = k.latched
BY DEF Decision, Controller

(* A limit that is set is a known one, and in force if it was verified.    *)
LEMMA SetLimitType ==
  ASSUME TypeOK, NEW w \in Limits, NEW verified \in BOOLEAN, SetLimit(w, verified)
  PROVE  /\ hw' \in Limits /\ foreign' \in BOOLEAN
         /\ verified => hw' = w
BY DEF SetLimit, TypeOK, card

-----------------------------------------------------------------------------
(* The UI thread.                                                          *)

(* A thread starts.                                                        *)
LEMMA StartSound ==
  ASSUME IInv, Start
  PROVE  IInv'
<1>1. /\ pc = "off" /\ pc' = "boot" /\ "boot" \in Stages
      /\ apply \notin Completion /\ apply' = "idle" /\ manualReq' = FALSE
      /\ UNCHANGED <<c, lost, temp, decision, safeVerified, counted, budget, retryAge, lag, due,
                     published, applyCfg, uiCfg, hw, foreign, storedLatch, storedCount, storedCfg,
                     recovery, held>>
  BY DEF Start, Goto, Stages, loop, card, registry
<1>2. TypeOK'
  BY <1>1 DEF IInv, TypeOK
<1>3. Coherent(c)'
  BY <1>1 DEF IInv, Coherent, SampleStamped
<1>4. ConfigsAreValid' /\ MailboxHolds'
  BY <1>1 DEF IInv, ConfigsAreValid, MailboxHolds, InLoop, Completion
<1>5. DecisionAgrees' /\ VerdictsHold'
  BY <1>1 DEF IInv, DecisionAgrees, VerdictsHold, Iteration, Completion
<1>6. SafeIsInForce' /\ HotIsLatched'
  BY <1>1 DEF IInv, SafeIsInForce, HotIsLatched, Iteration, Completion
<1>7. OneConfig' /\ (SavesKeepGuarding => TripIsKept)'
  BY <1>1 DEF IInv, OneConfig, TripIsKept, SavesKeepGuarding, Completion
<1> QED  BY <1>2, <1>3, <1>4, <1>5, <1>6, <1>7 DEF IInv

(* The restore button.                                                     *)
LEMMA RequestManualRestoreSound ==
  ASSUME IInv, RequestManualRestore
  PROVE  IInv'
<1>1. /\ manualReq' = TRUE /\ due' = TRUE
      /\ UNCHANGED <<pc, c, lost, temp, decision, safeVerified, counted, budget, retryAge, lag,
                     published, apply, applyCfg, uiCfg, hw, foreign, storedLatch, storedCount,
                     storedCfg, recovery, held>>
  BY DEF RequestManualRestore, card, registry
<1>2. TypeOK'
  BY <1>1 DEF IInv, TypeOK
<1>3. Coherent(c)'
  BY <1>1 DEF IInv, Coherent, SampleStamped
<1>4. ConfigsAreValid' /\ MailboxHolds'
  BY <1>1 DEF IInv, ConfigsAreValid, MailboxHolds, InLoop
<1>5. DecisionAgrees' /\ VerdictsHold'
  BY <1>1 DEF IInv, DecisionAgrees, VerdictsHold, Iteration
<1>6. SafeIsInForce' /\ HotIsLatched'
  BY <1>1 DEF IInv, SafeIsInForce, HotIsLatched, Iteration
<1>7. OneConfig' /\ (SavesKeepGuarding => TripIsKept)'
  BY <1>1 DEF IInv, OneConfig, TripIsKept, SavesKeepGuarding
<1> QED  BY <1>2, <1>3, <1>4, <1>5, <1>6, <1>7 DEF IInv

(* Save & Apply.                                                           *)
LEMMA RequestApplySound ==
  ASSUME IInv, NEW cfg \in Configs, RequestApply(cfg)
  PROVE  IInv'
<1>1. /\ pc = "wait" /\ apply = "idle" /\ apply' = "requested" /\ applyCfg' = cfg
      /\ UNCHANGED <<pc, c, lost, temp, decision, safeVerified, counted, budget, retryAge, lag,
                     due, published, uiCfg, manualReq, hw, foreign, storedLatch, storedCount,
                     storedCfg, recovery, held>>
  BY DEF RequestApply, loop, card, registry
<1>2. TypeOK'
  BY <1>1 DEF IInv, TypeOK
<1>3. Coherent(c)'
  BY <1>1 DEF IInv, Coherent, SampleStamped
<1>4. ConfigsAreValid' /\ MailboxHolds'
  BY <1>1 DEF IInv, ConfigsAreValid, MailboxHolds, InLoop
<1>5. DecisionAgrees' /\ VerdictsHold'
  BY <1>1 DEF IInv, DecisionAgrees, VerdictsHold, Iteration
<1>6. SafeIsInForce' /\ HotIsLatched'
  BY <1>1 DEF IInv, SafeIsInForce, HotIsLatched, Iteration
<1>7. OneConfig' /\ (SavesKeepGuarding => TripIsKept)'
  BY <1>1 DEF IInv, OneConfig, TripIsKept, SavesKeepGuarding
<1> QED  BY <1>2, <1>3, <1>4, <1>5, <1>6, <1>7 DEF IInv

(* Its answer.                                                             *)
LEMMA TakeApplyCompletionSound ==
  ASSUME IInv, TakeApplyCompletion
  PROVE  IInv'
<1>1. /\ pc \in {"off", "wait"} /\ apply \in Completion /\ apply' = "idle"
      /\ uiCfg' = IF apply \in {"Applied", "AppliedNotSaved"} THEN applyCfg ELSE uiCfg
      /\ UNCHANGED <<pc, c, lost, temp, decision, safeVerified, counted, budget, retryAge, lag,
                     due, published, applyCfg, manualReq, hw, foreign, storedLatch, storedCount,
                     storedCfg, recovery, held>>
  BY DEF TakeApplyCompletion, loop, card, registry
<1>2. TypeOK'
  BY <1>1 DEF IInv, TypeOK
<1>3. Coherent(c)'
  BY <1>1 DEF IInv, Coherent, SampleStamped
<1>4. ConfigsAreValid' /\ MailboxHolds'
  BY <1>1 DEF IInv, ConfigsAreValid, MailboxHolds, InLoop
<1>5. DecisionAgrees' /\ VerdictsHold'
  BY <1>1 DEF IInv, DecisionAgrees, VerdictsHold, Iteration
<1>6. SafeIsInForce' /\ HotIsLatched'
  BY <1>1 DEF IInv, SafeIsInForce, HotIsLatched, Iteration
<1>7. OneConfig' /\ (SavesKeepGuarding => TripIsKept)'
  BY <1>1 DEF IInv, MailboxHolds, OneConfig, TripIsKept, SavesKeepGuarding
<1> QED  BY <1>2, <1>3, <1>4, <1>5, <1>6, <1>7 DEF IInv

(* The next start of the program.                                          *)
LEMMA RelaunchSound ==
  ASSUME IInv, Relaunch
  PROVE  IInv'
<1>1. /\ pc = "off" /\ apply' = "idle" /\ manualReq' = FALSE /\ recovery' = FALSE
      /\ uiCfg' = storedCfg
      /\ UNCHANGED <<pc, c, lost, temp, decision, safeVerified, counted, budget, retryAge, lag,
                     due, published, applyCfg, hw, foreign, storedLatch, storedCount, storedCfg,
                     held>>
  BY DEF Relaunch, loop, card, registry
<1>2. TypeOK'
  BY <1>1 DEF IInv, TypeOK
<1>3. Coherent(c)'
  BY <1>1 DEF IInv, Coherent, SampleStamped
<1>4. ConfigsAreValid' /\ MailboxHolds'
  BY <1>1 DEF IInv, ConfigsAreValid, MailboxHolds, InLoop
<1>5. DecisionAgrees' /\ VerdictsHold'
  BY <1>1 DEF IInv, DecisionAgrees, VerdictsHold, Iteration
<1>6. SafeIsInForce' /\ HotIsLatched'
  BY <1>1 DEF IInv, SafeIsInForce, HotIsLatched, Iteration
<1>7. OneConfig' /\ (SavesKeepGuarding => TripIsKept)'
  BY <1>1 DEF IInv, OneConfig, TripIsKept, SavesKeepGuarding
<1> QED  BY <1>2, <1>3, <1>4, <1>5, <1>6, <1>7 DEF IInv

(* Another tool moves the limit.                                           *)
LEMMA OutsideWriteSound ==
  ASSUME IInv, NEW w \in OutsideLimits, OutsideWrite(w)
  PROVE  IInv'
<1>1. /\ hw' = w /\ foreign' = TRUE
      /\ UNCHANGED <<pc, c, lost, temp, decision, safeVerified, counted, budget, retryAge, lag,
                     due, published, apply, applyCfg, uiCfg, manualReq, storedLatch, storedCount,
                     storedCfg, recovery, held>>
  BY DEF OutsideWrite, loop, requests, registry
<1>2. TypeOK'
  BY <1>1, LimitsKnown DEF IInv, TypeOK
<1>3. Coherent(c)'
  BY <1>1 DEF IInv, Coherent, SampleStamped
<1>4. ConfigsAreValid' /\ MailboxHolds'
  BY <1>1 DEF IInv, ConfigsAreValid, MailboxHolds, InLoop
<1>5. DecisionAgrees' /\ VerdictsHold'
  BY <1>1 DEF IInv, DecisionAgrees, VerdictsHold, Iteration
<1>6. SafeIsInForce' /\ HotIsLatched'
  BY <1>1 DEF IInv, SafeIsInForce, HotIsLatched, Iteration
<1>7. OneConfig' /\ (SavesKeepGuarding => TripIsKept)'
  BY <1>1 DEF IInv, OneConfig, TripIsKept, SavesKeepGuarding
<1> QED  BY <1>2, <1>3, <1>4, <1>5, <1>6, <1>7 DEF IInv

(* What is left once the thread is gone.                                   *)
LEMMA LoopGoneType ==
  ASSUME NEW stored \in Configs, ValidateConfig(stored), LoopGone(stored)
  PROVE  /\ c' \in Controller /\ Coherent(c')
         /\ decision' \in [state : ProtectionState, latched : BOOLEAN]
         /\ budget' \in Budget
         /\ published' \in [latched : BOOLEAN, count : 0 .. MaxTrips] /\ ~published'.latched
<1>1. /\ c' = Fresh(stored) /\ decision' = NoDecision /\ budget' = FreshBudget
      /\ published' = NothingPublished
  BY DEF LoopGone
<1>2. NoDecision \in [state : ProtectionState, latched : BOOLEAN]
  BY DEF NoDecision, ProtectionState
<1>3. NothingPublished \in [latched : BOOLEAN, count : 0 .. MaxTrips] /\ ~NothingPublished.latched
  BY Caps DEF NothingPublished
<1> QED  BY <1>1, <1>2, <1>3, FreshSound, FreshBudgetType

(* The thread is stopped.                                                  *)
LEMMA StopSound ==
  ASSUME IInv, Stop
  PROVE  IInv'
<1> storedCfg \in Configs /\ ValidateConfig(storedCfg)
  BY DEF IInv, TypeOK, ConfigsAreValid
<1>1. /\ pc = "wait" /\ c' \in Controller /\ Coherent(c')
      /\ pc' = "off" /\ "off" \in Stages /\ storedCfg' = storedCfg /\ c' = Fresh(storedCfg)
      /\ lost' = FALSE /\ temp' = Unset /\ safeVerified' = FALSE /\ counted' = FALSE
      /\ decision' \in [state : ProtectionState, latched : BOOLEAN]
      /\ budget' \in Budget /\ retryAge' = RetryCap /\ lag' = 0 /\ due' = TRUE
      /\ published' \in [latched : BOOLEAN, count : 0 .. MaxTrips] /\ ~published'.latched
      /\ UNCHANGED <<storedLatch, storedCount, apply, applyCfg, uiCfg, manualReq, hw, foreign,
                     recovery, held>>
  BY LoopGoneType DEF Stop, LoopGone, Stages, requests, card
<1>2. TypeOK'
  BY <1>1, Caps DEF IInv, TypeOK
<1>3. Coherent(c)'
  BY <1>1
<1>4. ConfigsAreValid' /\ MailboxHolds'
  BY <1>1 DEF IInv, ConfigsAreValid, MailboxHolds, InLoop
<1>5. DecisionAgrees' /\ VerdictsHold'
  BY <1>1 DEF IInv, DecisionAgrees, VerdictsHold, Iteration
<1>6. SafeIsInForce' /\ HotIsLatched'
  BY <1>1 DEF IInv, SafeIsInForce, HotIsLatched, Iteration
<1>7. OneConfig' /\ (SavesKeepGuarding => TripIsKept)'
  BY <1>1 DEF IInv, OneConfig, TripIsKept, SavesKeepGuarding
<1> QED  BY <1>2, <1>3, <1>4, <1>5, <1>6, <1>7 DEF IInv

(* The thread does not get under way.                                      *)
LEMMA AbandonSound ==
  ASSUME IInv, Abandon
  PROVE  IInv'
<1> storedCfg \in Configs /\ ValidateConfig(storedCfg)
  BY DEF IInv, TypeOK, ConfigsAreValid
<1>1. /\ pc \in {"boot", "wait"} /\ c' \in Controller /\ Coherent(c')
      /\ pc' = "off" /\ "off" \in Stages /\ storedCfg' = storedCfg /\ c' = Fresh(storedCfg)
      /\ lost' = FALSE /\ temp' = Unset /\ safeVerified' = FALSE /\ counted' = FALSE
      /\ decision' \in [state : ProtectionState, latched : BOOLEAN]
      /\ budget' \in Budget /\ retryAge' = RetryCap /\ lag' = 0 /\ due' = TRUE
      /\ published' \in [latched : BOOLEAN, count : 0 .. MaxTrips] /\ ~published'.latched
      /\ UNCHANGED <<storedLatch, storedCount, apply, applyCfg, uiCfg, manualReq, hw, foreign,
                     recovery, held>>
  BY LoopGoneType DEF Abandon, LoopGone, Stages, requests, card
<1>2. TypeOK'
  BY <1>1, Caps DEF IInv, TypeOK
<1>3. Coherent(c)'
  BY <1>1
<1>4. ConfigsAreValid' /\ MailboxHolds'
  BY <1>1 DEF IInv, ConfigsAreValid, MailboxHolds, InLoop
<1>5. DecisionAgrees' /\ VerdictsHold'
  BY <1>1 DEF IInv, DecisionAgrees, VerdictsHold, Iteration
<1>6. SafeIsInForce' /\ HotIsLatched'
  BY <1>1 DEF IInv, SafeIsInForce, HotIsLatched, Iteration
<1>7. OneConfig' /\ (SavesKeepGuarding => TripIsKept)'
  BY <1>1 DEF IInv, OneConfig, TripIsKept, SavesKeepGuarding
<1> QED  BY <1>2, <1>3, <1>4, <1>5, <1>6, <1>7 DEF IInv

(* The process dies; during a save, with some of the values written.       *)
LEMMA CrashSound ==
  ASSUME IInv, Crash
  PROVE  IInv'
<1> PICK stored \in IF pc = "applySave" THEN PartlySaved \cup {applyCfg} ELSE {storedCfg} :
            LoopGone(stored) /\ uiCfg' = stored
  BY DEF Crash
<1> stored \in Configs /\ ValidateConfig(stored)
  BY PartlySavedType DEF IInv, TypeOK, ConfigsAreValid
<1> pc # "applySave" => stored = storedCfg
  OBVIOUS
<1>1. /\ c' \in Controller /\ Coherent(c') /\ recovery' = TRUE /\ apply' = "idle" /\ manualReq' = FALSE
      /\ uiCfg' = stored
      /\ pc' = "off" /\ "off" \in Stages /\ storedCfg' = stored /\ c' = Fresh(stored)
      /\ lost' = FALSE /\ temp' = Unset /\ safeVerified' = FALSE /\ counted' = FALSE
      /\ decision' \in [state : ProtectionState, latched : BOOLEAN]
      /\ budget' \in Budget /\ retryAge' = RetryCap /\ lag' = 0 /\ due' = TRUE
      /\ published' \in [latched : BOOLEAN, count : 0 .. MaxTrips] /\ ~published'.latched
      /\ UNCHANGED <<storedLatch, storedCount, applyCfg, hw, foreign, held>>
  BY LoopGoneType DEF Crash, LoopGone, Stages, card
<1>2. TypeOK'
  BY <1>1, Caps DEF IInv, TypeOK
<1>3. Coherent(c)'
  BY <1>1
<1>4. ConfigsAreValid' /\ MailboxHolds'
  BY <1>1 DEF IInv, ConfigsAreValid, MailboxHolds, InLoop
<1>5. DecisionAgrees' /\ VerdictsHold'
  BY <1>1 DEF IInv, DecisionAgrees, VerdictsHold, Iteration
<1>6. SafeIsInForce' /\ HotIsLatched'
  BY <1>1 DEF IInv, SafeIsInForce, HotIsLatched, Iteration
<1>7. OneConfig' /\ (SavesKeepGuarding => TripIsKept)'
  BY <1>1 DEF IInv, OneConfig, TripIsKept, SavesKeepGuarding, MailboxHolds
<1> QED  BY <1>2, <1>3, <1>4, <1>5, <1>6, <1>7 DEF IInv

(* The thread takes over the latch of an earlier process.                  *)
LEMMA BootSound ==
  ASSUME IInv, Boot
  PROVE  IInv'
<1> DEFINE inherit == storedLatch \/ recovery
<1>0. /\ uiCfg \in Configs /\ Fresh(uiCfg) \in Controller /\ Coherent(Fresh(uiCfg))
      /\ Fresh(uiCfg).cfg = uiCfg /\ ~Fresh(uiCfg).latched
      /\ ~IsMonitorOnly(uiCfg) => ~Inert(Fresh(uiCfg))
  BY FreshSound, FreshKeeps DEF IInv, TypeOK, ConfigsAreValid, Coherent, Inert
<1>1. /\ pc = "boot" /\ pc' = IF inherit THEN "bootWrite" ELSE "wait"
      /\ {"bootWrite", "wait"} \subseteq Stages
      /\ c' \in Controller /\ Coherent(c') /\ c'.cfg = uiCfg
      /\ inherit /\ ~IsMonitorOnly(uiCfg) => c'.latched
      /\ counted' \in BOOLEAN /\ recovery' = FALSE
      /\ published' = [published EXCEPT !.count = storedCount]
      /\ UNCHANGED <<lost, temp, decision, safeVerified, budget, retryAge, lag, due, apply,
                     applyCfg, uiCfg, manualReq, hw, foreign, storedLatch, storedCount,
                     storedCfg, held>>
  BY <1>0, RestorePersistedSound DEF Boot, Goto, Stages, requests, card, registry, IInv, TypeOK
<1>2. TypeOK'
  BY <1>1 DEF IInv, TypeOK
<1>3. Coherent(c)'
  BY <1>1
<1>4. ConfigsAreValid' /\ MailboxHolds'
  BY <1>1, <1>0 DEF IInv, ConfigsAreValid, MailboxHolds, InLoop
<1>5. DecisionAgrees' /\ VerdictsHold'
  BY <1>1 DEF IInv, DecisionAgrees, VerdictsHold, Iteration, TypeOK
<1>6. SafeIsInForce' /\ HotIsLatched'
  BY <1>1 DEF IInv, SafeIsInForce, HotIsLatched, Iteration, VerdictsHold, TypeOK
<1>7. OneConfig' /\ (SavesKeepGuarding => TripIsKept)'
  BY <1>1, <1>0 DEF IInv, OneConfig, TripIsKept, SavesKeepGuarding, MailboxHolds
<1> QED  BY <1>2, <1>3, <1>4, <1>5, <1>6, <1>7 DEF IInv

(* It brings the card to the safe limit,                                   *)
LEMMA BootWriteSound ==
  ASSUME IInv, NEW verified \in BOOLEAN, BootWrite(verified)
  PROVE  IInv'
<1>0. c.cfg \in Configs /\ c.cfg.safe \in Limits /\ c.cfg.safe \in Nat
  BY LimitsKnown DEF IInv, TypeOK, Controller
<1>1. /\ pc = "bootWrite" /\ pc' = IF verified THEN "bootSave" ELSE "wait"
      /\ {"bootSave", "wait"} \subseteq Stages
      /\ hw' \in Limits /\ foreign' \in BOOLEAN /\ (verified => hw' = c.cfg.safe)
      /\ safeVerified' = verified
      /\ UNCHANGED <<c, lost, temp, decision, counted, budget, retryAge, lag, due,
                     published, apply, applyCfg, uiCfg, manualReq, storedLatch, storedCount,
                     storedCfg, recovery, held>>
  BY <1>0, SetLimitType DEF BootWrite, Goto, Stages, requests, registry, IInv
<1>2. TypeOK'
  BY <1>1 DEF IInv, TypeOK
<1>3. Coherent(c)'
  BY <1>1 DEF IInv, Coherent, SampleStamped
<1>4. ConfigsAreValid' /\ MailboxHolds'
  BY <1>1 DEF IInv, ConfigsAreValid, MailboxHolds, InLoop
<1>5. DecisionAgrees' /\ VerdictsHold'
  BY <1>1 DEF IInv, DecisionAgrees, VerdictsHold, Iteration
<1>6. SafeIsInForce' /\ HotIsLatched'
  BY <1>1, <1>0 DEF IInv, SafeIsInForce, HotIsLatched, Iteration
<1>7. OneConfig' /\ (SavesKeepGuarding => TripIsKept)'
  BY <1>1 DEF IInv, OneConfig, TripIsKept, SavesKeepGuarding
<1> QED  BY <1>2, <1>3, <1>4, <1>5, <1>6, <1>7 DEF IInv

(* and records that it did.                                                *)
LEMMA BootSaveSound ==
  ASSUME IInv, BootSave
  PROVE  IInv'
<1>0. c.latched \in BOOLEAN /\ storedLatch \in BOOLEAN /\ held \in BOOLEAN /\ storedCfg \in Configs
  BY DEF IInv, TypeOK, Controller
<1>1. /\ pc = "bootSave" /\ pc' = "wait" /\ "wait" \in Stages
      /\ storedLatch' \in BOOLEAN /\ (storedLatch => storedLatch')
      /\ held' = (held \/ (c.latched /\ storedLatch')) /\ held' \in BOOLEAN
      /\ UNCHANGED <<c, lost, temp, decision, safeVerified, counted, budget, retryAge, lag, due,
                     published, apply, applyCfg, uiCfg, manualReq, hw, foreign, storedCount, storedCfg,
                     recovery>>
  BY <1>0 DEF BootSave, SaveSafeLatch, Goto, Stages, loop, requests, card
<1>2. TypeOK'
  BY <1>1 DEF IInv, TypeOK
<1>3. Coherent(c)'
  BY <1>1 DEF IInv, Coherent, SampleStamped
<1>4. ConfigsAreValid' /\ MailboxHolds'
  BY <1>1 DEF IInv, ConfigsAreValid, MailboxHolds, InLoop
<1>5. DecisionAgrees' /\ VerdictsHold'
  BY <1>1 DEF IInv, DecisionAgrees, VerdictsHold, Iteration
<1>6. SafeIsInForce' /\ HotIsLatched'
  BY <1>1 DEF IInv, SafeIsInForce, HotIsLatched, Iteration
<1>7. OneConfig' /\ (SavesKeepGuarding => TripIsKept)'
  BY <1>1, <1>0 DEF IInv, OneConfig, TripIsKept, SavesKeepGuarding, Coherent
<1> QED  BY <1>2, <1>3, <1>4, <1>5, <1>6, <1>7 DEF IInv

(* A reading, and what the controller decides of it.                       *)
LEMMA ReadTemperatureSound ==
  ASSUME IInv, NEW t \in Temps,
         NEW delayed \in BOOLEAN, NEW rising \in BOOLEAN, ReadTemperature(t, delayed, rising)
  PROVE  IInv'
<1> DEFINE back == IF lost THEN SensorRecovered(c) ELSE c
           after == ObserveTemperature(back, t, delayed, rising)
<1>0. t \in Int /\ c \in Controller /\ Coherent(c) /\ c.cfg \in Configs /\ 0 \in 0 .. MaxStall
  BY PolicyAssumption, Caps DEF IInv, TypeOK, Controller
<1>a. back \in Controller /\ Coherent(back) /\ back.latched = c.latched /\ back.cfg = c.cfg
  BY <1>0, RecoveredSound
<1>d. /\ pc = "wait" /\ pc' = IF Trips(back, after) \/ (lost /\ c.latched) THEN "trip" ELSE "apply"
      /\ c' = after /\ temp' = t /\ lost' = FALSE /\ due' = FALSE /\ lag' = 0
      /\ decision' = Decision(after)
      /\ UNCHANGED <<safeVerified, counted, budget, retryAge, published, requests, card,
                     registry, recovery, held>>
  BY DEF ReadTemperature, Woken, Goto
<1> HIDE DEF back
<1>b. /\ after \in Controller /\ Coherent(after) /\ after.cfg = c.cfg
      /\ c.latched => after.latched
      /\ ~IsMonitorOnly(c.cfg) /\ t >= c.cfg.trigger => after.latched /\ after.state = "SafeLatched"
  <2>1. after \in Controller /\ Coherent(after) /\ (back.latched => after.latched)
    BY <1>0, <1>a, ObserveSound
  <2>2. /\ after.cfg = back.cfg
        /\ ~IsMonitorOnly(back.cfg) /\ t >= back.cfg.trigger
             => after.latched /\ after.state = "SafeLatched"
    BY <1>0, <1>a, ObserveKeeps
  <2> HIDE DEF after
  <2> QED  BY <2>1, <2>2, <1>a
<1> HIDE DEF after
<1>c. /\ Decision(after) \in [state : ProtectionState, latched : BOOLEAN]
      /\ Decision(after).latched = after.latched
  BY <1>b, DecisionType
<1>1. /\ pc = "wait" /\ pc' \in {"trip", "apply"} /\ {"trip", "apply"} \subseteq Stages
      /\ pc' = "trip" => c'.latched
      /\ pc' = "apply" /\ c'.latched => c.latched
      /\ c' \in Controller /\ Coherent(c') /\ c'.cfg = c.cfg /\ (c.latched => c'.latched)
      /\ ~IsMonitorOnly(c.cfg) /\ t >= c.cfg.trigger => c'.latched /\ c'.state = "SafeLatched"
      /\ temp' = t /\ lost' = FALSE /\ due' = FALSE /\ lag' = 0
      /\ decision' \in [state : ProtectionState, latched : BOOLEAN] /\ decision'.latched = c'.latched
      /\ UNCHANGED <<safeVerified, counted, budget, retryAge, published, apply, applyCfg, uiCfg,
                     manualReq, hw, foreign, storedLatch, storedCount, storedCfg, recovery, held>>
  BY <1>0, <1>a, <1>b, <1>c, <1>d DEF Trips, Stages, requests, card, registry, Controller
<1>2. TypeOK'
  BY <1>1, <1>0 DEF IInv, TypeOK
<1>3. Coherent(c)'
  BY <1>1
<1>4. ConfigsAreValid' /\ MailboxHolds'
  BY <1>1 DEF IInv, ConfigsAreValid, MailboxHolds, InLoop
<1>5. DecisionAgrees' /\ VerdictsHold'
  BY <1>1 DEF IInv, DecisionAgrees, VerdictsHold, Iteration
<1>6. SafeIsInForce' /\ HotIsLatched'
  BY <1>1 DEF IInv, SafeIsInForce, HotIsLatched, Iteration
<1>7. OneConfig' /\ (SavesKeepGuarding => TripIsKept)'
  BY <1>1 DEF IInv, OneConfig, TripIsKept, SavesKeepGuarding
<1> QED  BY <1>2, <1>3, <1>4, <1>5, <1>6, <1>7 DEF IInv

(* A reading that fails.                                                   *)
LEMMA ReadFailsSound ==
  ASSUME IInv, ReadFails
  PROVE  IInv'
<1>0. c \in Controller /\ Coherent(c) /\ 0 \in 0 .. MaxStall
  BY Caps DEF IInv, TypeOK
<1>a. /\ SensorUnavailable(c) \in Controller /\ Coherent(SensorUnavailable(c))
      /\ SensorUnavailable(c).cfg = c.cfg /\ (c.latched => SensorUnavailable(c).latched)
  BY <1>0, UnavailableSound, UnavailableKeeps
<1>b. /\ Decision(SensorUnavailable(c)) \in [state : ProtectionState, latched : BOOLEAN]
      /\ Decision(SensorUnavailable(c)).latched = SensorUnavailable(c).latched
  BY <1>a, DecisionType
<1>1. /\ pc = "wait" /\ pc' \in {"trip", "apply"} /\ {"trip", "apply"} \subseteq Stages
      /\ pc' = "trip" => c'.latched
      /\ pc' = "apply" /\ c'.latched => c.latched
      /\ c' \in Controller /\ Coherent(c') /\ c'.cfg = c.cfg /\ (c.latched => c'.latched)
      /\ temp' = Unset /\ lost' = TRUE /\ due' = FALSE /\ lag' = 0
      /\ decision' \in [state : ProtectionState, latched : BOOLEAN] /\ decision'.latched = c'.latched
      /\ UNCHANGED <<safeVerified, counted, budget, retryAge, published, apply, applyCfg, uiCfg,
                     manualReq, hw, foreign, storedLatch, storedCount, storedCfg, recovery, held>>
  BY <1>0, <1>a, <1>b DEF ReadFails, Woken, Trips, Goto, Stages, requests, card, registry
<1>2. TypeOK'
  BY <1>1, <1>0 DEF IInv, TypeOK
<1>3. Coherent(c)'
  BY <1>1
<1>4. ConfigsAreValid' /\ MailboxHolds'
  BY <1>1 DEF IInv, ConfigsAreValid, MailboxHolds, InLoop
<1>5. DecisionAgrees' /\ VerdictsHold'
  BY <1>1 DEF IInv, DecisionAgrees, VerdictsHold, Iteration
<1>6. SafeIsInForce' /\ HotIsLatched'
  BY <1>1 DEF IInv, SafeIsInForce, HotIsLatched, Iteration
<1>7. OneConfig' /\ (SavesKeepGuarding => TripIsKept)'
  BY <1>1 DEF IInv, OneConfig, TripIsKept, SavesKeepGuarding
<1> QED  BY <1>2, <1>3, <1>4, <1>5, <1>6, <1>7 DEF IInv

-----------------------------------------------------------------------------
(* A trip: the write, the record, the count.                               *)

(* The limit a trip calls for.                                             *)
LEMMA ApplySafePowerSound ==
  ASSUME IInv, NEW verified \in BOOLEAN, ApplySafePower(verified)
  PROVE  IInv'
<1>0. c.cfg \in Configs /\ c.cfg.safe \in Limits /\ c.cfg.safe \in Nat
  BY LimitsKnown DEF IInv, TypeOK, Controller
<1>1. /\ pc = "trip" /\ pc' = IF verified THEN "tripSave" ELSE "apply"
      /\ {"tripSave", "apply"} \subseteq Stages
      /\ hw' \in Limits /\ foreign' \in BOOLEAN /\ (verified => hw' = c.cfg.safe)
      /\ safeVerified' = verified /\ counted' \in BOOLEAN /\ retryAge' = lag /\ lag \in 0 .. RetryCap
      /\ UNCHANGED <<c, lost, temp, decision, budget, lag, due, published, apply, applyCfg,
                     uiCfg, manualReq, storedLatch, storedCount, storedCfg, recovery, held>>
  BY <1>0, SetLimitType, Caps DEF ApplySafePower, Goto, Stages, requests, registry, IInv, TypeOK
<1>2. TypeOK'
  BY <1>1 DEF IInv, TypeOK
<1>3. Coherent(c)'
  BY <1>1 DEF IInv, Coherent, SampleStamped
<1>4. ConfigsAreValid' /\ MailboxHolds'
  BY <1>1 DEF IInv, ConfigsAreValid, MailboxHolds, InLoop
<1>5. DecisionAgrees' /\ VerdictsHold'
  BY <1>1 DEF IInv, DecisionAgrees, VerdictsHold, Iteration
<1>6. SafeIsInForce' /\ HotIsLatched'
  BY <1>1, <1>0 DEF IInv, SafeIsInForce, HotIsLatched, Iteration
<1>7. OneConfig' /\ (SavesKeepGuarding => TripIsKept)'
  BY <1>1 DEF IInv, OneConfig, TripIsKept, SavesKeepGuarding
<1> QED  BY <1>2, <1>3, <1>4, <1>5, <1>6, <1>7 DEF IInv

(* The record of a safe limit that is known to hold.                       *)
LEMMA SafeLimitKnownSound ==
  ASSUME IInv, NEW from, NEW to, NEW counting,
         <<from, to, counting>> \in {<<"tripSave", "apply", "tripCount">>,
                                     <<"retrySave", "publish", "retryCount">>}, SafeLimitKnown(from, to, counting)
  PROVE  IInv'
<1>0. /\ storedLatch \in BOOLEAN /\ held \in BOOLEAN /\ counted \in BOOLEAN /\ storedCfg \in Configs
      /\ \/ from = "tripSave" /\ to = "apply" /\ counting = "tripCount"
         \/ from = "retrySave" /\ to = "publish" /\ counting = "retryCount"
  BY DEF IInv, TypeOK
<1>1. /\ \/ pc = "tripSave" /\ pc' \in {"apply", "tripCount"}
         \/ pc = "retrySave" /\ pc' \in {"publish", "retryCount"}
      /\ {"apply", "tripCount", "publish", "retryCount"} \subseteq Stages
      /\ storedLatch' \in BOOLEAN /\ (storedLatch => storedLatch')
      /\ held' = (held \/ storedLatch') /\ held' \in BOOLEAN
      /\ UNCHANGED <<c, lost, temp, decision, safeVerified, counted, budget, retryAge, lag, due,
                     published, apply, applyCfg, uiCfg, manualReq, hw, foreign, storedCount, storedCfg,
                     recovery>>
  BY <1>0 DEF SafeLimitKnown, SaveSafeLatch, Goto, Stages, loop, requests, card
<1>2. TypeOK'
  BY <1>1 DEF IInv, TypeOK
<1>3. Coherent(c)'
  BY <1>1 DEF IInv, Coherent, SampleStamped
<1>4. ConfigsAreValid' /\ MailboxHolds'
  BY <1>1 DEF IInv, ConfigsAreValid, MailboxHolds, InLoop
<1>5. DecisionAgrees' /\ VerdictsHold'
  BY <1>1 DEF IInv, DecisionAgrees, VerdictsHold, Iteration
<1>6. SafeIsInForce' /\ HotIsLatched'
  BY <1>1 DEF IInv, SafeIsInForce, HotIsLatched, Iteration
<1>7. OneConfig' /\ (SavesKeepGuarding => TripIsKept)'
  BY <1>1, <1>0 DEF IInv, OneConfig, TripIsKept, SavesKeepGuarding, Coherent, VerdictsHold
<1> QED  BY <1>2, <1>3, <1>4, <1>5, <1>6, <1>7 DEF IInv

(* The count of the episode.                                               *)
LEMMA CountTripSound ==
  ASSUME IInv, NEW from, NEW to,
         <<from, to>> \in {<<"tripCount", "apply">>, <<"retryCount", "publish">>}, CountTrip(from, to)
  PROVE  IInv'
<1> DEFINE count == IF published.count < MaxTrips THEN published.count + 1 ELSE MaxTrips
<1>0. /\ count \in 0 .. MaxTrips
      /\ \/ from = "tripCount" /\ to = "apply"
         \/ from = "retryCount" /\ to = "publish"
  BY Caps DEF IInv, TypeOK
<1>a. /\ pc = from /\ pc' = to /\ counted' = TRUE
      /\ published' = [published EXCEPT !.count = count]
      /\ storedCount' = count \/ UNCHANGED storedCount
      /\ UNCHANGED <<c, lost, temp, decision, safeVerified, budget, retryAge, lag, due,
                     requests, card, storedLatch, storedCfg, recovery, held>>
  BY DEF CountTrip, Goto
<1> HIDE DEF count
<1>1. /\ \/ pc = "tripCount" /\ pc' = "apply"
         \/ pc = "retryCount" /\ pc' = "publish"
      /\ {"apply", "publish"} \subseteq Stages
      /\ counted' = TRUE /\ storedCount' \in 0 .. MaxTrips
      /\ published' \in [latched : BOOLEAN, count : 0 .. MaxTrips] /\ published'.latched = published.latched
      /\ UNCHANGED <<c, lost, temp, decision, safeVerified, budget, retryAge, lag, due,
                     apply, applyCfg, uiCfg, manualReq, hw, foreign, storedLatch, storedCfg,
                     recovery, held>>
  BY <1>0, <1>a DEF Stages, requests, card, IInv, TypeOK
<1>2. TypeOK'
  BY <1>1 DEF IInv, TypeOK
<1>3. Coherent(c)'
  BY <1>1 DEF IInv, Coherent, SampleStamped
<1>4. ConfigsAreValid' /\ MailboxHolds'
  BY <1>1 DEF IInv, ConfigsAreValid, MailboxHolds, InLoop
<1>5. DecisionAgrees' /\ VerdictsHold'
  BY <1>1 DEF IInv, DecisionAgrees, VerdictsHold, Iteration
<1>6. SafeIsInForce' /\ HotIsLatched'
  BY <1>1 DEF IInv, SafeIsInForce, HotIsLatched, Iteration
<1>7. OneConfig' /\ (SavesKeepGuarding => TripIsKept)'
  BY <1>1 DEF IInv, OneConfig, TripIsKept, SavesKeepGuarding
<1> QED  BY <1>2, <1>3, <1>4, <1>5, <1>6, <1>7 DEF IInv

-----------------------------------------------------------------------------
(* Save & Apply.                                                           *)

(* Nothing was requested.                                                  *)
LEMMA NoApplySound ==
  ASSUME IInv, NoApply
  PROVE  IInv'
<1>1. /\ pc = "apply" /\ pc' = "auto" /\ "auto" \in Stages
      /\ UNCHANGED <<c, lost, temp, decision, safeVerified, counted, budget, retryAge, lag, due,
                     published, applyCfg, uiCfg, manualReq, hw, foreign, storedLatch, storedCount,
                     storedCfg, recovery, held, apply>>
  BY DEF NoApply, Goto, Stages, loop, requests, card, registry
<1>2. TypeOK'
  BY <1>1 DEF IInv, TypeOK
<1>3. Coherent(c)'
  BY <1>1 DEF IInv, Coherent, SampleStamped
<1>4. ConfigsAreValid' /\ MailboxHolds'
  BY <1>1 DEF IInv, ConfigsAreValid, MailboxHolds, InLoop
<1>5. DecisionAgrees' /\ VerdictsHold'
  BY <1>1 DEF IInv, DecisionAgrees, VerdictsHold, Iteration
<1>6. SafeIsInForce' /\ HotIsLatched'
  BY <1>1 DEF IInv, SafeIsInForce, HotIsLatched, Iteration
<1>7. OneConfig' /\ (SavesKeepGuarding => TripIsKept)'
  BY <1>1 DEF IInv, OneConfig, TripIsKept, SavesKeepGuarding
<1> QED  BY <1>2, <1>3, <1>4, <1>5, <1>6, <1>7 DEF IInv

(* The request is refused.                                                 *)
LEMMA RejectApplySound ==
  ASSUME IInv, RejectApply
  PROVE  IInv'
<1>1. /\ pc = "apply" /\ pc' = "auto" /\ "auto" \in Stages /\ apply = "requested" /\ apply' = "Rejected"
      /\ UNCHANGED <<c, lost, temp, decision, safeVerified, counted, budget, retryAge, lag, due,
                     published, applyCfg, uiCfg, manualReq, hw, foreign, storedLatch, storedCount,
                     storedCfg, recovery, held>>
  BY DEF RejectApply, Complete, Goto, Stages, loop, card, registry
<1>2. TypeOK'
  BY <1>1 DEF IInv, TypeOK, Completion
<1>3. Coherent(c)'
  BY <1>1 DEF IInv, Coherent, SampleStamped
<1>4. ConfigsAreValid' /\ MailboxHolds'
  BY <1>1 DEF IInv, ConfigsAreValid, MailboxHolds, InLoop
<1>5. DecisionAgrees' /\ VerdictsHold'
  BY <1>1 DEF IInv, DecisionAgrees, VerdictsHold, Iteration
<1>6. SafeIsInForce' /\ HotIsLatched'
  BY <1>1 DEF IInv, SafeIsInForce, HotIsLatched, Iteration
<1>7. OneConfig' /\ (SavesKeepGuarding => TripIsKept)'
  BY <1>1 DEF IInv, OneConfig, TripIsKept, SavesKeepGuarding
<1> QED  BY <1>2, <1>3, <1>4, <1>5, <1>6, <1>7 DEF IInv

(* The requested working limit is written.                                 *)
LEMMA ApplyWorkingPowerSound ==
  ASSUME IInv, NEW verified \in BOOLEAN, ApplyWorkingPower(verified)
  PROVE  IInv'
<1>0. /\ applyCfg \in Configs /\ applyCfg.normal \in Limits /\ c \in Controller /\ c.cfg \in Configs
      /\ temp # Unset => temp \in Int
  BY LimitsKnown, PolicyAssumption DEF IInv, TypeOK, Controller
<1>a. /\ Configurable(c, applyCfg) /\ temp # Unset /\ ~Near(c.cfg, temp) /\ ~Near(applyCfg, temp)
      /\ ~c.latched /\ ValidateConfig(applyCfg)
  BY DEF ApplyWorkingPower, AcceptsApply, Configurable
<1>b. ~(temp >= c.cfg.trigger) /\ ~(temp >= applyCfg.trigger)
  BY <1>0, <1>a, ConfigType, PolicyAssumption DEF Near
<1>c. /\ UpdateWorkingConfig(c, applyCfg) \in Controller /\ Coherent(UpdateWorkingConfig(c, applyCfg))
      /\ UpdateWorkingConfig(c, applyCfg).cfg = applyCfg
      /\ UpdateWorkingConfig(c, applyCfg).latched = c.latched
  BY <1>0, <1>a, UpdateSound, UpdateKeeps DEF IInv
<1>d. /\ RestorePersistedSafeLatch(c) \in Controller /\ Coherent(RestorePersistedSafeLatch(c))
      /\ RestorePersistedSafeLatch(c).cfg = c.cfg
  BY <1>0, RestorePersistedSound DEF IInv
<1>1. /\ pc = "apply" /\ pc' = IF verified THEN "applySave" ELSE "applyFallback"
      /\ {"applySave", "applyFallback"} \subseteq Stages
      /\ apply = "requested"
      /\ hw' \in Limits /\ foreign' \in BOOLEAN
      /\ c' \in Controller /\ Coherent(c')
      /\ verified => c'.cfg = applyCfg /\ c'.latched = c.latched
      /\ ~verified => c'.cfg = c.cfg
      /\ UNCHANGED <<lost, temp, decision, safeVerified, counted, budget, retryAge, lag,
                     due, published, apply, applyCfg, uiCfg, manualReq, storedLatch,
                     storedCount, storedCfg, recovery, held>>
  BY <1>0, <1>c, <1>d, SetLimitType DEF ApplyWorkingPower, Goto, Stages, requests, registry,
                                        IInv
<1>2. TypeOK'
  BY <1>1 DEF IInv, TypeOK
<1>3. Coherent(c)'
  BY <1>1
<1>4. ConfigsAreValid' /\ MailboxHolds'
  BY <1>1, <1>a DEF IInv, ConfigsAreValid, MailboxHolds, InLoop
<1>5. DecisionAgrees' /\ VerdictsHold'
  BY <1>1, <1>a DEF IInv, DecisionAgrees, VerdictsHold, Iteration
<1>6. SafeIsInForce' /\ HotIsLatched'
  BY <1>1, <1>a, <1>b DEF IInv, SafeIsInForce, HotIsLatched, Iteration
<1>7. OneConfig' /\ (SavesKeepGuarding => TripIsKept)'
  BY <1>1, <1>a DEF IInv, OneConfig, TripIsKept, SavesKeepGuarding
<1> QED  BY <1>2, <1>3, <1>4, <1>5, <1>6, <1>7 DEF IInv

(* It is saved, or saved in part.                                          *)
LEMMA ApplySaveSound ==
  ASSUME IInv, NEW saved \in BOOLEAN, ApplySave(saved)
  PROVE  IInv'
<1>0. applyCfg \in Configs /\ ValidateConfig(applyCfg)
  BY DEF ApplySave, IInv, TypeOK, ConfigsAreValid
<1>1. /\ pc = "applySave" /\ pc' = "auto" /\ "auto" \in Stages
      /\ saved \/ SavesMayFail
      /\ storedCfg' \in Configs /\ ValidateConfig(storedCfg') /\ (saved => storedCfg' = applyCfg)
      /\ apply' = (IF saved THEN "Applied" ELSE "AppliedNotSaved")
      /\ UNCHANGED <<c, lost, temp, decision, safeVerified, counted, budget, retryAge, lag, due,
                     published, applyCfg, uiCfg, manualReq, hw, foreign, storedLatch, storedCount,
                     recovery, held>>
  BY <1>0, PartlySavedType DEF ApplySave, Complete, Goto, Stages, loop, card
<1>2. TypeOK'
  BY <1>1 DEF IInv, TypeOK, Completion
<1>3. Coherent(c)'
  BY <1>1 DEF IInv, Coherent, SampleStamped
<1>4. ConfigsAreValid' /\ MailboxHolds'
  BY <1>1, <1>0 DEF IInv, ConfigsAreValid, MailboxHolds, InLoop
<1>5. DecisionAgrees' /\ VerdictsHold'
  BY <1>1 DEF IInv, DecisionAgrees, VerdictsHold, Iteration
<1>6. SafeIsInForce' /\ HotIsLatched'
  BY <1>1 DEF IInv, SafeIsInForce, HotIsLatched, Iteration
<1>7. OneConfig' /\ (SavesKeepGuarding => TripIsKept)'
  BY <1>1 DEF IInv, OneConfig, TripIsKept, SavesKeepGuarding, MailboxHolds
<1> QED  BY <1>2, <1>3, <1>4, <1>5, <1>6, <1>7 DEF IInv

(* It was not written: the safe limit of the configuration in force.       *)
LEMMA ApplyFallbackSound ==
  ASSUME IInv, NEW verified \in BOOLEAN, ApplyFallback(verified)
  PROVE  IInv'
<1>0. c.cfg \in Configs /\ c.cfg.safe \in Limits /\ c.cfg.safe \in Nat
  BY LimitsKnown DEF IInv, TypeOK, Controller
<1>1. /\ pc = "applyFallback" /\ pc' = "applyLatch" /\ "applyLatch" \in Stages
      /\ hw' \in Limits /\ foreign' \in BOOLEAN /\ (verified => hw' = c.cfg.safe)
      /\ safeVerified' = verified
      /\ UNCHANGED <<c, lost, temp, decision, counted, budget, retryAge, lag, due,
                     published, apply, applyCfg, uiCfg, manualReq, storedLatch, storedCount,
                     storedCfg, recovery, held>>
  BY <1>0, SetLimitType DEF ApplyFallback, Goto, Stages, requests, registry, IInv
<1>2. TypeOK'
  BY <1>1 DEF IInv, TypeOK
<1>3. Coherent(c)'
  BY <1>1 DEF IInv, Coherent, SampleStamped
<1>4. ConfigsAreValid' /\ MailboxHolds'
  BY <1>1 DEF IInv, ConfigsAreValid, MailboxHolds, InLoop
<1>5. DecisionAgrees' /\ VerdictsHold'
  BY <1>1 DEF IInv, DecisionAgrees, VerdictsHold, Iteration
<1>6. SafeIsInForce' /\ HotIsLatched'
  BY <1>1, <1>0 DEF IInv, SafeIsInForce, HotIsLatched, Iteration
<1>7. OneConfig' /\ (SavesKeepGuarding => TripIsKept)'
  BY <1>1 DEF IInv, OneConfig, TripIsKept, SavesKeepGuarding
<1> QED  BY <1>2, <1>3, <1>4, <1>5, <1>6, <1>7 DEF IInv

(* Its latch is recorded, and the decision corrected.                      *)
LEMMA ApplyLatchSound ==
  ASSUME IInv, ApplyLatch
  PROVE  IInv'
<1>0. c.latched \in BOOLEAN /\ storedLatch \in BOOLEAN /\ held \in BOOLEAN /\ storedCfg \in Configs
  BY DEF IInv, TypeOK, Controller
<1>1. /\ pc = "applyLatch" /\ pc' = "auto" /\ "auto" \in Stages
      /\ storedLatch' \in BOOLEAN /\ (storedLatch => storedLatch')
      /\ held' = (held \/ (c.latched /\ storedLatch')) /\ held' \in BOOLEAN
      /\ decision' \in [state : ProtectionState, latched : BOOLEAN] /\ decision'.latched = c.latched
      /\ retryAge' = RetryCap /\ RetryCap \in 0 .. RetryCap /\ apply' = "WriteFailed"
      /\ UNCHANGED <<c, lost, temp, safeVerified, counted, budget, lag, due, published,
                     applyCfg, uiCfg, manualReq, hw, foreign, storedCount, storedCfg,
                     recovery>>
  BY <1>0, DecisionType, Caps DEF ApplyLatch, SaveSafeLatch, Complete, Goto, Stages, card,
                                  IInv, TypeOK
<1>2. TypeOK'
  BY <1>1 DEF IInv, TypeOK, Completion
<1>3. Coherent(c)'
  BY <1>1 DEF IInv, Coherent, SampleStamped
<1>4. ConfigsAreValid' /\ MailboxHolds'
  BY <1>1 DEF IInv, ConfigsAreValid, MailboxHolds, InLoop
<1>5. DecisionAgrees' /\ VerdictsHold'
  BY <1>1 DEF IInv, DecisionAgrees, VerdictsHold, Iteration
<1>6. SafeIsInForce' /\ HotIsLatched'
  BY <1>1 DEF IInv, SafeIsInForce, HotIsLatched, Iteration
<1>7. OneConfig' /\ (SavesKeepGuarding => TripIsKept)'
  BY <1>1, <1>0 DEF IInv, OneConfig, TripIsKept, SavesKeepGuarding, MailboxHolds, Coherent
<1> QED  BY <1>2, <1>3, <1>4, <1>5, <1>6, <1>7 DEF IInv

-----------------------------------------------------------------------------
(* Restores.                                                               *)

(* Nothing is restored; at most an offer is taken back.                    *)
LEMMA NoRestoreSound ==
  ASSUME IInv, NEW stage \in {"auto", "manual"}, NoRestore(stage)
  PROVE  IInv'
<1> DEFINE candidate == RequestRestore(c, temp)
<1>0. c \in Controller /\ Coherent(c) /\ budget' = BudgetAt(stage) /\ manualReq' \in BOOLEAN
  BY DEF NoRestore, Consume, IInv, TypeOK
<1>a. /\ pc = stage /\ ~(MayRestore(stage) /\ Releases(c, candidate))
      /\ \/ MayRestore(stage) /\ c' = candidate /\ decision' = Decision(candidate)
         \/ UNCHANGED <<c, decision>>
  BY DEF NoRestore
<1>b. /\ candidate \in Controller /\ Coherent(candidate) /\ candidate.cfg = c.cfg
      /\ candidate = c \/ (c.latched /\ candidate.latched) \/ Releases(c, candidate)
      /\ c.state # "ReadyToRestore" => candidate = c
  BY <1>0, RequestRestoreSound, RequestKeeps
<1> HIDE DEF candidate
<1>c. /\ Decision(candidate) \in [state : ProtectionState, latched : BOOLEAN]
      /\ Decision(candidate).latched = candidate.latched
      /\ c.latched \in BOOLEAN /\ candidate.latched \in BOOLEAN
  BY <1>0, <1>b, DecisionType DEF Controller
<1>d. budget' \in Budget
  BY <1>0, BudgetType DEF IInv
<1>1. /\ \/ pc = "auto" /\ pc' = "manual"
         \/ pc = "manual" /\ pc' = "retry"
      /\ {"manual", "retry"} \subseteq Stages
      /\ c' \in Controller /\ Coherent(c') /\ c'.cfg = c.cfg /\ c'.latched = c.latched
      /\ c.state # "ReadyToRestore" => c' = c
      /\ decision' = decision \/ decision'.latched = c.latched
      /\ decision' \in [state : ProtectionState, latched : BOOLEAN]
      /\ UNCHANGED <<lost, temp, safeVerified, counted, retryAge, lag, due, published,
                     apply, applyCfg, uiCfg, hw, foreign, storedLatch, storedCount,
                     storedCfg, recovery, held>>
  BY <1>0, <1>a, <1>b, <1>c DEF NoRestore, After, Goto, Stages, card, registry, IInv, TypeOK
<1>2. TypeOK'
  BY <1>1, <1>0, <1>d DEF IInv, TypeOK
<1>3. Coherent(c)'
  BY <1>1
<1>4. ConfigsAreValid' /\ MailboxHolds'
  BY <1>1 DEF IInv, ConfigsAreValid, MailboxHolds, InLoop
<1>5. DecisionAgrees' /\ VerdictsHold'
  BY <1>1 DEF IInv, DecisionAgrees, VerdictsHold, Iteration
<1>6. SafeIsInForce' /\ HotIsLatched'
  BY <1>1 DEF IInv, SafeIsInForce, HotIsLatched, Iteration
<1>7. OneConfig' /\ (SavesKeepGuarding => TripIsKept)'
  BY <1>1 DEF IInv, OneConfig, TripIsKept, SavesKeepGuarding
<1> QED  BY <1>2, <1>3, <1>4, <1>5, <1>6, <1>7 DEF IInv

(* The normal limit is written; the latch is released if it was verified.  *)
LEMMA RestoreSound ==
  ASSUME IInv, NEW stage \in {"auto", "manual"},
         NEW verified \in BOOLEAN, NEW mayRetry \in BOOLEAN, Restore(stage, verified, mayRetry)
  PROVE  IInv'
<1> DEFINE candidate == RequestRestore(c, temp)
           left      == IF verified THEN candidate ELSE c
<1>0. /\ c \in Controller /\ Coherent(c) /\ c.cfg \in Configs /\ c.cfg.normal \in Limits
      /\ held \in BOOLEAN /\ manualReq' \in BOOLEAN
  BY LimitsKnown DEF Restore, Consume, IInv, TypeOK, Controller
<1>a. /\ pc = stage /\ MayRestore(stage) /\ Releases(c, candidate)
      /\ SetLimit(c.cfg.normal, verified) /\ safeVerified' = FALSE
      /\ budget' = Attempted(BudgetAt(stage), verified \/ mayRetry)
      /\ c' = left /\ decision' = Decision(left) /\ held' = (held /\ ~verified)
      /\ pc' = AfterRestore(stage, verified)
  BY DEF Restore, Goto
<1>b. /\ candidate \in Controller /\ Coherent(candidate) /\ candidate.cfg = c.cfg
      /\ c.state # "ReadyToRestore" => candidate = c
  BY <1>0, RequestRestoreSound, RequestKeeps
<1> HIDE DEF candidate
<1>c. /\ left \in Controller /\ Coherent(left) /\ left.cfg = c.cfg /\ (~verified => left = c)
      /\ c.state = "ReadyToRestore"
  BY <1>0, <1>a, <1>b DEF Releases
<1> HIDE DEF left
<1>d. /\ Decision(left) \in [state : ProtectionState, latched : BOOLEAN]
      /\ Decision(left).latched = left.latched
  BY <1>c, DecisionType
<1>e. budget' \in Budget
  BY <1>a, BudgetType, AttemptedType DEF IInv
<1>1. /\ \/ pc = "auto" /\ pc' = IF verified THEN "autoSave" ELSE "autoFallback"
         \/ pc = "manual" /\ pc' = IF verified THEN "manualSave" ELSE "manualFallback"
      /\ {"autoSave", "autoFallback", "manualSave", "manualFallback"} \subseteq Stages
      /\ hw' \in Limits /\ foreign' \in BOOLEAN /\ safeVerified' = FALSE
      /\ c' \in Controller /\ Coherent(c') /\ c'.cfg = c.cfg /\ (~verified => c' = c)
      /\ c.state = "ReadyToRestore"
      /\ decision' \in [state : ProtectionState, latched : BOOLEAN] /\ decision'.latched = c'.latched
      /\ held' = (held /\ ~verified) /\ held' \in BOOLEAN
      /\ UNCHANGED <<lost, temp, counted, retryAge, lag, due, published, apply, applyCfg, uiCfg,
                     storedLatch, storedCount, storedCfg, recovery>>
  BY <1>0, <1>a, <1>c, <1>d, SetLimitType DEF Restore, AfterRestore, Stages, registry, IInv
<1>2. TypeOK'
  BY <1>1, <1>0, <1>e DEF IInv, TypeOK
<1>3. Coherent(c)'
  BY <1>1
<1>4. ConfigsAreValid' /\ MailboxHolds'
  BY <1>1 DEF IInv, ConfigsAreValid, MailboxHolds, InLoop
<1>5. DecisionAgrees' /\ VerdictsHold'
  BY <1>1 DEF IInv, DecisionAgrees, VerdictsHold, Iteration
<1>6. SafeIsInForce' /\ HotIsLatched'
  BY <1>1 DEF IInv, SafeIsInForce, HotIsLatched, Iteration
<1>7. OneConfig' /\ (SavesKeepGuarding => TripIsKept)'
  BY <1>1 DEF IInv, OneConfig, TripIsKept, SavesKeepGuarding
<1> QED  BY <1>2, <1>3, <1>4, <1>5, <1>6, <1>7 DEF IInv

(* The release is recorded.                                                *)
LEMMA RestoreSaveSound ==
  ASSUME IInv, RestoreSave
  PROVE  IInv'
<1>1. /\ \/ pc = "autoSave" /\ pc' = "manual"
         \/ pc = "manualSave" /\ pc' = "retry"
      /\ pc' \in Stages /\ counted' \in BOOLEAN /\ storedLatch' \in BOOLEAN
      /\ UNCHANGED <<c, lost, temp, decision, safeVerified, budget, retryAge, lag, due,
                     published, apply, applyCfg, uiCfg, manualReq, hw, foreign, storedCount,
                     storedCfg, recovery, held>>
  BY DEF RestoreSave, SaveSafeLatch, Goto, Stages, requests, card, IInv, TypeOK
<1>2. TypeOK'
  BY <1>1 DEF IInv, TypeOK
<1>3. Coherent(c)'
  BY <1>1 DEF IInv, Coherent, SampleStamped
<1>4. ConfigsAreValid' /\ MailboxHolds'
  BY <1>1 DEF IInv, ConfigsAreValid, MailboxHolds, InLoop
<1>5. DecisionAgrees' /\ VerdictsHold'
  BY <1>1 DEF IInv, DecisionAgrees, VerdictsHold, Iteration
<1>6. SafeIsInForce' /\ HotIsLatched'
  BY <1>1 DEF IInv, SafeIsInForce, HotIsLatched, Iteration
<1>7. OneConfig' /\ (SavesKeepGuarding => TripIsKept)'
  BY <1>1 DEF IInv, OneConfig, TripIsKept, SavesKeepGuarding
<1> QED  BY <1>2, <1>3, <1>4, <1>5, <1>6, <1>7 DEF IInv

(* It was not written: the safe limit again.                               *)
LEMMA RestoreFallbackSound ==
  ASSUME IInv, NEW verified \in BOOLEAN, RestoreFallback(verified)
  PROVE  IInv'
<1>0. c.cfg \in Configs /\ c.cfg.safe \in Limits /\ c.cfg.safe \in Nat
  BY LimitsKnown DEF IInv, TypeOK, Controller
<1>1. /\ \/ pc = "autoFallback" /\ pc' = "manual"
         \/ pc = "manualFallback" /\ pc' = "retry"
      /\ {"manual", "retry"} \subseteq Stages
      /\ hw' \in Limits /\ foreign' \in BOOLEAN /\ (verified => hw' = c.cfg.safe)
      /\ safeVerified' = verified /\ retryAge' = 0 /\ 0 \in 0 .. RetryCap
      /\ UNCHANGED <<c, lost, temp, decision, counted, budget, lag, due, published, apply,
                     applyCfg, uiCfg, manualReq, storedLatch, storedCount, storedCfg,
                     recovery, held>>
  BY <1>0, SetLimitType, Caps DEF RestoreFallback, Goto, Stages, requests, registry, IInv
<1>2. TypeOK'
  BY <1>1 DEF IInv, TypeOK
<1>3. Coherent(c)'
  BY <1>1 DEF IInv, Coherent, SampleStamped
<1>4. ConfigsAreValid' /\ MailboxHolds'
  BY <1>1 DEF IInv, ConfigsAreValid, MailboxHolds, InLoop
<1>5. DecisionAgrees' /\ VerdictsHold'
  BY <1>1 DEF IInv, DecisionAgrees, VerdictsHold, Iteration
<1>6. SafeIsInForce' /\ HotIsLatched'
  BY <1>1, <1>0 DEF IInv, SafeIsInForce, HotIsLatched, Iteration
<1>7. OneConfig' /\ (SavesKeepGuarding => TripIsKept)'
  BY <1>1 DEF IInv, OneConfig, TripIsKept, SavesKeepGuarding
<1> QED  BY <1>2, <1>3, <1>4, <1>5, <1>6, <1>7 DEF IInv

-----------------------------------------------------------------------------
(* The end of an iteration, and the passage of time.                       *)

(* The safe limit need not be checked.                                     *)
LEMMA NoRetrySound ==
  ASSUME IInv, NoRetry
  PROVE  IInv'
<1>1. /\ pc = "retry" /\ pc' = "publish" /\ "publish" \in Stages
      /\ UNCHANGED <<c, lost, temp, decision, safeVerified, counted, budget, retryAge, lag, due,
                     published, apply, applyCfg, uiCfg, manualReq, hw, foreign, storedLatch, storedCount,
                     storedCfg, recovery, held>>
  BY DEF NoRetry, Goto, Stages, loop, requests, card, registry
<1>2. TypeOK'
  BY <1>1 DEF IInv, TypeOK
<1>3. Coherent(c)'
  BY <1>1 DEF IInv, Coherent, SampleStamped
<1>4. ConfigsAreValid' /\ MailboxHolds'
  BY <1>1 DEF IInv, ConfigsAreValid, MailboxHolds, InLoop
<1>5. DecisionAgrees' /\ VerdictsHold'
  BY <1>1 DEF IInv, DecisionAgrees, VerdictsHold, Iteration
<1>6. SafeIsInForce' /\ HotIsLatched'
  BY <1>1 DEF IInv, SafeIsInForce, HotIsLatched, Iteration
<1>7. OneConfig' /\ (SavesKeepGuarding => TripIsKept)'
  BY <1>1 DEF IInv, OneConfig, TripIsKept, SavesKeepGuarding
<1> QED  BY <1>2, <1>3, <1>4, <1>5, <1>6, <1>7 DEF IInv

(* The safe limit is checked, and written if need be.                      *)
LEMMA RetrySafePowerSound ==
  ASSUME IInv, NEW readable \in BOOLEAN, NEW verified \in BOOLEAN, RetrySafePower(readable,
         verified)
  PROVE  IInv'
<1>0. c.cfg \in Configs /\ c.cfg.safe \in Limits /\ c.cfg.safe \in Nat
  BY LimitsKnown DEF IInv, TypeOK, Controller
<1>a. hw \in Limits /\ hw \in Nat /\ foreign \in BOOLEAN /\ lag \in 0 .. RetryCap
  BY LimitsKnown, Caps DEF IInv, TypeOK
<1>1. /\ pc = "retry" /\ pc' = IF verified /\ ~counted THEN "retrySave" ELSE "publish"
      /\ {"retrySave", "publish"} \subseteq Stages
      /\ hw' \in Limits /\ foreign' \in BOOLEAN /\ (verified => hw' <= c.cfg.safe)
      /\ safeVerified' = verified /\ retryAge' = lag /\ decision.latched
      /\ UNCHANGED <<c, lost, temp, decision, counted, budget, lag, due, published, apply,
                     applyCfg, uiCfg, manualReq, storedLatch, storedCount, storedCfg,
                     recovery, held>>
  BY <1>0, <1>a, SetLimitType DEF RetrySafePower, RetryDue, Goto, Stages, requests, card,
                                  registry, IInv
<1>2. TypeOK'
  BY <1>1, <1>a DEF IInv, TypeOK
<1>3. Coherent(c)'
  BY <1>1 DEF IInv, Coherent, SampleStamped
<1>4. ConfigsAreValid' /\ MailboxHolds'
  BY <1>1 DEF IInv, ConfigsAreValid, MailboxHolds, InLoop
<1>5. DecisionAgrees' /\ VerdictsHold'
  BY <1>1 DEF IInv, DecisionAgrees, VerdictsHold, Iteration
<1>6. SafeIsInForce' /\ HotIsLatched'
  BY <1>1 DEF IInv, SafeIsInForce, HotIsLatched, Iteration
<1>7. OneConfig' /\ (SavesKeepGuarding => TripIsKept)'
  BY <1>1 DEF IInv, OneConfig, TripIsKept, SavesKeepGuarding
<1> QED  BY <1>2, <1>3, <1>4, <1>5, <1>6, <1>7 DEF IInv

(* The iteration is published.                                             *)
LEMMA PublishSound ==
  ASSUME IInv, Publish
  PROVE  IInv'
<1>0. /\ NoDecision \in [state : ProtectionState, latched : BOOLEAN]
      /\ ObserveLatch(budget, c.latched) \in Budget
  BY ObserveLatchType DEF NoDecision, ProtectionState, IInv, TypeOK, Controller
<1>a. decision.latched = c.latched /\ c.latched \in BOOLEAN /\ safeVerified \in BOOLEAN
  BY DEF Publish, IInv, DecisionAgrees, Iteration, TypeOK, Controller
<1>1. /\ pc = "publish" /\ pc' = "wait" /\ "wait" \in Stages
      /\ budget' \in Budget /\ lag' = 0 /\ temp' = Unset
      /\ published' \in [latched : BOOLEAN, count : 0 .. MaxTrips]
      /\ published'.latched = (c.latched /\ safeVerified)
      /\ decision' \in [state : ProtectionState, latched : BOOLEAN]
      /\ UNCHANGED <<c, lost, safeVerified, counted, retryAge, due, apply, applyCfg, uiCfg,
                     manualReq, hw, foreign, storedLatch, storedCount, storedCfg, recovery,
                     held>>
  BY <1>0, <1>a DEF Publish, Goto, Stages, requests, card, registry, IInv, TypeOK
<1>2. TypeOK'
  BY <1>1, Caps DEF IInv, TypeOK
<1>3. Coherent(c)'
  BY <1>1 DEF IInv, Coherent, SampleStamped
<1>4. ConfigsAreValid' /\ MailboxHolds'
  BY <1>1 DEF IInv, ConfigsAreValid, MailboxHolds, InLoop
<1>5. DecisionAgrees' /\ VerdictsHold'
  BY <1>1 DEF IInv, DecisionAgrees, VerdictsHold, Iteration
<1>6. SafeIsInForce' /\ HotIsLatched'
  BY <1>1 DEF IInv, SafeIsInForce, HotIsLatched, Iteration
<1>7. OneConfig' /\ (SavesKeepGuarding => TripIsKept)'
  BY <1>1 DEF IInv, OneConfig, TripIsKept, SavesKeepGuarding
<1> QED  BY <1>2, <1>3, <1>4, <1>5, <1>6, <1>7 DEF IInv

(* Time passes.                                                            *)
LEMMA ElapseSound ==
  ASSUME IInv, NEW d \in {1, MaxStall}, Elapse(d)
  PROVE  IInv'
<1>0. d \in Nat /\ c \in Controller /\ Coherent(c) /\ retryAge \in 0 .. RetryCap /\ budget \in Budget
  BY Caps DEF IInv, TypeOK
<1>a. /\ Elapsed(c, d) \in Controller /\ Coherent(Elapsed(c, d)) /\ Elapsed(c, d).cfg = c.cfg
      /\ Elapsed(c, d).state = c.state /\ Elapsed(c, d).latched = c.latched
  BY <1>0, ElapsedSound, ElapsedKeeps
<1>b. Aged(retryAge, d, RetryCap) \in 0 .. RetryCap
  BY <1>0, AgedInRange, Caps
<1>c. Aged(budget.age, d, AttemptCap) \in 0 .. AttemptCap
  BY <1>0, AgedInRange, Caps DEF Budget
<1>d. [budget EXCEPT !.age = Aged(@, d, AttemptCap)] \in Budget
  BY <1>0, <1>c DEF Budget
<1>1. /\ c' \in Controller /\ Coherent(c') /\ c'.cfg = c.cfg /\ c'.state = c.state
      /\ c'.latched = c.latched
      /\ lag' \in 0 .. MaxStall /\ due' \in BOOLEAN /\ budget' \in Budget /\ retryAge' \in 0 .. RetryCap
      /\ UNCHANGED <<pc, lost, temp, decision, safeVerified, counted, published, apply,
                     applyCfg, uiCfg, manualReq, hw, foreign, storedLatch, storedCount,
                     storedCfg, recovery, held>>
  BY <1>a, <1>b, <1>d, Caps DEF Elapse, requests, card, registry, IInv, TypeOK
<1>2. TypeOK'
  BY <1>1 DEF IInv, TypeOK
<1>3. Coherent(c)'
  BY <1>1
<1>4. ConfigsAreValid' /\ MailboxHolds'
  BY <1>1 DEF IInv, ConfigsAreValid, MailboxHolds, InLoop
<1>5. DecisionAgrees' /\ VerdictsHold'
  BY <1>1 DEF IInv, DecisionAgrees, VerdictsHold, Iteration
<1>6. SafeIsInForce' /\ HotIsLatched'
  BY <1>1 DEF IInv, SafeIsInForce, HotIsLatched, Iteration
<1>7. OneConfig' /\ (SavesKeepGuarding => TripIsKept)'
  BY <1>1 DEF IInv, OneConfig, TripIsKept, SavesKeepGuarding
<1> QED  BY <1>2, <1>3, <1>4, <1>5, <1>6, <1>7 DEF IInv

-----------------------------------------------------------------------------
(* The invariant.                                                          *)

(* Every program starts in order.                                          *)
LEMMA InitSound == Init => IInv
<1> SUFFICES ASSUME Init
             PROVE  IInv
  OBVIOUS
<1>1. /\ storedCfg \in Configs /\ ValidateConfig(storedCfg) /\ c = Fresh(storedCfg)
      /\ hw \in {storedCfg.normal, storedCfg.safe}
  BY DEF Init
<1>2. c \in Controller /\ Coherent(c) /\ hw \in Limits
  BY <1>1, FreshSound, LimitsKnown
<1>3. /\ decision \in [state : ProtectionState, latched : BOOLEAN]
      /\ published \in [latched : BOOLEAN, count : 0 .. MaxTrips] /\ ~published.latched
      /\ budget \in Budget
  BY FreshBudgetType, Caps DEF Init, NoDecision, NothingPublished, ProtectionState
<1>4. TypeOK
  BY <1>1, <1>2, <1>3, Caps DEF Init, TypeOK, Stages
<1>5. /\ ConfigsAreValid /\ MailboxHolds /\ DecisionAgrees /\ VerdictsHold
      /\ SafeIsInForce /\ HotIsLatched /\ OneConfig /\ TripIsKept
  BY <1>1, <1>3 DEF Init, ConfigsAreValid, MailboxHolds, DecisionAgrees, VerdictsHold,
                    Iteration, SafeIsInForce, HotIsLatched, OneConfig, TripIsKept
<1> QED  BY <1>2, <1>4, <1>5 DEF IInv

(* Nothing anybody does breaks it.                                         *)
LEMMA StepSound == IInv /\ [Next]_vars => IInv'
<1> SUFFICES ASSUME IInv, [Next]_vars
             PROVE  IInv'
  OBVIOUS
<1>1. CASE UserInterface
  BY <1>1, StartSound, StopSound, RequestManualRestoreSound, RequestApplySound,
     TakeApplyCompletionSound DEF UserInterface
<1>2. CASE Reads
  BY <1>2, ReadTemperatureSound, ReadFailsSound DEF Reads
<1>3. CASE RecordTrip
  BY <1>3, SafeLimitKnownSound, CountTripSound DEF RecordTrip
<1>4. CASE Proceeds
  BY <1>3, <1>4, BootSound, BootSaveSound, NoApplySound, RejectApplySound, ApplySaveSound,
     ApplyLatchSound, NoRestoreSound, RestoreSaveSound, NoRetrySound, PublishSound DEF Proceeds
<1>5. ASSUME NEW verified \in BOOLEAN, PowerWrite(verified)
      PROVE  IInv'
  BY <1>5, BootWriteSound, ApplySafePowerSound, ApplyWorkingPowerSound, ApplyFallbackSound,
     RestoreSound, RestoreFallbackSound, RetrySafePowerSound DEF PowerWrite
<1>6. CASE Thread
  BY <1>2, <1>4, <1>5, <1>6 DEF Thread
<1>7. CASE \E d \in {1, MaxStall} : Elapse(d)
  BY <1>7, ElapseSound
<1>8. CASE \E w \in OutsideLimits : OutsideWrite(w)
  BY <1>8, OutsideWriteSound
<1>9. CASE UNCHANGED vars
  BY <1>9 DEF vars, loop, requests, card, registry, IInv, TypeOK, Coherent, SampleStamped,
              ConfigsAreValid, MailboxHolds, InLoop, DecisionAgrees, VerdictsHold, SafeIsInForce,
              HotIsLatched, OneConfig, TripIsKept
<1> QED  BY <1>1, <1>6, <1>7, <1>8, <1>9, AbandonSound, CrashSound, RelaunchSound DEF Next

(* IInv is the inductive invariant of the worker: it holds whatever the    *)
(* thread, the window, the registry, the card and other tools do, and      *)
(* wherever the process dies.                                              *)
THEOREM WorkerInvariant == Spec => []IInv
BY InitSound, StepSound, PTL DEF Spec

-----------------------------------------------------------------------------
(* What the window says, and what a hot reading brings about.              *)

(* Between two iterations a safe latch that was published as verified is   *)
(* true of the card, unless another tool moved the limit: no failed        *)
(* restore, failed Apply or failed fallback hides behind the claim.        *)
THEOREM ClaimHonest == Spec => []ClaimIsHonest
<1>1. IInv => ClaimIsHonest
  BY DEF IInv, ClaimIsHonest, SafeClaimIsHonest, VerdictsHold, SafeIsInForce
<1> QED  BY <1>1, WorkerInvariant, PTL

(* A hot reading ends its iteration latched, whatever Apply, automatic and *)
(* manual restore were asked to do in the same iteration.                  *)
THEOREM HotReadingLatches == Spec => []HotIterationEndsLatched
<1>1. IInv => HotIterationEndsLatched
  BY DEF IInv, HotIterationEndsLatched, HotIsLatched, Iteration
<1> QED  BY <1>1, WorkerInvariant, PTL

(* A Save & Apply answered as applied is what the thread runs with and     *)
(* what a restart would load.                                              *)
THEOREM AppliedHolds == Spec => []AppliedIsActive
<1>1. IInv => AppliedIsActive
  BY DEF IInv, AppliedIsActive, MailboxHolds
<1> QED  BY <1>1, WorkerInvariant, PTL

(* A recorded trip outlives every crash, stop and relaunch, as long as a   *)
(* save that fails half way cannot leave a configuration that only         *)
(* watches: see SavesKeepGuarding.                                         *)
THEOREM TripIsHeld ==
  ASSUME SavesKeepGuarding
  PROVE  Spec => []RecordedTripIsHeld
<1>1. IInv => RecordedTripIsHeld
  BY SavesKeepGuarding DEF IInv, RecordedTripIsHeld, TripIsKept, InLoop
<1> QED  BY <1>1, WorkerInvariant, PTL

(* An accepted Apply is what the thread runs with, and no configuration    *)
(* makes a start forget a recorded trip.                                   *)
THEOREM ApplyKeepsTheTrip ==
  ASSUME SavesKeepGuarding
  PROVE  Spec => []ApplyKeepsTrips
<1>1. IInv => ApplyKeepsTrips
  BY SavesKeepGuarding
     DEF IInv, ApplyKeepsTrips, AppliedIsActive, MailboxHolds, RecordedTripIsHeld,
         TripIsKept, InLoop
<1> QED  BY <1>1, WorkerInvariant, PTL

-----------------------------------------------------------------------------
(* What a step may never do.                                               *)

(* The limit is changed by another tool, by a write of the safe limit, by  *)
(* an accepted Apply or by a restore that is due.                          *)
LEMMA WritersOfTheLimit ==
  ASSUME IInv, [Next]_vars, hw' # hw
  PROVE  \/ foreign'
         \/ hw' = c.cfg.safe
         \/ ~c.latched
         \/ \E stage \in {"auto", "manual"}, verified, mayRetry \in BOOLEAN :
               Restore(stage, verified, mayRetry)
<1>1. CASE UserInterface
  BY <1>1 DEF UserInterface, Start, Stop, RequestManualRestore, RequestApply,
              TakeApplyCompletion, card
<1>2. CASE Reads
  BY <1>2 DEF Reads, ReadTemperature, ReadFails, card
<1>3. CASE Proceeds
  BY <1>3 DEF Proceeds, Boot, BootSave, RecordTrip, SafeLimitKnown, CountTrip, NoApply,
              RejectApply, ApplySave, ApplyLatch, NoRestore, RestoreSave, NoRetry, Publish,
              card
<1>4. ASSUME NEW verified \in BOOLEAN, PowerWrite(verified),
             ~\E stage \in {"auto", "manual"}, mayRetry \in BOOLEAN :
                 Restore(stage, verified, mayRetry)
      PROVE  hw' = c.cfg.safe \/ ~c.latched
  BY <1>4 DEF PowerWrite, BootWrite, ApplySafePower, ApplyWorkingPower, AcceptsApply,
              Configurable, ApplyFallback, RestoreFallback, RetrySafePower, SetLimit, card
<1>5. CASE \E verified \in BOOLEAN : PowerWrite(verified)
  BY <1>4, <1>5
<1>6. CASE \/ \E d \in {1, MaxStall} : Elapse(d)
           \/ Abandon \/ Crash \/ Relaunch \/ UNCHANGED vars
  BY <1>6 DEF Elapse, Abandon, Crash, Relaunch, vars, card
<1>7. CASE \E w \in OutsideLimits : OutsideWrite(w)
  BY <1>7 DEF OutsideWrite
<1> QED  BY <1>1, <1>2, <1>3, <1>5, <1>6, <1>7 DEF Next, Thread

(* While the latch is set the program raises the limit above safe power    *)
(* only by a restore that is due: the stable-cooling window is complete,   *)
(* the reading is cool and not yet as old as the telemetry-loss limit,     *)
(* however long the iteration was held up.                                 *)
THEOREM RaisesOnlyWhenCool == Spec => RaiseNeedsCooling
<1>1. ASSUME IInv, [Next]_vars,
             hw' > hw, hw' > c.cfg.safe, ~foreign', c.latched
      PROVE  /\ c.state = "ReadyToRestore"
             /\ c.recoveryAge = RecoveryStable
             /\ c.sampleAge < LossLimit
             /\ temp # Unset /\ temp <= RecoveryTemperature(c.cfg)
  <2>1. /\ c \in Controller /\ Coherent(c) /\ c.cfg \in Configs
        /\ hw \in Nat /\ c.cfg.safe \in Nat
        /\ temp # Unset => temp \in Int
        /\ RecoveryTemperature(c.cfg) \in Int /\ c.sampleAge \in Int
    BY <1>1, LimitsKnown, ConfigType, WorkerAssumption, PolicyAssumption
       DEF IInv, TypeOK, Controller, Unset
  <2>2. hw' \in Nat
    BY <1>1, StepSound, LimitsKnown DEF IInv, TypeOK
  <2>3. PICK stage \in {"auto", "manual"}, verified \in BOOLEAN, mayRetry \in BOOLEAN :
               Restore(stage, verified, mayRetry)
    BY <1>1, <2>1, <2>2, WritersOfTheLimit
  <2>4. MayRestore(stage) /\ Releases(c, RequestRestore(c, temp))
    BY <2>3 DEF Restore
  <2>5. temp # Unset
    BY <2>4 DEF MayRestore, MayRestoreAutomatically, MayRestoreManually
  <2>6. /\ c.recoveryAge = RecoveryStable
        /\ ~(c.sampleAge >= LossLimit) /\ ~(temp > RecoveryTemperature(c.cfg))
    BY <2>1, <2>4, RequestRestoreSound DEF Releases
  <2>7. c.state = "ReadyToRestore"
    BY <2>4, RequestKeeps DEF Releases
  <2> QED  BY <2>1, <2>5, <2>6, <2>7, PolicyAssumption
<1>2. IInv /\ [Next]_vars
        => [hw' > hw /\ hw' > c.cfg.safe /\ ~foreign' /\ c.latched
              => /\ c.state = "ReadyToRestore"
                 /\ c.recoveryAge = RecoveryStable
                 /\ c.sampleAge < LossLimit
                 /\ temp # Unset /\ temp <= RecoveryTemperature(c.cfg)]_vars
  BY <1>1
<1> QED  BY <1>2, WorkerInvariant, PTL DEF Spec, RaiseNeedsCooling

(* The trip total goes up only while the safe limit of a latched           *)
(* controller is verified.                                                 *)
THEOREM CountsOnlyVerified == Spec => TripsCountedWhenVerified
<1>1. ASSUME IInv, [Next]_vars, published'.count > published.count, pc # "boot"
      PROVE  c.latched /\ safeVerified /\ (~foreign => hw <= c.cfg.safe)
  <2>1. published.count \in 0 .. MaxTrips
    BY <1>1 DEF IInv, TypeOK
  <2>2. published' # published /\ published'.count # 0
    BY <1>1, <2>1
  <2>3. CASE pc \in {"tripCount", "retryCount"}
    BY <1>1, <2>3 DEF IInv, VerdictsHold, SafeIsInForce
  <2>4. CASE UserInterface \/ Abandon \/ Crash \/ Relaunch \/ UNCHANGED vars
    BY <2>2, <2>4 DEF UserInterface, Start, Stop, RequestManualRestore, RequestApply,
                      TakeApplyCompletion, Abandon, Crash, Relaunch, LoopGone, NothingPublished,
                      loop, vars
  <2>5. CASE Reads
    BY <2>2, <2>5 DEF Reads, ReadTemperature, ReadFails
  <2>6. CASE Publish
    BY <1>1, <2>1, <2>6 DEF Publish, IInv, TypeOK
  <2>7. CASE Proceeds
    BY <1>1, <2>2, <2>3, <2>6, <2>7
       DEF Proceeds, Boot, BootSave, RecordTrip, SafeLimitKnown, CountTrip, NoApply,
           RejectApply, ApplySave, ApplyLatch, NoRestore, RestoreSave, NoRetry, loop
  <2>8. CASE \E verified \in BOOLEAN : PowerWrite(verified)
    BY <2>2, <2>8 DEF PowerWrite, BootWrite, ApplySafePower, ApplyWorkingPower, ApplyFallback,
                      Restore, RestoreFallback, RetrySafePower
  <2>9. CASE (\E d \in {1, MaxStall} : Elapse(d)) \/ \E w \in OutsideLimits : OutsideWrite(w)
    BY <2>2, <2>9 DEF Elapse, OutsideWrite, loop
  <2> QED  BY <1>1, <2>4, <2>5, <2>7, <2>8, <2>9 DEF Next, Thread
<1>2. IInv /\ [Next]_vars
        => [published'.count > published.count /\ pc # "boot"
              => c.latched /\ safeVerified /\ (~foreign => hw <= c.cfg.safe)]_vars
  BY <1>1
<1> QED  BY <1>2, WorkerInvariant, PTL DEF Spec, TripsCountedWhenVerified
=============================================================================
