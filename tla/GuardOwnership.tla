---------------------------- MODULE GuardOwnership ----------------------------
(***************************************************************************)
(* Who protects the GPU: the service (src/service/service_main.cpp) or the *)
(* tray's local worker, one at a time under the WriterLease mutex, and the *)
(* tray window that chooses between them, asks the service over the pipe   *)
(* and asks the user for a restore (src/tray/main_dialog.cpp).             *)
(*                                                                         *)
(* Both guards run the same chain of steps, each with at most one write to *)
(* the card or the registry:                                               *)
(*                                                                         *)
(*   boot -> bootWrite [-> bootSave] -> wait                               *)
(*   wait -> [trip -> tripSave] -> auto [-> autoSave | autoFallback]       *)
(*        -> manual [-> manualSave | manualFallback] -> retry [-> retrySave]*)
(*                                                                         *)
(* with the manual stage, which in the service polls the pipe and answers  *)
(* (reply), after the retry instead of before it.  What the controller     *)
(* decides is abstracted to latched and ready (ReadyToRestore), with the   *)
(* choices of module SafeLatch, which ProtectionController implements;     *)
(* LocalProtectionWorker is the local thread in full.  The configuration   *)
(* is one that guards (not MonitorOnly).                                   *)
(***************************************************************************)
EXTENDS ServicePipe, Sequences

CONSTANTS
  AutoRestores,  (* the values of config.auto_restore to consider          *)
  MaxAttempts,   (* RestoreRetryBudget: attempts before it is exhausted    *)
  MaxModals,     (* bound: message boxes open on top of each other         *)
  SavesMayFail,  (* whether a registry write may fail                      *)
  TripsAreNews   (* bound: whether the trip count is kept, on which only   *)
                 (* RestorePromptGate depends                              *)

ASSUME OwnershipAssumption ==
  /\ AutoRestores \subseteq BOOLEAN
  /\ MaxAttempts \in Nat \ {0} /\ MaxModals \in Nat
  /\ SavesMayFail \in BOOLEAN /\ TripsAreNews \in BOOLEAN

Guards == {"service", "local"}

VARIABLES
  guard,       (* each guard's loop                                        *)
  lease,       (* who owns the writer mutex                                *)
  storedLatch, (* the registry                                             *)
  pipe,
  request,     (* the command the service is serving, and how it went      *)
  ui,          (* the tray's UI thread                                     *)
  autoRestore, (* config.auto_restore, the same for both                   *)
  connected,   (* service_connected_                                       *)
  gate,        (* RestorePromptGate::offered_for_latch_                    *)
  news,        (* a counted trip: told in an answer, or shown already      *)
  modals,      (* prompts open, the last one on top                        *)
  startLatch,  (* what Start was told of the stored latch                  *)
  manualReq,   (* the local worker's manual_restore_requested_             *)
  held,        (* observer: a trip was recorded and not restored since     *)
  stale,       (* observer: the local worker started with an outdated      *)
               (* startLatch                                               *)
  consent,     (* observer: what became of the user's YES                  *)
  sameLatch    (* observer: a prompt was shown for the latch of now        *)

tray == <<ui, connected, gate, modals>>
observers == <<held, stale, consent, sameLatch>>
vars == <<guard, lease, storedLatch, pipe, request, tray, autoRestore,
          news, startLatch, manualReq, observers>>

Stages == {"off", "boot", "bootWrite", "bootSave", "wait", "trip", "tripSave",
           "auto", "autoSave", "autoFallback", "manual", "manualSave",
           "manualFallback", "reply", "retry", "retrySave", "closing"}

Loop == [pc : Stages, latched : BOOLEAN, ready : BOOLEAN, seen : BOOLEAN,
         verified : BOOLEAN, counted : BOOLEAN, attempts : 0 .. MaxAttempts,
         stopped : BOOLEAN]

Idle == [pc |-> "off", latched |-> FALSE, ready |-> FALSE, seen |-> TRUE,
         verified |-> FALSE, counted |-> FALSE, attempts |-> 0, stopped |-> FALSE]

NotServing == [command |-> NoRequest, outcome |-> "none"]

Requests == [command : Commands \cup {NoRequest},
             outcome : {"none", "refused", "failed", "done"}]

UiStates == [at : {"off", "idle", "open", "talk", "join", "local"},
             command : Commands, answer : Answers \cup {NoAnswer}]

TypeOK ==
  /\ guard \in [Guards -> Loop]
  /\ lease \in Guards \cup {"free"}
  /\ storedLatch \in BOOLEAN
  /\ pipe \in Pipes
  /\ request \in Requests /\ ui \in UiStates
  /\ autoRestore \in AutoRestores
  /\ connected \in BOOLEAN /\ gate \in BOOLEAN
  /\ news \in {"none", "counted", "told"}
  /\ modals \in Seq(Guards) /\ Len(modals) <= MaxModals
  /\ startLatch \in BOOLEAN /\ manualReq \in BOOLEAN
  /\ held \in BOOLEAN /\ stale \in BOOLEAN /\ sameLatch \in BOOLEAN
  /\ consent \in {"none", "given", "spent", "done"}

UiAt(at) == [at |-> at, command |-> "Query", answer |-> NoAnswer]

Init ==
  /\ guard = [g \in Guards |-> Idle]
  /\ lease = "free" /\ storedLatch = FALSE
  /\ pipe = Instance("none", "away") /\ request = NotServing
  /\ ui = UiAt("off") /\ autoRestore \in AutoRestores
  /\ connected = FALSE /\ gate = FALSE /\ news = "none" /\ modals = <<>>
  /\ startLatch = FALSE /\ manualReq = FALSE
  /\ held = FALSE /\ stale = FALSE /\ consent = "none" /\ sameLatch = FALSE

InLoop(g) == guard[g].pc \notin {"off", "boot", "closing"}

-----------------------------------------------------------------------------
(* Effects a step may have. *)

AfterAuto(g) == IF g = "service" THEN "retry" ELSE "manual"

After(g, stage) ==
  CASE stage = "trip"   -> IF autoRestore THEN "auto" ELSE AfterAuto(g)
    [] stage = "auto"   -> AfterAuto(g)
    [] stage = "manual" -> IF g = "service" THEN "reply" ELSE "retry"
    [] stage = "retry"  -> IF g = "service" THEN "manual" ELSE "wait"

SaveSafeLatch(latched) ==
  \/ storedLatch' = latched
  \/ SavesMayFail /\ UNCHANGED storedLatch

(* SaveSafeLatch(true) and, once per latch, the trip count, which a window *)
(* that opens later reads from the registry.                               *)
Record(g, pcNext) ==
  /\ SaveSafeLatch(TRUE)
  /\ held' = (held \/ storedLatch')
  /\ news' = IF guard[g].counted \/ ui.at = "off" \/ ~TripsAreNews THEN news ELSE "counted"
  /\ guard' = [guard EXCEPT ![g].counted = TRUE, ![g].pc = pcNext]

Exhausted(g) == guard[g].stopped \/ guard[g].attempts >= MaxAttempts

Elsewhere == <<lease, pipe, request, tray, autoRestore, startLatch, manualReq>>

-----------------------------------------------------------------------------
(* A guard starts. *)

(* Mutant of Acquired: the lease is taken whoever holds it.                *)
AcquiredAlways(g) == TRUE

(* WriterLease: an abandoned mutex counts as acquired.                     *)
Acquired(g) == lease = "free"

(* The latch a guard starts with: the service reads the registry under the *)
(* lease; the local worker was told by the UI thread, before it.  (The     *)
(* recovery flag, which only ever adds a latch, is in module Supervisor.)  *)
Inherited(g) == IF g = "service" THEN storedLatch ELSE startLatch

(* The service creates its pipe after everything that may fail.            *)
Listens(g, pcNext) == IF g = "service" /\ pcNext = "wait" THEN Created(pipe) ELSE pipe

(* Mutant of Restored: the inherited latch is not restored.                *)
Forgotten(g) == FALSE

Restored(g) == Inherited(g)

(* The local worker numbers its trips from zero, and so does the window.   *)
Boot(g) ==
  LET pcNext == IF Restored(g) THEN "bootWrite" ELSE "wait"
  IN  /\ guard[g].pc = "boot" /\ Acquired(g)
      /\ lease' = g
      /\ guard' = [guard EXCEPT ![g].pc = pcNext, ![g].latched = Restored(g),
                                ![g].counted = Restored(g)]
      /\ pipe' = Listens(g, pcNext)
      /\ news' = IF g = "local" THEN "none" ELSE news
      /\ stale' = IF g = "local" THEN storedLatch /\ ~Inherited(g) ELSE stale
      /\ startLatch' = (startLatch /\ g = "service")
      /\ UNCHANGED <<storedLatch, request, tray, autoRestore,
                     manualReq, held, consent, sameLatch>>

(* The lease is owned by the other guard, or NVML does not come up.        *)
BootFails(g) ==
  /\ guard[g].pc = "boot"
  /\ guard' = [guard EXCEPT ![g] = Idle]
  /\ startLatch' = (startLatch /\ g = "service")
  /\ manualReq' = (manualReq /\ g = "service")
  /\ UNCHANGED <<lease, pipe, request, tray, autoRestore,
                 storedLatch, news, observers>>

BootWrite(g, verified) ==
  LET pcNext == IF verified /\ g = "local" THEN "bootSave" ELSE "wait"
  IN  /\ guard[g].pc = "bootWrite"
      /\ guard' = [guard EXCEPT ![g].verified = verified, ![g].pc = pcNext]
      /\ pipe' = Listens(g, pcNext)
      /\ UNCHANGED <<storedLatch, news, observers, lease, request, tray, autoRestore,
                     startLatch, manualReq>>

BootSave(g) ==
  /\ guard[g].pc = "bootSave"
  /\ SaveSafeLatch(TRUE)
  /\ held' = (held \/ storedLatch')
  /\ guard' = [guard EXCEPT ![g].pc = "wait"]
  /\ UNCHANGED <<Elsewhere, news, stale, consent, sameLatch>>

-----------------------------------------------------------------------------
(* Reading and tripping. *)

(* The reading succeeds or not (seen), and the controller decides: a trip, *)
(* a step of the cooling watch, or the reapplied safe power of a latched   *)
(* GPU that is back after readings failed.  seen is about a latched GPU    *)
(* only, where alone it makes a difference.                                *)
Observe(g, seen, trips, ready) ==
  LET reapplied == guard[g].latched /\ seen /\ ~guard[g].seen
      tripped   == trips /\ ~guard[g].latched
      new == [guard[g] EXCEPT !.seen = seen \/ ~guard[g].latched]
  IN  /\ guard[g].pc = "wait"
      /\ trips => ~guard[g].latched
      /\ ready => guard[g].latched /\ seen /\ guard[g].seen
      /\ guard' = [guard EXCEPT ![g] =
           IF tripped THEN [new EXCEPT !.pc = "trip", !.latched = TRUE, !.ready = FALSE,
                                       !.attempts = 0, !.stopped = FALSE]
           ELSE [new EXCEPT !.ready = ready, !.pc =
                   IF reapplied THEN "trip" ELSE IF new.latched THEN After(g, "trip") ELSE "manual"]]
      /\ sameLatch' = (sameLatch /\ ~tripped)
      /\ UNCHANGED <<Elsewhere, storedLatch, news, held, stale, consent>>

(* ApplySafePower.  The local worker counts an episode anew that it had    *)
(* not shown as latched.                                                   *)
ApplySafePower(g, verified) ==
  /\ guard[g].pc = "trip"
  /\ guard' = [guard EXCEPT ![g].verified = verified,
                            ![g].counted = @ /\ (g = "service" \/ guard[g].verified),
                            ![g].pc = IF verified THEN "tripSave" ELSE After(g, "trip")]
  /\ UNCHANGED <<Elsewhere, storedLatch, news, observers>>

RecordTrip(g) ==
  /\ guard[g].pc = "tripSave"
  /\ Record(g, After(g, "trip"))
  /\ UNCHANGED <<Elsewhere, stale, consent, sameLatch>>

-----------------------------------------------------------------------------
(* Restores: RestoreWithSafeFallback. *)

Asked(g) ==
  IF g = "service" THEN request.command = "RestoreNormalPower" ELSE manualReq

MayRestore(g, stage) ==
  /\ guard[g].seen
  /\ IF stage = "auto"
     THEN guard[g].ready /\ ~Exhausted(g)
     ELSE Asked(g)

(* Mutant of Attempts: a manual attempt is counted on top of the others.   *)
AttemptsAddUp(g, stage) == guard[g].attempts

(* ResetForManualRequest, which the service calls before it looks at the   *)
(* temperature, and even for a request that is then refused.               *)
Attempts(g, stage) == IF stage = "manual" THEN 0 ELSE guard[g].attempts
Stopped(g, stage)  == stage # "manual" /\ guard[g].stopped

Consume(g, stage) ==
  manualReq' = (manualReq /\ ~(g = "local" /\ stage = "manual" /\ guard[g].seen))

Outcome(g, stage, outcome) ==
  request' = IF g = "service" /\ stage = "manual"
             THEN [request EXCEPT !.outcome = outcome] ELSE request

(* Nothing to do: no request, no reading, or not the time for an attempt.  *)
NoRestore(g, stage) ==
  /\ guard[g].pc = stage
  /\ g = "service" /\ stage = "manual" => request.command # NoRequest
  /\ MayRestore(g, stage) => stage = "auto" /\ guard[g].attempts > 0   (* spacing *)
  /\ guard' = [guard EXCEPT ![g].pc = After(g, stage),
        ![g].attempts = IF Asked(g) /\ stage = "manual" /\ g = "service" THEN 0 ELSE @,
        ![g].stopped = @ /\ ~(Asked(g) /\ stage = "manual" /\ g = "service")]
  /\ Outcome(g, stage, IF Asked(g) THEN "refused" ELSE "none")
  /\ UNCHANGED <<lease, pipe, tray, autoRestore, startLatch, manualReq,
                 storedLatch, news, observers>>

(* RequestRestore does not propose a release: not ready, or the reading is *)
(* too old, which revokes ReadyToRestore.                                  *)
RefuseRestore(g, stage) ==
  /\ guard[g].pc = stage /\ MayRestore(g, stage)
  /\ guard' = [guard EXCEPT ![g].pc = After(g, stage), ![g].ready = FALSE,
                            ![g].attempts = Attempts(g, stage),
                            ![g].stopped = Stopped(g, stage)]
  /\ Outcome(g, stage, "refused")
  /\ Consume(g, stage)
  /\ UNCHANGED <<lease, pipe, tray, autoRestore, startLatch,
                 storedLatch, news, observers>>

Restore(g, stage, verified, mayRetry) ==
  /\ guard[g].pc = stage /\ MayRestore(g, stage) /\ guard[g].ready
  /\ guard' = [guard EXCEPT
        ![g].verified = FALSE,
        ![g].latched = ~verified, ![g].ready = ~verified,
        ![g].attempts = Attempts(g, stage) + 1,
        ![g].stopped = Attempts(g, stage) + 1 < MaxAttempts
                         /\ (Stopped(g, stage) \/ ~(verified \/ mayRetry)),
        ![g].pc = IF verified THEN (IF stage = "auto" THEN "autoSave" ELSE "manualSave")
                  ELSE IF stage = "auto" THEN "autoFallback" ELSE "manualFallback"]
  /\ held' = (held /\ ~verified)
  /\ sameLatch' = (sameLatch /\ ~verified)
  /\ consent' = IF g = "service" /\ stage = "manual"
                THEN IF verified THEN "done" ELSE "spent" ELSE consent
  /\ Outcome(g, stage, IF verified THEN "done" ELSE "failed")
  /\ Consume(g, stage)
  /\ UNCHANGED <<lease, pipe, tray, autoRestore, startLatch, storedLatch, news, stale>>

RestoreSave(g) ==
  /\ guard[g].pc \in {"autoSave", "manualSave"}
  /\ SaveSafeLatch(FALSE)
  /\ guard' = [guard EXCEPT ![g].counted = FALSE,
        ![g].pc = After(g, IF @ = "autoSave" THEN "auto" ELSE "manual")]
  /\ UNCHANGED <<Elsewhere, news, observers>>

RestoreFallback(g, verified) ==
  /\ guard[g].pc \in {"autoFallback", "manualFallback"}
  /\ guard' = [guard EXCEPT ![g].verified = verified,
        ![g].pc = After(g, IF @ = "autoFallback" THEN "auto" ELSE "manual")]
  /\ UNCHANGED <<Elsewhere, storedLatch, news, observers>>

-----------------------------------------------------------------------------
(* The periodic check of the safe limit, every two seconds while latched.  *)

NoRetry(g) ==
  /\ guard[g].pc = "retry"
  /\ guard' = [guard EXCEPT ![g].pc = After(g, "retry")]
  /\ UNCHANGED <<Elsewhere, storedLatch, news, observers>>

RetrySafePower(g, verified) ==
  /\ guard[g].pc = "retry" /\ guard[g].latched
  /\ guard' = [guard EXCEPT ![g].verified = verified,
        ![g].pc = IF verified /\ ~guard[g].counted THEN "retrySave" ELSE After(g, "retry")]
  /\ UNCHANGED <<Elsewhere, storedLatch, news, observers>>

RecordRetry(g) ==
  /\ guard[g].pc = "retrySave"
  /\ Record(g, After(g, "retry"))
  /\ UNCHANGED <<Elsewhere, stale, consent, sameLatch>>

-----------------------------------------------------------------------------
(* The service: its requests, and its start and end. *)

PollPipe ==
  LET command == PolledRequest(pipe)
  IN  /\ guard["service"].pc = "manual" /\ request = NotServing
      /\ pipe' = Polled(pipe)
      /\ request' = [command |-> command, outcome |-> "none"]
      /\ guard' = [guard EXCEPT !["service"].pc =
           CASE command = NoRequest -> "wait"
             [] command = "Query" -> "reply"
             [] OTHER -> "manual"]
      /\ UNCHANGED <<lease, tray, autoRestore, startLatch, manualReq,
                     storedLatch, news, observers>>

(* Mutant of AnswerFor: an executed request is reported as a success.      *)
AnswerForOptimist(armed) ==
  LET s == guard["service"]
  IN  [latched   |-> s.latched /\ s.verified,
       ready     |-> request.outcome = "none" /\ s.ready /\ s.verified,
       done      |-> request.command # "Query",
       exhausted |-> request.command = "Query" /\ s.latched /\ Exhausted("service"),
       armed     |-> armed,
       counted   |-> news # "none"]

(* PreTrip is a state of an unlatched controller too.                      *)
AnswerFor(armed) ==
  LET s == guard["service"]
  IN  [latched   |-> s.latched /\ s.verified,
       ready     |-> request.outcome = "none" /\ s.ready /\ s.verified,
       done      |-> request.outcome = "done",
       exhausted |-> request.command = "Query" /\ s.latched /\ Exhausted("service"),
       armed     |-> armed,
       counted   |-> news # "none"]

ReplyToRequest(armed) ==
  /\ guard["service"].pc = "reply"
  /\ armed => ~guard["service"].latched
  /\ pipe' = Reply(pipe, AnswerFor(armed))
  /\ news' = IF news = "counted" THEN "told" ELSE news
  /\ request' = NotServing
  /\ guard' = [guard EXCEPT !["service"].pc = "wait"]
  /\ UNCHANGED <<lease, tray, autoRestore, startLatch, manualReq,
                 storedLatch, observers>>

StartService ==
  /\ guard["service"].pc = "off"
  /\ guard' = [guard EXCEPT !["service"].pc = "boot"]
  /\ UNCHANGED <<Elsewhere, storedLatch, news, observers>>

(* ServiceMain returns: the pipe goes first, the lease last.               *)
StopService ==
  /\ guard["service"].pc = "wait"
  /\ guard' = [guard EXCEPT !["service"] = [Idle EXCEPT !.pc = "closing"]]
  /\ pipe' = Destroyed(pipe)
  /\ UNCHANGED <<lease, request, tray, autoRestore, startLatch, manualReq,
                 storedLatch, news, observers>>

ReleaseLease ==
  /\ guard["service"].pc = "closing"
  /\ guard' = [guard EXCEPT !["service"] = Idle]
  /\ lease' = "free"
  /\ UNCHANGED <<pipe, request, tray, autoRestore, startLatch, manualReq,
                 storedLatch, news, observers>>

(* Mutant of Freed: an abandoned mutex is not acquired by anyone.          *)
AbandonedStays(g) == lease

Freed(g) == IF lease = g THEN "free" ELSE lease

CrashService ==
  /\ guard["service"].pc # "off"
  /\ guard' = [guard EXCEPT !["service"] = Idle]
  /\ lease' = Freed("service")
  /\ pipe' = IF pipe.server = "none" THEN pipe ELSE Destroyed(pipe)
  /\ request' = NotServing
  /\ UNCHANGED <<tray, autoRestore, startLatch, manualReq,
                 storedLatch, news, observers>>

-----------------------------------------------------------------------------
(* The tray's UI thread. *)

Fixed == <<autoRestore, request, storedLatch>>

(* OnInitDialog, and RefreshSnapshot when the window's own probe sees the  *)
(* target card: a query first.                                             *)
Query ==
  /\ ui.at \in {"off", "idle"}
  /\ ui' = UiAt("open")
  /\ UNCHANGED <<guard, lease, pipe, connected, gate, modals, news, startLatch, manualReq,
                 Fixed, observers>>

(* RefreshSnapshot without a probe: only what the local worker shows.      *)
QueryBlind ==
  /\ ui.at = "idle" /\ ~connected
  /\ ui' = UiAt("local")
  /\ UNCHANGED <<guard, lease, pipe, connected, gate, modals, news, startLatch, manualReq,
                 Fixed, observers>>

OpenPipe ==
  /\ ui.at = "open" /\ pipe.server = "listening"
  /\ pipe' = Open(pipe)
  /\ ui' = [ui EXCEPT !.at = "talk"]
  /\ UNCHANGED <<guard, lease, connected, gate, modals, news, startLatch, manualReq,
                 Fixed, observers>>

WriteRequest ==
  /\ ui.at = "talk" /\ pipe.client = "writing"
  /\ pipe' = Written(pipe, ui.command)
  /\ UNCHANGED <<guard, lease, tray, news, startLatch, manualReq, Fixed, observers>>

(* An answered query is shown once the local worker has been joined; the   *)
(* answer to a restore is the end of the prompt.                           *)
ReadAnswer ==
  /\ ui.at = "talk" /\ Answered(pipe)
  /\ pipe' = Closed(pipe)
  /\ IF ui.command = "Query"
     THEN ui' = [ui EXCEPT !.at = "join", !.answer = pipe.outbox] /\ UNCHANGED consent
     ELSE ui' = UiAt("idle") /\ consent' = "none"
  /\ UNCHANGED <<guard, lease, connected, gate, modals, news, startLatch, manualReq,
                 Fixed, held, stale, sameLatch>>

(* RestorePromptGate::ShouldPrompt, in the disjunction that guards it: the *)
(* gate is looked at only when nothing restores by itself.                 *)
Prompts(open, latched, ready, exhausted) ==
  (~autoRestore \/ exhausted) /\ latched /\ ready /\ ~open

GateAfter(open, latched, ready, exhausted) ==
  IF autoRestore /\ ~exhausted THEN open
  ELSE latched /\ (open \/ ready)

(* One more message box, inside the one that is open (no more than         *)
(* MaxModals of them).                                                     *)
Present(open, kind, latched, ready, exhausted) ==
  LET prompts == Prompts(open, latched, ready, exhausted) /\ Len(modals) < MaxModals
  IN  /\ gate' = GateAfter(open, latched, ready, exhausted)
      /\ modals' = IF prompts THEN Append(modals, kind) ELSE modals
      /\ sameLatch' = (MaxModals > 1 /\ modals' # <<>> /\ (sameLatch \/ prompts))

(* The local worker is stopped and joined between two of its iterations.   *)
HandleServiceResponse ==
  LET a == ui.answer
  IN  /\ ui.at = "join" /\ guard["local"].pc \in {"off", "wait"}
      /\ guard' = [guard EXCEPT !["local"] = Idle]
      /\ lease' = Freed("local")
      /\ connected' = TRUE
      /\ news' = IF a.counted /\ news = "told" THEN "none" ELSE news
      /\ Present(gate /\ ~(a.counted \/ a.armed), "service", a.latched, a.ready, a.exhausted)
      /\ ui' = UiAt("idle")
      /\ stale' = FALSE
      /\ manualReq' = FALSE
      /\ UNCHANGED <<pipe, startLatch, Fixed, held, consent>>

(* WaitNamedPipe gives up, or the connection is cut.                       *)
Failed ==
  \/ ui.at = "open" /\ pipe.server # "listening"
  \/ ui.at = "talk" /\ pipe.client = "cut"

(* Nobody answered: the tray protects the GPU itself, if it does not yet.  *)
(* It reads the stored latch and starts the thread, which takes the lease  *)
(* some time later.  Starts are two seconds apart.                         *)
Unanswered(spaced) ==
  LET query  == ui.command = "Query"
      starts == query /\ guard["local"].pc = "off" /\ spaced
  IN  /\ Failed
      /\ pipe' = Closed(pipe)
      /\ ui' = UiAt(IF query THEN "local" ELSE "idle")
      /\ connected' = (connected /\ ~query)
      /\ gate' = (gate /\ ~(connected /\ query))
      /\ guard' = IF starts THEN [guard EXCEPT !["local"].pc = "boot"] ELSE guard
      /\ startLatch' = IF starts THEN storedLatch ELSE startLatch
      /\ manualReq' = (manualReq /\ ~starts)
      /\ consent' = IF query THEN consent ELSE "none"
      /\ UNCHANGED <<lease, modals, news, Fixed, held, stale, sameLatch>>

(* The snapshot is what the last iteration published, so the step is       *)
(* placed between two iterations.                                          *)
HandleLocalProtection ==
  LET w == guard["local"]
  IN  /\ ui.at = "local"
      /\ w.pc \in {"off", "boot", "bootWrite", "bootSave", "wait"}
      /\ IF w.pc = "wait"
         THEN /\ Present(gate /\ news = "none", "local", w.latched /\ w.verified,
                         w.ready, w.latched /\ Exhausted("local"))
              /\ news' = "none"
         ELSE UNCHANGED <<gate, modals, sameLatch, news>>
      /\ ui' = UiAt("idle")
      /\ UNCHANGED <<guard, lease, pipe, connected, startLatch, manualReq, Fixed,
                     held, stale, consent>>

(* The user answers the prompt on top.  A request to a local worker that   *)
(* is not running is forgotten by the next Start.                          *)
AnswerPrompt(yes) ==
  LET kind == modals[Len(modals)]
  IN  /\ ui.at = "idle" /\ modals # <<>>
      /\ modals' = SubSeq(modals, 1, Len(modals) - 1)
      /\ IF yes /\ kind = "service"
         THEN /\ ui' = [UiAt("open") EXCEPT !.command = "RestoreNormalPower"]
              /\ consent' = "given"
         ELSE UNCHANGED <<ui, consent>>
      /\ manualReq' = (manualReq \/ (yes /\ kind = "local" /\ guard["local"].pc # "off"))
      /\ sameLatch' = (sameLatch /\ modals' # <<>>)
      /\ UNCHANGED <<guard, lease, pipe, connected, gate, news, startLatch, Fixed,
                     held, stale>>

(* The tray process ends: the user quits, which joins the worker, or it    *)
(* crashes or is killed, which the supervisor answers with a new process.  *)
EndTray(crashed) ==
  /\ ui.at # "off"
  /\ crashed \/ (ui.at = "idle" /\ modals = <<>> /\ guard["local"].pc \in {"off", "wait"})
  /\ ui' = UiAt("off") /\ connected' = FALSE /\ gate' = FALSE /\ modals' = <<>>
  /\ guard' = [guard EXCEPT !["local"] = Idle]
  /\ lease' = Freed("local")
  /\ pipe' = Closed(pipe)
  /\ startLatch' = FALSE /\ manualReq' = FALSE
  /\ stale' = FALSE /\ sameLatch' = FALSE
  /\ consent' = IF "RestoreNormalPower" \in {pipe.inbox, request.command}
                THEN consent ELSE "none"
  /\ news' = "none"
  /\ UNCHANGED <<autoRestore, request, storedLatch, held>>

-----------------------------------------------------------------------------
(* Everything else. *)

Elapse ==
  /\ Elapsed(pipe) # pipe
  /\ pipe' = Elapsed(pipe)
  /\ UNCHANGED <<guard, lease, storedLatch, request, tray, autoRestore, news,
                 startLatch, manualReq, observers>>

Loops(g) ==
  \/ \E seen, trips, ready \in BOOLEAN : Observe(g, seen, trips, ready)
  \/ \E verified \in BOOLEAN : BootWrite(g, verified) \/ ApplySafePower(g, verified)
                                \/ RestoreFallback(g, verified)
                                \/ RetrySafePower(g, verified)
  \/ BootSave(g) \/ RecordTrip(g) \/ RestoreSave(g) \/ RecordRetry(g)
  \/ \E stage \in {"auto", "manual"} :
       \/ NoRestore(g, stage) \/ RefuseRestore(g, stage)
       \/ \E verified, mayRetry \in BOOLEAN : Restore(g, stage, verified, mayRetry)
  \/ NoRetry(g)

Serves == PollPipe \/ \E armed \in BOOLEAN : ReplyToRequest(armed)

Service == Loops("service") \/ Serves \/ ReleaseLease

Talks ==
  \/ Query \/ OpenPipe \/ WriteRequest \/ ReadAnswer
  \/ HandleServiceResponse \/ HandleLocalProtection
  \/ \E spaced \in BOOLEAN : Unanswered(spaced)

Next ==
  \/ \E g \in Guards : Boot(g) \/ BootFails(g) \/ Loops(g)
  \/ Serves \/ StartService \/ StopService \/ ReleaseLease \/ CrashService
  \/ Talks \/ QueryBlind
  \/ \E yes \in BOOLEAN : AnswerPrompt(yes)
  \/ \E crashed \in BOOLEAN : EndTray(crashed)
  \/ Elapse

Spec == Init /\ [][Next]_vars

-----------------------------------------------------------------------------
(* Safety. *)

(* The two guards never work on the card at the same time: a guard that    *)
(* runs its loop owns the lease, however service and tray start, stop,     *)
(* crash and take over from one another.                                   *)
OneWriter == \A g \in Guards : InLoop(g) => lease = g

(* Well typed, and one writer.                                             *)
WriterIsOne == TypeOK /\ OneWriter

(* A trip that was recorded is held by whichever guard runs next, through  *)
(* every handover, crash and restart, until a restore was verified.  The   *)
(* exception is a local worker whose startLatch was read before the        *)
(* service recorded the trip.                                              *)
LatchHeld ==
  \A g \in Guards : held /\ InLoop(g) => guard[g].latched \/ (g = "local" /\ stale)

(* The service restores on request only for a YES that was not used yet:   *)
(* no request is executed twice, late, or after the tray was told that it  *)
(* failed.                                                                 *)
ConsentPerRestore ==
  [][guard["service"].pc = "manual" /\ guard'["service"].pc \in {"manualSave", "manualFallback"}
       => consent = "given"]_vars

(* What the tray reads after a YES says what became of that YES, and a     *)
(* query is never answered as if it had been a restore.                    *)
AnswerIsHonest ==
  [][ReadAnswer => IF ui.command = "Query" THEN ~pipe.outbox.done
                   ELSE pipe.outbox.done <=> consent = "done"]_vars

(* "same latch must not create a nested prompt": a prompt opens inside     *)
(* another one only if the latch of the first was released since or a new  *)
(* trip happened.                                                          *)
SameLatchNeverNests ==
  [][Len(modals') > Len(modals) /\ modals # <<>> => ~sameLatch]_vars

-----------------------------------------------------------------------------
(* Liveness. *)

(* The service's loop and the UI thread go on, and the window's probe and  *)
(* the start of NVML succeed again and again.                              *)
Fairness ==
  /\ WF_vars(Service)
  /\ WF_vars(Loops("local"))
  /\ WF_vars(Talks) /\ SF_vars(Query) /\ SF_vars(Unanswered(TRUE))
  /\ SF_vars(HandleLocalProtection)
  /\ \A g \in Guards : WF_vars(Boot(g) \/ BootFails(g)) /\ SF_vars(Boot(g))

FairSpec == Spec /\ Fairness

(* When the service stays away and the tray stays, the tray's own worker   *)
(* ends up in its loop.                                                    *)
GuardReturns ==
  ~<>[](guard["service"].pc = "off" /\ ui.at # "off" /\ ~InLoop("local"))

(* When the service stays in its loop and the tray stays, the tray finds   *)
(* it, unless its iterations are again and again longer than the lease, or *)
(* an earlier tray died inside a connection the server had not seen yet    *)
(* (Wedged).                                                               *)
ServiceIsFound ==
  \/ []<><<Elapse>>_vars
  \/ ~<>[](InLoop("service") /\ ui.at # "off" /\ ~connected /\ ~Wedged(pipe))

(* The guard comes back after every handover and death, and a tray that    *)
(* stays finds a service that stays.                                       *)
GuardIsKept == GuardReturns /\ ServiceIsFound
=============================================================================
