----------------------------- MODULE StagedInstall -----------------------------
(***************************************************************************)
(* How the overlay library installs itself in a running game: the worker   *)
(* of product_overlay_hook.cpp prepares every method first, then replaces  *)
(* one after the other (AttachStaged), each with the game's threads        *)
(* enlisted from a snapshot (NativeThreadSnapshot, CollectStableSnapshot), *)
(* and goes on with no overlay at all when anything is in doubt.  The      *)
(* transaction on one method, commit_enlisted, is external: it ends        *)
(* installed, undone, or with a stage from which this code has to recover  *)
(* (RecoverEnlisted of install_policy.hpp).                                *)
(*                                                                         *)
(* at: "starts", "prepares", "collects", "opens", "asks" (whether a thread *)
(* is gone), "protects", "commits", "recovers", "closes", "publishes",     *)
(* "done".                                                                 *)
(***************************************************************************)
EXTENDS Naturals, FiniteSets

CONSTANTS
  Threads,     (* thread ids of the game, used again after an exit         *)
  Methods,     (* how many methods: 7, or 1 without Direct3D 12            *)
  Attempts     (* kSnapshotCollectionAttempts (3)                          *)

VARIABLES
  at,
  site,        (* the method under way                                     *)
  alive,       (* the game's threads                                       *)
  snapshot,    (* thread ids of the snapshot                               *)
  attempt,
  slots,       (* thread -> what the worker did to it                      *)
  stage,       (* "rollback", "flush", "resume": where a recovery starts   *)
  uncertain,   (* counts_uncertain                                         *)
  published,   (* methods whose original is known, so that they may run    *)
  writable,    (* methods whose page is left writable                      *)
  outcome,     (* of the method under way                                  *)
  active,      (* the overlay's methods do more than call through          *)
  state        (* header.state                                             *)

vars == <<at, site, alive, snapshot, attempt, slots, stage, uncertain, published, writable,
          outcome, active, state>>

(* A thread's slot: open or not, and then asleep, with a context that was  *)
(* changed.                                                                *)
NoSlot == [open |-> FALSE, asleep |-> FALSE, moved |-> FALSE]
Enlisted == [NoSlot EXCEPT !.open = TRUE]
Asleep == {t \in Threads : slots[t].asleep}
Moved == {t \in Threads : slots[t].moved}

TypeOK ==
  /\ at \in {"starts", "prepares", "collects", "opens", "asks", "protects", "commits", "recovers",
             "closes", "publishes", "done"}
  /\ site \in 1 .. Methods + 1 /\ attempt \in 1 .. Attempts
  /\ alive \cup snapshot \subseteq Threads
  /\ slots \in [Threads -> [open : BOOLEAN, asleep : BOOLEAN, moved : BOOLEAN]]
  /\ published \cup writable \subseteq 1 .. Methods
  /\ state \in {"waiting", "installed", "refused", "partial", "recovery"}

Init ==
  /\ at = "starts" /\ site = 1
  /\ alive \in SUBSET Threads /\ alive # {}
  /\ snapshot = {} /\ attempt = 1
  /\ slots = [t \in Threads |-> NoSlot]
  /\ stage = "none" /\ uncertain = FALSE
  /\ published = {} /\ writable = {} /\ outcome = "none"
  /\ active = FALSE /\ state = "waiting"

progress == <<at, site, attempt>>
memory == <<published, writable>>
report == <<active, state>>

-----------------------------------------------------------------------------
(* The game's threads start and end as they like, unless they sleep.       *)

Begins(t) ==
  /\ t \notin alive
  /\ alive' = alive \cup {t}
  /\ UNCHANGED <<progress, snapshot, slots, stage, uncertain, memory, outcome, report>>

Exits(t) ==
  /\ t \in alive /\ ~slots[t].asleep
  /\ alive' = alive \ {t}
  /\ UNCHANGED <<progress, snapshot, slots, stage, uncertain, memory, outcome, report>>

-----------------------------------------------------------------------------
(* AttachStaged.                                                           *)

Publishes(s) == at' = "publishes" /\ state' = s

(* The process, the contract, and the renderer or the addresses.           *)
Start ==
  /\ at = "starts"
  /\ \/ at' = "prepares" /\ UNCHANGED state
     \/ Publishes("refused")
  /\ UNCHANGED <<site, attempt, alive, snapshot, slots, stage, uncertain, memory, outcome, active>>

(* Nothing is written before every method has been prepared; an exception  *)
(* on the way counts as a refusal.                                         *)
Prepare ==
  /\ at = "prepares"
  /\ \/ /\ site' = (site % Methods) + 1
        /\ at' = IF site = Methods THEN "collects" ELSE "prepares"
        /\ UNCHANGED state
     \/ Publishes("refused") /\ UNCHANGED site
  /\ UNCHANGED <<attempt, alive, snapshot, slots, stage, uncertain, memory, outcome, active>>

(* What AttachStaged makes of the outcome of a method.                     *)
(* Mutant of Concludes: whatever was refused counts as a refusal.          *)
ConcludesClean(result) ==
  /\ outcome' = "none"
  /\ CASE result = "installed" /\ site < Methods ->
            at' = "collects" /\ site' = site + 1 /\ UNCHANGED report
       [] result = "installed" /\ site = Methods ->
            active' = TRUE /\ Publishes("installed") /\ UNCHANGED site
       [] result = "refused" -> Publishes("refused") /\ UNCHANGED <<site, active>>
       [] result = "recovery" -> Publishes("recovery") /\ UNCHANGED <<site, active>>

Concludes(result) ==
  /\ outcome' = "none"
  /\ CASE result = "installed" /\ site < Methods ->
            at' = "collects" /\ site' = site + 1 /\ UNCHANGED report
       [] result = "installed" /\ site = Methods ->
            active' = TRUE /\ Publishes("installed") /\ UNCHANGED site
       [] result = "refused" ->
            /\ Publishes(IF site = 1 THEN "refused" ELSE "partial")
            /\ UNCHANGED <<site, active>>
       [] result = "recovery" -> Publishes("recovery") /\ UNCHANGED <<site, active>>

-----------------------------------------------------------------------------
(* The game's threads are enlisted.                                        *)

Collect ==
  /\ at = "collects"
  /\ snapshot' = alive
  /\ at' = "opens"
  /\ UNCHANGED <<site, attempt, alive, slots, stage, uncertain, memory, outcome, report>>

CloseAll == slots' = [t \in Threads |-> [slots[t] EXCEPT !.open = FALSE]]

(* Every thread of the snapshot answers; or one is gone; or something else *)
(* fails, its handle's release included, and then nothing is tried again.  *)
Open ==
  /\ at = "opens"
  /\ \/ /\ snapshot # {} /\ snapshot \subseteq alive
        /\ slots' = [t \in Threads |-> IF t \in snapshot THEN Enlisted ELSE NoSlot]
        /\ at' = "protects"
        /\ UNCHANGED <<site, attempt, outcome, report>>
     \/ /\ ~(snapshot \subseteq alive) /\ attempt < Attempts
        /\ at' = "asks"
        /\ UNCHANGED <<site, attempt, slots, outcome, report>>
     \/ /\ Concludes("refused")
        /\ UNCHANGED <<attempt, slots>>
  /\ UNCHANGED <<alive, snapshot, stage, uncertain, memory>>

(* ThreadAbsentFromFreshSnapshot, for the first that did not answer: its   *)
(* id may be in use again, or the question fail.                           *)
Ask ==
  /\ at = "asks"
  /\ \/ Concludes("refused") /\ UNCHANGED attempt
     \/ /\ ~(snapshot \subseteq alive)
        /\ at' = "collects" /\ attempt' = attempt + 1 /\ UNCHANGED <<site, outcome, report>>
  /\ UNCHANGED <<alive, snapshot, slots, stage, uncertain, memory>>

-----------------------------------------------------------------------------
(* One method.                                                             *)

Protect ==
  /\ at = "protects"
  /\ \/ /\ writable' = writable \cup {site}
        /\ at' = "commits"
        /\ UNCHANGED <<site, slots, outcome, report>>
     \/ /\ CloseAll /\ Concludes("refused")
        /\ UNCHANGED writable
  /\ attempt' = 1
  /\ UNCHANGED <<alive, snapshot, stage, uncertain, published>>

Opened == {t \in Threads : slots[t].open}

Suspends(asleep, moved) ==
  slots' = [t \in Threads |-> [slots[t] EXCEPT !.asleep = t \in asleep, !.moved = t \in moved]]

(* commit_enlisted: it suspends the threads, moves those that stand in the *)
(* method, writes, and lets them go; when it cannot undo, it leaves them   *)
(* as they are.  A thread that ended meanwhile is refused.                 *)
Commit ==
  /\ at = "commits"
  /\ \/ /\ outcome' = "installed" /\ published' = published \cup {site}
        /\ at' = "closes" /\ UNCHANGED <<slots, stage>>
     \/ /\ outcome' = "refused" /\ at' = "closes" /\ UNCHANGED <<slots, stage, published>>
     \/ \E asleep \in SUBSET (Opened \cap alive) :
          /\ asleep # {} /\ at' = "recovers" /\ outcome' = "recovery"
          /\ \/ /\ stage' = "rollback" /\ UNCHANGED published
                /\ \E moved \in SUBSET asleep : Suspends(asleep, moved)
             \/ /\ stage' = "flush" /\ asleep = Opened
                /\ published' = published \cup {site} /\ Suspends(asleep, {})
             \/ /\ stage' = "resume" /\ Suspends(asleep, {})
                /\ published' \in {published, published \cup {site}}
  /\ UNCHANGED <<site, attempt, alive, snapshot, uncertain, writable, report>>

(* Mutant of MayWake: whoever can be resumed is.                           *)
MayWakeMoved(restored, flushed) == site \in published => flushed

MayWake(restored, flushed) == restored = Moved /\ (site \in published => flushed)

(* RecoverEnlisted, once: the contexts first, and if all are as before,    *)
(* the instruction cache, and then every thread that will be resumed; one  *)
(* whose count was not as expected makes the whole uncertain.              *)
Recover ==
  /\ at = "recovers"
  /\ \E restored \in SUBSET Moved, woken \in SUBSET Asleep, flushed \in BOOLEAN, off \in BOOLEAN :
       LET goesOn == MayWake(restored, flushed)
       IN /\ woken # {} => goesOn
          /\ slots' = [t \in Threads |->
                         [slots[t] EXCEPT !.moved = @ /\ t \notin restored,
                                          !.asleep = @ /\ t \notin woken]]
          /\ uncertain' = (uncertain \/ (off /\ woken # {}))
          /\ LET again == ~goesOn \/ woken # Asleep \/ uncertain'
             IN at' = IF again /\ ~(uncertain' /\ woken = Asleep) THEN "recovers" ELSE "closes"
  /\ UNCHANGED <<site, attempt, alive, snapshot, stage, memory, outcome, report>>

(* The page is given its protection back and the handles are closed; what  *)
(* fails then makes any outcome one to recover from.                       *)
Close ==
  /\ at = "closes"
  /\ CloseAll
  /\ \E protection, closed \in BOOLEAN :
       /\ writable' = IF protection THEN writable \ {site} ELSE writable
       /\ Concludes(IF protection /\ closed THEN outcome ELSE "recovery")
  /\ UNCHANGED <<attempt, alive, snapshot, stage, uncertain, published>>

(* A library that was refused is unloaded, every other stays.              *)
Publish ==
  /\ at = "publishes"
  /\ at' = "done"
  /\ UNCHANGED <<site, attempt, alive, snapshot, slots, stage, uncertain, memory, outcome, report>>

Worker ==
  \/ Start \/ Prepare \/ Collect \/ Open \/ Ask \/ Protect \/ Commit \/ Recover \/ Close \/ Publish

Next == Worker \/ \E t \in Threads : Begins(t) \/ Exits(t)

Spec == Init /\ [][Next]_vars

(* The system restores, flushes and resumes at last when it is asked again *)
(* and again.                                                              *)
RecoversWell == Recover /\ Asleep' = {}
Fairness == WF_vars(Worker) /\ SF_vars(RecoversWell)

-----------------------------------------------------------------------------
(* When the worker has done, no thread of the game is left suspended or    *)
(* somewhere else than it was, and a library that is unloaded has left     *)
(* nothing in the game's methods (staged_attach.hpp:11).                   *)
NothingLeftBehind ==
  /\ at \in {"publishes", "done"} => Asleep = {}
  /\ state = "refused" => published = {} /\ writable = {}

(* A thread whose context was moved does not run before it is restored, as *)
(* long as the method it was moved for is not in place                     *)
(* (install_policy.hpp:34).                                                *)
MovedSleep == Moved \subseteq Asleep

(* The overlay does nothing until every method is in place, and says it is *)
(* installed only then.                                                    *)
WholeOrIdle ==
  /\ active => published = 1 .. Methods /\ Asleep = {}
  /\ active <=> state = "installed"

InstallHolds == TypeOK /\ NothingLeftBehind /\ MovedSleep /\ WholeOrIdle

(* The worker comes to an end, whatever fails on the way.                  *)
InstallEnds == <>(at = "done")
=============================================================================
