----------------------------- MODULE OverlayStart -----------------------------
(***************************************************************************)
(* How the overlay starts in one game and who may draw: the tray launches  *)
(* a helper process (Launch of runtime.cpp), the helper lays out a section *)
(* named after the game, has the overlay library loaded, inspects what the *)
(* library reports, and then opens and closes the drawing gate             *)
(* (helper.cpp, target_attach.cpp, startup_readiness.hpp,                  *)
(* drawing_gate_guard.hpp); the library's worker opens the section or      *)
(* leaves (product_overlay_hook.cpp).  How the library installs itself is  *)
(* StagedInstall: here its outcome is open.                                *)
(*                                                                         *)
(* One helper per tray process: a game whose overlay failed is not tried   *)
(* again by the same tray, but a tray that was started anew knows nothing  *)
(* of the helper of the last one, which may still run.  When the game      *)
(* itself ends, so does all of this.                                       *)
(*                                                                         *)
(* at[h]: "none", "discovers", "admits", "maps", "writes", "chooses",      *)
(* "loads", "waits", "inspects", "confirms", "session", "sets", "ended",   *)
(* "crashed".                                                              *)
(***************************************************************************)
EXTENDS Naturals, FiniteSets

CONSTANTS
  Helpers,
  Choices,    (* what the user may choose for colours: "strict", "sdr"     *)
  None

VARIABLES
  tray,       (* the helper whose tray runs, or None                       *)
  control,    (* helper -> [enabled, stop, state, choice]                  *)
  at,
  name,       (* the helper whose section has the game's name, or None     *)
  section,    (* helper -> the section it made                             *)
  loads,      (* helpers whose load of the library has not finished        *)
  loaded,     (* how often the library is loaded                           *)
  worker,     (* "none", "starts", "installs", "resident"                  *)
  mine,       (* the section the worker has open, or None                  *)
  inspected   (* history: helpers that found everything in order           *)

vars == <<tray, control, at, name, section, loads, loaded, worker, mine, inspected>>
game == <<loads, loaded, worker, mine>>

Over == {"ended", "crashed"}

(* A fresh section is all zero: an open gate, and no contract.             *)
Fresh == [release |-> FALSE, contract |-> FALSE, policy |-> "strict", word |-> "waiting",
          ready |-> "none", seen |-> FALSE, errors |-> FALSE, drawn |-> FALSE]

TypeOK ==
  /\ tray \in Helpers \cup {None} /\ name \in Helpers \cup {None} /\ mine \in {None, name}
  /\ control \in [Helpers -> [enabled : BOOLEAN, stop : BOOLEAN, choice : Choices,
                              state : {"Starting", "Ready", "Failed", "Closed"}]]
  /\ \A h \in Helpers :
       /\ section[h].word \in {"waiting", "installed", "refused", "stays"}
       /\ section[h].ready \in {"none", "ready", "waits", "refused"}
       /\ {section[h].seen, section[h].drawn, section[h].errors} \subseteq BOOLEAN
  /\ loads \cup inspected \subseteq Helpers
  /\ loaded \in 0 .. Cardinality(Helpers)
  /\ worker \in {"none", "starts", "installs", "resident"}

Init ==
  /\ tray = None
  /\ control \in [Helpers -> {[enabled |-> TRUE, stop |-> FALSE, state |-> "Starting", choice |-> k] :
                                k \in Choices}]
  /\ at = [h \in Helpers |-> "none"]
  /\ name = None
  /\ section = [h \in Helpers |-> Fresh]
  /\ loads = {} /\ loaded = 0 /\ worker = "none" /\ mine = None
  /\ inspected = {}

Goes(h, where) == at' = [at EXCEPT ![h] = where]
Says(h, state) == control' = [control EXCEPT ![h].state = state]
Gate(h, closed) == section' = [section EXCEPT ![h].release = closed]

(* GtgFeatureContinue: the parent lives and has not said stop.             *)
Continue(h) == tray = h /\ ~control[h].stop

-----------------------------------------------------------------------------
(* The tray.                                                               *)

(* Launch, by the tray that runs or by one started after it, when neither  *)
(* the section's name nor the choice's is taken.                           *)
Launch(h) ==
  /\ at[h] = "none" /\ \A k \in Helpers \ {h} : tray # k
  /\ name = None
  /\ tray' = h
  /\ Goes(h, "discovers")
  /\ UNCHANGED <<control, name, section, game, inspected>>

TrayEnds ==
  /\ tray # None
  /\ tray' = None
  /\ UNCHANGED <<control, at, name, section, game, inspected>>

(* A control block that no helper reads any more may as well stay as it is.*)
TrayToggles ==
  /\ tray # None /\ at[tray] \notin Over /\ ~control[tray].stop
  /\ control' = [control EXCEPT ![tray].enabled = ~@]
  /\ UNCHANGED <<tray, at, name, section, game, inspected>>

TrayStops ==
  /\ tray # None /\ at[tray] \notin Over
  /\ control' = [control EXCEPT ![tray].stop = TRUE]
  /\ UNCHANGED <<tray, at, name, section, game, inspected>>

-----------------------------------------------------------------------------
(* The helper.                                                             *)

(* A section, and its name, go with the last that has it open: the helper  *)
(* or the worker.  Until then it is left with this gate.                   *)
Closes(h, closed) ==
  IF mine = h THEN Gate(h, closed) /\ UNCHANGED name
  ELSE /\ section' = [section EXCEPT ![h] = Fresh]
       /\ name' = IF name = h THEN None ELSE name

(* DrawingGateGuard, once there is a section: however Run ends, the gate   *)
(* is closed; a failure is told before the control block goes.             *)
Fails(h) ==
  /\ Says(h, "Failed")
  /\ Closes(h, TRUE)
  /\ Goes(h, "ended")
  /\ UNCHANGED <<tray, game, inspected>>

(* A helper that is killed tells nobody and closes nothing but its handles.*)
Crash(h) ==
  /\ at[h] \notin Over \cup {"none"}
  /\ Closes(h, section[h].release)
  /\ Goes(h, "crashed")
  /\ UNCHANGED <<tray, control, game, inspected>>

Proceeds(h, here, there) == at[h] = here /\ Goes(h, there) /\ UNCHANGED <<tray, control, game, inspected>>

(* The methods of this machine's graphics runtime are looked up.           *)
Discover(h) ==
  /\ Continue(h)
  /\ Proceeds(h, "discovers", "admits")
  /\ UNCHANGED <<name, section>>

(* The game is the one that was asked for, and has no overlay library.     *)
Admit(h) ==
  /\ Continue(h) /\ loaded = 0
  /\ Proceeds(h, "admits", "maps")
  /\ UNCHANGED <<name, section>>

(* Only a section nobody made before will do.                              *)
Map(h) ==
  /\ name = None
  /\ name' = h
  /\ Proceeds(h, "maps", "writes")
  /\ UNCHANGED section

CloseBeforeContract(h) ==
  /\ section' = [section EXCEPT ![h] = [Fresh EXCEPT !.release = TRUE]]
  /\ Proceeds(h, "writes", "chooses")
  /\ UNCHANGED name

(* GtgFeatureColorChoice: the tray's choice for this game, strict when the *)
(* section of the choice is gone with its tray.                            *)
ReadColorChoice(h) ==
  /\ section' = [section EXCEPT ![h].contract = TRUE,
                                ![h].policy = IF tray = h THEN control[h].choice ELSE "strict"]
  /\ Proceeds(h, "chooses", "loads")
  /\ UNCHANGED name

(* Mutant of MayLoad: the tray is not asked again before the library.      *)
MayLoadAnyway(h) == TRUE

MayLoad(h) == Continue(h)

Load(h) ==
  /\ MayLoad(h)
  /\ at[h] = "loads"
  /\ loads' = loads \cup {h}
  /\ Goes(h, "waits")
  /\ UNCHANGED <<tray, control, name, section, loaded, worker, mine, inspected>>

Loaded(h) ==
  /\ h \notin loads
  /\ Proceeds(h, "waits", "inspects")
  /\ UNCHANGED <<name, section>>

(* ClassifyInspection: seen is the evidence of a frame, a chain, its queue *)
(* and its window; evidence that does not fit counts as a refusal.         *)
InOrder(s) == s.word = "installed" /\ ~s.errors /\ s.ready = "ready" /\ s.seen /\ ~s.drawn

Inspect(h) ==
  /\ InOrder(section[h]) /\ Continue(h)
  /\ at[h] = "inspects"
  /\ Goes(h, "confirms")
  /\ inspected' = inspected \cup {h}
  /\ UNCHANGED <<tray, control, name, section, game>>

(* The last look at the same facts, and GtgFeatureSession's first.         *)
Confirm(h) ==
  /\ at[h] = "confirms"
  /\ section[h].ready = "ready" /\ section[h].seen /\ ~section[h].drawn
  /\ Continue(h)
  /\ Says(h, "Ready")
  /\ Goes(h, "session")
  /\ UNCHANGED <<tray, name, section, game, inspected>>

(* A game whose tray is gone already: the guard closes the gate and the    *)
(* state stays Starting.                                                   *)
ConfirmTooLate(h) ==
  /\ at[h] = "confirms" /\ ~Continue(h)
  /\ Closes(h, TRUE) /\ Goes(h, "ended")
  /\ UNCHANGED <<tray, control, game, inspected>>

(* Every 33 ms.                                                            *)
SessionChecks(h) ==
  /\ at[h] = "session" /\ Continue(h)
  /\ IF section[h].errors
     THEN Says(h, "Failed") /\ Closes(h, TRUE) /\ Goes(h, "ended")
     ELSE Goes(h, "sets") /\ UNCHANGED <<control, name, section>>
  /\ UNCHANGED <<tray, game, inspected>>

SessionSets(h) ==
  /\ Gate(h, ~control[h].enabled)
  /\ Proceeds(h, "sets", "session")
  /\ UNCHANGED name

(* Mutant of SessionEnds: the gate is left as it was last set.             *)
SessionEndsOpen(h) ==
  /\ at[h] = "session" /\ ~Continue(h)
  /\ Says(h, "Closed") /\ Closes(h, section[h].release) /\ Goes(h, "ended")
  /\ UNCHANGED <<tray, game, inspected>>

SessionEnds(h) ==
  /\ at[h] = "session" /\ ~Continue(h)
  /\ Says(h, "Closed") /\ Closes(h, TRUE) /\ Goes(h, "ended")
  /\ UNCHANGED <<tray, game, inspected>>

(* A check that fails at any step before the session: the game's, the      *)
(* tray's, a section that is not fresh, a refusal, or time that is up.     *)
Refused(h) ==
  /\ at[h] \in {"discovers", "admits", "maps", "chooses", "loads", "waits", "inspects", "confirms"}
  /\ at[h] = "confirms" => Continue(h)
  /\ Fails(h)

-----------------------------------------------------------------------------
(* The game.                                                               *)

(* The library's DllMain starts one worker however often it is loaded.     *)
LoadEnds(h) ==
  /\ h \in loads
  /\ loads' = loads \ {h}
  /\ \/ UNCHANGED <<loaded, worker>>
     \/ /\ loaded' = loaded + 1
        /\ worker' = IF loaded = 0 THEN "starts" ELSE worker
  /\ UNCHANGED <<tray, control, at, name, section, mine, inspected>>

(* FreeLibraryAndExitThread; the section is closed before.                 *)
Unloads ==
  /\ loaded' = loaded - 1 /\ worker' = "none" /\ mine' = None
  /\ name' = IF name # None /\ at[name] \in Over THEN None ELSE name
  /\ UNCHANGED <<tray, control, at, loads, inspected>>

WorkerOpens ==
  /\ worker = "starts"
  /\ IF name = None
     THEN Unloads /\ UNCHANGED section
     ELSE /\ mine' = name /\ worker' = "installs"
          /\ UNCHANGED <<tray, control, at, name, section, loads, loaded, inspected>>

(* Install, for a section with this game's contract only.                  *)
WorkerInstalls ==
  /\ worker = "installs" /\ section[mine].contract
  /\ \E word \in {"installed", "stays"} : section' = [section EXCEPT ![mine].word = word]
  /\ worker' = "resident"
  /\ UNCHANGED <<tray, control, at, name, loads, loaded, mine, inspected>>

WorkerRefuses ==
  /\ worker = "installs"
  /\ section' = IF at[mine] \in Over THEN [section EXCEPT ![mine] = Fresh]
                ELSE [section EXCEPT ![mine].word = "refused"]
  /\ Unloads

(* What presenting may change: the word of readiness, what was seen of the *)
(* chain, a failure, and, through an open gate, a picture.                 *)
Presented(s) ==
  {[s EXCEPT !.ready = r] : r \in {"ready", "refused"}}
  \cup {[s EXCEPT !.ready = IF s.ready = "ready" THEN "waits" ELSE "ready"]}
  \cup {[s EXCEPT !.seen = TRUE], [s EXCEPT !.errors = TRUE]}
  \cup (IF s.release THEN {} ELSE {[s EXCEPT !.drawn = TRUE]})

(* A refusal stays.                                                        *)
Present ==
  /\ worker = "resident" /\ section[mine].word = "installed"
  /\ \E s \in Presented(section[mine]) :
       /\ section[mine].ready = "refused" => s.ready = "refused"
       /\ section' = [section EXCEPT ![mine] = s]
  /\ UNCHANGED <<tray, control, at, name, game, inspected>>

Helps(h) ==
  \/ Discover(h) \/ Admit(h) \/ Map(h) \/ CloseBeforeContract(h) \/ ReadColorChoice(h)
  \/ Load(h) \/ Loaded(h) \/ Inspect(h) \/ Confirm(h) \/ ConfirmTooLate(h)
  \/ SessionChecks(h) \/ SessionSets(h) \/ SessionEnds(h) \/ Refused(h)

Next ==
  \/ \E h \in Helpers : Launch(h) \/ Helps(h) \/ Crash(h) \/ LoadEnds(h)
  \/ TrayEnds \/ TrayToggles \/ TrayStops
  \/ WorkerOpens \/ WorkerInstalls \/ WorkerRefuses \/ Present

Spec == Init /\ [][Next]_vars

(* Every wait of a helper has a time limit.                                *)
Fairness == \A h \in Helpers : WF_vars(Helps(h))

-----------------------------------------------------------------------------
(* A picture is drawn only for a helper that found everything in order:    *)
(* not through the gate of a fresh section, which is open until the first  *)
(* write, not by a library whose load was given up before, and not for the *)
(* helper of an earlier tray (target_attach.cpp:486, helper.cpp:98).       *)
DrawnWhenInspected == \A h \in Helpers : section[h].drawn => h \in inspected

(* A helper that ends, on whichever path, leaves the gate closed.          *)
GateClosedAtEnd ==
  \A h \in Helpers : at[h] = "ended" /\ section[h].contract => section[h].release

(* The colours are taken for what the user said of this game: the helper   *)
(* reads the choice before it asks for the last time whether its tray      *)
(* lives (target_attach.cpp:498, :568; color_choice.hpp:87).               *)
ChoiceHonoured ==
  \A h \in Helpers :
    at[h] \in {"waits", "inspects", "confirms", "session", "sets"} =>
      section[h].policy = control[h].choice

(* There is one session in a game at a time, and it is the one whose       *)
(* section the library has.                                                *)
SessionIsMine == \A h \in Helpers : at[h] \in {"session", "sets"} => mine = h

StartHolds == TypeOK /\ DrawnWhenInspected /\ GateClosedAtEnd /\ ChoiceHonoured /\ SessionIsMine

(* With its tray gone or told to stop, a helper closes the gate and ends,  *)
(* unless it is killed (helper.cpp:92).                                    *)
GateCloses ==
  \A h \in Helpers :
    (at[h] # "none" /\ ~Continue(h)) ~>
      (at[h] = "crashed" \/ (at[h] = "ended" /\ (section[h].contract => section[h].release)))
=============================================================================
