------------------------------ MODULE OsdTopmost ------------------------------
(***************************************************************************)
(* How the desktop OSD stays above other windows (tray/osd_overlay.cpp):   *)
(* two repairs after an unlock, a resume or the display coming on, and a   *)
(* watchdog that asserts the place again when one and the same ordinary    *)
(* window covers the OSD at two checks, but never against a window that is *)
(* itself topmost, nor while the screen is dark or another desktop is up.  *)
(***************************************************************************)
EXTENDS Naturals

CONSTANTS Windows      (* other windows that may cover the OSD             *)

VARIABLES
  visible,    (* the OSD is shown                                          *)
  wanted,     (* observer: the last SetVisible                             *)
  locked,     (* session_locked_                                           *)
  display,    (* display_status_: "Unknown", "Off", "On" or "Dimmed"       *)
  secure,     (* another desktop receives the input                        *)
  over,       (* the nearest ordinary window that covers the OSD           *)
  topmost,    (* a topmost window of another program covers it             *)
  previous,   (* previous_obstruction_                                     *)
  checkDue,   (* three seconds since the last check                        *)
  repairDue,  (* thirty seconds since the last repair of the watchdog      *)
  passes,     (* topmost_repair_passes_remaining_                          *)
  timer,      (* the repair timer runs                                     *)
  posted      (* its message is in the queue                               *)

screen == <<locked, display, secure>>
shown == <<visible, wanted>>
watchdog == <<previous, checkDue, repairDue>>
repair == <<passes, timer, posted>>
vars == <<shown, screen, over, topmost, watchdog, repair>>

None == "None"

Init ==
  /\ visible \in BOOLEAN /\ wanted = visible /\ locked = FALSE /\ display = "Unknown" /\ secure = FALSE
  /\ over = None /\ topmost = FALSE
  /\ previous = None /\ checkDue = TRUE /\ repairDue = TRUE
  /\ passes = 0 /\ timer = FALSE /\ posted = FALSE

-----------------------------------------------------------------------------
(* ScheduleTopmostRepair: two passes from now on; the timer may fail.      *)
ScheduleTopmostRepair ==
  IF visible
  THEN \E set \in BOOLEAN :
         /\ timer' = set /\ passes' = IF set THEN 2 ELSE 0
         /\ UNCHANGED posted
  ELSE UNCHANGED repair

OnSessionChanged(lock) ==
  /\ locked' = lock
  /\ IF lock THEN UNCHANGED repair ELSE ScheduleTopmostRepair
  /\ UNCHANGED <<shown, display, secure, over, topmost, watchdog>>

OnResume ==
  /\ ScheduleTopmostRepair
  /\ UNCHANGED <<shown, screen, over, topmost, watchdog>>

OnDisplayStatus(status) ==
  /\ display' = status
  /\ IF status = "On" /\ display # "On" THEN ScheduleTopmostRepair ELSE UNCHANGED repair
  /\ UNCHANGED <<shown, locked, secure, over, topmost, watchdog>>

(* SetVisible; the message of a timer that was killed may still arrive.    *)
SetVisible(show) ==
  /\ show # visible /\ visible' = show /\ wanted' = show
  /\ IF show THEN over' = None /\ UNCHANGED repair
     ELSE passes' = 0 /\ timer' = FALSE /\ UNCHANGED <<posted, over>>
  /\ UNCHANGED <<screen, topmost, watchdog>>

TimerExpires ==
  /\ timer /\ posted' = TRUE
  /\ UNCHANGED <<shown, screen, over, topmost, watchdog, passes, timer>>

(* A mutant: a late message repairs whatever is left to do.                *)
RepairTopmostLate ==
  /\ visible' = TRUE /\ over' = None
  /\ passes' = IF passes = 0 THEN 0 ELSE passes - 1
  /\ timer' = (passes' > 0)

(* RepairTopmost shows the window above the others, so that it must know   *)
(* that it is still wanted there.                                          *)
RepairTopmost ==
  IF passes = 0 \/ ~visible
  THEN passes' = 0 /\ timer' = FALSE /\ UNCHANGED <<shown, over>>
  ELSE /\ visible' = TRUE /\ over' = None
       /\ \E set \in BOOLEAN :
            /\ timer' = (passes > 1 /\ set)
            /\ passes' = IF timer' THEN passes - 1 ELSE 0

OnRepairTimer ==
  /\ posted /\ posted' = FALSE
  /\ RepairTopmost
  /\ UNCHANGED <<wanted, screen, topmost, watchdog>>

-----------------------------------------------------------------------------
Dark == locked \/ display = "Off"

(* A mutant: the window found is not remembered for the next check.        *)
SeenForgotten(found) == None

Seen(found) == found

Confirmed(found) == found # None /\ found = previous

(* CheckZOrder, called at every frame of a window that is shown.           *)
CheckZOrder ==
  /\ visible /\ checkDue /\ checkDue' = FALSE
  /\ \/ Dark /\ previous' = None /\ UNCHANGED <<over, repairDue>>
     \/ ~Dark /\ secure /\ UNCHANGED <<over, previous, repairDue>>
     \/ /\ ~Dark /\ ~secure /\ topmost
        /\ previous' = None /\ UNCHANGED <<over, repairDue>>
     \/ /\ ~Dark /\ ~secure /\ ~topmost
        /\ IF Confirmed(over) /\ repairDue
           THEN repairDue' = FALSE /\ previous' = None /\ over' \in {over, None}
           ELSE previous' = Seen(over) /\ UNCHANGED <<over, repairDue>>
  /\ UNCHANGED <<shown, screen, topmost, repair>>

(* The rest of the desktop.                                                *)
Cover(w) ==
  /\ over # w /\ over' = w
  /\ UNCHANGED <<shown, screen, topmost, watchdog, repair>>

Topmost ==
  /\ topmost' = ~topmost
  /\ UNCHANGED <<shown, screen, over, watchdog, repair>>

Desktop ==
  /\ secure' = ~secure
  /\ UNCHANGED <<shown, locked, display, over, topmost, watchdog, repair>>

ThreeSeconds ==
  /\ checkDue' = TRUE
  /\ UNCHANGED <<shown, screen, over, topmost, previous, repairDue, repair>>

ThirtySeconds ==
  /\ repairDue' = TRUE
  /\ UNCHANGED <<shown, screen, over, topmost, previous, checkDue, repair>>

-----------------------------------------------------------------------------
Next ==
  \/ \E lock \in BOOLEAN : OnSessionChanged(lock)
  \/ OnResume
  \/ \E status \in {"Off", "On", "Dimmed"} : OnDisplayStatus(status)
  \/ \E show \in BOOLEAN : SetVisible(show)
  \/ TimerExpires \/ OnRepairTimer \/ CheckZOrder
  \/ \E w \in Windows \cup {None} : Cover(w)
  \/ Topmost \/ Desktop \/ ThreeSeconds \/ ThirtySeconds

Spec == Init /\ [][Next]_vars

(* Frames and timers are delivered, and asserting the place does not fail  *)
(* for ever.                                                               *)
Lowers == over # None /\ CheckZOrder /\ over' = None

Fairness ==
  /\ WF_vars(CheckZOrder) /\ WF_vars(ThreeSeconds) /\ WF_vars(ThirtySeconds)
  /\ SF_vars(Lowers)

FairSpec == Spec /\ Fairness

-----------------------------------------------------------------------------
(* The repairs promote with SWP_SHOWWINDOW and run from a timer that may   *)
(* have been killed with its message under way: hidden meanwhile, by the   *)
(* user or for a game, the OSD is never brought back by them.              *)
NeverShownUnwanted == visible = wanted /\ (timer => passes > 0)

(* On a screen in use one ordinary window does not stay above the OSD.     *)
StaysOnTop ==
  \A w \in Windows :
    ~ <>[](visible /\ over = w /\ ~Dark /\ ~secure /\ ~topmost)
=============================================================================
