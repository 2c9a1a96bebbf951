------------------------------ MODULE OsdPresence ------------------------------
(***************************************************************************)
(* What the pointer can start on the OSD, and the one indicator window it  *)
(* shares (tray/osd_overlay.cpp): clicks on the header's buttons, dragging *)
(* a cell or the window, the action of a cell (RAM, NET) with its worker   *)
(* thread, its poll timer and its answer, and the O turning while the      *)
(* overlay is being attached.  Releasing the mouse capture sends           *)
(* WM_CAPTURECHANGED before it returns, so every captured gesture that     *)
(* ends also ends the action.                                              *)
(*                                                                         *)
(* And who decides that the OSD is shown, and when its header goes idle    *)
(* (tray/osd_overlay.cpp, tray/main_dialog.cpp).  The user shows and       *)
(* hides it; while an overlay stands in for it in a game it is suppressed  *)
(* whatever the user wants, and gives the user's last wish back when the   *)
(* game is left.  The buttons of the header give way to a clock when the   *)
(* pointer has been away, but never while the cells can be rearranged.     *)
(***************************************************************************)
EXTENDS Naturals

VARIABLES
  visible,    (* the window is shown                                       *)
  collapsed,  (* the compact shape                                         *)
  locked,     (* compact_locked_                                           *)
  mark,       (* the O: "None", "Attachable", "Installing" or "Live"       *)
  moving,     (* in the system's move loop (move_grab_)                    *)
  pressed,    (* the gestures that hold a press                            *)
  drag,       (* a cell is being dragged                                   *)
  captured,   (* the window has the mouse                                  *)
  action,     (* active_action_                                            *)
  slot,       (* action_slot_ >= 0                                         *)
  indicator,  (* the indicator window: "None", "Work", "Result" or "Spin"  *)
  worker,     (* the thread: "None", "Running" or "Returned"               *)
  timer,      (* the action timer: "On", "Off", or "Refused" where Windows *)
              (* gave none, which nobody looks at                          *)
  age,        (* since the action began: 0, 1 the minimum it is shown for, *)
              (* 2 twice its budget                                        *)
  hold,       (* the answer: "Unset", "Waiting" or "Over"                  *)
  stray,      (* observer: a failed start left its slot behind             *)
  suppressed, (* suppressed_                                               *)
  kept,       (* wanted_while_suppressed_                                  *)
  stored,     (* OsdEnabled in the registry, and the checkbox              *)
  refresh,    (* the refresh timer runs                                    *)
  here,       (* the pointer is over the window                            *)
  quiet,      (* last_pointer_ms_ is two seconds ago                       *)
  idle,       (* header_idle_                                              *)
  awake       (* awake_after_overlay_                                      *)

body == <<visible, collapsed, locked, moving>>
gestures == <<pressed, drag, captured>>
work == <<action, slot, indicator, worker, timer, age, hold>>
pointer == <<body, mark, gestures, work, stray>>

ShowsLock == collapsed
Arrangeable == ShowsLock /\ ~locked
Active == indicator # "None"

PointerInit ==
  /\ visible \in BOOLEAN /\ collapsed \in BOOLEAN /\ locked \in BOOLEAN
  /\ mark = "None" /\ moving = FALSE
  /\ pressed = {} /\ drag = FALSE /\ captured = FALSE
  /\ action = "None" /\ slot = FALSE /\ indicator = "None" /\ worker = "None"
  /\ timer = "Off" /\ age = 0 /\ hold = "Unset" /\ stray = FALSE

(* The worker is joined: it is bounded, so the join returns.               *)
EndAction ==
  /\ action' = "None" /\ slot' = FALSE /\ indicator' = "None" /\ worker' = "None"
  /\ timer' = "Off" /\ age' = 0 /\ hold' = "Unset" /\ stray' = FALSE

(* The handler of WM_CAPTURECHANGED; the gesture of the O keeps its press. *)
LoseCapture ==
  /\ captured' = FALSE /\ drag' = FALSE
  /\ pressed' = pressed \ {"lock", "chevron"}
  /\ EndAction

-----------------------------------------------------------------------------
(* HandleTogglePointer: the indicator is its own window, so a press on     *)
(* what it covers never arrives.                                           *)

Down(on) ==
  /\ visible /\ ~moving /\ ~captured
  /\ on = "O" => mark # "None" /\ indicator # "Spin"
  /\ on = "lock" => ShowsLock
  /\ on = "cell" => collapsed
  /\ \/ on \in {"O", "lock"} /\ pressed' = pressed \cup {on} /\ UNCHANGED drag
     \/ on = "cell" /\ Arrangeable /\ drag' = TRUE /\ UNCHANGED pressed
     \/ /\ on = "cell" => ~Arrangeable
        /\ on \in {"chevron", "cell", "elsewhere"}
        /\ pressed' = (pressed \ {"chevron"}) \cup (IF on = "chevron" THEN {on} ELSE {})
        /\ UNCHANGED drag
  /\ captured' = (on \in {"O", "lock", "chevron"} \/ drag')
  /\ UNCHANGED <<body, mark, work, stray>>

(* Every gesture is settled; the arrangement itself is CompactArrangement. *)
Up(on) ==
  /\ visible /\ ~moving
  /\ pressed' = {} /\ drag' = FALSE /\ captured' = FALSE
  /\ LET click == IF captured /\ ~drag /\ on \in pressed THEN on ELSE "none"
     IN /\ locked' = IF click = "lock" THEN ~locked ELSE locked
        /\ collapsed' = IF click = "chevron" THEN ~collapsed ELSE collapsed
  /\ IF captured THEN EndAction ELSE UNCHANGED <<work, stray>>
  /\ UNCHANGED <<visible, mark, moving>>

CaptureLost ==
  /\ captured /\ LoseCapture
  /\ UNCHANGED <<body, mark>>

CancelMode ==
  /\ visible /\ LoseCapture
  /\ UNCHANGED <<body, mark>>

(* OnEnterSizeMove and BeginMove: the turning O would be left behind.      *)
EnterSizeMove ==
  /\ moving' = TRUE
  /\ indicator' = IF mark = "Installing" /\ Active /\ ~slot THEN "None" ELSE indicator
  /\ UNCHANGED <<visible, collapsed, locked, mark, action, slot, worker, timer, age, hold, stray>>

(* A press on the strip between the buttons.                               *)
StripDown ==
  /\ visible /\ ~moving /\ ~captured
  /\ EnterSizeMove /\ UNCHANGED gestures

(* OnDragMove: a held button that has travelled the drag distance hands    *)
(* over to the move loop.  The press of a gesture that was not cancelled   *)
(* is measured from where it was, so a move within the distance of the     *)
(* button held now may be beyond it.                                       *)
Travel(beyond, held) ==
  /\ visible /\ ~moving /\ captured /\ ~drag /\ held \in pressed
  /\ beyond \/ \E other \in pressed : other # held
  /\ pressed' = {} /\ captured' = FALSE
  /\ moving' = TRUE
  /\ EndAction
  /\ UNCHANGED <<visible, collapsed, locked, mark, drag>>

(* OnExitSizeMove; the system lets go of the capture it took for the loop. *)
ExitSizeMove ==
  /\ moving /\ moving' = FALSE
  /\ LoseCapture
  /\ UNCHANGED <<visible, collapsed, locked, mark>>

-----------------------------------------------------------------------------
(* OnCellActivate, BeginAction, BeginReclaim, BeginNetworkProbe: a double  *)
(* click on a cell of the locked compact window.  The indicator may not    *)
(* come up, which leaves the slot; the timer may not start, whose result   *)
(* is ignored; the thread may not start.                                   *)

Activate(a) ==
  /\ visible /\ ~moving /\ collapsed /\ locked /\ ShowsLock /\ ~Active
  /\ \/ /\ slot' = TRUE /\ stray' = TRUE
        /\ UNCHANGED <<action, indicator, worker, timer, age, hold>>
     \/ /\ action' = a /\ slot' = TRUE /\ indicator' = "Work" /\ worker' = "Running"
        /\ timer' \in {"On", "Refused"} /\ age' = 0 /\ hold' = "Unset" /\ stray' = FALSE
     \/ EndAction
  /\ UNCHANGED <<body, mark, gestures>>

WorkerReturns ==
  /\ worker = "Running" /\ worker' = "Returned"
  /\ UNCHANGED <<body, mark, gestures, action, slot, indicator, timer, age, hold, stray>>

(* A mutant: the answer is shown and the timer stopped, as if it were done.*)
ReportStopsTimer ==
  \/ /\ indicator' = "Result" /\ hold' = "Waiting" /\ timer' = "Off"
     /\ UNCHANGED <<action, slot, worker, age, stray>>
  \/ action = "Reclaim" /\ EndAction

(* ReportActionResult: a probe always has an answer, a reclaim only when   *)
(* there is something to show.                                             *)
Report ==
  \/ /\ indicator' = "Result" /\ hold' = "Waiting"
     /\ UNCHANGED <<action, slot, worker, timer, age, stray>>
  \/ action = "Reclaim" /\ EndAction

OnOverlayTimer ==
  /\ timer = "On"
  /\ \/ /\ ~(Active /\ action # "None")
        /\ timer' = "Off"
        /\ UNCHANGED <<action, slot, indicator, worker, age, hold, stray>>
     \/ /\ Active /\ action # "None"
        /\ \/ worker = "Returned" /\ age >= 1 /\ hold = "Unset" /\ Report
           \/ worker = "Returned" /\ hold = "Over" /\ EndAction
           \/ worker = "Running" /\ age = 2 /\ EndAction
  /\ UNCHANGED <<body, mark, gestures>>

TimePasses ==
  /\ action # "None"
  /\ \/ age < 2 /\ age' = age + 1 /\ UNCHANGED hold
     \/ hold = "Waiting" /\ hold' = "Over" /\ UNCHANGED age
  /\ UNCHANGED <<body, mark, gestures, action, slot, indicator, worker, timer, stray>>

(* SetOverlayMark, called by the overlay at every tick.  The indicator is  *)
(* shared: only one without a slot is the O's.                             *)
SetOverlayMark(m) ==
  LET spinning == Active /\ ~slot
  IN /\ mark' = m
     /\ pressed' = IF m = "None" THEN pressed \ {"O"} ELSE pressed
     /\ \/ /\ m = "Installing" /\ ~Active /\ ~moving /\ visible
           /\ indicator' \in {"Spin", "None"}
        \/ /\ m = "Installing" /\ (Active \/ moving \/ ~visible)
           /\ UNCHANGED indicator
        \/ /\ m # "Installing"
           /\ indicator' = IF mark = "Installing" /\ spinning THEN "None" ELSE indicator
     /\ UNCHANGED <<body, drag, captured, action, slot, worker, timer, age, hold, stray>>

-----------------------------------------------------------------------------
(* A mutant: hiding the window leaves what runs over it.                   *)
SetVisibleLeavesAction(show) ==
  /\ visible' = show
  /\ UNCHANGED <<gestures, work, stray, collapsed, locked, mark, moving>>

(* SetVisible: hiding lets go of the mouse and ends the action.            *)
SetVisible(show) ==
  /\ visible' = show
  /\ IF show THEN UNCHANGED <<gestures, work, stray>>
     ELSE /\ EndAction
          /\ captured' = FALSE /\ drag' = (drag /\ ~captured)
          /\ pressed' = IF captured THEN pressed \ {"lock", "chevron"} ELSE pressed \ {"chevron"}
  /\ UNCHANGED <<collapsed, locked, mark, moving>>

(* OnDisplayChanged, and the session being locked.                         *)
CellMoved ==
  /\ EndAction
  /\ UNCHANGED <<body, mark, gestures>>

Actions == {"Reclaim", "Network"}
Buttons == {"O", "lock", "chevron"}
Marks == {"None", "Attachable", "Installing", "Live"}

Points == Buttons \cup {"cell", "elsewhere"}

(* What the pointer does where it is over the window, and what it does     *)
(* wherever it is.                                                         *)
Press == (\E on \in Points : Down(on)) \/ StripDown \/ (\E a \in Actions : Activate(a))

Release ==
  \/ \E on \in Points : Up(on)
  \/ \E beyond \in BOOLEAN, held \in Buttons : Travel(beyond, held)
  \/ CaptureLost \/ CancelMode \/ ExitSizeMove

OverlaySetsMark == \E m \in Marks : SetOverlayMark(m)

-----------------------------------------------------------------------------
presence == <<suppressed, kept, stored, refresh>>
header == <<here, quiet, idle, awake>>
vars == <<pointer, presence, header>>

(* OnInitDialog: the stored preference decides whether the window is shown.*)
Init ==
  /\ PointerInit
  /\ stored = visible /\ refresh \in {FALSE, visible}
  /\ suppressed = FALSE /\ kept = FALSE
  /\ here = FALSE /\ quiet = TRUE /\ idle = FALSE /\ awake = FALSE

Wanted == IF suppressed THEN kept ELSE visible

-----------------------------------------------------------------------------
(* UpdateRefreshCadence: whether the timer starts is not looked at.        *)
UpdateRefreshCadence(show) == refresh' \in {FALSE, show}

(* OsdOverlay::SetVisible with the cadence of the frames, or only the wish.*)
ShowOrKeep(show) ==
  IF suppressed
  THEN kept' = show /\ UNCHANGED <<pointer, refresh>>
  ELSE SetVisible(show) /\ UpdateRefreshCadence(show) /\ UNCHANGED kept

(* MainDialog::SetOsdVisible: the checkbox, and the hotkey and the menu,   *)
(* which ask for the opposite of Wanted.                                   *)
Toggle ==
  LET show == ~Wanted
  IN /\ ShowOrKeep(show)
     /\ stored' = show
     /\ UNCHANGED <<suppressed, header>>

(* A mutant: what the user asks for meanwhile is lost.                     *)
SetSuppressedForgets(s) ==
  /\ s # suppressed /\ suppressed' = s
  /\ IF s
     THEN /\ kept' = visible /\ awake' = FALSE /\ UNCHANGED idle
          /\ IF visible THEN SetVisible(FALSE) /\ UpdateRefreshCadence(FALSE) ELSE UNCHANGED <<pointer, refresh>>
     ELSE /\ kept' = FALSE /\ awake' = TRUE /\ idle' = FALSE
          /\ SetVisible(TRUE) /\ UpdateRefreshCadence(TRUE)
  /\ UNCHANGED <<stored, here, quiet>>

(* SetSuppressed, by the overlay's tick.  Only coming back from the game   *)
(* wakes the header.                                                       *)
SetSuppressed(s) ==
  /\ s # suppressed /\ suppressed' = s
  /\ IF s
     THEN /\ kept' = visible /\ awake' = FALSE /\ UNCHANGED idle
          /\ IF visible THEN SetVisible(FALSE) /\ UpdateRefreshCadence(FALSE) ELSE UNCHANGED <<pointer, refresh>>
     ELSE /\ kept' = FALSE
          /\ IF kept
             THEN /\ awake' = TRUE /\ idle' = FALSE
                  /\ SetVisible(TRUE) /\ UpdateRefreshCadence(TRUE)
             ELSE UNCHANGED <<pointer, refresh, idle, awake>>
  /\ UNCHANGED <<stored, here, quiet>>

-----------------------------------------------------------------------------
(* NotePointer: every message of the pointer over the window is hit-tested *)
(* first.                                                                  *)
NotePointer == here' = TRUE /\ quiet' = FALSE /\ idle' = FALSE /\ UNCHANGED awake

Point ==
  /\ visible /\ ~captured /\ ~moving
  /\ NotePointer
  /\ Press \/ UNCHANGED pointer
  /\ UNCHANGED presence

(* A captured pointer may let go anywhere; no hit test is made.            *)
LetGo ==
  /\ Release
  /\ here' \in BOOLEAN
  /\ UNCHANGED <<presence, quiet, idle, awake>>

Leave ==
  /\ here /\ here' = FALSE
  /\ UNCHANGED <<pointer, presence, quiet, idle, awake>>

TwoSeconds ==
  /\ ~quiet /\ quiet' = TRUE
  /\ UNCHANGED <<pointer, presence, here, idle, awake>>

(* A mutant: only the pointer keeps the buttons.                           *)
HeaderIdleAlways(present) == ~present /\ quiet

HeaderIdle(present) == ~present /\ ~Arrangeable /\ quiet

(* OnRefreshTimer: UpdateHeaderIdle.  A window in the hand, or a captured  *)
(* pointer, is the pointer being here.                                     *)
OnRefreshTimer ==
  LET present == here \/ moving \/ drag \/ captured
  IN /\ refresh
     /\ quiet' = (quiet /\ ~present)
     /\ awake' = (awake /\ ~present)
     /\ idle' = (~awake' /\ HeaderIdle(present))
     /\ UNCHANGED <<pointer, presence, here>>

Elsewhere ==
  /\ WorkerReturns \/ OnOverlayTimer \/ TimePasses \/ OverlaySetsMark \/ CellMoved
  /\ UNCHANGED <<presence, header>>

-----------------------------------------------------------------------------
Next ==
  \/ Toggle
  \/ \E s \in BOOLEAN : SetSuppressed(s)
  \/ Point \/ LetGo \/ Leave \/ TwoSeconds
  \/ OnRefreshTimer
  \/ Elsewhere

AttachEnds ==
  mark = "Installing" /\ (\E m \in Marks \ {"Installing"} : SetOverlayMark(m)) /\ UNCHANGED <<presence, header>>

Spec == Init /\ [][Next]_vars

(* The timers are delivered, the worker is bounded, and an attach comes to *)
(* an end, so that the overlay sets another mark.                          *)
Fairness ==
  /\ WF_vars(OnOverlayTimer /\ Elsewhere)
  /\ WF_vars(WorkerReturns /\ Elsewhere)
  /\ WF_vars(TimePasses /\ Elsewhere)
  /\ WF_vars(AttachEnds)

-----------------------------------------------------------------------------
TypeOK ==
  /\ {visible, collapsed, locked, moving, drag, captured, slot, stray} \subseteq BOOLEAN
  /\ timer \in {"Off", "On", "Refused"}
  /\ mark \in Marks /\ pressed \subseteq Buttons
  /\ action \in Actions \cup {"None"}
  /\ indicator \in {"None", "Work", "Result", "Spin"}
  /\ worker \in {"None", "Running", "Returned"}
  /\ age \in 0 .. 2 /\ hold \in {"Unset", "Waiting", "Over"}

(* An action has its indicator, its worker and the timer that takes it     *)
(* down, which it loses only by ending (one that Windows refused when it   *)
(* began it never had), on a window that is shown, compact and locked; and *)
(* without an action none of them is left.  Nothing but the capture that a *)
(* click releases ends the action when the lock is opened or the shape     *)
(* changes, so that the gesture of arranging and that of acting never meet.*)
ActionIsWatched ==
  /\ action # "None" => /\ indicator \in {"Work", "Result"} /\ slot /\ timer # "Off"
                        /\ worker # "None" /\ visible /\ collapsed /\ locked
  /\ action = "None" => indicator \in {"None", "Spin"} /\ worker = "None"
  /\ drag => Arrangeable /\ captured

(* The indicator swallows the pointer above a game; whatever it stands for *)
(* it comes down again.  Two ways in which the code leaves it up for good  *)
(* are excluded: a start that failed half way leaves its slot, which keeps *)
(* the turning O up (stray), and an action whose timer Windows refused has *)
(* nobody to end it until the user does something.                         *)
IndicatorComesDown == [](Active => <>(~Active \/ stray \/ timer = "Refused"))

(* However showing, hiding, entering and leaving games interleave, what    *)
(* the OSD will be outside games is what the user last asked for, which is *)
(* what the registry says a restart should do; it is hidden while the      *)
(* overlay stands in for it; and a hidden one is not drawn.  (A shown one  *)
(* that Windows gave no refresh timer is not drawn either.)                *)
ChoiceKept ==
  /\ refresh => visible
  /\ suppressed => ~visible
  /\ Wanted = stored

(* main_dialog's amber lock is an alert: while the cells can be rearranged *)
(* the header that holds the lock never gives way to the clock.            *)
UnlockedIsShown == idle => ~Arrangeable
=============================================================================
