----------------------------- MODULE OsdPlacement -----------------------------
(***************************************************************************)
(* Where the desktop OSD is (tray/osd_placement.hpp, tray/osd_overlay.cpp, *)
(* tray/main_dialog.cpp): dragged with a magnet at the edges of the        *)
(* screens, folded and unfolded around its chevron, fitted to the screens  *)
(* when they or its size change, saved at a normal exit and opened there   *)
(* again.  The horizontal axis only: the vertical one has the same rules   *)
(* and no change of shape.  Every screen has a scale of its own, and the   *)
(* window has the scale of the screen it is mostly on: Windows tells it    *)
(* when that changes, while it is being put there.                         *)
(***************************************************************************)
EXTENDS Integers, FiniteSets

CONSTANTS
  Arrangements,  (* sets of screens, each [left, right, scale]             *)
  WidthOf,       (* of a size, whether folded, at scale 1                  *)
  Threshold,     (* of the magnet, at scale 1                              *)
  Margin,        (* of the first position                                  *)
  None

VARIABLES
  screens,    (* what is connected                                         *)
  at,         (* the left edge of the window                               *)
  scale,      (* of the screen the window was last told it is on           *)
  size,       (* what decides the width: records switched on, the scale    *)
              (* the user chose; each is stored when it is changed         *)
  collapsed,
  positions,  (* positions_: of each shape, or None                     *)
  grab,       (* move_grab_: where in the window the cursor is, or None *)
  cursor,
  saved,      (* the registry: [positions, collapsed]                      *)
  left        (* how the program was left, or None while it runs; the      *)
              (* window's last place is still in at                        *)

vars == <<screens, at, scale, size, collapsed, positions, grab, cursor, saved, left>>

Abs(n) == IF n < 0 THEN -n ELSE n
Larger(m, n) == IF m > n THEN m ELSE n
Smaller(m, n) == IF m < n THEN m ELSE n

Width(s, folded, c) == WidthOf[s][folded] * c
Wide == Width(size, collapsed, scale)
Edges == UNION {{s.left, s.right} : s \in screens}

-----------------------------------------------------------------------------
Contains(s, x) == s.left <= x /\ x < s.right

Distance(s, x, w) == Larger(0, Larger(s.left - (x + w - 1), x - (s.right - 1)))

Overlap(s, x, w) == Larger(0, Smaller(s.right, x + w) - Larger(s.left, x))

(* MonitorFromRect to the nearest: the screen the window is mostly on.     *)
MostlyOn(all, x, w) ==
  CHOOSE s \in all : \A t \in all :
    IF Overlap(s, x, w) = Overlap(t, x, w) THEN Distance(s, x, w) <= Distance(t, x, w)
    ELSE Overlap(s, x, w) > Overlap(t, x, w)

(* MonitorFromPoint, or else that one.                                     *)
ScreenOf(all, x, w) ==
  IF \E s \in all : Contains(s, x) THEN CHOOSE s \in all : Contains(s, x)
  ELSE MostlyOn(all, x, w)

Primary(all) == CHOOSE s \in all : Contains(s, 0)

(* FitToWorkArea: slid onto the screen it starts on.                       *)
Fit(all, x, w) ==
  LET s == ScreenOf(all, x, w)
  IN Smaller(Larger(x, s.left), Larger(s.left, s.right - w))

(* ApplyPosition of a window that has scale c; on a screen of another      *)
(* scale it is told so before that returns (OnDpiChanged): it is laid out  *)
(* for that scale where Windows suggests, somewhere on that screen.        *)
Placed(all, s, folded, c, x) ==
  LET on == MostlyOn(all, x, Width(s, folded, c))
  IN IF on.scale = c THEN {[at |-> x, scale |-> c]}
     ELSE {[at |-> Fit(all, y, Width(s, folded, on.scale)), scale |-> on.scale] :
             y \in on.left .. (on.right - 1)}

(* Fitted to the screens first, as everywhere but in a drag.               *)
Fitted(all, s, folded, c, x) == Placed(all, s, folded, c, Fit(all, x, Width(s, folded, c)))

(* Consider, over the edges of every screen: the smallest pull within the  *)
(* threshold.                                                              *)
Pulls(x, w) ==
  {d \in {e - x : e \in Edges} \cup {e - (x + w) : e \in Edges} : Abs(d) <= Threshold * scale}

Snap(x, w) ==
  LET pulls == Pulls(x, w)
  IN  IF pulls = {} THEN {x} ELSE {x + d : d \in {p \in pulls : \A q \in pulls : Abs(p) <= Abs(q)}}

-----------------------------------------------------------------------------
For(pair, folded) == IF folded THEN pair.collapsed ELSE pair.expanded

Put(pair, folded, x) ==
  IF folded THEN [pair EXCEPT !.collapsed = x] ELSE [pair EXCEPT !.expanded = x]

(* A mutant: what is written is what each shape was last folded at.        *)
RememberedPositions == positions

Positions == Put(positions, collapsed, at)

(* A position of its own, or the only one older builds wrote.              *)
FromStored(pair) ==
  [expanded |-> pair.expanded,
   collapsed |-> IF pair.collapsed = None THEN pair.expanded ELSE pair.collapsed]

(* Initialize, after everything that decides the width was loaded.  The    *)
(* window was created on the primary screen and is laid out for its scale. *)
Opened(all, folded, s) ==
  LET there == For(FromStored(saved.positions), folded)
  IN Fitted(all, s, folded, Primary(all).scale,
            IF there = None THEN Primary(all).left + Margin ELSE there)

Goes(places) == \E p \in places : at' = p.at /\ scale' = p.scale

Running == left = None

Init ==
  /\ screens \in Arrangements
  /\ size \in DOMAIN WidthOf /\ collapsed \in BOOLEAN
  /\ saved = [positions |-> [expanded |-> None, collapsed |-> None], collapsed |-> collapsed]
  /\ positions = saved.positions
  /\ \E p \in Opened(screens, collapsed, size) : at = p.at /\ scale = p.scale
  /\ grab = None /\ cursor = 0 /\ left = None

-----------------------------------------------------------------------------
(* BeginMove: wherever in the window.                                      *)
BeginMove ==
  /\ Running /\ grab = None
  /\ grab' \in {0, Wide - 1}
  /\ cursor' = at + grab'
  /\ UNCHANGED <<screens, at, scale, size, collapsed, positions, saved, left>>

(* A mutant: the rectangle of the move loop, which starts from where the   *)
(* last snap left the window.                                              *)
FromLoop(c) == at + c - cursor

FromCursor(c) == c - grab

(* OnMoving, SnapMoving; with shift held the window is not pulled.         *)
Moving(c) ==
  /\ Running /\ grab # None
  /\ cursor' = c
  /\ \E x \in Snap(FromCursor(c), Wide) \cup {FromCursor(c)} :
       Goes(Placed(screens, size, collapsed, scale, x))
  /\ UNCHANGED <<screens, size, collapsed, positions, grab, saved, left>>

OnExitSizeMove ==
  /\ Running /\ grab # None /\ grab' = None /\ cursor' = 0
  /\ UNCHANGED <<screens, at, scale, size, collapsed, positions, saved, left>>

(* ToggleCollapsed: the right edge, where the chevron is, stays.           *)
ToggleCollapsed ==
  /\ Running /\ grab = None
  /\ collapsed' = ~collapsed
  /\ LET after == Width(size, ~collapsed, scale)
         next == Fit(screens, at + Wide - after, after)
     IN /\ Goes(Placed(screens, size, ~collapsed, scale, next))
        /\ positions' = Put(Positions, ~collapsed, next)
  /\ UNCHANGED <<screens, size, grab, cursor, saved, left>>

(* SetNetEnabled, SetScalePercent and their like: the size is stored too.  *)
Resize(s) ==
  /\ Running /\ grab = None /\ s # size
  /\ size' = s
  /\ Goes(Fitted(screens, s, collapsed, scale, at))
  /\ UNCHANGED <<screens, collapsed, positions, grab, cursor, saved, left>>

(* OnDisplayChanged.                                                       *)
OnDisplayChanged(all) ==
  /\ Running /\ grab = None /\ all # screens
  /\ screens' = all
  /\ Goes(Fitted(all, size, collapsed, scale, at))
  /\ UNCHANGED <<size, collapsed, positions, grab, cursor, saved, left>>

(* SetVisible(true).                                                       *)
Show ==
  /\ Running /\ grab = None
  /\ Goes(Fitted(screens, size, collapsed, scale, at))
  /\ UNCHANGED <<screens, size, collapsed, positions, grab, cursor, saved, left>>

-----------------------------------------------------------------------------
(* SaveOsdWindowPosition and the shape, when the window is destroyed.      *)
Exit ==
  /\ Running
  /\ saved' = [positions |-> Positions, collapsed |-> collapsed]
  /\ left' = "exited"
  /\ grab' = None /\ cursor' = 0
  /\ positions' = [expanded |-> None, collapsed |-> None]
  /\ UNCHANGED <<screens, at, scale, size, collapsed>>

(* A crash or the end of the session: nothing is saved.                    *)
Die ==
  /\ Running /\ left' = "crashed"
  /\ grab' = None /\ cursor' = 0 /\ at' = 0 /\ scale' = 1 /\ collapsed' = FALSE
  /\ positions' = [expanded |-> None, collapsed |-> None]
  /\ UNCHANGED <<screens, size, saved>>

(* OnInitDialog, RestoreOsdWindowPosition, with whatever is connected now. *)
Restart(all) ==
  /\ ~Running
  /\ screens' = all
  /\ collapsed' = saved.collapsed
  /\ positions' = FromStored(saved.positions)
  /\ Goes(Opened(all, collapsed', size))
  /\ left' = None
  /\ UNCHANGED <<size, grab, cursor, saved>>

Cursors == UNION {s.left .. (s.right - 1) : s \in screens}

Next ==
  \/ BeginMove \/ (\E c \in Cursors : Moving(c)) \/ OnExitSizeMove
  \/ ToggleCollapsed
  \/ \E s \in DOMAIN WidthOf : Resize(s)
  \/ \E all \in Arrangements : OnDisplayChanged(all) \/ Restart(all)
  \/ Show \/ Exit \/ Die

Spec == Init /\ [][Next]_vars

-----------------------------------------------------------------------------
(* Magnetic edges never hold the window: each move of the mouse has it     *)
(* within the threshold of where the cursor has it, however it was snapped *)
(* before, unless the move takes it to a screen of another scale.          *)
NeverStuck ==
  grab # None /\ grab' # None /\ scale' = scale
  => Abs(at' - (cursor' - grab)) <= Threshold * scale

(* A program left normally, with the window on a screen of the primary     *)
(* one's scale, opens it exactly there again, in the shape it had, if the  *)
(* screens are the same: through any drags, folds, changes of size, other  *)
(* screens and earlier restarts.  On a screen of another scale the window  *)
(* is first laid out for the primary one, and it may be moved for that     *)
(* (osd_overlay.cpp:884-892).                                              *)
Reopens ==
  \A all \in Arrangements :
    Restart(all) /\ left = "exited" /\ all = screens
    /\ (\E s \in all : /\ s.scale = Primary(all).scale /\ s.left <= at
                       /\ at + Width(size, collapsed, s.scale) <= s.right)
    => at' = at /\ collapsed' = collapsed

FollowsAndReopens == [][NeverStuck /\ Reopens]_vars
=============================================================================
