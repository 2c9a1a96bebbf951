----------------------------- MODULE FreshOutput -----------------------------
(***************************************************************************)
(* How the overlay qualifies the output a game draws to                    *)
(* (overlay/integration/fresh_output.hpp, QualifySdrOutput in              *)
(* product_overlay_hook.cpp): with a factory of its own it looks for the   *)
(* output of the monitor the window is on and reads its colours, while the *)
(* user may move or close the window and change, add or take away          *)
(* monitors.  A change of the displays makes the factory no longer         *)
(* current: what it then enumerates or describes may be of before or after.*)
(***************************************************************************)
EXTENDS Integers, FiniteSets

CONSTANTS Monitors, None,
          MaxChanges   (* bound of the model: of the displays and the window *)

VARIABLES
  at,        (* the call of QualifyFreshOutput to make next                *)
  on,        (* the monitor the window is on, or None                      *)
  open,      (* the window exists                                          *)
  displays,  (* the colours of each attached monitor                       *)
  made,      (* what the factory was made with                             *)
  stale,     (* the displays changed since                                 *)
  monitor,   (* the monitor the window was on at first                     *)
  answer,    (* what the qualification returned                            *)
  shown,     (* observer: the displays at the last check that the factory is current *)
  changes

vars == <<at, on, open, displays, made, stale, monitor, answer, shown, changes>>

Displays == UNION {[ms -> {"sdr", "hdr"}] : ms \in SUBSET Monitors \ {{}}}

Init ==
  /\ displays \in Displays /\ on \in DOMAIN displays /\ open = TRUE
  /\ at = "window" /\ made = displays /\ stale = FALSE /\ monitor = None
  /\ answer = 0 /\ shown = displays /\ changes = 0

Ends(result) == at' = "done" /\ answer' = result
World == <<on, open, displays, changes>>

(* A call succeeds and the next one is made, or the qualification ends.    *)
Checked(from, ok, to, code) ==
  /\ at = from
  /\ IF ok THEN at' = to /\ UNCHANGED answer ELSE Ends(code)

Window ==
  /\ Checked("window", open /\ on # None, "create", -281)
  /\ monitor' = IF open THEN on ELSE None
  /\ UNCHANGED <<made, stale, shown, World>>

(* The factory may not be made, and an output may not tell its colours.    *)
Create ==
  /\ \E ok \in BOOLEAN : Checked("create", ok, "current", -280)
  /\ made' = displays /\ stale' = FALSE
  /\ UNCHANGED <<monitor, shown, World>>

CurrentUnchecked(from, to) ==
  /\ Checked(from, TRUE, to, -261)
  /\ shown' = displays
  /\ UNCHANGED <<made, stale, monitor, World>>

Current(from, to) ==
  /\ Checked(from, ~stale, to, -261)
  /\ shown' = displays
  /\ UNCHANGED <<made, stale, monitor, World>>

(* A factory that is no longer current may tell of before or after.        *)
Told == {made, displays}

Find ==
  /\ \E told \in Told : Checked("find", monitor \in DOMAIN told, "output", -283)
  /\ UNCHANGED <<made, stale, monitor, shown, World>>

FindFails ==
  /\ at = "find" /\ \E code \in {-282, -264, -285} : Ends(code)
  /\ UNCHANGED <<made, stale, monitor, shown, World>>

Output6 ==
  /\ \E ok \in BOOLEAN : Checked("output", ok, "colours", -263)
  /\ UNCHANGED <<made, stale, monitor, shown, World>>

Sdr ==
  /\ \E told \in Told :
       Checked("colours", monitor \in DOMAIN told /\ told[monitor] = "sdr", "again", -265)
  /\ UNCHANGED <<made, stale, monitor, shown, World>>

DescriptionFails ==
  /\ at = "colours" /\ Ends(-264)
  /\ UNCHANGED <<made, stale, monitor, shown, World>>

SameMonitor ==
  /\ at = "same" /\ Ends(IF open /\ on = monitor THEN 1 ELSE -284)
  /\ UNCHANGED <<made, stale, monitor, shown, World>>

(* The user moves or closes the window, or changes the displays: a window  *)
(* on a monitor that goes is moved to another.                             *)
Changes ==
  /\ changes < MaxChanges /\ at # "done" /\ changes' = changes + 1
  /\ UNCHANGED <<at, made, monitor, answer, shown>>
Moves  == Changes /\ on' \in DOMAIN displays /\ UNCHANGED <<open, displays, stale>>
Closes == Changes /\ open /\ open' = FALSE /\ UNCHANGED <<on, displays, stale>>
Reconfigures ==
  /\ Changes /\ displays' \in Displays \ {displays} /\ stale' = TRUE /\ UNCHANGED open
  /\ on' \in DOMAIN displays' /\ (on \in DOMAIN displays' => on' = on)

Next ==
  \/ Window \/ Create \/ Current("current", "find") \/ Find \/ FindFails \/ Output6
  \/ Sdr \/ DescriptionFails \/ Current("again", "same") \/ SameMonitor
  \/ Moves \/ Closes \/ Reconfigures

Spec == Init /\ [][Next]_vars

-----------------------------------------------------------------------------
(* A game qualifies only if its window was still on the monitor it was     *)
(* first on, and that monitor was SDR when the factory was last seen to be *)
(* current, whatever was moved or changed on the way.                      *)
QualifiedWasSdr ==
  answer = 1 => monitor \in DOMAIN shown /\ shown[monitor] = "sdr"
=============================================================================
