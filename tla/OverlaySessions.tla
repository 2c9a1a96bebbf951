---------------------------- MODULE OverlaySessions ----------------------------
(***************************************************************************)
(* The tray's side of the in-game overlay (overlay/integration/            *)
(* runtime.cpp with session_policy.hpp, refused_targets.hpp,               *)
(* consent_policy.hpp, embed_policy.hpp): a hotkey asks for the overlay in *)
(* the program in front, a helper process attaches it, a timer on the UI   *)
(* thread follows every session, and the desktop OSD steps aside while a   *)
(* game in front shows the dashboard itself.                               *)
(*                                                                         *)
(* Everything runs on the UI thread, one message at a time; the one place  *)
(* that pumps messages is the question for the colours (choosing).  What   *)
(* the helper does to the game is external: it starts, becomes ready,      *)
(* fails, closes.  A target is a process with its creation time, so a      *)
(* process id that is used again is another target.                        *)
(***************************************************************************)
EXTENDS Naturals, Sequences, SequencesExt, FiniteSetsExt

CONSTANTS
  Targets,     (* programs that may be in front                            *)
  MaxSlots,    (* sessions (4)                                             *)
  Capacity,    (* kCapacity of the refused targets (32)                    *)
  Nobody       (* no program of interest in front                          *)

VARIABLES
  alive,       (* targets that run                                         *)
  front,       (* the foreground's target                                  *)
  enabled,     (* runtime.enabled                                          *)
  choosing,    (* the questions that are open, the innermost last          *)
  slots,       (* runtime.sessions                                         *)
  refused,     (* runtime.refused, oldest first                            *)
  timer,       (* the timer runs                                           *)
  suppressed,  (* the desktop OSD is hidden                                *)
  attached,    (* history: targets a helper was launched for               *)
  again,       (* history: those for which it was launched once more       *)
  forgotten    (* history: failures no longer in refused                   *)

world == <<alive, front>>
runtime == <<enabled, choosing, slots, refused, timer, suppressed>>
history == <<attached, again, forgotten>>
vars == <<world, runtime, history>>

Slot == 1 .. MaxSlots

(* drawn: the last picture was good (first_bitmap_published, image_valid); *)
(* shows: the game is told to draw it ("yes"), or its publisher gave up    *)
(* since then, on a tick that could not tell where to draw ("stopped").    *)
None ==
  [target |-> Nobody, state |-> "Empty", helper |-> "none", want |-> FALSE,
   drawn |-> FALSE, shows |-> "no"]

Sessions ==
  [target : Targets \cup {Nobody}, state : {"Empty", "Installing", "Visible", "Hidden", "Failed"},
   helper : {"none", "Starting", "Ready", "Gone"}, want : BOOLEAN,
   drawn : BOOLEAN, shows : {"yes", "no", "stopped"}]

TypeOK ==
  /\ alive \subseteq Targets /\ front \in Targets \cup {Nobody}
  /\ choosing = <<>> \/ \E t \in Targets : choosing = <<t>>
  /\ {enabled, timer, suppressed} \subseteq BOOLEAN
  /\ slots \in [Slot -> Sessions]
  /\ Range(refused) \subseteq Targets /\ Len(refused) <= Capacity /\ IsInjective(refused)
  /\ again \subseteq attached /\ attached \subseteq Targets /\ forgotten \subseteq Targets

Init ==
  /\ alive = Targets /\ front = Nobody
  /\ enabled = FALSE /\ choosing = <<>>
  /\ slots = [i \in Slot |-> None]
  /\ refused = <<>>
  /\ timer = FALSE /\ suppressed = FALSE
  /\ attached = {} /\ again = {} /\ forgotten = {}

Used == {i \in Slot : slots[i].state # "Empty"}
SessionsOf(t) == {i \in Used : slots[i].target = t}

(* The catch of WindowProc: nothing is drawn until the next good tick.     *)
Dark(s) == [s EXCEPT !.drawn = FALSE, !.shows = "no"]

-----------------------------------------------------------------------------
(* The hotkey.                                                             *)

(* Mutant of MayPress: the hotkey is served while the question is open.    *)
MayPressAnyTime == enabled

MayPress == enabled /\ choosing = <<>>

(* A session of the program in front: shown, hidden, still installing or   *)
(* failed.  Either way the game draws nothing before the next tick.        *)
Toggled(s) ==
  IF s.state = "Visible" THEN [s EXCEPT !.state = "Hidden", !.shows = "no"]
  ELSE IF s.state = "Hidden" THEN [s EXCEPT !.state = "Visible", !.shows = "no"]
  ELSE s

Toggle ==
  /\ MayPress
  /\ front \in alive /\ front \notin Range(refused)
  /\ \E i \in SessionsOf(front) :
       /\ \A j \in SessionsOf(front) : i <= j
       /\ slots' = [slots EXCEPT ![i] = Toggled(@)]
  /\ UNCHANGED <<world, enabled, choosing, refused, timer, suppressed, history>>

(* A new target; Auto SDR answers the question without a dialog, but then  *)
(* too every check is made again.                                          *)
Ask ==
  /\ MayPress
  /\ front \in alive /\ front \notin Range(refused)
  /\ SessionsOf(front) = {} /\ Used # Slot
  /\ choosing' = Append(choosing, front)
  /\ UNCHANGED <<world, enabled, slots, refused, timer, suppressed, history>>

Decline ==
  /\ choosing # <<>>
  /\ choosing' = Front(choosing)
  /\ UNCHANGED <<world, enabled, slots, refused, timer, suppressed, history>>

(* Launch; it may fail after the session has taken its slot, with or       *)
(* without a section to talk through, and then it throws.                  *)
Fresh(t) ==
  [None EXCEPT !.target = t, !.state = "Installing", !.want = TRUE, !.helper = "Starting"]

Accept ==
  /\ choosing # <<>> /\ Last(choosing) \in alive
  /\ enabled /\ Used # Slot
  /\ LET i == Min(Slot \ Used)
         t == Last(choosing)
     IN
     /\ attached' = attached \cup {t}
     /\ again' = again \cup ({t} \cap attached)
     /\ \/ slots' = [slots EXCEPT ![i] = Fresh(t)]
        \/ slots' = [j \in Slot |->
                       IF j = i THEN [Fresh(t) EXCEPT !.state = "Failed", !.helper = "none"]
                       ELSE Dark(slots[j])]
  /\ choosing' = Front(choosing)
  /\ UNCHANGED <<world, enabled, refused, timer, suppressed, forgotten>>

-----------------------------------------------------------------------------
(* The timer, every 34 ms while there is anything to do.                   *)

(* RetireRefused: the identity is kept, not the slot.  Remembering it may  *)
(* fail, and the oldest one makes room.                                    *)
(* Mutant of Remembered: the list grows beyond its capacity.               *)
RememberedAll(list, t) == IF t \in Range(list) THEN list ELSE Append(list, t)

Remembered(list, t) ==
  IF t \in Range(list) THEN list
  ELSE IF Len(list) = Capacity THEN Append(Tail(list), t)
  ELSE Append(list, t)

(* What a tick makes of the picture of a session that is shown: it stays   *)
(* as it was, there is none, a new one, or the game's request, the window  *)
(* or the monitor could not be read: then the game is told to stop, and    *)
(* the picture still counts as good.                                       *)
Pictures == {"same", "none", "new", "unread"}

Painted(s, picture) ==
  LET good == picture = "new" \/ (picture # "none" /\ s.drawn)
  IN  [s EXCEPT !.drawn = good,
                !.shows = IF ~good THEN "no" ELSE IF picture = "unread" THEN "stopped" ELSE "yes"]

(* A failed session, or one whose helper stopped or failed, is retired.    *)
Retired(s) == s.state = "Failed" \/ s.helper = "Gone"

Ready(s) ==
  IF s.helper = "Ready" /\ s.state = "Installing"
    THEN [s EXCEPT !.state = IF s.want THEN "Visible" ELSE "Hidden"]
    ELSE s

(* What a tick makes of a session, and whether it draws it.                *)
Followed(s) == IF s.state = "Empty" \/ s.target \notin alive \/ Retired(s) THEN None ELSE Ready(s)

Draws(s) == enabled /\ Followed(s).state = "Visible"

(* Sessions whose failure a tick over the first n slots remembers.         *)
Failing(n) == {i \in 1 .. n : slots[i].state # "Empty" /\ slots[i].target \in alive /\ Retired(slots[i])}

(* The rule asks for a session that was drawn once and is still visible,   *)
(* not for one that draws now.                                             *)
Leads(s) == enabled /\ s.state = "Visible" /\ s.target = front

InFront(all) == \E i \in Slot : Leads(all[i]) /\ all[i].drawn

(* UpdateEmbedding: the OSD hides once the game has been in front for long *)
(* enough and the setting is on (Tick may find either way), and comes back *)
(* when no session is left.                                                *)
(* Mutant of Hide: it is not called any more once the timer may stop.      *)
HideUnlessLast(all) ==
  IF ~enabled /\ \A i \in Slot : all[i].state = "Empty" THEN suppressed
  ELSE InFront(all)

Hide(all) == InFront(all)

(* A refused target that has exited is forgotten from time to time.        *)
Running(list) ==
  LET left[i \in 0 .. Len(list)] ==
        IF i = 0 THEN <<>>
        ELSE IF list[i] \in alive THEN Append(left[i - 1], list[i])
        ELSE left[i - 1]
  IN left[Len(list)]

Prunings == {refused, Running(refused)}

(* The list once the targets of these slots are added, slot after slot.    *)
Added(list, some) ==
  LET all[i \in 0 .. MaxSlots] ==
        IF i = 0 THEN list
        ELSE IF i \in some THEN Remembered(all[i - 1], slots[i].target)
        ELSE all[i - 1]
  IN all[MaxSlots]

Remember(n) ==
  \E list \in Prunings, kept \in SUBSET Failing(n) :
     /\ refused' = Added(list, kept)
     /\ forgotten' =
          forgotten \cup ((Range(refused) \cup {slots[i].target : i \in Failing(n)}) \ Range(refused'))

Tick ==
  /\ timer
  /\ LET drawing == {i \in Slot : Draws(slots[i])}
     IN  \E pictures \in [drawing -> Pictures] :
           slots' = [i \in Slot |->
                       IF i \in drawing THEN Painted(Followed(slots[i]), pictures[i])
                       ELSE Followed(slots[i])]
  /\ Remember(MaxSlots)
  /\ suppressed' \in {FALSE, Hide(slots')}
  /\ timer' = (enabled \/ \E i \in Slot : slots'[i].state # "Empty")
  /\ UNCHANGED <<world, enabled, choosing, attached, again>>

(* Rendering throws in the middle of a tick: the rest of it is not done.   *)
TickThrows ==
  /\ timer
  /\ \E n \in Slot :
       /\ Draws(slots[n])
       /\ slots' = [i \in Slot |-> Dark(IF i <= n THEN Followed(slots[i]) ELSE slots[i])]
       /\ Remember(n - 1)
  /\ UNCHANGED <<world, enabled, choosing, timer, suppressed, attached, again>>

-----------------------------------------------------------------------------
(* Settings.                                                               *)

Enable ==
  /\ ~enabled
  /\ enabled' = TRUE /\ timer' = TRUE
  /\ UNCHANGED <<world, choosing, slots, refused, suppressed, history>>

Disabled(s) ==
  IF s.state = "Empty" THEN s
  ELSE [s EXCEPT !.want = FALSE, !.shows = "no",
                 !.state = IF s.state = "Visible" THEN "Hidden" ELSE s.state]

Disable ==
  /\ enabled
  /\ enabled' = FALSE
  /\ slots' = [i \in Slot |-> Disabled(slots[i])]
  /\ timer' = (Used # {})
  /\ UNCHANGED <<world, choosing, refused, suppressed, history>>

(* SetHidesOsd(false) shows the OSD at once; ticks then find it switched   *)
(* off.                                                                    *)
ShowOsd ==
  /\ suppressed
  /\ suppressed' = FALSE
  /\ UNCHANGED <<world, enabled, choosing, slots, refused, timer, history>>

-----------------------------------------------------------------------------
(* The rest of the world.                                                  *)

Helper(i) ==
  /\ slots[i].helper \in {"Starting", "Ready"}
  /\ \E to \in {"Ready", "Gone"} \ {slots[i].helper} : slots' = [slots EXCEPT ![i].helper = to]
  /\ UNCHANGED <<world, enabled, choosing, refused, timer, suppressed, history>>

Exit(t) ==
  /\ t \in alive
  /\ alive' = alive \ {t}
  /\ UNCHANGED <<front, runtime, history>>

BringToFront(t) ==
  /\ front # t
  /\ front' = t
  /\ UNCHANGED <<alive, runtime, history>>

Next ==
  \/ Toggle \/ Ask \/ Decline \/ Accept \/ Tick \/ TickThrows
  \/ Enable \/ Disable \/ ShowOsd
  \/ \E i \in Slot : Helper(i)
  \/ \E t \in Targets : Exit(t)
  \/ \E t \in Targets \cup {Nobody} : BringToFront(t)

Spec == Init /\ [][Next]_vars

(* While the timer runs, ticks that get to their end keep coming.          *)
Fairness == WF_vars(Tick)

FairSpec == Spec /\ Fairness

-----------------------------------------------------------------------------
(* A running process the overlay was attached to, or on which that failed, *)
(* is never attached to again, and never by two sessions at once           *)
(* (RefusedTargets: what stops a retry on the same process), whatever the  *)
(* user presses while the question is open and however slots are given     *)
(* back, unless its failure had to be forgotten.                           *)
AttachedOnce == again \subseteq forgotten

(* Where the OSD is hidden and the game in front does not draw the         *)
(* dashboard, it is soon drawn there or the OSD is back, also when the     *)
(* user has just hidden or shown the overlay, when sessions end, the       *)
(* overlay is switched off or the timer stops (Tick: with no session left  *)
(* this restores the OSD).  The exception is the code's: a session that    *)
(* was drawn and whose publisher gave up since (unread) counts as          *)
(* published, so the OSD stays hidden while nothing is drawn, although     *)
(* embed_policy.hpp:18 speaks of a session that is really drawing.         *)
OsdComesBack ==
  LET Shows(how) == \E i \in Slot : Leads(slots[i]) /\ slots[i].shows = how
  IN  (suppressed /\ ~Shows("yes")) ~> (~suppressed \/ Shows("yes") \/ Shows("stopped"))
=============================================================================
