------------------------------ MODULE PlayTime ------------------------------
(***************************************************************************)
(* How long the reader has been playing (fps/play_clock.hpp), ticked with  *)
(* the program whose reading is stable on every refresh of the rate        *)
(* (tray/main_dialog.cpp, OnTimer) and cleared when the rate is switched   *)
(* off.  One program is counted; another one's time waits until the one    *)
(* counted has had no reading for the handover time, and then takes over.  *)
(***************************************************************************)
EXTENDS Integers

CONSTANTS
  Programs, None,
  Handover, MaxTick,   (* kHandoverMs and kMaxTickMs                       *)
  Steps,               (* how far two ticks may be apart                   *)
  MaxTime, MaxClears   (* bounds of the model                              *)

VARIABLES
  now,                            (* the time of the last tick, 0 for none *)
  current, elapsed, lastSeen,     (* the program counted                   *)
  waiting, waitingMs, waitingSeen,(* the one that may take over            *)
  earned,    (* observer: the time each program had a stable reading in    *)
             (* its turn, which begins when it has one after another one   *)
             (* had, unless it is the one counted, or when nobody is       *)
  latest,    (* observer: the program that had a reading last              *)
  clears

clock == <<current, elapsed, lastSeen, waiting, waitingMs, waitingSeen>>
vars == <<now, clock, earned, latest, clears>>

NoTime == [p \in Programs |-> 0]

Init ==
  /\ now = 0
  /\ current = None /\ elapsed = 0 /\ lastSeen = 0
  /\ waiting = None /\ waitingMs = 0 /\ waitingSeen = 0
  /\ earned = NoTime /\ latest = None /\ clears = 0

State == [current |-> current, elapsed |-> elapsed, seen |-> lastSeen,
          waiting |-> waiting, ms |-> waitingMs, waitingSeen |-> waitingSeen]

NobodyWaits(s) == [s EXCEPT !.waiting = None, !.ms = 0]

(* The program with the reading is counted, or waits its turn.             *)
Start(s, p, t, counted) == NobodyWaits([s EXCEPT !.current = p, !.elapsed = counted, !.seen = t])
PlaysAlone(s, p, t, counted) == [s EXCEPT !.elapsed = @ + counted, !.seen = t]
Plays(s, p, t, counted) ==
  NobodyWaits([s EXCEPT !.elapsed = @ + counted, !.seen = t])
Waits(s, p, t, counted) ==
  [s EXCEPT !.waiting = p, !.ms = counted + (IF s.waiting = p THEN @ ELSE 0), !.waitingSeen = t]

Noted(s, p, t, counted) ==
  IF p = None THEN s
  ELSE IF s.current = None THEN Start(s, p, t, counted)
  ELSE IF p = s.current THEN Plays(s, p, t, counted)
  ELSE Waits(s, p, t, counted)

(* The count of a program without a reading for too long ends.             *)
HandedOver(s, t) ==
  IF s.current = None \/ t - s.seen < Handover THEN s
  ELSE NobodyWaits(
         IF s.waiting # None
         THEN [s EXCEPT !.current = s.waiting, !.elapsed = s.ms, !.seen = s.waitingSeen]
         ELSE [s EXCEPT !.current = None, !.elapsed = 0])

(* A step too long is not play time: the machine slept.                    *)
CountedStep(step) == IF now # 0 /\ step <= MaxTick THEN step ELSE 0

GoesOn(p) == p = current \/ (current # None /\ p = latest)

Tick ==
  \E step \in Steps, p \in Programs \cup {None} :
    LET t       == now + step
        counted == CountedStep(step)
        s       == HandedOver(Noted(State, p, t, counted), t)
    IN /\ t <= MaxTime /\ now' = t
       /\ current' = s.current /\ elapsed' = s.elapsed /\ lastSeen' = s.seen
       /\ waiting' = s.waiting /\ waitingMs' = s.ms /\ waitingSeen' = s.waitingSeen
       /\ earned' = [q \in Programs |-> IF q # p THEN earned[q]
                                       ELSE counted + (IF GoesOn(p) THEN earned[p] ELSE 0)]
       /\ latest' = IF p = None THEN latest ELSE p
       /\ UNCHANGED clears

(* The rate is switched off: the play time goes with the curve.            *)
Clear ==
  /\ clears < MaxClears /\ clears' = clears + 1
  /\ current' = None /\ elapsed' = 0 /\ lastSeen' = 0
  /\ waiting' = None /\ waitingMs' = 0 /\ waitingSeen' = 0
  /\ earned' = NoTime /\ latest' = None /\ now' = 0

Next == Tick \/ Clear

Spec == Init /\ [][Next]_vars

-----------------------------------------------------------------------------
(* The time shown is all that its program earned in its turn: pauses, the  *)
(* readings of others while it is counted, and the wait until it took over *)
(* lose none of it.  The program that waits will be given all of its own.  *)
(* What a program earned in a turn that ended before it was counted is     *)
(* lost: of A, C, B, C the first time of C, which "switching games loses   *)
(* nothing" (play_clock.hpp:17-19) does not say.                           *)
PlayTimeIsEarned ==
  /\ (current = None => elapsed = 0 /\ waiting = None)
  /\ (current # None => elapsed = earned[current])
  /\ (waiting # None => waiting # current /\ waitingMs = earned[waiting])
=============================================================================
