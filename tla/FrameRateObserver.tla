--------------------------- MODULE FrameRateObserver ---------------------------
(***************************************************************************)
(* The frame rate of the foreground program: the window's timer that       *)
(* follows the foreground (main_dialog.cpp), the controller thread that    *)
(* keeps one trace for it, the consumer thread that hears the trace and    *)
(* records frames (dxgi_observer.cpp) and the rate tracker between them    *)
(* (fps_rate.hpp).  Which frames the consumer records is module            *)
(* DisplayedFrames; here a recorded frame is right as long as the trace    *)
(* has lost no event, and a rate is the set of frames it came from.  How   *)
(* many frames and how much time a rate needs is left out.                 *)
(***************************************************************************)
EXTENDS Naturals

CONSTANTS
  Targets,    (* programs                                                  *)
  MaxTraces   (* bound: traces started                                     *)

VARIABLES
  trace,      (* session_: is its consumer alive, for whom, has its         *)
              (* correlation failed, has it lost events                    *)
  tracker,    (* tracker_                                                  *)
  control,    (* where ControlLoop is, active, healthy, what it read       *)
  desired,    (* desired_                                                  *)
  published,  (* published_                                                *)
  window      (* the foreground program, and what is shown for it          *)

vars == <<trace, tracker, control, desired, published, window>>

NoTarget == "nobody"
Somebody == Targets \cup {NoTarget}
Kinds == {"displayed", "presented"}

RecordedFrames == [of : Targets, trace : 1 .. MaxTraces, kind : Kinds, right : BOOLEAN]

(* raced: the trace lost an event after the controller had asked it.       *)
NoReading == [ready |-> FALSE, of |-> NoTarget, frames |-> {}, raced |-> FALSE]

IsReading(r) ==
  {r.ready, r.raced} \subseteq BOOLEAN /\ r.of \in Somebody /\ r.frames \subseteq RecordedFrames

TypeOK ==
  /\ trace \in [on : {"no", "yes", "ended"}, of : Somebody, number : 0 .. MaxTraces,
                failed : BOOLEAN, lost : BOOLEAN]
  /\ tracker.of \in Somebody /\ tracker.kind \in Kinds /\ tracker.frames \subseteq RecordedFrames
  /\ control.at \in {"wait", "stop", "start", "check", "read", "publish", "retire"}
  /\ desired \in Somebody
  /\ IsReading(control.reading) /\ IsReading(published) /\ IsReading(window.shown)

Init ==
  /\ trace = [on |-> "no", of |-> NoTarget, number |-> 0, failed |-> FALSE, lost |-> FALSE]
  /\ tracker = [of |-> NoTarget, kind |-> "displayed", frames |-> {}]
  /\ control = [at |-> "wait", of |-> NoTarget, healthy |-> FALSE, lost |-> FALSE,
                reading |-> NoReading]
  /\ desired = NoTarget
  /\ published = NoReading
  /\ window = [target |-> NoTarget, at |-> "read", shown |-> NoReading]

-----------------------------------------------------------------------------
(* The consumer thread.                                                    *)

Hears == trace.on = "yes" /\ ~trace.failed

Recorded(frame) ==
  [tracker EXCEPT !.kind = frame.kind,
                  !.frames = IF frame.kind = tracker.kind THEN @ \cup {frame} ELSE {frame}]

(* RateTracker::Record drops a frame of the kind it does not count now: a  *)
(* present while displayed frames are recent, a displayed frame while they *)
(* are sparse.                                                             *)
Record ==
  /\ Hears /\ tracker.of = trace.of
  /\ \E kind \in Kinds :
       tracker' = Recorded([of |-> trace.of, trace |-> trace.number, kind |-> kind,
                            right |-> ~trace.lost])
  /\ UNCHANGED trace

CorrelationFails ==
  /\ Hears
  /\ trace' = [trace EXCEPT !.failed = TRUE]
  /\ UNCHANGED tracker

EventLost ==
  /\ trace.on = "yes" /\ ~trace.lost
  /\ trace' = [trace EXCEPT !.lost = TRUE]
  /\ UNCHANGED tracker

(* ProcessTrace returns by itself.                                         *)
TraceEnds ==
  /\ trace.on = "yes"
  /\ trace' = [trace EXCEPT !.on = "ended"]
  /\ UNCHANGED tracker

Consumer ==
  /\ Record \/ CorrelationFails \/ EventLost \/ TraceEnds
  /\ UNCHANGED <<control, desired, published, window>>

-----------------------------------------------------------------------------
(* ControlLoop.                                                            *)

(* It wakes for a new target and every half second.                        *)
Wake ==
  /\ control.at = "wait"
  /\ control' = [control EXCEPT
       !.at = IF desired # control.of THEN "stop"
              ELSE IF desired = NoTarget THEN "wait" ELSE "start",
       !.of = desired]
  /\ UNCHANGED <<trace, tracker, published>>

(* StopSession returns when the consumer thread has ended.                 *)
SwitchTarget ==
  /\ control.at = "stop"
  /\ trace' = [trace EXCEPT !.on = "no"]
  /\ published' = NoReading
  /\ control' = [control EXCEPT !.at = IF control.of = NoTarget THEN "wait" ELSE "start"]
  /\ UNCHANGED tracker

(* SetTarget and MarkLost: a restarted trace never reuses old frames.      *)
Began(t) ==
  [of |-> t, kind |-> IF tracker.of = t THEN tracker.kind ELSE "displayed", frames |-> {}]

(* It runs already, it is too early to try again, or StartSession may      *)
(* succeed.                                                                *)
StartSession ==
  /\ control.at = "start"
  /\ control' = [control EXCEPT !.at = "check"]
  /\ \/ UNCHANGED <<trace, tracker>>
     \/ /\ trace.on = "no" /\ trace.number < MaxTraces
        /\ tracker' = Began(control.of)
        /\ \E on \in {"yes", "no"} :
             trace' = [on |-> on, of |-> control.of, number |-> trace.number + 1,
                       failed |-> FALSE, lost |-> FALSE]
  /\ UNCHANGED published

(* Mutant of Unbroken: what the trace lost is not looked at.               *)
UnbrokenByAssumption == TRUE

Unbroken == ~trace.lost

(* SessionHealthy: a loss empties the tracker; Retire follows.             *)
Check ==
  /\ control.at = "check"
  /\ LET alive == trace.on = "yes" /\ ~trace.failed
     IN  /\ control' = [control EXCEPT !.at = "read", !.healthy = alive /\ Unbroken,
                                       !.lost = trace.lost]
         /\ tracker' = [tracker EXCEPT !.frames = IF alive /\ ~Unbroken THEN {} ELSE @]
  /\ UNCHANGED <<trace, published>>

(* Publish reads the tracker, and then publishes what it read.             *)
ReadRate ==
  /\ control.at = "read"
  /\ control' = [control EXCEPT !.at = "publish", !.reading =
       [ready |-> control.healthy /\ tracker.frames # {}, of |-> tracker.of,
        frames |-> IF control.healthy THEN tracker.frames ELSE {},
        raced |-> trace.lost /\ ~control.lost]]
  /\ UNCHANGED <<trace, tracker, published>>

Publish ==
  /\ control.at = "publish"
  /\ published' = control.reading
  /\ control' = [control EXCEPT
       !.reading = NoReading,
       !.at = IF trace.on # "no" /\ ~control.healthy THEN "retire" ELSE "wait"]
  /\ UNCHANGED <<trace, tracker>>

Retire ==
  /\ control.at = "retire"
  /\ trace' = [trace EXCEPT !.on = "no"]
  /\ tracker' = [tracker EXCEPT !.frames = {}]
  /\ control' = [control EXCEPT !.at = "wait"]
  /\ UNCHANGED published

Controller ==
  /\ Wake \/ SwitchTarget \/ StartSession \/ Check \/ ReadRate \/ Publish \/ Retire
  /\ UNCHANGED <<desired, window>>

-----------------------------------------------------------------------------
(* The window's timer: a new target and, under another lock, no reading;   *)
(* then what is published, if it is of the program in the foreground.      *)

Foreground(t) ==
  /\ window.at = "read" /\ t # window.target
  /\ desired' = t
  /\ window' = [target |-> t, at |-> "clear", shown |-> NoReading]
  /\ UNCHANGED published

Clear ==
  /\ window.at = "clear"
  /\ published' = NoReading
  /\ window' = [window EXCEPT !.at = "read"]
  /\ UNCHANGED desired

Matched == IF published.of = window.target THEN published ELSE NoReading

TryRead ==
  /\ window.at = "read"
  /\ window' = [window EXCEPT !.shown = Matched]
  /\ UNCHANGED <<desired, published>>

Window ==
  /\ (\E t \in Somebody : Foreground(t)) \/ Clear \/ TryRead
  /\ UNCHANGED <<trace, tracker, control>>

Next == Consumer \/ Controller \/ Window

Spec == Init /\ [][Next]_vars

-----------------------------------------------------------------------------
(* A rate that is shown was measured: of the program it is shown for, from *)
(* frames of one trace that had lost nothing, and of one kind, whatever    *)
(* targets, traces and losses come and go between the three threads.  Only *)
(* what the trace lost between the controller's question and its reading   *)
(* may pass, until the next one.                                           *)
ReadingIsMeasured ==
  LET r == window.shown
  IN  r.ready =>
        /\ \A x \in r.frames : x.of = window.target /\ (x.right \/ r.raced)
        /\ \A x, y \in r.frames : x.trace = y.trace /\ x.kind = y.kind
=============================================================================
