-------------------------- MODULE FrameRateHistory --------------------------
(***************************************************************************)
(* The curve of the frame rate (fps/fps_history.hpp): one sample for every *)
(* refresh (tray/main_dialog.cpp, OnTimer), with a value only when the     *)
(* reading is of the program in front, and the strokes that join them.     *)
(* The reading is what the observer last published, so it may still be of  *)
(* the program before.  A rate is abstracted to being there or not.        *)
(***************************************************************************)
EXTENDS Integers, Sequences, SequencesExt, FiniteSets

CONSTANTS
  Programs, Surfaces, None,
  Retained, MaxSamples,   (* kRetainedDurationMs and kMaxSamples           *)
  Near,                   (* how far apart samples may be joined           *)
  MaxTime                 (* bound of the model                            *)

VARIABLES
  enabled,   (* show_fps_                                                  *)
  now,       (* the clock of the refresh                                   *)
  samples    (* samples_: [at, program, surface, measured]                 *)

vars == <<enabled, now, samples>>

Init == enabled \in BOOLEAN /\ now = 0 /\ samples = <<>>

(* What the observer last published: a rate always has a surface.          *)
Snapshots ==
  [program : Programs, surface : Surfaces, ready : BOOLEAN]
  \cup [program : Programs \cup {None}, surface : {None}, ready : {FALSE}]

(* OnTimer keeps the reading only if it is of the program in front, and    *)
(* Record the value only if it is stable.                                  *)
SampleOf(front, snapshot) ==
  LET matched == front # None /\ snapshot.program = front
  IN [at |-> now, program |-> front,
      surface  |-> IF matched THEN snapshot.surface ELSE None,
      measured |-> matched /\ snapshot.ready]

(* Old samples go, and samples over the capacity.                          *)
Retain(ss) ==
  LET late == SelectSeq(ss, LAMBDA s : now - s.at <= Retained)
      over == Len(late) - MaxSamples
  IN IF over > 0 THEN SubSeq(late, over + 1, Len(late)) ELSE late

(* Two refreshes in one instant leave one sample.                          *)
Record(sample) ==
  samples' = Retain(IF samples # <<>> /\ Last(samples).at = now
                    THEN Append(Front(samples), sample)
                    ELSE Append(samples, sample))

Refresh ==
  /\ enabled
  /\ \E sample \in {SampleOf(front, snapshot) : front \in Programs \cup {None},
                                                snapshot \in Snapshots} : Record(sample)
  /\ UNCHANGED <<enabled, now>>

TimePasses == now < MaxTime /\ \E d \in 1 .. 2 : now' = now + d /\ UNCHANGED <<enabled, samples>>

(* FPS switched off: the curve goes.                                       *)
Toggle ==
  /\ enabled' = ~enabled
  /\ samples' = IF enabled THEN <<>> ELSE samples
  /\ UNCHANGED now

Next == Refresh \/ TimePasses \/ Toggle

Spec == Init /\ [][Next]_vars

-----------------------------------------------------------------------------
(* ForEachHistoryStroke: one pass over the samples of the span, which      *)
(* remembers the last one with a value, the last one without since, and    *)
(* whether there was one.                                                  *)
CanConnect(older, newer) ==
  /\ older.measured /\ newer.measured
  /\ older.program = newer.program /\ older.surface = newer.surface
  /\ newer.at > older.at /\ newer.at - older.at <= Near

Stroke(from, to, dim) == [from |-> from, to |-> to, dim |-> dim]

PassUnmarked(state, s) ==
  IF ~s.measured THEN state
  ELSE [strokes  |-> IF state.previous = <<>> THEN <<>>
                     ELSE Append(state.strokes, Stroke(state.previous[1], s, FALSE)),
        previous |-> <<s>>, trailing |-> <<>>, gap |-> FALSE]

Pass(state, s) ==
  IF ~s.measured
  THEN IF state.previous = <<>> THEN state
       ELSE [state EXCEPT !.gap = TRUE, !.trailing = <<s>>]
  ELSE LET joins  == state.previous # <<>> /\ s.at > state.previous[1].at
           stroke == Stroke(state.previous[1], s,
                            state.gap \/ ~CanConnect(state.previous[1], s))
       IN [strokes  |-> IF joins THEN Append(state.strokes, stroke) ELSE state.strokes,
           previous |-> <<s>>, trailing |-> <<>>, gap |-> FALSE]

Strokes(start, end) ==
  LET inSpan == SelectSeq(samples, LAMBDA s : s.at >= start /\ s.at <= end)
      last   == FoldLeft(Pass, [strokes |-> <<>>, previous |-> <<>>, trailing |-> <<>>,
                                gap |-> FALSE], inSpan)
      tail   == last.trailing # <<>> /\ last.trailing[1].at > last.previous[1].at
  IN IF tail THEN Append(last.strokes, Stroke(last.previous[1], last.trailing[1], TRUE))
     ELSE last.strokes

(* No stroke implies a rate that was not measured: a full stroke joins two *)
(* samples with a value that stand next to each other, are near, and are   *)
(* of one surface of one program, and every such pair is joined by one.    *)
(* What lies between two other values, or after the last one, is bridged   *)
(* by one dim stroke.                                                      *)
Neighbours(start, end) ==
  {i \in 1 .. Len(samples) - 1 : samples[i].at >= start /\ samples[i + 1].at <= end}

CurveIsMeasured ==
  \A start \in 0 .. now : \A end \in start .. now :
    LET strokes == ToSet(Strokes(start, end))
        full    == {s \in strokes : ~s.dim}
        joined  == {i \in Neighbours(start, end) :
                      /\ samples[i].measured /\ samples[i + 1].measured
                      /\ samples[i].program = samples[i + 1].program
                      /\ samples[i].surface = samples[i + 1].surface
                      /\ samples[i + 1].at - samples[i].at <= Near}
    IN /\ full = {Stroke(samples[i], samples[i + 1], FALSE) : i \in joined}
       /\ \A i \in Neighbours(start, end) :
            (\E j \in 1 .. i : samples[j].at >= start /\ samples[j].measured)
            => Cardinality({s \in strokes : s.from.at <= samples[i].at
                                            /\ s.to.at >= samples[i + 1].at}) = 1

(* The curve is in order and bounded, and is gone when FPS is off.         *)
CurveIsKept ==
  /\ ~enabled => samples = <<>>
  /\ Len(samples) <= MaxSamples
  /\ \A i \in 1 .. Len(samples) - 1 : samples[i].at < samples[i + 1].at
=============================================================================
