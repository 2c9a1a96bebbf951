--------------------------- MODULE FrameRateWindow ---------------------------
(***************************************************************************)
(* The rate of the program in front, as RateTracker (fps/fps_rate.hpp)     *)
(* makes it from two streams of one trace: the frames Windows confirmed on *)
(* a composition surface ("displayed") and the presents the kernel saw on  *)
(* a window ("presented").  Displayed frames win unless they are sparse,   *)
(* a change of the measure begins a new window, frames are kept per        *)
(* surface in short rings, and a reading is made from the latest event     *)
(* only where one surface clearly leads.  Events of a trace come in the    *)
(* order of their timestamps; the clock of a reset and of a reading may be *)
(* ahead of them.                                                          *)
(***************************************************************************)
EXTENDS Integers, Sequences, SequencesExt, FiniteSets, FiniteSetsExt

CONSTANTS
  Programs,                      (* the programs that come to the front    *)
  Surfaces, Windows,             (* what a program shows frames on         *)
  Span,                          (* kWindowUs                              *)
  Stale, Hold, Gap,              (* kSurfaceStaleUs, kBufferHoldUs, kSparseDisplayedGapUs *)
  SparsePresents, RecoveryRun,   (* kSparseDisplayedPresents, kDisplayedRecoveryRun *)
  MinSpan, MinSamples,           (* kMinMeasuredSpanUs, kMinMeasuredSamples*)
  FrameCapacity, SurfaceCapacity,
  MaxTime, MaxFrames, MaxResets  (* bounds of the model                    *)

VARIABLES
  target,     (* the program being measured                                *)
  now,        (* the timestamp of the newest event                         *)
  measure,    (* measure_: which stream the window holds                   *)
  lastShown,  (* last_displayed_us_, 0 for none                            *)
  presents,   (* presents_since_displayed_                                 *)
  denseRun,   (* dense_displayed_run_                                      *)
  sparse,     (* displayed_sparse_                                         *)
  window,     (* surfaces_, window_started_us_ and when a surface found no *)
              (* room (0: none did)                                        *)
  seen,       (* observer: the frames that were to count, of this session  *)
  frames, resets

vars == <<target, now, measure, lastShown, presents, denseRun, sparse, window, seen, frames, resets>>

Opened(at) == [slots |-> <<>>, lost |-> 0, started |-> at]

Init ==
  /\ target \in Programs
  /\ now = 1 /\ measure = "displayed" /\ lastShown = 0
  /\ presents = 0 /\ denseRun = 0 /\ sparse = FALSE
  /\ window = Opened(1) /\ seen = {}
  /\ frames = 0 /\ resets = 0

-----------------------------------------------------------------------------
(* The rings of frame times, one per surface.                              *)

LastOf(slots, key) == Last(slots[key].times)

Push(slots, key) ==
  LET ring == IF key \in DOMAIN slots THEN slots[key] ELSE [times |-> <<>>, wrapped |-> FALSE]
      full == Len(ring.times) = FrameCapacity
      kept == IF full THEN Tail(ring.times) ELSE ring.times
  IN [k \in DOMAIN slots \cup {key} |->
        IF k = key THEN [times |-> Append(kept, now), wrapped |-> ring.wrapped \/ full]
        ELSE slots[k]]

Forget(slots, key) == [k \in DOMAIN slots \ {key} |-> slots[k]]

(* A surface keeps its ring, takes a free one, or takes that of the        *)
(* surface stale for longest.  Otherwise its frames go uncounted.          *)
Stored(w, key) ==
  LET held  == DOMAIN w.slots
      stale == {k \in held : now - LastOf(w.slots, k) > Stale}
      first == {k \in stale : \A other \in stale : LastOf(w.slots, k) <= LastOf(w.slots, other)}
  IN IF key \in held \/ Cardinality(held) < SurfaceCapacity
     THEN {[w EXCEPT !.slots = Push(@, key)]}
     ELSE IF stale # {}
     THEN {[w EXCEPT !.slots = Push(Forget(@, k), key)] : k \in first}
     ELSE {[w EXCEPT !.lost = now]}

ForMeasureKept(kind) == window

(* A change of the measure begins a new window, and so does a frame long   *)
(* after one found no room when no other surface is alive.                 *)
ForMeasure(kind) == IF kind = measure THEN window ELSE Opened(now)

Recovered(w, key) ==
  LET others == {k \in DOMAIN w.slots \ {key} : now - LastOf(w.slots, k) <= Stale}
  IN IF w.lost # 0 /\ now - w.lost > Stale /\ others = {} THEN Opened(now) ELSE w

Counted(key, kind) ==
  /\ window' \in Stored(Recovered(ForMeasure(kind), key), key)
  /\ measure' = kind
  /\ LET same == {f \in seen : f.key = key /\ f.at = now}
     IN seen' = {f \in seen : f.at >= now - Span}
                  \cup {[key |-> key, at |-> now, kind |-> kind, nth |-> Cardinality(same) + 1]}

Uncounted == UNCHANGED <<window, measure, seen>>

Arrives == frames < MaxFrames /\ frames' = frames + 1 /\ UNCHANGED <<target, now, resets>>

(* A frame from before the window is not looked at.                        *)
Early ==
  /\ Arrives /\ now < window.started
  /\ Uncounted /\ UNCHANGED <<lastShown, presents, denseRun, sparse>>

(* A present does not count while a displayed frame is recent, unless the  *)
(* displayed stream has a long gap with presents in it.                    *)
RecordPresented(key) ==
  LET follows == lastShown # 0
      misses  == follows /\ ~sparse /\ now - lastShown > Gap /\ presents + 1 >= SparsePresents
  IN /\ Arrives /\ now >= window.started
     /\ presents' = IF follows THEN presents + 1 ELSE presents
     /\ sparse' = (sparse \/ misses)
     /\ denseRun' = IF misses THEN 0 ELSE denseRun
     /\ UNCHANGED lastShown
     /\ IF ~sparse' /\ follows /\ now - lastShown <= Stale
        THEN Uncounted ELSE Counted(key, "presented")

(* Once sparse, displayed frames win again only after a run of dense ones. *)
RecordDisplayed(key) ==
  LET dense == lastShown = 0 \/ now - lastShown <= Gap \/ presents < SparsePresents
      run   == IF dense THEN denseRun + 1 ELSE 0
      wins  == ~sparse \/ run >= RecoveryRun
  IN /\ Arrives /\ now >= window.started
     /\ lastShown' = now /\ presents' = 0
     /\ sparse' = ~wins
     /\ denseRun' = IF ~sparse THEN denseRun ELSE IF wins THEN 0 ELSE run
     /\ IF wins THEN Counted(key, "displayed") ELSE Uncounted

(* Events were lost, or the session ended: counting begins again at a      *)
(* clock that may be ahead of the events still to come.                    *)
MarkLost ==
  /\ resets < MaxResets /\ resets' = resets + 1
  /\ \E ahead \in 0 .. 1 : window' = Opened(now + ahead)
  /\ UNCHANGED <<target, now, measure, lastShown, presents, denseRun, sparse, seen, frames>>

(* A session starts: what was known of the streams goes with the program   *)
(* it was known of, and old frames are never used again.                   *)
StartSession(program) ==
  /\ resets < MaxResets /\ resets' = resets + 1
  /\ target' = program
  /\ window' = Opened(now) /\ seen' = {}
  /\ IF program = target THEN UNCHANGED <<measure, lastShown, presents, denseRun, sparse>>
     ELSE /\ measure' = "displayed" /\ lastShown' = 0
          /\ presents' = 0 /\ denseRun' = 0 /\ sparse' = FALSE
  /\ UNCHANGED <<now, frames>>

TimePasses ==
  /\ now < MaxTime /\ now' = now + 1
  /\ UNCHANGED <<target, measure, lastShown, presents, denseRun, sparse, window, seen, frames, resets>>

Next ==
  \/ Early \/ MarkLost \/ TimePasses
  \/ \E key \in Windows : RecordPresented(key)
  \/ \E key \in Surfaces : RecordDisplayed(key)
  \/ \E program \in Programs : StartSession(program)

Spec == Init /\ [][Next]_vars

-----------------------------------------------------------------------------
(* The reading.                                                            *)

Latest == Max({0} \cup {LastOf(window.slots, k) : k \in DOMAIN window.slots})
Cutoff == IF Latest > Span THEN Latest - Span ELSE 0
InSpan(key) == SelectSeq(window.slots[key].times, LAMBDA t : t >= Cutoff)
CountOf(key) == Len(InSpan(key))

(* A ring that overwrote a frame of the span counts too few.               *)
Truncated(key) == window.slots[key].wrapped /\ Head(window.slots[key].times) > Cutoff

Leads(key) ==
  /\ CountOf(key) > 0 /\ ~Truncated(key)
  /\ \A other \in DOMAIN window.slots \ {key} : 2 * CountOf(other) <= CountOf(key)

(* Enough frames, over enough time or enough of them.                      *)
Measured(key) ==
  LET times == InSpan(key)
      long  == Last(times) - Head(times)
  IN /\ Len(times) >= 2 /\ long > 0
     /\ (long >= MinSpan \/ Len(times) >= MinSamples)

Ready(clock, key) ==
  /\ window.lost = 0
  /\ clock - window.started >= Span
  /\ Latest # 0 /\ Latest <= clock /\ clock - Latest <= Hold
  /\ Leads(key) /\ Measured(key)

(* A rate that is shown is that of the frames: from the first to the last  *)
(* of those it is made from every frame the surface showed was counted,    *)
(* all of the one measure it is labelled with, and no other surface, one   *)
(* that found no room or lost its ring included, showed more than half as  *)
(* many since the window began.                                            *)
Between(from, to) == {f \in seen : f.at > from /\ f.at <= to}
OfKey(key, from, to) == {f \in Between(from, to) : f.key = key}

RateIsOfTheFrames ==
  \A key \in DOMAIN window.slots : \A clock \in now .. now + Hold :
    Ready(clock, key) =>
      LET times == InSpan(key)
          began == Max({Cutoff, window.started})
      IN /\ Cardinality(OfKey(key, Head(times), Last(times))) <= Len(times) - 1
         /\ Len(times) <= Cardinality(OfKey(key, Head(times) - 1, Last(times)))
         /\ \A f \in Between(Head(times), Last(times)) : f.kind = measure
         /\ \A other \in (Surfaces \cup Windows) \ {key} :
              2 * Cardinality(OfKey(other, began, Latest)) <= Len(times)
=============================================================================
