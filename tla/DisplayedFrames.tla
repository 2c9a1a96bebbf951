---------------------------- MODULE DisplayedFrames ----------------------------
(***************************************************************************)
(* Which presents of a program reached the screen.                         *)
(*                                                                         *)
(* DisplayCorrelator (fps/display_correlator.hpp) hears, from four         *)
(* providers, that a present began and returned, that the driver made a    *)
(* composition token for it, that the token is in a frame, discarded or    *)
(* taken up by DWM, that DWM flipped, queued the flip with a sequence      *)
(* number, and that the display showed that number.  Only the driver's     *)
(* token says nothing of the present it belongs to.  Tables are fixed and  *)
(* an entry lives for two seconds; whatever is ambiguous ends the          *)
(* correlation (MarkLost).                                                 *)
(*                                                                         *)
(* Beside it: the consumer thread of a trace (OnRecord, fps/dxgi_observer  *)
(* .cpp), and what really happens on the screen: presents of the target,   *)
(* the driver's tokens, frames, DWM's updates and flips, and the display.  *)
(* The trace may begin in the middle of it.  The callback is one step: no  *)
(* other thread touches the correlator.                                    *)
(*                                                                         *)
(* A present, its token and a flip are named by numbers that grow with     *)
(* time: they stand for the serials and for the time stamps that the code  *)
(* compares.  old marks an entry of more than two seconds.                 *)
(***************************************************************************)
EXTENDS Integers, Sequences, FiniteSets, FiniteSetsExt, Functions

CONSTANTS
  Threads,      (* threads of the target that present                      *)
  Room,         (* entries in each of the tables                           *)
  Surfaces,     (* 1 .. n                                                  *)
  MaxPresents,  (* bound: presents                                         *)
  MaxFlips,     (* bound: flips of DWM                                     *)
  MaxMishaps    (* bound: gaps of two seconds, restarts of DWM, and a      *)
                (* trace that begins in the middle of something            *)

VARIABLES
  real,       (* present -> what the program and the compositor did with it *)
  flips,      (* DWM flip -> "flipped", "queued", "shown"                  *)
  dwm,        (* DWM's thread, and whether it has scheduled its next flip  *)
  mishaps,    (* bound: how many there were                                *)
  on,         (* the trace has begun                                       *)
  whole,      (* the trace began with no present waiting for its token and *)
              (* no flip scheduled, and none waited for two seconds since  *)
  correlator, (* its tables                                              *)
  direct,     (* PresentPath: the target's frames go past DWM              *)
  counted     (* the frames that were given to the rate tracker            *)

screen == <<real, flips, dwm, mishaps>>
session == <<on, whole, correlator, direct, counted>>
vars == <<screen, session>>

-----------------------------------------------------------------------------
(* The correlator: its tables before and after an event.                   *)
NoSurface == 0

Fresh ==
  [healthy |-> TRUE,
   cands |-> <<>>,     (* present -> candidate                             *)
   tokens |-> <<>>,    (* token -> what is known of it                     *)
   frames |-> <<>>,    (* DWM flip -> its tokens and sequence number       *)
   calls |-> [th \in Threads |-> 0],
   waiting |-> <<>>,
   dwm |-> 0]

Lost == [Fresh EXCEPT !.healthy = FALSE]

Put(table, x, entry) ==
  [y \in DOMAIN table \cup {x} |-> IF y = x THEN entry ELSE table[y]]

Without(table, x) == Restrict(table, DOMAIN table \ {x})

Full(table) == Cardinality(DOMAIN table) = Room

Young(table) == Restrict(table, {x \in DOMAIN table : ~table[x].old})

Expire(c) ==
  [c EXCEPT !.cands = Young(@), !.tokens = Young(@), !.frames = Young(@)]

Aged(table) == [x \in DOMAIN table |-> [table[x] EXCEPT !.old = TRUE]]

(* Two seconds pass; nothing is dropped before the next event that looks.  *)
Older(c) == [c EXCEPT !.cands = Aged(@), !.tokens = Aged(@), !.frames = Aged(@)]

-----------------------------------------------------------------------------
PresentStart(c, th, p, surface) ==
  LET e == Expire(c)
      cand == [surface |-> surface, done |-> FALSE, claimed |-> 0, old |-> FALSE]
  IN  IF e.calls[th] # 0 \/ Full(e.cands)
        THEN Lost
        ELSE [e EXCEPT !.cands = Put(@, p, cand), !.calls[th] = p]

PresentStop(c, th, succeeded) ==
  LET p == c.calls[th]
      ended == [c EXCEPT !.calls[th] = 0]
      token == c.cands[p].claimed
  IN  IF p = 0 THEN c
      ELSE IF p \notin DOMAIN c.cands THEN Lost
      ELSE IF token # 0
             THEN [ended EXCEPT !.cands = Without(@, p),
                                !.tokens = IF token \in DOMAIN @
                                             THEN [@ EXCEPT ![token].accepted = succeeded]
                                             ELSE @]
      ELSE IF succeeded THEN [ended EXCEPT !.cands[p].done = TRUE]
      ELSE [ended EXCEPT !.cands = Without(@, p)]

(* The token goes to the oldest present that has none, and only if every   *)
(* present it could belong to is on one surface.                           *)
Token(c, k) ==
  LET e == Expire(c)
      open == {p \in DOMAIN e.cands : e.cands[p].claimed = 0}
      p == Min(open)
      token(surface, accepted) ==
        [surface |-> surface, accepted |-> accepted, inFrame |-> FALSE, scheduled |-> FALSE,
         discarded |-> FALSE, displayed |-> FALSE, old |-> FALSE]
  IN  IF Full(e.tokens) \/ Cardinality({e.cands[q].surface : q \in open}) > 1
        THEN Lost
      ELSE IF open = {}
        THEN [e EXCEPT !.tokens = Put(@, k, token(NoSurface, FALSE))]
        ELSE [e EXCEPT !.tokens = Put(@, k, token(e.cands[p].surface, e.cands[p].done)),
                       !.cands = IF e.cands[p].done THEN Without(@, p)
                                                    ELSE [@ EXCEPT ![p].claimed = k]]

InFrame(c, k) == IF k \in DOMAIN c.tokens THEN [c EXCEPT !.tokens[k].inFrame = TRUE] ELSE c

Discard(c, k) == IF k \in DOMAIN c.tokens THEN [c EXCEPT !.tokens[k].discarded = TRUE] ELSE c

SurfaceUpdate(c, k) ==
  IF k \notin DOMAIN c.tokens \/ ~c.tokens[k].inFrame \/ c.tokens[k].scheduled THEN c
  ELSE IF Len(c.waiting) = Room THEN Lost
  ELSE [c EXCEPT !.tokens[k].scheduled = TRUE, !.waiting = Append(@, k)]

SetDwmThread(c, th) ==
  IF c.dwm \notin {0, th} /\ (c.waiting # <<>> \/ c.frames # <<>>)
    THEN Lost
    ELSE [c EXCEPT !.dwm = th]

DwmFlip(c, th, f) ==
  LET e == Expire(c)
      frame == [tokens |-> c.waiting, sequence |-> 0, old |-> FALSE]
  IN  IF th # c.dwm THEN c
      ELSE IF Full(e.frames) THEN Lost
      ELSE [e EXCEPT !.frames = Put(@, f, frame), !.waiting = <<>>]

DwmQueue(c, th, sequence) ==
  LET unqueued == {f \in DOMAIN c.frames : c.frames[f].sequence = 0}
  IN  IF th # c.dwm \/ unqueued = {} THEN c
      ELSE [c EXCEPT !.frames[Min(unqueued)].sequence = sequence]

-----------------------------------------------------------------------------
(* OnVSync: the tokens of the flip that was shown, once each, and of       *)
(* several updates of one surface the newest.                              *)

Queued(c, sequence) == {f \in DOMAIN c.frames : c.frames[f].sequence = sequence}

Visible(c, k) ==
  /\ k \in DOMAIN c.tokens
  /\ c.tokens[k].accepted /\ ~c.tokens[k].discarded
  /\ c.tokens[k].surface # NoSurface

Superseded(c, tokens, i) ==
  \E j \in i + 1 .. Len(tokens) :
    /\ tokens[j] \in DOMAIN c.tokens
    /\ LET newer == c.tokens[tokens[j]]
       IN  newer.accepted /\ ~newer.discarded /\ newer.surface = c.tokens[tokens[i]].surface

MarkDisplayed(table, shown) ==
  [k \in DOMAIN table |-> [table[k] EXCEPT !.displayed = @ \/ k \in shown]]

VSync(c, sequence) ==
  LET f == CHOOSE g \in Queued(c, sequence) : TRUE
      shown == {k \in Range(c.frames[f].tokens) : Visible(c, k)}
  IN  IF Queued(c, sequence) = {} THEN c
      ELSE [c EXCEPT !.frames = Without(@, f),
                     !.tokens = MarkDisplayed(@, shown)]

Displayed(c, sequence) ==
  LET f == CHOOSE g \in Queued(c, sequence) : TRUE
      tokens == c.frames[f].tokens
  IN  IF Queued(c, sequence) = {} THEN {}
      ELSE {tokens[i] : i \in {j \in DOMAIN tokens :
              /\ Visible(c, tokens[j]) /\ ~c.tokens[tokens[j]].displayed
              /\ ~Superseded(c, tokens, j)}}

-----------------------------------------------------------------------------
(* The screen and the consumer.                                            *)
Presents == 1 .. MaxPresents

TypeOK ==
  /\ DOMAIN real \subseteq Presents /\ Len(flips) <= MaxFlips
  /\ \A p \in DOMAIN real :
       /\ real[p].call \in {"in", "ok", "failed"}
       /\ real[p].token \in {"none", "made", "framed", "direct", "updated", "taken", "dead"}
       /\ real[p].flip \in 0 .. Len(flips)
  /\ Cardinality(DOMAIN correlator.cands) <= Room /\ Cardinality(DOMAIN correlator.tokens) <= Room
  /\ Cardinality(DOMAIN correlator.frames) <= Room /\ Len(correlator.waiting) <= Room
  /\ counted \subseteq [present : Presents, flip : 1 .. MaxFlips, surface : Surfaces]

Init ==
  /\ real = <<>> /\ flips = <<>> /\ mishaps = 0
  /\ dwm \in [thread : {1}, scheduled : BOOLEAN]
  /\ on = FALSE /\ whole = TRUE /\ correlator = Fresh /\ direct = FALSE
  /\ counted = {}

(* One of the events that a bound is set to.                               *)
Mishap == mishaps < MaxMishaps /\ mishaps' = mishaps + 1

Pending(p) == real[p].token = "none" /\ real[p].call # "failed"

(* ProcessTrace delivers from now on.  Of what went before only presents   *)
(* whose tokens are still to come matter, and the schedule of the flip.    *)
TraceBegins ==
  /\ ~on /\ on' = TRUE
  /\ whole' = ~(dwm.scheduled \/ \E p \in DOMAIN real : Pending(p))
  /\ IF whole' THEN UNCHANGED mishaps ELSE Mishap
  /\ UNCHANGED <<real, flips, dwm, correlator, direct, counted>>

(* What the callback makes of an event, unless the correlation has failed. *)
Hears == on /\ correlator.healthy

Heard(heard) ==
  /\ correlator' = IF Hears THEN heard ELSE correlator
  /\ UNCHANGED <<on, whole, direct, counted>>

-----------------------------------------------------------------------------
(* Surfaces are numbered in the order in which they come up.               *)
Known == {real[p].surface : p \in DOMAIN real}

Present(th, s) ==
  LET p == Len(real) + 1
  IN  /\ p \in Presents
      /\ s <= Cardinality(Known) + 1
      /\ ~\E q \in DOMAIN real : real[q].thread = th /\ real[q].call = "in"
      /\ real' = Append(real, [thread |-> th, surface |-> s, call |-> "in",
                               token |-> "none", flip |-> 0])
      /\ Heard(PresentStart(correlator, th, p, s))
      /\ UNCHANGED <<flips, dwm, mishaps>>

(* A present that fails had no part in a frame.                            *)
Return(p, result) ==
  /\ on /\ real[p].call = "in"
  /\ result = "failed" => real[p].token \in {"none", "made"}
  /\ real' = [real EXCEPT ![p].call = result,
                          ![p].token = IF result = "failed" /\ @ # "none" THEN "dead" ELSE @]
  /\ Heard(PresentStop(correlator, real[p].thread, result = "ok"))
  /\ UNCHANGED <<flips, dwm, mishaps>>

(* The driver's tokens follow the presents of a surface in their order.    *)
MakeToken(p) ==
  /\ on /\ Pending(p)
  /\ \A q \in 1 .. p - 1 : real[q].surface = real[p].surface => ~Pending(q)
  /\ real' = [real EXCEPT ![p].token = "made"]
  /\ Heard(Token(correlator, p))
  /\ UNCHANGED <<flips, dwm, mishaps>>

(* Only the surfaces of tokens that were heard are known for the target's. *)
Forwards(p, independent) == ~(independent /\ p \in DOMAIN correlator.tokens)

(* InFrame: the target's latest frame decides which way they go.           *)
EnterFrame(p, independent) ==
  /\ real[p].token = "made"
  /\ real' = [real EXCEPT ![p].token = IF independent THEN "direct" ELSE "framed"]
  /\ IF Hears
       THEN /\ direct' = IF p \in DOMAIN correlator.tokens THEN independent ELSE direct
            /\ correlator' = IF Forwards(p, independent) THEN InFrame(correlator, p) ELSE correlator
       ELSE UNCHANGED <<direct, correlator>>
  /\ UNCHANGED <<flips, dwm, mishaps, on, whole, counted>>

DiscardToken(p) ==
  /\ real[p].token \in {"made", "framed", "direct"}
  /\ real' = [real EXCEPT ![p].token = "dead"]
  /\ Heard(Discard(correlator, p))
  /\ UNCHANGED <<flips, dwm, mishaps>>

(* DWM reports an update for a frame that goes past it, too.               *)
Update(p) ==
  /\ real[p].token \in {"framed", "direct"}
  /\ real' = [real EXCEPT ![p].token = IF @ = "framed" THEN "updated" ELSE "taken"]
  /\ Heard(SurfaceUpdate(correlator, p))
  /\ UNCHANGED <<flips, dwm, mishaps>>

(* DWM's thread says that it schedules a flip, flips, and queues the flip  *)
(* before it makes the next.                                               *)
Schedule ==
  /\ on /\ ~dwm.scheduled
  /\ dwm' = [dwm EXCEPT !.scheduled = TRUE]
  /\ Heard(SetDwmThread(correlator, dwm.thread))
  /\ UNCHANGED <<real, flips, mishaps>>

Flip ==
  /\ on /\ dwm.scheduled /\ Len(flips) < MaxFlips
  /\ \A f \in DOMAIN flips : flips[f] # "flipped"
  /\ LET f == Len(flips) + 1
     IN  /\ flips' = Append(flips, "flipped")
         /\ real' = [p \in DOMAIN real |->
              IF real[p].token = "updated" THEN [real[p] EXCEPT !.token = "taken", !.flip = f]
                                           ELSE real[p]]
         /\ Heard(DwmFlip(correlator, dwm.thread, f))
  /\ dwm' = [dwm EXCEPT !.scheduled = FALSE]
  /\ UNCHANGED mishaps

Queue(f) ==
  /\ flips[f] = "flipped"
  /\ flips' = [flips EXCEPT ![f] = "queued"]
  /\ Heard(DwmQueue(correlator, dwm.thread, f))
  /\ UNCHANGED <<real, dwm, mishaps>>

(* Pop and RecordDisplayed, while the target's frames go through DWM.      *)
Show(f) ==
  /\ flips[f] = "queued"
  /\ flips' = [flips EXCEPT ![f] = "shown"]
  /\ correlator' = IF Hears THEN VSync(correlator, f) ELSE correlator
  /\ counted' = counted \cup
       {[present |-> k, flip |-> f, surface |-> correlator.tokens[k].surface] :
          k \in IF Hears /\ ~direct THEN Displayed(correlator, f) ELSE {}}
  /\ UNCHANGED <<real, dwm, mishaps, on, whole, direct>>

(* DWM's process ended and came back.                                      *)
DwmRestarts ==
  /\ on /\ Mishap
  /\ dwm' = [thread |-> 2, scheduled |-> FALSE]
  /\ \A f \in DOMAIN flips : flips[f] # "flipped"
  /\ UNCHANGED <<real, flips, session>>

Gap ==
  /\ on /\ Mishap
  /\ correlator' = Older(correlator)
  /\ whole' = (whole /\ ~\E p \in DOMAIN real : Pending(p))
  /\ UNCHANGED <<real, flips, dwm, on, direct, counted>>

Next ==
  \/ TraceBegins
  \/ \E th \in Threads, s \in Surfaces : Present(th, s)
  \/ \E p \in DOMAIN real :
       \/ \E result \in {"ok", "failed"} : Return(p, result)
       \/ MakeToken(p)
       \/ \E independent \in BOOLEAN : EnterFrame(p, independent)
       \/ DiscardToken(p)
       \/ Update(p)
  \/ Schedule \/ Flip
  \/ \E f \in DOMAIN flips : Queue(f) \/ Show(f)
  \/ DwmRestarts \/ Gap

Spec == Init /\ [][Next]_vars

-----------------------------------------------------------------------------
(* A counted frame was on the screen: the flip that was displayed held the *)
(* image of this present, on the surface it is counted for; one image of a *)
(* surface in a flip and no present twice (DisplayCorrelator: it does not  *)
(* infer display from a Present call, DWM schedule, or global VSync alone).*)
(* After a trace that began between a present and its token or between     *)
(* DWM's schedule and its flip, or a token that came two seconds late,     *)
(* only that much is claimed: the image had been flipped by then.          *)
FlipsPaired ==
  /\ \A x \in counted :
       /\ real[x.present].flip \in 1 .. x.flip
       /\ real[x.present].call # "failed"
       /\ whole => real[x.present].flip = x.flip /\ real[x.present].surface = x.surface
  /\ \A x, y \in counted :
       x # y => x.present # y.present /\ <<x.flip, x.surface>> # <<y.flip, y.surface>>
=============================================================================
