------------------------------ MODULE OverlayDraw ------------------------------
(***************************************************************************)
(* The overlay inside a Direct3D 12 game: what its hooks do around the     *)
(* game's own Present, ResizeBuffers and SetColorSpace1 calls              *)
(* (src/overlay/integration/product_overlay_hook.cpp,                      *)
(* d3d12_color_transition.hpp) and what the renderer holds meanwhile       *)
(* (d3d12_bitmap_renderer.hpp).  Any thread of the game may make any of    *)
(* these calls; the game's call is always made, whatever the overlay finds.*)
(*                                                                         *)
(* The gate is used by the rules of DrawAdmission, which the gate's code   *)
(* implements (LifecycleGate).  The renderer has a second gate that only   *)
(* the holder of the first one uses; it adds nothing but broken.  Slots    *)
(* and fences are OverlayFrames' matter: here a frame is running or done.  *)
(*                                                                         *)
(* at[t]: "idle", in the game's own code;                                  *)
(*   "present"    in Render, asking to draw or preparing to;               *)
(*   "drawing", "recorded"  in Draw, before and after the commands;        *)
(*   "resize", "color"      asking for a transition, or draining;          *)
(*   "native"     in the game's call;                                      *)
(*   "after"      after it, with the transition still owned.               *)
(***************************************************************************)
EXTENDS Naturals

CONSTANTS
  Threads,    (* threads of the game                                       *)
  MaxRunning, (* kSlots, frames of ours the GPU may be busy with           *)
  Policies    (* ColorPolicy the session was started with                  *)

VARIABLES
  phase, closed,  (* the gate                                              *)
  at,
  job,          (* thread -> the call it makes: what, whether a transition *)
                (* is owned, drained, whether the chain was selected, how  *)
                (* the call went                                           *)
  selected,     (* selected_d12_chain is set                               *)
  initialized,
  observed,     (* observed_sdr                                            *)
  ambiguous,    (* binding.Ambiguous()                                     *)
  failed,       (* the hook's failed                                       *)
  broken,       (* the renderer's failed_                                  *)
  held,         (* the renderer holds buffers of the chain                 *)
  format,       (* the renderer's format_                                  *)
  chain,        (* the game's chain: its format, the colour space it had   *)
                (* when the hooks were installed, and the one it was told  *)
                (* to use since                                            *)
  running,      (* frames of ours the GPU has not finished                 *)
  policy

hook == <<selected, initialized, observed, ambiguous, failed>>
renderer == <<broken, held, format>>
gpu == <<chain, running>>
draw == <<phase, closed, at, job, hook, renderer, gpu, policy>>

Gate == INSTANCE DrawAdmission

(* QualifyBuffers takes 8-bit and 10-bit chains; anything else is refused. *)
Formats == {"8bit", "10bit", "other"}
Spaces == {"unset", "sdr", "pq"}
Real   == {"sdr", "pq"}
Kinds == {"none", "resize", "color"}

NoJob == [kind |-> "none", space |-> "unset", owned |-> FALSE, drained |-> FALSE,
          sel |-> FALSE, ok |-> FALSE]

TypeOK ==
  /\ Gate!TypeOK
  /\ at \in [Threads -> {"idle", "present", "drawing", "recorded", "resize", "color", "native", "after"}]
  /\ job \in [Threads -> [kind : Kinds, space : Spaces, owned : BOOLEAN, drained : BOOLEAN,
                      sel : BOOLEAN, ok : BOOLEAN]]
  /\ {selected, initialized, observed, ambiguous, failed, broken, held} \subseteq BOOLEAN
  /\ format \in Formats
  /\ chain \in [format : Formats, before : Real, told : Spaces]
  /\ running \in 0 .. MaxRunning
  /\ policy \in Policies

(* The hooks come while the game runs: its chain may have any format and   *)
(* any colour space, and no call tells which (product_overlay_hook.cpp).   *)
Init ==
  /\ Gate!Init
  /\ at = [t \in Threads |-> "idle"]
  /\ job = [t \in Threads |-> NoJob]
  /\ selected = FALSE /\ initialized = FALSE /\ observed = FALSE
  /\ ambiguous = FALSE /\ failed = FALSE
  /\ broken = FALSE /\ held = FALSE /\ format = "8bit"
  /\ chain \in [format : Formats, before : Real, told : {"unset"}]
  /\ running = 0
  /\ policy \in Policies

Go(t, place) == at' = [at EXCEPT ![t] = place]

-----------------------------------------------------------------------------
(* Present: Render, then the game's Present, which nothing here depends on.*)

(* Nothing to do once stopped, or while no queue is bound to the chain.    *)
Present(t) ==
  /\ at[t] = "idle"
  /\ ~failed /\ ~ambiguous
  /\ Gate!Ask(t)
  /\ Go(t, "present")
  /\ UNCHANGED <<job, hook, renderer, gpu, policy>>

PresentRefused(t) ==
  /\ at[t] = "present"
  /\ UNCHANGED closed
  /\ Gate!Refuse(t)
  /\ Go(t, "idle")
  /\ UNCHANGED <<job, hook, renderer, gpu, policy>>

PresentAdmitted(t) ==
  /\ at[t] = "present"
  /\ Gate!Enter(t) /\ phase'[t] = "drawing"
  /\ UNCHANGED <<at, job, hook, renderer, gpu, policy>>

(* Out of Render; the scope gives the gate back.                           *)
EndRender(t) == Gate!Leave(t) /\ Go(t, "idle")

(* 10-bit chains wait until the game has said that they are SDR.           *)
MayDraw(f, seen) == f # "10bit" \/ seen \/ policy = "assume"

(* The first draw selects the chain and initialises the renderer, if the   *)
(* output is seen to be SDR.  QualifyBuffers may fail after some of the    *)
(* buffers were taken.                                                     *)
Initialize(t) ==
  /\ at[t] = "present" /\ phase[t] = "drawing" /\ ~initialized
  /\ selected' = TRUE
  /\ \/ /\ chain.format # "other"
        /\ initialized' = TRUE
        /\ held' = TRUE
        /\ format' = chain.format
        /\ UNCHANGED <<broken, failed, at, phase, closed>>
     \/ /\ failed' = TRUE
        /\ \/ UNCHANGED renderer
           \/ broken' = TRUE /\ held' \in BOOLEAN /\ UNCHANGED format
        /\ EndRender(t)
        /\ UNCHANGED initialized
  /\ UNCHANGED <<job, observed, ambiguous, gpu, policy>>

AdmitColor(t) ==
  /\ at[t] = "present" /\ phase[t] = "drawing" /\ initialized
  /\ IF ~failed /\ MayDraw(format, observed)
       THEN Go(t, "drawing") /\ UNCHANGED <<phase, closed>>
       ELSE EndRender(t)
  /\ UNCHANGED <<job, hook, renderer, gpu, policy>>

(* Draw until the commands are recorded: a broken renderer draws nothing,  *)
(* a busy GPU costs a frame, a failed reset or a lost device is for good.  *)
Record(t) ==
  /\ at[t] = "drawing"
  /\ \/ /\ ~broken /\ running < MaxRunning
        /\ Go(t, "recorded")
        /\ UNCHANGED <<phase, closed, failed, broken>>
     \/ /\ ~broken /\ running = MaxRunning
        /\ EndRender(t)
        /\ UNCHANGED <<failed, broken>>
     \/ /\ broken' = TRUE /\ failed' = TRUE
        /\ EndRender(t)
  /\ UNCHANGED <<job, selected, initialized, observed, ambiguous, held, format, gpu, policy>>

(* The commands run; whether their fence can ever prove it is another      *)
(* matter.                                                                 *)
Submit(t) ==
  /\ at[t] = "recorded"
  /\ running' = running + 1
  /\ \/ UNCHANGED <<failed, broken>>
     \/ broken' = TRUE /\ failed' = TRUE
  /\ EndRender(t)
  /\ UNCHANGED <<job, selected, initialized, observed, ambiguous, held, format, chain, policy>>

-----------------------------------------------------------------------------
(* The game's transitions.                                                 *)

(* BeforeResize: wait for the frames of this generation, then let go of    *)
(* its buffers.  The wait may time out or prove nothing.                   *)
(* Mutant of Drained: the buffers go as soon as the wait begins.           *)
DrainedAtOnce == ~broken

Drained == ~broken /\ running = 0

BeforeResize(t, sel) ==
  \/ /\ ~initialized \/ ~sel
     /\ job' = [job EXCEPT ![t].drained = TRUE, ![t].sel = sel]
     /\ UNCHANGED <<broken, held>>
  \/ /\ initialized /\ sel
     /\ Drained
     /\ job' = [job EXCEPT ![t].drained = TRUE, ![t].sel = sel]
     /\ held' = FALSE
     /\ UNCHANGED broken
  \/ /\ initialized /\ sel
     /\ broken' = TRUE
     /\ job' = [job EXCEPT ![t].sel = sel]
     /\ UNCHANGED held

(* WithResize: a chain not yet selected is none of the overlay's business. *)
ResizeUnseen(t) ==
  /\ at[t] = "idle"
  /\ ~selected
  /\ Go(t, "native")
  /\ job' = [job EXCEPT ![t] = [NoJob EXCEPT !.kind = "resize"]]
  /\ UNCHANGED <<phase, closed, hook, renderer, gpu, policy>>

Resize(t) ==
  /\ at[t] = "idle"
  /\ selected
  /\ \/ Gate!Ask(t) /\ Go(t, "resize") /\ UNCHANGED failed
     \/ closed /\ failed' = TRUE /\ Go(t, "native") /\ UNCHANGED <<phase, closed>>
  /\ job' = [job EXCEPT ![t] = [NoJob EXCEPT !.kind = "resize", !.sel = TRUE]]
  /\ UNCHANGED <<selected, initialized, observed, ambiguous, renderer, gpu, policy>>

(* Refused for good: the game's call goes on without.                      *)
ResizeRefused(t) ==
  /\ at[t] = "resize"
  /\ closed' = TRUE
  /\ Gate!Refuse(t)
  /\ failed' = TRUE
  /\ Go(t, "native")
  /\ UNCHANGED <<job, selected, initialized, observed, ambiguous, renderer, gpu, policy>>

TransitionAdmitted(t) ==
  /\ at[t] \in {"resize", "color"}
  /\ Gate!Enter(t) /\ phase'[t] = "changing"
  /\ job' = [job EXCEPT ![t].owned = TRUE]
  /\ UNCHANGED <<at, hook, renderer, gpu, policy>>

DrainForResize(t) ==
  /\ at[t] = "resize" /\ phase[t] = "changing"
  /\ BeforeResize(t, TRUE)
  /\ failed' = (failed \/ ~job'[t].drained)
  /\ Go(t, "native")
  /\ UNCHANGED <<phase, closed, selected, initialized, observed, ambiguous, format, gpu, policy>>

(* ColorSpace; a setter on a chain not yet selected goes through the gate  *)
(* too.                                                                    *)
SetColor(t, space) ==
  /\ at[t] = "idle"
  /\ ~failed
  /\ \/ Gate!Ask(t) /\ Go(t, "color")
     \/ closed /\ Go(t, "native") /\ UNCHANGED <<phase, closed>>
  /\ job' = [job EXCEPT ![t] = [NoJob EXCEPT !.kind = "color", !.space = space]]
  /\ UNCHANGED <<hook, renderer, gpu, policy>>

(* Once the overlay has stopped, the game's setter is not looked at.       *)
SetColorUnseen(t, space) ==
  /\ at[t] = "idle"
  /\ failed
  /\ chain' \in {chain, [chain EXCEPT !.told = space]}
  /\ UNCHANGED <<phase, closed, at, job, hook, renderer, running, policy>>

ColorRefused(t) ==
  /\ at[t] = "color"
  /\ closed' = TRUE
  /\ Gate!Refuse(t)
  /\ Go(t, "native")
  /\ UNCHANGED <<job, hook, renderer, gpu, policy>>

(* BeforeColor: what was seen no longer counts.                            *)
DrainForColor(t) ==
  /\ at[t] = "color" /\ phase[t] = "changing"
  /\ BeforeResize(t, selected)
  /\ observed' = (observed /\ ~selected)
  /\ Go(t, "native")
  /\ UNCHANGED <<phase, closed, selected, initialized, ambiguous, failed, format, gpu, policy>>

(* Without a transition the hook has nothing left to do.                   *)
Returned(t, ok) == IF job[t].owned THEN [job[t] EXCEPT !.ok = ok] ELSE NoJob

(* The game's call returns.  A resize fails while anybody holds a buffer,  *)
(* and may bind other queues or set a colour space from within; a nested   *)
(* setter that fails, or sets anything but SDR, stops the overlay.         *)
Native(t) ==
  /\ at[t] = "native"
  /\ \/ /\ job[t].kind = "color"
        /\ \E ok \in BOOLEAN :
             /\ chain' = IF ok THEN [chain EXCEPT !.told = job[t].space] ELSE chain
             /\ job' = [job EXCEPT ![t] = Returned(t, ok)]
        /\ failed' = (failed \/ ~job[t].owned)
        /\ UNCHANGED ambiguous
     \/ /\ job[t].kind = "resize"
        /\ \E ok \in IF held THEN {FALSE} ELSE BOOLEAN,
              nested \in IF job[t].sel THEN {"none", "failed", "sdr", "pq"} ELSE {"none"} :
             /\ \E other \in IF ok THEN Formats ELSE {chain.format} :
                  chain' = [chain EXCEPT !.format = other,
                                         !.told = IF nested \in Spaces THEN nested ELSE @]
             /\ job' = [job EXCEPT ![t] = Returned(t, ok)]
             /\ failed' = (failed \/ nested \in {"failed", "pq"})
        /\ ambiguous' \in {ambiguous, ambiguous \/ job[t].sel}
  /\ Go(t, IF job[t].owned THEN "after" ELSE "idle")
  /\ UNCHANGED <<phase, closed, selected, initialized, observed, renderer, running, policy>>

(* AfterResize: the new buffers are taken, or the renderer is broken.      *)
Rebuild(valid) ==
  \/ /\ valid /\ ~broken /\ chain.format # "other"
     /\ held' = TRUE
     /\ format' = chain.format
     /\ UNCHANGED broken
  \/ /\ broken' = TRUE
     /\ held' \in IF valid THEN BOOLEAN ELSE {FALSE}
     /\ UNCHANGED format

(* EndTransition(FALSE) and Failure.                                       *)
Stop(t) ==
  /\ phase' = [phase EXCEPT ![t] = "out"]
  /\ closed' = TRUE
  /\ failed' = TRUE
  /\ Go(t, "idle")

Blocked == ambiguous \/ closed \/ failed

(* After a resize: the output is probed, the renderer rebuilt, and drawing *)
(* comes back only if both went well.                                      *)
AfterResize(t) ==
  /\ at[t] = "after" /\ job[t].kind = "resize"
  /\ \E sdr \in BOOLEAN :
       LET valid == job[t].drained /\ job[t].ok /\ ~Blocked /\ sdr IN
       /\ IF initialized /\ job[t].drained THEN Rebuild(valid) ELSE UNCHANGED renderer
       /\ IF valid /\ broken' = FALSE
            THEN EndRender(t) /\ UNCHANGED failed
            ELSE Stop(t)
  /\ job' = [job EXCEPT ![t] = NoJob]
  /\ UNCHANGED <<selected, initialized, observed, ambiguous, gpu, policy>>

(* AfterColor and AbortColor: only an SDR space that could be set on the   *)
(* selected chain becomes evidence.                                        *)
(* Mutant of Evidence: every colour space counts.                          *)
EvidenceOfAny(t) == job[t].sel

Evidence(t) == job[t].sel /\ job[t].space = "sdr"

AfterColor(t) ==
  /\ at[t] = "after" /\ job[t].kind = "color"
  /\ \E sdr \in BOOLEAN :
       LET legal == job[t].drained /\ job[t].ok /\ ~Blocked
                    /\ (Evidence(t) \/ (~job[t].sel /\ job[t].space = "sdr"))
           valid == legal /\ (sdr \/ ~job[t].sel)
       IN
       /\ IF job[t].sel /\ initialized /\ job[t].drained THEN Rebuild(valid) ELSE UNCHANGED renderer
       /\ IF valid /\ (job[t].sel => broken' = FALSE)
            THEN /\ EndRender(t)
                 /\ observed' = (observed \/ job[t].sel)
                 /\ UNCHANGED failed
            ELSE /\ Stop(t)
                 /\ observed' = FALSE
  /\ job' = [job EXCEPT ![t] = NoJob]
  /\ UNCHANGED <<selected, initialized, ambiguous, gpu, policy>>

-----------------------------------------------------------------------------
(* The rest of the world.                                                  *)

GpuFinishes ==
  /\ running > 0
  /\ running' = running - 1
  /\ UNCHANGED <<phase, closed, at, job, hook, renderer, chain, policy>>

(* A present on another queue, or one that redraws part of the window.     *)
Disqualified ==
  /\ \/ ambiguous' = TRUE /\ UNCHANGED failed
     \/ failed' = TRUE /\ UNCHANGED ambiguous
  /\ UNCHANGED <<phase, closed, at, job, selected, initialized, observed, renderer, gpu, policy>>

Next ==
  \/ \E t \in Threads :
       \/ Present(t) \/ PresentRefused(t) \/ PresentAdmitted(t)
       \/ Initialize(t) \/ AdmitColor(t) \/ Record(t) \/ Submit(t)
       \/ ResizeUnseen(t) \/ Resize(t) \/ ResizeRefused(t) \/ TransitionAdmitted(t) \/ DrainForResize(t)
       \/ \E space \in {"sdr", "pq"} : SetColor(t, space) \/ SetColorUnseen(t, space)
       \/ ColorRefused(t) \/ DrainForColor(t)
       \/ Native(t) \/ AfterResize(t) \/ AfterColor(t)
  \/ GpuFinishes
  \/ Disqualified

Spec == Init /\ [][Next]_draw

-----------------------------------------------------------------------------
(* When the game resizes the selected chain, the overlay holds none of its *)
(* buffers and runs no command on them, whatever other threads present,    *)
(* resize or recolour meanwhile (WithResize: the callback drained and      *)
(* released this generation).  A resize that was already under way when    *)
(* the chain was selected is not covered, nor one after the overlay broke  *)
(* or the gate was closed: the buffers a broken renderer holds stay held.  *)
ResizeUnhindered ==
  \A t \in Threads :
     at[t] = "native" /\ job[t].kind = "resize" /\ job[t].sel
       => broken \/ closed \/ (~held /\ running = 0)

(* What the chain's colours are.                                           *)
ColorSpace == IF chain.told = "unset" THEN chain.before ELSE chain.told

(* A frame that is about to run draws on an SDR chain, under the strict    *)
(* policy on a 10-bit one only if the game has declared it SDR since       *)
(* (product_overlay_hook.cpp: unknown SDR10 is a pending no-draw state),   *)
(* unless the overlay has been stopped while the frame was recorded.  One  *)
(* that was HDR before the hooks came, and that the game did not set       *)
(* since, is drawn on all the same if it is an 8-bit one or the policy is  *)
(* to assume: there is no call that would tell.                            *)
SdrOnly ==
  \A t \in Threads :
     at[t] = "recorded" =>
       LET evidence == format = "10bit" /\ policy = "strict"
       IN \/ failed \/ closed
          \/ ColorSpace = "sdr" /\ (evidence => chain.told = "sdr")
          \/ chain.told = "unset" /\ ~evidence
=============================================================================
