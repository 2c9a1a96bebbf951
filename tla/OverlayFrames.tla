----------------------------- MODULE OverlayFrames -----------------------------
(***************************************************************************)
(* The overlay's own Direct3D 12 objects and the GPU that may still be     *)
(* using them: command list slots (d3d12_slots.hpp), the private fence and *)
(* its retirement (d3d12_frame_resources.hpp, d3d12_transition_wait.hpp),  *)
(* the textures and their descriptors (probe/d3d12_texture.hpp), as        *)
(* D3d12BitmapRenderer uses them.  One caller at a time: the gate of       *)
(* module LifecycleGate.  Nothing here waits for the GPU except a          *)
(* transition, and that one may wait in vain.                              *)
(*                                                                         *)
(* at: "idle"; "begun", "framed", "staged", "ready" in Draw: after         *)
(* TryBegin, BeginFrame, Stage and Acquire; "draining", "drained" between  *)
(* the wait of BeforeResize and the end of AfterResize.                    *)
(***************************************************************************)
EXTENDS Naturals, Sequences, Functions

CONSTANTS
  Slots,        (* kSlots command lists with their upload buffers          *)
  Descriptors,  (* kMaxDescriptors, each for one texture                   *)
  MaxFrames     (* bound: frames submitted                                 *)

ASSUME FramesAssumption == Slots \in Nat /\ Descriptors \in Nat /\ MaxFrames \in Nat

VARIABLES
  at,
  slots,        (* slot -> [state, fence] (slots_)                         *)
  enabled,      (* D3d12Slots::enabled_                                    *)
  open,         (* open_, 0 for none                                       *)
  value,        (* last_value_                                             *)
  failed,       (* D3d12FrameResources::Failed()                           *)
  submitted,    (* submitted_work_                                         *)
  uncertain,    (* uncertain_                                              *)
  registered,   (* event_registered_                                       *)
  stopped,      (* D3d12BitmapRenderer::failed_                            *)
  closed,       (* "open", or what Close found: "released", "retained"     *)
  texture,      (* descriptor of the current texture, 0 for none           *)
  retired,      (* descriptor -> fence of a retired texture, 0 for none    *)
  uses,         (* textures the open list refers to                        *)
  busy,         (* lists the GPU has not finished, in order                *)
  reached,      (* value the private fence has reached                     *)
  removed       (* the device is lost                                      *)

policy == <<slots, enabled>>
frames == <<open, value, failed, submitted, uncertain, registered>>
textures == <<texture, retired, uses>>
gpu == <<busy, reached, removed>>
vars == <<at, policy, frames, stopped, closed, textures, gpu>>

Slot == 1 .. Slots
Descriptor == 1 .. Descriptors
Values == 0 .. MaxFrames
Lists == [slot : Slot, uses : SUBSET Descriptor, value : Values]
States == {"Idle", "Reserved", "Pending", "Quarantined"}

TypeOK ==
  /\ at \in {"idle", "begun", "framed", "staged", "ready", "draining", "drained"}
  /\ slots \in [Slot -> [state : States, fence : Values]]
  /\ open \in 0 .. Slots
  /\ value \in Values /\ reached \in Values
  /\ enabled \in BOOLEAN /\ failed \in BOOLEAN /\ stopped \in BOOLEAN
  /\ submitted \in BOOLEAN /\ uncertain \in BOOLEAN /\ registered \in BOOLEAN
  /\ removed \in BOOLEAN
  /\ closed \in {"open", "released", "retained"}
  /\ texture \in 0 .. Descriptors
  /\ retired \in [Descriptor -> Values]
  /\ uses \subseteq Descriptor
  /\ busy \in Seq(Lists)

Init ==
  /\ at = "idle"
  /\ slots = [i \in Slot |-> [state |-> "Idle", fence |-> 0]]
  /\ enabled = TRUE
  /\ open = 0 /\ value = 0
  /\ failed = FALSE /\ submitted = FALSE /\ uncertain = FALSE /\ registered = FALSE
  /\ stopped = FALSE /\ closed = "open"
  /\ texture = 0 /\ retired = [d \in Descriptor |-> 0] /\ uses = {}
  /\ busy = <<>> /\ reached = 0 /\ removed = FALSE

-----------------------------------------------------------------------------
(* D3d12Slots: what becomes of the slots when nothing more can be proved.  *)

Quarantine(slot) ==
  IF slot.state \in {"Reserved", "Pending"} THEN [slot EXCEPT !.state = "Quarantined"] ELSE slot

Fail ==
  /\ slots' = [i \in Slot |-> Quarantine(slots[i])]
  /\ enabled' = FALSE
  /\ failed' = TRUE

(* Mutant of Proven: a fence counts as soon as it has been asked for.      *)
ProvenOnSubmit(fence) == fence <= value

Proven(fence) == fence <= reached

Free(i) == slots[i].state = "Idle" \/ (slots[i].state = "Pending" /\ Proven(slots[i].fence))

(* The slots Reserve has passed over and proved on its way are idle again. *)
Reserve(i) ==
  /\ Free(i)
  /\ \A j \in 1 .. i - 1 : ~Free(j)
  /\ slots' = [slots EXCEPT ![i].state = "Reserved"]

-----------------------------------------------------------------------------
(* Draw.                                                                   *)

(* TryBegin; resetting the allocator or the list may fail.                 *)
Begin ==
  /\ at = "idle"
  /\ closed = "open" /\ ~stopped /\ ~failed /\ value < MaxFrames
  /\ IF removed
       THEN Fail /\ stopped' = TRUE /\ UNCHANGED <<at, open, textures>>
       ELSE \E i \in Slot :
              /\ enabled
              /\ \/ /\ Reserve(i)
                    /\ at' = "begun"
                    /\ open' = i
                    /\ uses' = {}
                    /\ UNCHANGED <<enabled, failed, stopped, texture, retired>>
                 \/ /\ Free(i)
                    /\ Fail
                    /\ stopped' = TRUE
                    /\ UNCHANGED <<at, open, textures>>
  /\ UNCHANGED <<value, submitted, uncertain, registered, closed, gpu>>

(* The open list is closed without being run; closing it may fail.         *)
Cancel ==
  /\ open' = 0
  /\ \/ slots' = [slots EXCEPT ![open].state = "Idle"] /\ UNCHANGED <<enabled, failed>>
     \/ Fail

(* BeginFrame lets go of the retired textures the fence has passed.        *)
BeginFrame ==
  /\ at = "begun"
  /\ IF removed
       THEN /\ Cancel
            /\ stopped' = TRUE
            /\ at' = "idle"
            /\ UNCHANGED retired
       ELSE /\ retired' = [d \in Descriptor |-> IF Proven(retired[d]) THEN 0 ELSE retired[d]]
            /\ at' = "framed"
            /\ UNCHANGED <<policy, open, failed, stopped>>
  /\ UNCHANGED <<value, submitted, uncertain, registered, closed, texture, uses, gpu>>

(* Stage writes the slot's upload buffer, replacing one that is too small. *)
Stage ==
  /\ at = "framed"
  /\ at' = "staged"
  /\ UNCHANGED <<policy, frames, stopped, closed, textures, gpu>>

Occupied == {d \in Descriptor : d = texture \/ retired[d] # 0}

Retire == IF texture = 0 THEN retired ELSE [retired EXCEPT ![texture] = value + 1]

(* Commit copies into the texture, or into a new one if the size changed.  *)
(* Without a free descriptor nothing changes; a creation that fails leaves *)
(* no texture.                                                             *)
Commit ==
  /\ at = "staged"
  /\ at' = "ready"
  /\ \/ /\ texture # 0
        /\ uses' = {texture}
        /\ UNCHANGED <<texture, retired>>
     \/ /\ Occupied = Descriptor
        /\ UNCHANGED textures
     \/ \E d \in Descriptor \ Occupied :
          /\ \A e \in Descriptor \ Occupied : d <= e
          /\ retired' = Retire
          /\ \/ texture' = d /\ uses' = {d}
             \/ texture' = 0 /\ uses' = {}
  /\ UNCHANGED <<policy, frames, stopped, closed, gpu>>

(* Acquire without a new picture, or with one torn by its writer: the last *)
(* texture is drawn again, or nothing.                                     *)
Reuse ==
  /\ at \in {"framed", "staged"}
  /\ at' = "ready"
  /\ uses' \in {{}, {texture} \ {0}}
  /\ UNCHANGED <<policy, frames, stopped, closed, texture, retired, gpu>>

(* The list runs; the signal after it may fail, and then its end can never *)
(* be proved.                                                              *)
Submit ==
  /\ at = "ready"
  /\ at' = "idle"
  /\ open' = 0
  /\ \/ /\ Fail                            (* the list cannot be closed    *)
        /\ stopped' = TRUE
        /\ UNCHANGED <<value, submitted, uncertain, busy>>
     \/ /\ value' = value + 1
        /\ submitted' = TRUE
        /\ \/ /\ slots' = [slots EXCEPT ![open] = [state |-> "Pending", fence |-> value + 1]]
              /\ busy' = Append(busy, [slot |-> open, uses |-> uses, value |-> value + 1])
              /\ UNCHANGED <<enabled, failed, uncertain, stopped>>
           \/ /\ Fail
              /\ busy' = Append(busy, [slot |-> open, uses |-> uses, value |-> 0])
              /\ uncertain' = TRUE
              /\ stopped' = TRUE
  /\ UNCHANGED <<registered, closed, textures, reached, removed>>

-----------------------------------------------------------------------------
(* Transitions.                                                            *)

(* BeforeResize: old reservations end before anything is waited for.       *)
StartDrain ==
  /\ at = "idle" /\ closed = "open" /\ ~stopped
  /\ enabled' = FALSE
  /\ IF failed \/ uncertain
       THEN stopped' = TRUE /\ UNCHANGED at
       ELSE at' = "draining" /\ UNCHANGED stopped
  /\ UNCHANGED <<slots, frames, closed, textures, gpu>>

(* DrainPrivateFence saw the last value.                                   *)
Drained ==
  /\ at = "draining" /\ ~removed
  /\ Proven(value)
  /\ at' = "drained"
  /\ registered' = FALSE
  /\ UNCHANGED <<policy, open, value, failed, submitted, uncertain, stopped, closed, textures, gpu>>

(* It timed out, could not register its event, or lost the device.         *)
NotDrained ==
  /\ at = "draining"
  /\ removed \/ ~Proven(value)
  /\ at' = "idle"
  /\ failed' = TRUE
  /\ stopped' = TRUE
  /\ uncertain' = (uncertain \/ submitted)
  /\ registered' \in {registered, TRUE}
  /\ UNCHANGED <<policy, open, value, submitted, closed, textures, gpu>>

(* AfterResize: QualifyBuffers may refuse the new buffers; Resume looks at *)
(* every slot again.                                                       *)
AfterResize ==
  /\ at = "drained"
  /\ at' = "idle"
  /\ IF removed
       THEN /\ stopped' = TRUE
            /\ Fail \/ UNCHANGED <<policy, failed>>
       ELSE \/ /\ \A i \in Slot : Free(i)
               /\ slots' = [i \in Slot |-> [state |-> "Idle", fence |-> 0]]
               /\ enabled' = TRUE
               /\ UNCHANGED <<failed, stopped>>
            \/ stopped' = TRUE /\ UNCHANGED <<policy, failed>>
  /\ UNCHANGED <<open, value, submitted, uncertain, registered, closed, textures, gpu>>

(* Close: what may still be in use is kept until the process ends.         *)
Unknown == registered \/ (submitted /\ (uncertain \/ removed \/ ~Proven(value)))

Close ==
  /\ at = "idle" /\ closed = "open"
  /\ closed' = IF Unknown THEN "retained" ELSE "released"
  /\ UNCHANGED <<at, policy, frames, stopped, textures, gpu>>

-----------------------------------------------------------------------------
(* The GPU runs the lists in their order and then their signals.           *)
GpuFinishes ==
  /\ busy # <<>> /\ ~removed
  /\ reached' = IF Head(busy).value = 0 THEN reached ELSE Head(busy).value
  /\ busy' = Tail(busy)
  /\ UNCHANGED <<at, policy, frames, stopped, closed, textures, removed>>

DeviceRemoved ==
  /\ ~removed
  /\ removed' = TRUE
  /\ UNCHANGED <<at, policy, frames, stopped, closed, textures, busy, reached>>

Next ==
  \/ Begin \/ BeginFrame \/ Stage \/ Commit \/ Reuse \/ Submit
  \/ StartDrain \/ Drained \/ NotDrained \/ AfterResize \/ Close
  \/ GpuFinishes \/ DeviceRemoved

Spec == Init /\ [][Next]_vars

-----------------------------------------------------------------------------
(* Nothing the GPU may still be working on is given back or written over   *)
(* (D3d12FrameResources: never release possibly executing resources): not  *)
(* a texture that was retired when the picture changed its size, not the   *)
(* list and the upload buffer of the slot a new frame opens, not the       *)
(* game's buffers when a transition was let through, and not the whole     *)
(* owner when it is closed after a failed signal or a wait in vain.        *)
NothingFreedInUse ==
  /\ \A f \in Range(busy) : f.uses \subseteq Occupied /\ f.slot # open
  /\ at = "drained" => busy = <<>>
  /\ closed = "released" => busy = <<>>
=============================================================================
