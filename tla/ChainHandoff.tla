----------------------------- MODULE ChainHandoff -----------------------------
(***************************************************************************)
(* Which Direct3D 11 swap chain of the game the overlay draws on: the gate *)
(* of chain_handoff.hpp with the references and stamps of                  *)
(* d3d11_chain_candidate.hpp, as RenderAndCheck (render_direct.cpp) calls  *)
(* it from Present, and the drawing of d3d11_present_probe.cpp behind it.  *)
(*                                                                         *)
(* A chain is known by its address, and an address is used again when the  *)
(* game frees a chain and creates another: only a reference kept by the    *)
(* gate holds a chain in place.  The game, its threads and what it does to *)
(* its chains between two calls of the gate are the environment.           *)
(***************************************************************************)
EXTENDS Naturals

CONSTANTS
  Addresses, Threads, Devices, Windows,
  Kinds,            (* the devices and windows its chains come with        *)
  None,             (* no chain, no identity, no thread                    *)
  MaxChains,        (* bound: chains the game ever creates                 *)
  MaxGeneration,    (* the greatest number of a generation                 *)
  MaxChanges        (* bound: windowed or full screen, stamped by another   *)
                    (* library, a device removed                           *)

VARIABLES
  chains,           (* address -> the chain there, serial 0 for none       *)
  created, changes,
  at,               (* thread -> where it is in Run                        *)
  call,             (* what the call inside the gate has read              *)
  busy,             (* thread inside the gate (busy_)                      *)
  owner,            (* owner_ with window_ and fullscreen_                 *)
  generation, ambiguous,
  pending,          (* pending_, pending_facts_, pending_tag_              *)
  samples,
  kept,             (* ChainReferences: chain and pending                  *)
  release,          (* HookSection::header.release                         *)
  overlay,          (* g_overlay_state                                     *)
  renderer,         (* g_device: the device ImGui draws with               *)
  removed,          (* devices that were removed                           *)
  run               (* observer: the same chain seen how often in a row    *)

game == <<chains, created, changes, removed>>
gate == <<owner, generation, ambiguous, pending, samples, kept>>
drawing == <<overlay, renderer>>
vars == <<game, at, call, busy, gate, release, drawing, run>>

Absent == [state |-> "absent"]
Foreign == [state |-> "foreign"]          (* another session or version    *)
Stamped(g) == [state |-> "present", generation |-> g]
Tags == {Absent, Foreign} \cup {Stamped(g) : g \in 1 .. MaxGeneration}

Empty == [serial |-> 0]
Chain == [serial : 1 .. MaxChains, device : Devices, window : Windows, full : BOOLEAN,
          stamp : Tags, held : BOOLEAN]
Identity == [chain : Addresses, device : Devices, thread : Threads]

TypeOK ==
  /\ \A a \in Addresses : chains[a] = Empty \/ chains[a] \in Chain
  /\ at \in [Threads -> {"out", "commits", "draws"}]
  /\ busy \in Threads \cup {None}
  /\ owner = None \/ owner.id \in Identity
  /\ generation \in 0 .. MaxGeneration
  /\ samples \in 0 .. 2 /\ (samples = 0 <=> pending = None)
  /\ overlay \in {"Untouched", "Ready", "Idle", "DeviceUnavailable", "BackendInitFailed", "DeviceRemoved"}
  /\ renderer \in Devices \cup {None}
  /\ {ambiguous, release} \subseteq BOOLEAN

Init ==
  /\ chains = [a \in Addresses |-> Empty]
  /\ created = 0 /\ changes = 0 /\ removed = {}
  /\ at = [t \in Threads |-> "out"] /\ call = None /\ busy = None
  /\ owner = None /\ generation = 0 /\ ambiguous = FALSE
  /\ pending = None /\ samples = 0
  /\ kept = [chain |-> None, pending |-> None]
  /\ release = TRUE
  /\ overlay = "Untouched" /\ renderer = None
  /\ run = [serial |-> 0, facts |-> None, count |-> 0]

-----------------------------------------------------------------------------
(* The game and its chains.                                                *)

Live(a) == chains[a] # Empty
Kept(a) == a \in {kept.chain, kept.pending}
Presenting(a) == busy # None /\ call.id.chain = a

Creates(a, device, window) ==
  /\ ~Live(a) /\ created < MaxChains
  /\ created' = created + 1
  /\ chains' = [chains EXCEPT ![a] = [serial |-> created', device |-> device, window |-> window,
                                      full |-> FALSE, stamp |-> Absent, held |-> TRUE]]
  /\ UNCHANGED <<changes, removed, at, call, busy, gate, release, drawing, run>>

(* The game lets a chain go; it is freed unless the gate refers to it.     *)
Releases(a) ==
  /\ Live(a) /\ chains[a].held /\ ~Presenting(a)
  /\ chains' = [chains EXCEPT ![a] = IF Kept(a) THEN [@ EXCEPT !.held = FALSE] ELSE Empty]
  /\ UNCHANGED <<created, changes, removed, at, call, busy, gate, release, drawing, run>>

Toggles(a) ==
  /\ Live(a) /\ chains[a].held /\ changes < MaxChanges
  /\ changes' = changes + 1
  /\ chains' = [chains EXCEPT ![a].full = ~@]
  /\ UNCHANGED <<created, removed, at, call, busy, gate, release, drawing, run>>

(* Another library of this kind stamps a chain that is not ours.           *)
ForeignStamp(a) ==
  /\ Live(a) /\ chains[a].held /\ chains[a].stamp = Absent /\ changes < MaxChanges
  /\ changes' = changes + 1
  /\ chains' = [chains EXCEPT ![a].stamp = Foreign]
  /\ UNCHANGED <<created, removed, at, call, busy, gate, release, drawing, run>>

DeviceRemoved(d) ==
  /\ d \notin removed /\ changes < MaxChanges
  /\ changes' = changes + 1
  /\ removed' = removed \cup {d}
  /\ UNCHANGED <<chains, created, at, call, busy, gate, release, drawing, run>>

(* The helper opens and closes the drawing.                                *)
HelperGates ==
  /\ release' = ~release
  /\ UNCHANGED <<game, at, call, busy, gate, drawing, run>>

-----------------------------------------------------------------------------
(* D3D11ChainCandidate: what the gate reads of a chain, and keeps of it.   *)

Facts(a) == [window |-> chains[a].window, full |-> chains[a].full]
IdentityOf(t, a) == [chain |-> a, device |-> chains[a].device, thread |-> t]

(* A description may fail to be read, of a lost device it always does; a   *)
(* stamp may fail to be read.                                              *)
Inspect(a) == {None} \cup (IF chains[a].device \in removed THEN {} ELSE {Facts(a)})
ReadStamp(a) == {None, chains[a].stamp}

(* Mutant of HoldPending: nothing keeps the chain that is looked at.        *)
HoldPendingForgets(a) == kept

HoldPending(a) == [kept EXCEPT !.pending = a]
ClearPending == [kept EXCEPT !.pending = None]
CommitOwner(a) == [kept EXCEPT !.chain = a, !.pending = None]

(* A chain nobody refers to any more is gone.                              *)
Freed(left) ==
  [a \in Addresses |->
     IF Live(a) /\ ~chains[a].held /\ a \notin {left.chain, left.pending} THEN Empty ELSE chains[a]]

-----------------------------------------------------------------------------
(* ChainHandoffGate.                                                       *)

NextGeneration(g) == IF g = MaxGeneration THEN 0 ELSE g + 1

ValidTag(tag) ==
  \/ tag = Absent
  \/ tag.state = "present" /\ tag.generation < generation

ResetPending ==
  /\ pending' = None /\ samples' = 0
  /\ kept' = ClearPending
  /\ chains' = Freed(kept')

Bound == owner # None
Changed(id) == Bound /\ id.chain # owner.id.chain
Misplaced(id) == Bound /\ (id.device # owner.id.device \/ id.thread # owner.id.thread)

(* The observer counts the calls in a row that saw one chain unchanged.    *)
Interrupted == run' = [serial |-> 0, facts |-> None, count |-> 0]
Seen(a) ==
  LET now == [serial |-> chains[a].serial, facts |-> Facts(a)] IN
  run' = IF run.serial = now.serial /\ run.facts = now.facts THEN [run EXCEPT !.count = IF @ < 3 THEN @ + 1 ELSE @]
         ELSE [serial |-> now.serial, facts |-> now.facts, count |-> 1]

Returns == UNCHANGED <<at, call, busy>>
GoesOn(t, where, read) ==
  /\ at' = [at EXCEPT ![t] = where] /\ call' = read /\ busy' = t

Refuse ==
  /\ ResetPending /\ Interrupted /\ Returns
  /\ UNCHANGED <<owner, generation, ambiguous>>

Latch ==
  /\ ambiguous' = TRUE
  /\ ResetPending /\ Interrupted
  /\ UNCHANGED <<owner, generation>>

(* A call whose COM identity could not be read ends what was pending.      *)
CancelPending(t, a) ==
  /\ Live(a) /\ chains[a].held /\ busy = None /\ at[t] = "out"
  /\ pending # None
  /\ Refuse
  /\ UNCHANGED <<created, changes, removed, release, drawing>>

(* The third look at a new chain goes on to commit it.                     *)
Probation(t, id, facts, tag) ==
  LET same == pending = [id |-> id, facts |-> facts, tag |-> tag] IN
  /\ Seen(id.chain)
  /\ UNCHANGED <<owner, generation, ambiguous>>
  /\ IF same /\ samples = 2
     THEN /\ GoesOn(t, "commits", [id |-> id, facts |-> facts, tag |-> tag])
          /\ UNCHANGED <<chains, pending, samples, kept>>
     ELSE /\ samples' = IF same THEN samples + 1 ELSE 1
          /\ pending' = [id |-> id, facts |-> facts, tag |-> tag]
          /\ kept' = IF same THEN kept ELSE HoldPending(id.chain)
          /\ chains' = Freed(kept')
          /\ Returns

(* The chain that is drawn on already.                                     *)
Continue(t, id, facts) ==
  /\ ResetPending /\ Interrupted
  /\ owner' = [owner EXCEPT !.full = facts.full]
  /\ UNCHANGED <<generation, ambiguous>>
  /\ GoesOn(t, "draws", [id |-> id, facts |-> facts, tag |-> None])

First(t, id, facts, tag) ==
  /\ Interrupted
  /\ GoesOn(t, "commits", [id |-> id, facts |-> facts, tag |-> tag])
  /\ UNCHANGED <<chains, gate>>

(* From the identity of the call to the end of its first look at the chain.*)
Qualify(t, a) ==
  LET id == IdentityOf(t, a) IN
  IF Misplaced(id) \/ (Changed(id) /\ release) THEN Refuse
  ELSE \E facts \in Inspect(a) :
    IF facts = None \/ (Bound /\ facts.window # owner.window) THEN Refuse
    ELSE IF Bound /\ ~Changed(id) THEN Continue(t, id, facts)
    ELSE \E tag \in ReadStamp(a) :
      IF tag = None THEN Refuse
      ELSE IF ~ValidTag(tag) THEN Latch /\ Returns
      ELSE IF Changed(id) THEN Probation(t, id, facts, tag)
      ELSE First(t, id, facts, tag)

Enter(t, a) ==
  /\ Live(a) /\ chains[a].held /\ busy = None /\ at[t] = "out" /\ ~ambiguous
  /\ Qualify(t, a)
  /\ UNCHANGED <<created, changes, removed, release, drawing>>

Leaves(t) == at' = [at EXCEPT ![t] = "out"] /\ call' = None /\ busy' = None

(* A handover looks once more at the chain before it stamps it.            *)
Unchanged(facts, tag) == facts = call.facts /\ tag = call.tag

Commits(t) ==
  LET id == call.id
      next == NextGeneration(generation)
  IN /\ owner' = [id |-> id, window |-> call.facts.window, full |-> call.facts.full]
     /\ generation' = next
     /\ kept' = CommitOwner(id.chain)
     /\ chains' = [Freed(kept') EXCEPT ![id.chain].stamp = Stamped(next)]
     /\ pending' = None /\ samples' = 0
     /\ at' = [at EXCEPT ![t] = "draws"]
     /\ UNCHANGED <<ambiguous, call, busy, run>>

Commit(t) ==
  /\ at[t] = "commits"
  /\ \E facts \in Inspect(call.id.chain), tag \in ReadStamp(call.id.chain), written \in BOOLEAN :
       LET agreed == ~Bound \/ Unchanged(facts, tag) IN
       \/ /\ Bound /\ (IF tag = None THEN FALSE ELSE ~ValidTag(tag))
          /\ Latch /\ Leaves(t)
       \/ /\ Bound /\ (IF tag = None THEN TRUE ELSE ValidTag(tag) /\ ~Unchanged(facts, tag))
          /\ ResetPending /\ Interrupted /\ Leaves(t)
          /\ UNCHANGED <<owner, generation, ambiguous>>
       \/ /\ agreed /\ NextGeneration(generation) = 0
          /\ Latch /\ Leaves(t)
       \/ /\ agreed /\ NextGeneration(generation) # 0 /\ ~written
          /\ ResetPending /\ Interrupted /\ Leaves(t)
          /\ UNCHANGED <<owner, generation, ambiguous>>
       \/ /\ agreed /\ NextGeneration(generation) # 0 /\ written
          /\ Commits(t)
  /\ UNCHANGED <<created, changes, removed, release, drawing>>

-----------------------------------------------------------------------------
(* The drawing.  In staged mode a call identifies the chain and ends.      *)

Stopped == overlay \in {"DeviceUnavailable", "BackendInitFailed", "DeviceRemoved"}

(* InitialiseOverlay, at the first call that may draw.                     *)
Initialise(d) ==
  \/ overlay' = "Ready" /\ renderer' = d
  \/ overlay' \in {"DeviceUnavailable", "BackendInitFailed"} /\ renderer' = None

(* DrawOverlayFrame: an image, none, or a device that is gone.             *)
DrawOverlayFrame ==
  /\ overlay' \in (IF renderer \in removed THEN {"DeviceRemoved", "Idle"} ELSE {"Ready", "Idle"})
  /\ UNCHANGED renderer

TryDrawOverlay(d) ==
  IF Stopped THEN UNCHANGED drawing
  ELSE IF overlay = "Untouched" THEN Initialise(d)
  ELSE DrawOverlayFrame

Draw(t) ==
  /\ at[t] = "draws"
  /\ IF release THEN UNCHANGED drawing ELSE TryDrawOverlay(call.id.device)
  /\ Leaves(t)
  /\ UNCHANGED <<game, gate, release, run>>

-----------------------------------------------------------------------------
Next ==
  \/ \E a \in Addresses, kind \in Kinds : Creates(a, kind[1], kind[2])
  \/ \E a \in Addresses : Releases(a) \/ Toggles(a) \/ ForeignStamp(a)
  \/ \E d \in Devices : DeviceRemoved(d)
  \/ HelperGates
  \/ \E t \in Threads, a \in Addresses : CancelPending(t, a) \/ Enter(t, a)
  \/ \E t \in Threads : Commit(t) \/ Draw(t)

Spec == Init /\ [][Next]_vars

-----------------------------------------------------------------------------
(* Only a chain that three calls in a row saw, unchanged, is handed over   *)
(* to.  The addresses compared cannot mislead: the chain on probation is   *)
(* kept by a reference, so no other chain takes its place in between       *)
(* (chain_handoff.hpp:120, d3d11_chain_candidate.hpp:70).                  *)
HandedOver ==
  \A t \in Threads :
    at[t] = "commits" /\ Bound =>
      run.count = 3 /\ run.serial = chains[call.id.chain].serial

(* The owner exists as long as it owns and carries the newest stamp, so a  *)
(* chain that owned before can be told from it (chain_handoff.hpp:166).    *)
OwnerIsNewest ==
  Bound =>
    /\ Live(owner.id.chain)
    /\ \A a \in Addresses :
         Live(a) /\ chains[a].stamp \notin {Absent, Foreign} =>
           chains[a].stamp.generation \in 1 .. generation
           /\ (chains[a].stamp.generation = generation <=> a = owner.id.chain)

(* The renderer, made once on the first device, is only ever used for a    *)
(* chain of that device, in the window and on the thread that were first   *)
(* admitted (d3d11_present_probe.cpp:202, chain_handoff.hpp:103).          *)
RendererFits ==
  \A t \in Threads :
    at[t] = "draws" =>
      /\ t = owner.id.thread
      /\ call.id = owner.id
      /\ renderer \in {None, chains[owner.id.chain].device}
      /\ chains[owner.id.chain].window = owner.window

HandoverQualified == TypeOK /\ HandedOver /\ OwnerIsNewest /\ RendererFits
=============================================================================
