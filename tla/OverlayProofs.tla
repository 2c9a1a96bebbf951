----------------------------- MODULE OverlayProofs -----------------------------
(***************************************************************************)
(* Proofs about what the overlay rests on, for any number of threads,      *)
(* command lists, textures, frames, chains, queues and programs.           *)
(*                                                                         *)
(* The resources under it (OverlayFrames).  The lists the GPU has not      *)
(* finished carry growing fence values, all above the value it has         *)
(* reached, but for one whose signal failed: that one is the last, and     *)
(* nothing is begun after it.                                              *)
(*                                                                         *)
(* The choice of the chain (ChainSelection).  The backend and the binding  *)
(* are written once; a thread that draws found both before it was let in,  *)
(* so whatever other threads present, they mean what they meant then.      *)
(*                                                                         *)
(* The sessions (OverlaySessions).  A program that was attached is known   *)
(* to the tray, by its session or as refused, for as long as it runs.      *)
(*                                                                         *)
(* The output (FreshOutput).  Displays may change while they are asked; an *)
(* answer counts only if the factory it came from is current afterwards.   *)
(*                                                                         *)
(* The handover (ChainHandoff).  The chain that is drawn on and the one    *)
(* under observation are kept alive by references, so an address means the *)
(* same chain from one call to the next, and the stamps only grow.         *)
(*                                                                         *)
(* The start (OverlayStart).  Every load of the library is counted, the    *)
(* one that is admitted knows its helper, and what the helper and the      *)
(* library say to each other is said in one order.                         *)
(*                                                                         *)
(* The installation (StagedInstall).  The methods are replaced in order;   *)
(* what is in place, what is being tried and what is untouched can be told *)
(* apart at every step, and with it what a recovery has to put back.       *)
(***************************************************************************)
EXTENDS ProvedMechanisms, OverlayFrames

CONSTANTS
  Chains, Queues,                         (* of ChainSelection             *)
  Targets, MaxSlots, Capacity, Nobody,    (* of OverlaySessions            *)
  Monitors, DisplayChanges,               (* of FreshOutput                *)
  Addresses, Devices, Windows, ChainKinds,  (* of ChainHandoff               *)
  MaxChains, MaxGeneration, ChainChanges,
  Helpers, Choices,                       (* of OverlayStart               *)
  Methods, Attempts                       (* of StagedInstall              *)

VARIABLES
  selAt, selChain, selContext, selOffered, selRefusing, selBackend, selBinding, selDrawer,
  selFailed, selReady, selRelease, selDrawn

VARIABLES
  alive, front, sessionEnabled, choosing, sessionSlots, refused, timer, suppressed, attached,
  again, forgotten

VARIABLES
  outAt, outOn, outOpen, outDisplays, outMade, outStale, outMonitor, outAnswer,
  outShown, outChanges

VARIABLES
  handChains, handCreated, handChanges, handAt, handCall, handBusy, handOwner,
  handGeneration, handAmbiguous, handPending, handSamples, handKept, handRelease,
  handOverlay, handRenderer, handRemoved, handRun

VARIABLES
  startTray, startControl, startAt, startName, startSection, startLoads, startLoaded,
  startWorker, startMine, startInspected

VARIABLES
  instAt, instSite, instAlive, instSnapshot, instAttempt, instSlots, instStage,
  instUncertain, instPublished, instWritable, instOutcome, instActive, instState

Selection == INSTANCE ChainSelection WITH
  None <- Nothing,
  at <- selAt, chainOf <- selChain, context <- selContext, offered <- selOffered,
  refusing <- selRefusing, backend <- selBackend, binding <- selBinding, drawer <- selDrawer,
  failed <- selFailed, ready <- selReady, release <- selRelease, drawn <- selDrawn
Sessions == INSTANCE OverlaySessions WITH enabled <- sessionEnabled, slots <- sessionSlots
Output == INSTANCE FreshOutput WITH
  None <- Nothing, MaxChanges <- DisplayChanges,
  at <- outAt, on <- outOn, open <- outOpen, displays <- outDisplays, made <- outMade,
  stale <- outStale, monitor <- outMonitor, answer <- outAnswer, shown <- outShown,
  changes <- outChanges
Handoff == INSTANCE ChainHandoff WITH
  None <- Nothing, Kinds <- ChainKinds, MaxChanges <- ChainChanges,
  chains <- handChains, created <- handCreated, changes <- handChanges, at <- handAt,
  call <- handCall, busy <- handBusy, owner <- handOwner,
  generation <- handGeneration, ambiguous <- handAmbiguous, pending <- handPending,
  samples <- handSamples, kept <- handKept, release <- handRelease,
  overlay <- handOverlay, renderer <- handRenderer, removed <- handRemoved,
  run <- handRun
Start == INSTANCE OverlayStart WITH
  None <- Nothing,
  tray <- startTray, control <- startControl, at <- startAt, name <- startName,
  section <- startSection, loads <- startLoads, loaded <- startLoaded,
  worker <- startWorker, mine <- startMine, inspected <- startInspected
Install == INSTANCE StagedInstall WITH
  at <- instAt, site <- instSite, alive <- instAlive, snapshot <- instSnapshot,
  attempt <- instAttempt, slots <- instSlots, stage <- instStage,
  uncertain <- instUncertain, published <- instPublished, writable <- instWritable,
  outcome <- instOutcome, active <- instActive, state <- instState

-----------------------------------------------------------------------------
(* The resources.                                                          *)

Drawing == {"begun", "framed", "staged", "ready"}

(* The lists in the order of the GPU.                                      *)
ListsInOrder ==
  /\ reached <= value
  /\ \A i \in DOMAIN busy :
       IF busy[i].value = 0
         THEN i = Len(busy) /\ failed /\ uncertain
         ELSE reached < busy[i].value /\ busy[i].value <= value
  /\ \A i, j \in DOMAIN busy :
       i < j /\ busy[j].value # 0 => busy[i].value < busy[j].value
  /\ busy # <<>> => submitted

(* A list in the GPU's hands keeps its slot and what it draws.             *)
SlotsAreHeld ==
  \A i \in DOMAIN busy :
    LET slot == slots[busy[i].slot]
    IN  slot.state = "Quarantined" \/ (slot.state = "Pending" /\ slot.fence = busy[i].value)

TexturesAreHeld ==
  \A i \in DOMAIN busy : \A d \in busy[i].uses :
    d = texture \/ (retired[d] # 0 /\ busy[i].value <= retired[d])

(* From TryBegin to Submit one slot is reserved and nothing has failed.    *)
OneIsOpen ==
  /\ at \in Drawing => open # 0 /\ slots[open].state = "Reserved" /\ ~failed /\ value < MaxFrames
  /\ at \notin Drawing => open = 0
  /\ at \in Drawing \ {"ready"} => uses = {}
  /\ at = "ready" => uses \subseteq {texture}

(* A wait that was let through, and a release on closing, leave nothing.   *)
DrainedMeansIdle ==
  /\ at = "draining" => ~uncertain
  /\ at = "drained" => busy = <<>>
  /\ closed # "open" => at = "idle"
  /\ closed = "released" => busy = <<>>

(* What is inductive: without the order of the lists and the state of      *)
(* their slots, a fence that was passed would say nothing of them.         *)
FramesInv ==
  /\ TypeOK /\ ListsInOrder /\ SlotsAreHeld /\ TexturesAreHeld /\ OneIsOpen /\ DrainedMeansIdle

-----------------------------------------------------------------------------
LEMMA FramesInitially == Init => FramesInv
<1> SUFFICES ASSUME Init PROVE FramesInv
  OBVIOUS
<1>1. TypeOK
  <2>1. 0 \in Values /\ 0 \in 0 .. Slots /\ 0 \in 0 .. Descriptors
    BY FramesAssumption DEF Values
  <2>2. slots \in [Slot -> [state : States, fence : Values]] /\ retired \in [Descriptor -> Values]
    BY <2>1 DEF Init, States
  <2>3. busy \in Seq(Lists)
    BY DEF Init
  <2> QED  BY <2>1, <2>2, <2>3 DEF Init, TypeOK
<1>2. DOMAIN busy = {}
  BY DEF Init
<1>3. ListsInOrder /\ SlotsAreHeld /\ TexturesAreHeld
  BY <1>2 DEF Init, ListsInOrder, SlotsAreHeld, TexturesAreHeld
<1>4. OneIsOpen /\ DrainedMeansIdle
  BY DEF Init, OneIsOpen, DrainedMeansIdle, Drawing
<1> QED  BY <1>1, <1>3, <1>4 DEF FramesInv

(* A list the GPU still has.                                               *)
LEMMA ListType ==
  ASSUME TypeOK, NEW i \in DOMAIN busy
  PROVE  /\ busy[i] \in Lists /\ busy[i].slot \in Slot /\ busy[i].uses \subseteq Descriptor
         /\ busy[i].value \in Values /\ busy[i].value \in Nat
         /\ i \in Nat /\ Len(busy) \in Nat /\ 1 <= i /\ i <= Len(busy)
<1>1. busy \in Seq(Lists)
  BY DEF TypeOK
<1>2. busy[i] \in Lists
  BY <1>1
<1> QED  BY <1>1, <1>2 DEF Lists, Values

(* Nothing can be proved any more: the slots of the GPU stay with it.      *)
LEMMA FailKeeps ==
  ASSUME TypeOK, SlotsAreHeld, Fail, busy' = busy
  PROVE  /\ slots' \in [Slot -> [state : States, fence : Values]]
         /\ enabled' = FALSE /\ failed' = TRUE
         /\ SlotsAreHeld'
<1>1. \A s \in [state : States, fence : Values] :
         /\ Quarantine(s) \in [state : States, fence : Values]
         /\ Quarantine(s).fence = s.fence
         /\ s.state \in {"Quarantined", "Pending"} => Quarantine(s).state = "Quarantined"
  BY DEF Quarantine, States
<1>2. \A i \in Slot : slots[i] \in [state : States,
      fence : Values] /\ slots'[i] = Quarantine(slots[i])
  BY DEF TypeOK, Fail
<1>3. slots' \in [Slot -> [state : States, fence : Values]]
  BY <1>1, <1>2 DEF Fail
<1>4. SlotsAreHeld'
  <2> SUFFICES ASSUME NEW i \in DOMAIN busy
               PROVE  slots'[busy[i].slot].state = "Quarantined"
    BY DEF SlotsAreHeld
  <2> QED  BY <1>1, <1>2, ListType DEF SlotsAreHeld
<1> QED  BY <1>3, <1>4 DEF Fail

(* A slot that is free is not the GPU's.                                   *)
LEMMA FreeIsNotBusy ==
  ASSUME TypeOK, ListsInOrder, SlotsAreHeld, ~failed, NEW s \in Slot, Free(s),
         NEW i \in DOMAIN busy
  PROVE  busy[i].slot # s
<1> SUFFICES ASSUME busy[i].slot = s PROVE FALSE
  OBVIOUS
<1>1. slots[s].state = "Pending" /\ slots[s].fence = busy[i].value /\ slots[s].fence <= reached
  BY DEF SlotsAreHeld, Free, Proven
<1>2. busy[i].value # 0 /\ reached < busy[i].value
  BY DEF ListsInOrder
<1> QED  BY <1>1, <1>2, ListType DEF TypeOK, Values

(* Nothing is left to do once the fence has reached the last value.        *)
LEMMA ProvenIsIdle ==
  ASSUME TypeOK, ListsInOrder, ~uncertain, Proven(value)
  PROVE  busy = <<>>
<1> SUFFICES ASSUME busy # <<>> PROVE FALSE
  OBVIOUS
<1>1. 1 \in DOMAIN busy
  BY DEF TypeOK
<1>2. reached < busy[1].value /\ busy[1].value <= value
  BY <1>1 DEF ListsInOrder
<1> QED  BY <1>1, <1>2, ListType DEF Proven, TypeOK, Values

-----------------------------------------------------------------------------
(* Draw.                                                                   *)
LEMMA BeginSound == ASSUME FramesInv, Begin PROVE FramesInv'
<1>0. at = "idle" /\ open = 0 /\ closed = "open" /\ ~failed /\ value < MaxFrames
  BY DEF FramesInv, Begin, OneIsOpen, Drawing
<1>1. UNCHANGED <<value, submitted, uncertain, registered, closed, busy, reached, removed>>
  BY DEF Begin, gpu
<1>2. CASE Fail /\ stopped' = TRUE /\ UNCHANGED <<at, open, textures>>
  <2>1. /\ slots' \in [Slot -> [state : States, fence : Values]]
        /\ enabled' = FALSE /\ failed' = TRUE /\ SlotsAreHeld'
    BY <1>1, <1>2, FailKeeps DEF FramesInv
  <2>2. UNCHANGED <<at, open, texture, retired, uses>> /\ stopped' = TRUE
    BY <1>2 DEF textures
  <2>3. TypeOK'
    BY <1>1, <2>1, <2>2 DEF FramesInv, TypeOK
  <2>4. ListsInOrder' /\ TexturesAreHeld'
    BY <1>1, <2>1, <2>2 DEF FramesInv, ListsInOrder, TexturesAreHeld
  <2>5. OneIsOpen' /\ DrainedMeansIdle'
    BY <1>0, <1>1, <2>2 DEF FramesInv, OneIsOpen, DrainedMeansIdle, Drawing
  <2> QED  BY <2>1, <2>3, <2>4, <2>5 DEF FramesInv
<1>3. ASSUME NEW s \in Slot, Reserve(s), at' = "begun", open' = s, uses' = {},
             UNCHANGED <<enabled, failed, stopped, texture, retired>>
      PROVE  FramesInv'
  <2>1. /\ slots' \in [Slot -> [state : States, fence : Values]]
        /\ slots'[s].state = "Reserved" /\ \A t \in Slot \ {s} : slots'[t] = slots[t]
    BY <1>3 DEF FramesInv, TypeOK, Reserve, States
  <2>2. s \in 0 .. Slots /\ s # 0
    BY FramesAssumption DEF Slot
  <2>3. TypeOK'
    BY <1>1, <1>3, <2>1, <2>2 DEF FramesInv, TypeOK
  <2>4. ListsInOrder' /\ TexturesAreHeld'
    BY <1>1, <1>3 DEF FramesInv, ListsInOrder, TexturesAreHeld
  <2>5. SlotsAreHeld'
    <3> SUFFICES ASSUME NEW i \in DOMAIN busy
                 PROVE  slots'[busy[i].slot] = slots[busy[i].slot]
      BY <1>1 DEF FramesInv, SlotsAreHeld
    <3>1. busy[i].slot # s
      BY <1>0, <1>3, FreeIsNotBusy DEF FramesInv, Reserve
    <3> QED  BY <2>1, <3>1, ListType DEF FramesInv
  <2>6. OneIsOpen' /\ DrainedMeansIdle'
    BY <1>0, <1>1, <1>3, <2>1, <2>2 DEF FramesInv, OneIsOpen, DrainedMeansIdle, Drawing
  <2> QED  BY <2>3, <2>4, <2>5, <2>6 DEF FramesInv
<1>4. \/ Fail /\ stopped' = TRUE /\ UNCHANGED <<at, open, textures>>
      \/ \E s \in Slot : /\ Reserve(s) /\ at' = "begun" /\ open' = s /\ uses' = {}
                         /\ UNCHANGED <<enabled, failed, stopped, texture, retired>>
  BY DEF Begin
<1> QED  BY <1>2, <1>3, <1>4

(* A texture is let go of only when the fence has passed it, hence every   *)
(* list that draws it.                                                     *)
LEMMA BeginFrameSound == ASSUME FramesInv, BeginFrame PROVE FramesInv'
<1>0. /\ at = "begun" /\ open # 0 /\ open \in Slot /\ slots[open].state = "Reserved" /\ ~failed
      /\ uses = {} /\ value < MaxFrames /\ closed = "open"
  BY DEF FramesInv, TypeOK, BeginFrame, OneIsOpen, DrainedMeansIdle, Drawing, Slot
<1>1. UNCHANGED <<value, submitted, uncertain, registered, closed, texture, uses, busy, reached,
                  removed>>
  BY DEF BeginFrame, gpu
<1>2. CASE removed
  <2>1. open' = 0 /\ stopped' = TRUE /\ at' = "idle" /\ retired' = retired
    BY <1>2 DEF BeginFrame, Cancel
  <2>2. /\ slots' \in [Slot -> [state : States, fence : Values]]
        /\ enabled' \in BOOLEAN /\ failed' \in BOOLEAN /\ SlotsAreHeld'
    <3>1. CASE Fail
      BY <1>1, <3>1, FailKeeps DEF FramesInv
    <3>2. CASE slots' = [slots EXCEPT ![open].state = "Idle"] /\ UNCHANGED <<enabled, failed>>
      <4>1. slots' \in [Slot -> [state : States, fence : Values]]
        BY <1>0, <3>2 DEF FramesInv, TypeOK, States
      <4>2. \A i \in DOMAIN busy : slots'[busy[i].slot] = slots[busy[i].slot]
        <5> SUFFICES ASSUME NEW i \in DOMAIN busy, busy[i].slot = open PROVE FALSE
          BY <3>2, ListType DEF FramesInv, TypeOK
        <5> QED  BY <1>0 DEF FramesInv, SlotsAreHeld
      <4> QED  BY <1>1, <3>2, <4>1, <4>2 DEF FramesInv, TypeOK, SlotsAreHeld
    <3> QED  BY <1>2, <3>1, <3>2 DEF BeginFrame, Cancel
  <2>3. TypeOK'
    BY <1>1, <2>1, <2>2, FramesAssumption DEF FramesInv, TypeOK
  <2>4. failed => failed'
    BY <1>0
  <2>5. ListsInOrder' /\ TexturesAreHeld'
    BY <1>0, <1>1, <2>1 DEF FramesInv, ListsInOrder, TexturesAreHeld
  <2>6. OneIsOpen' /\ DrainedMeansIdle'
    BY <1>0, <1>1, <2>1 DEF FramesInv, OneIsOpen, DrainedMeansIdle, Drawing
  <2> QED  BY <2>2, <2>3, <2>5, <2>6 DEF FramesInv
<1>3. CASE ~removed
  <2>1. /\ retired' = [d \in Descriptor |-> IF Proven(retired[d]) THEN 0 ELSE retired[d]]
        /\ at' = "framed" /\ UNCHANGED <<slots, enabled, open, failed, stopped>>
    BY <1>3 DEF BeginFrame, policy
  <2>2. TypeOK'
    BY <1>1, <2>1, FramesAssumption DEF FramesInv, TypeOK, Values
  <2>3. ListsInOrder' /\ SlotsAreHeld'
    BY <1>1, <2>1 DEF FramesInv, ListsInOrder, SlotsAreHeld
  <2>4. TexturesAreHeld'
    <3> SUFFICES ASSUME NEW i \in DOMAIN busy, NEW d \in busy[i].uses, d # texture
                 PROVE  retired'[d] = retired[d]
      BY <1>1 DEF FramesInv, TexturesAreHeld
    <3>1. d \in Descriptor /\ busy[i].value <= retired[d]
      BY ListType DEF FramesInv, TexturesAreHeld
    <3>2. reached < busy[i].value
      BY <1>0 DEF FramesInv, ListsInOrder
    <3>3. ~Proven(retired[d])
      BY <3>1, <3>2, ListType DEF Proven, FramesInv, TypeOK, Values
    <3> QED  BY <2>1, <3>1, <3>3
  <2>5. OneIsOpen' /\ DrainedMeansIdle'
    BY <1>0, <1>1, <2>1 DEF FramesInv, OneIsOpen, DrainedMeansIdle, Drawing
  <2> QED  BY <2>2, <2>3, <2>4, <2>5 DEF FramesInv
<1> QED  BY <1>2, <1>3

LEMMA StageSound == ASSUME FramesInv, Stage PROVE FramesInv'
<1>1. /\ at = "framed" /\ at' = "staged"
      /\ UNCHANGED <<slots, enabled, open, value, failed, submitted, uncertain, registered, stopped,
                     closed, texture, retired, uses, busy, reached, removed>>
  BY DEF Stage, policy, frames, textures, gpu
<1>2. TypeOK' /\ ListsInOrder' /\ SlotsAreHeld' /\ TexturesAreHeld'
  BY <1>1 DEF FramesInv, TypeOK, ListsInOrder, SlotsAreHeld, TexturesAreHeld
<1>3. OneIsOpen' /\ DrainedMeansIdle'
  BY <1>1 DEF FramesInv, OneIsOpen, DrainedMeansIdle, Drawing
<1> QED  BY <1>2, <1>3 DEF FramesInv

(* A texture that is replaced waits for the frame now being recorded, and  *)
(* so for every frame before it.                                           *)
LEMMA CommitSound == ASSUME FramesInv, Commit PROVE FramesInv'
<1>0. /\ at = "staged" /\ at' = "ready"
      /\ UNCHANGED <<slots, enabled, open, value, failed, submitted, uncertain, registered, stopped,
                     closed, busy, reached, removed>>
  BY DEF Commit, policy, frames, gpu
<1>1. /\ TypeOK /\ uses = {} /\ value + 1 \in Values /\ value + 1 # 0
      /\ texture # 0 => texture \in Descriptor
  BY <1>0, FramesAssumption DEF FramesInv, TypeOK, OneIsOpen, Drawing, Values, Descriptor
<1>2. /\ texture' \in 0 .. Descriptors /\ retired' \in [Descriptor -> Values]
      /\ uses' \subseteq {texture'} /\ uses' \subseteq Descriptor
      /\ \A d \in Descriptor : d = texture /\ d # texture' => retired'[d] = value + 1
      /\ \A d \in Descriptor : d # texture /\ retired[d] # 0 => retired'[d] = retired[d]
  <2>1. CASE texture # 0 /\ uses' = {texture} /\ UNCHANGED <<texture, retired>>
    BY <2>1, <1>1 DEF TypeOK
  <2>2. CASE UNCHANGED textures
    BY <2>2, <1>1 DEF TypeOK, textures
  <2>3. ASSUME NEW d \in Descriptor \ Occupied, retired' = Retire,
               \/ texture' = d /\ uses' = {d}
               \/ texture' = 0 /\ uses' = {}
        PROVE  /\ texture' \in 0 .. Descriptors /\ retired' \in [Descriptor -> Values]
               /\ uses' \subseteq {texture'} /\ uses' \subseteq Descriptor
               /\ \A e \in Descriptor : e = texture /\ e # texture' => retired'[e] = value + 1
               /\ \A e \in Descriptor : e # texture /\ retired[e] # 0 => retired'[e] = retired[e]
    <3>1. d \in 0 .. Descriptors /\ 0 \in 0 .. Descriptors /\ 0 \notin Descriptor
      BY FramesAssumption DEF Descriptor
    <3>2. retired \in [Descriptor -> Values]
      BY <1>1 DEF TypeOK
    <3>3. CASE texture = 0
      BY <2>3, <3>1, <3>2, <3>3 DEF Retire
    <3>4. CASE texture # 0
      BY <1>1, <2>3, <3>1, <3>2, <3>4 DEF Retire
    <3> QED  BY <3>3, <3>4
  <2> QED  BY <2>1, <2>2, <2>3 DEF Commit
<1>3. TypeOK'
  BY <1>0, <1>1, <1>2 DEF TypeOK
<1>4. ListsInOrder' /\ SlotsAreHeld'
  BY <1>0 DEF FramesInv, ListsInOrder, SlotsAreHeld
<1>5. TexturesAreHeld'
  <2> SUFFICES ASSUME NEW i \in DOMAIN busy, NEW d \in busy[i].uses, d # texture'
               PROVE  retired'[d] # 0 /\ busy[i].value <= retired'[d]
    BY <1>0 DEF TexturesAreHeld
  <2>1. d \in Descriptor /\ busy[i].value \in Nat /\ value \in Nat
    BY <1>1, ListType DEF TypeOK, Values
  <2>2. CASE d = texture
    <3>1. retired'[d] = value + 1
      BY <1>2, <2>1, <2>2
    <3>2. busy[i].value <= value
      BY <2>1 DEF FramesInv, ListsInOrder
    <3> QED  BY <2>1, <3>1, <3>2
  <2>3. CASE d # texture
    <3>1. retired[d] # 0 /\ busy[i].value <= retired[d]
      BY <2>3 DEF FramesInv, TexturesAreHeld
    <3> QED  BY <1>2, <2>1, <2>3, <3>1
  <2> QED  BY <2>2, <2>3
<1>6. OneIsOpen' /\ DrainedMeansIdle'
  BY <1>0, <1>2 DEF FramesInv, OneIsOpen, DrainedMeansIdle, Drawing
<1> QED  BY <1>3, <1>4, <1>5, <1>6 DEF FramesInv

LEMMA ReuseSound == ASSUME FramesInv, Reuse PROVE FramesInv'
<1>1. /\ at \in {"framed", "staged"} /\ at' = "ready"
      /\ UNCHANGED <<slots, enabled, open, value, failed, submitted, uncertain, registered, stopped,
                     closed, texture, retired, busy, reached, removed>>
  BY DEF Reuse, policy, frames, gpu
<1>2. uses' \subseteq {texture} /\ uses' \subseteq Descriptor
  <2>1. texture # 0 => texture \in Descriptor
    BY FramesAssumption DEF FramesInv, TypeOK, Descriptor
  <2> QED  BY <2>1 DEF Reuse
<1>3. TypeOK' /\ ListsInOrder' /\ SlotsAreHeld' /\ TexturesAreHeld'
  BY <1>1, <1>2 DEF FramesInv, TypeOK, ListsInOrder, SlotsAreHeld, TexturesAreHeld
<1>4. OneIsOpen' /\ DrainedMeansIdle'
  BY <1>1, <1>2 DEF FramesInv, OneIsOpen, DrainedMeansIdle, Drawing
<1> QED  BY <1>3, <1>4 DEF FramesInv

(* One more list for the GPU.                                              *)
LEMMA Appended ==
  ASSUME TypeOK, NEW l \in Lists, busy' = Append(busy, l)
  PROVE  /\ busy' \in Seq(Lists)
         /\ Len(busy) \in Nat /\ Len(busy') = Len(busy) + 1
         /\ DOMAIN busy = 1 .. Len(busy) /\ DOMAIN busy' = 1 .. Len(busy) + 1
         /\ \A i \in DOMAIN busy : busy'[i] = busy[i]
         /\ busy'[Len(busy) + 1] = l
         /\ busy' # <<>>
<1>1. busy \in Seq(Lists)
  BY DEF TypeOK
<1> QED  BY <1>1

(* The frame that was recorded is the GPU's now, behind all before it; if  *)
(* its signal failed, it is the last one.                                  *)
LEMMA FrameSubmitSound == ASSUME FramesInv, Submit PROVE FramesInv'
<1>0. /\ at = "ready" /\ at' = "idle" /\ open' = 0
      /\ UNCHANGED <<registered, closed, texture, retired, uses, reached, removed>>
  BY DEF Submit, textures
<1>1. /\ TypeOK /\ open \in Slot /\ slots[open].state = "Reserved" /\ ~failed
      /\ value \in Nat /\ value + 1 \in Values /\ 0 \in Values
      /\ uses \subseteq {texture} /\ uses \subseteq Descriptor
  BY <1>0, FramesAssumption DEF FramesInv, TypeOK, OneIsOpen, Drawing, Slot, Values
<1>2. closed = "open"
  BY <1>0 DEF FramesInv, DrainedMeansIdle
<1>3. CASE Fail /\ stopped' = TRUE /\ UNCHANGED <<value, submitted, uncertain, busy>>
  <2>1. /\ slots' \in [Slot -> [state : States, fence : Values]]
        /\ enabled' = FALSE /\ failed' = TRUE /\ SlotsAreHeld'
    BY <1>1, <1>3, FailKeeps DEF FramesInv
  <2>2. TypeOK'
    <3>1. open' \in 0 .. Slots
      BY <1>0, FramesAssumption
    <3> QED  BY <1>0, <1>1, <1>3, <2>1, <3>1 DEF TypeOK
  <2>3. ListsInOrder' /\ TexturesAreHeld'
    BY <1>0, <1>3, <2>1 DEF FramesInv, ListsInOrder, TexturesAreHeld
  <2>4. OneIsOpen' /\ DrainedMeansIdle'
    BY <1>0, <1>2 DEF OneIsOpen, DrainedMeansIdle, Drawing
  <2> QED  BY <2>1, <2>2, <2>3, <2>4 DEF FramesInv
<1>4. ASSUME NEW last \in {0, value + 1},
             busy' = Append(busy, [slot |-> open, uses |-> uses, value |-> last]),
             value' = value + 1, submitted' = TRUE,
             slots' \in [Slot -> [state : States, fence : Values]],
             enabled' \in BOOLEAN, failed' \in BOOLEAN, uncertain' \in BOOLEAN,
             stopped' \in BOOLEAN,
             last = 0 => failed' /\ uncertain',
             slots'[open].state = "Quarantined"
               \/ (slots'[open].state = "Pending" /\ slots'[open].fence = last),
             \A i \in DOMAIN busy : slots'[busy[i].slot] = slots[busy[i].slot]
                                    \/ slots'[busy[i].slot].state = "Quarantined"
      PROVE  FramesInv'
  <2> DEFINE l == [slot |-> open, uses |-> uses, value |-> last]
  <2>1. l \in Lists /\ last \in Nat /\ last <= value + 1
    BY <1>1 DEF Lists
  <2>2. /\ busy' \in Seq(Lists)
        /\ Len(busy) \in Nat /\ Len(busy') = Len(busy) + 1
        /\ DOMAIN busy = 1 .. Len(busy) /\ DOMAIN busy' = 1 .. Len(busy) + 1
        /\ \A i \in DOMAIN busy : busy'[i] = busy[i]
        /\ busy'[Len(busy) + 1] = l
        /\ busy' # <<>>
    BY <1>1, <1>4, <2>1, Appended
  <2>3. /\ l.slot = open /\ l.uses = uses /\ l.value = last
    OBVIOUS
  <2> HIDE DEF l
  <2>4. TypeOK'
    BY <1>0, <1>1, <1>4, <2>2, FramesAssumption DEF TypeOK
  <2>5. \A i \in DOMAIN busy : reached < busy[i].value /\ busy[i].value <= value
                               /\ busy[i].value \in Nat /\ busy[i].value # 0
    BY <1>1, ListType DEF FramesInv, ListsInOrder
  <2>6. \A i \in DOMAIN busy' : i \in DOMAIN busy \/ i = Len(busy) + 1
    BY <2>2
  <2>7. ListsInOrder'
    <3>1. reached' <= value'
      BY <1>0, <1>1, <1>4 DEF FramesInv, ListsInOrder, TypeOK, Values
    <3>2. ASSUME NEW i \in DOMAIN busy'
          PROVE  IF busy'[i].value = 0
                   THEN i = Len(busy') /\ failed' /\ uncertain'
                   ELSE reached' < busy'[i].value /\ busy'[i].value <= value'
      <4>1. CASE i \in DOMAIN busy
        BY <1>0, <1>1, <1>4, <2>2, <2>5, <4>1
      <4>2. CASE i = Len(busy) + 1
        <5>1. reached < value + 1
          BY <1>1 DEF FramesInv, ListsInOrder, TypeOK, Values
        <5> QED  BY <1>0, <1>1, <1>4, <2>2, <2>3, <4>2, <5>1
      <4> QED  BY <2>6, <4>1, <4>2
    <3>3. ASSUME NEW i \in DOMAIN busy', NEW j \in DOMAIN busy', i < j, busy'[j].value # 0
          PROVE  busy'[i].value < busy'[j].value
      <4>1. i \in DOMAIN busy
        BY <2>2, <3>3
      <4>2. CASE j \in DOMAIN busy
        BY <2>2, <3>3, <4>1, <4>2 DEF FramesInv, ListsInOrder
      <4>3. CASE j = Len(busy) + 1
        BY <1>1, <2>2, <2>3, <2>5, <3>3, <4>1, <4>3
      <4> QED  BY <2>6, <4>2, <4>3
    <3> QED  BY <1>4, <3>1, <3>2, <3>3 DEF ListsInOrder
  <2>8. SlotsAreHeld'
    <3> SUFFICES ASSUME NEW i \in DOMAIN busy'
                 PROVE  LET slot == slots'[busy'[i].slot]
                        IN  slot.state = "Quarantined"
                            \/ (slot.state = "Pending" /\ slot.fence = busy'[i].value)
      BY DEF SlotsAreHeld
    <3>1. CASE i \in DOMAIN busy
      BY <1>4, <2>2, <3>1 DEF FramesInv, SlotsAreHeld
    <3>2. CASE i = Len(busy) + 1
      BY <1>4, <2>2, <2>3, <3>2
    <3> QED  BY <2>6, <3>1, <3>2
  <2>9. TexturesAreHeld'
    <3> SUFFICES ASSUME NEW i \in DOMAIN busy', NEW d \in busy'[i].uses, d # texture
                 PROVE  retired[d] # 0 /\ busy'[i].value <= retired[d]
      BY <1>0 DEF TexturesAreHeld
    <3>1. CASE i \in DOMAIN busy
      BY <2>2, <3>1 DEF FramesInv, TexturesAreHeld
    <3>2. CASE i = Len(busy) + 1
      BY <1>1, <2>2, <2>3, <3>2
    <3> QED  BY <2>6, <3>1, <3>2
  <2>10. OneIsOpen' /\ DrainedMeansIdle'
    BY <1>0, <1>2 DEF OneIsOpen, DrainedMeansIdle, Drawing
  <2> QED  BY <2>4, <2>7, <2>8, <2>9, <2>10 DEF FramesInv
<1>5. ASSUME value' = value + 1, submitted' = TRUE,
             slots' = [slots EXCEPT ![open] = [state |-> "Pending", fence |-> value + 1]],
             busy' = Append(busy, [slot |-> open, uses |-> uses, value |-> value + 1]),
             UNCHANGED <<enabled, failed, uncertain, stopped>>
      PROVE  FramesInv'
  <2>1. /\ slots' \in [Slot -> [state : States, fence : Values]]
        /\ slots'[open].state = "Pending" /\ slots'[open].fence = value + 1
        /\ \A s \in Slot \ {open} : slots'[s] = slots[s]
    BY <1>1, <1>5 DEF TypeOK, States
  <2>2. \A i \in DOMAIN busy : busy[i].slot \in Slot \ {open}
    BY <1>1, ListType DEF FramesInv, SlotsAreHeld
  <2>3. value + 1 # 0 /\ {enabled', failed', uncertain', stopped'} \subseteq BOOLEAN
    BY <1>1, <1>5 DEF TypeOK
  <2> QED  BY <1>4, <1>5, <2>1, <2>2, <2>3
<1>6. ASSUME value' = value + 1, submitted' = TRUE, Fail,
             busy' = Append(busy, [slot |-> open, uses |-> uses, value |-> 0]),
             uncertain' = TRUE, stopped' = TRUE
      PROVE  FramesInv'
  <2>1. \A s \in [state : States, fence : Values] :
          /\ Quarantine(s) \in [state : States, fence : Values]
          /\ s.state \in {"Reserved", "Quarantined", "Pending"}
               => Quarantine(s).state = "Quarantined"
    BY DEF Quarantine, States
  <2>2. \A i \in Slot :
          slots[i] \in [state : States, fence : Values] /\ slots'[i] = Quarantine(slots[i])
    BY <1>1, <1>6 DEF TypeOK, Fail
  <2>3. /\ slots' \in [Slot -> [state : States, fence : Values]]
        /\ enabled' = FALSE /\ failed' = TRUE
        /\ slots'[open].state = "Quarantined"
    BY <1>1, <1>6, <2>1, <2>2 DEF Fail
  <2>4. \A i \in DOMAIN busy : slots'[busy[i].slot].state = "Quarantined"
    BY <1>1, <2>1, <2>2, ListType DEF FramesInv, SlotsAreHeld
  <2> QED  BY <1>4, <1>6, <2>3, <2>4
<1> QED  BY <1>3, <1>5, <1>6 DEF Submit

-----------------------------------------------------------------------------
(* Transitions and the end.                                                *)

LEMMA StartDrainSound == ASSUME FramesInv, StartDrain PROVE FramesInv'
<1>1. /\ at = "idle" /\ closed = "open" /\ at' \in {"idle", "draining"}
      /\ at' = "draining" => ~uncertain
      /\ enabled' = FALSE /\ stopped' \in BOOLEAN
      /\ UNCHANGED <<slots, open, value, failed, submitted, uncertain, registered, closed,
                     texture, retired, uses, busy, reached, removed>>
  BY DEF StartDrain, frames, textures, gpu, FramesInv, TypeOK
<1>2. TypeOK' /\ ListsInOrder' /\ SlotsAreHeld' /\ TexturesAreHeld'
  BY <1>1 DEF FramesInv, TypeOK, ListsInOrder, SlotsAreHeld, TexturesAreHeld
<1>3. OneIsOpen' /\ DrainedMeansIdle'
  BY <1>1 DEF FramesInv, OneIsOpen, DrainedMeansIdle, Drawing
<1> QED  BY <1>2, <1>3 DEF FramesInv

LEMMA DrainedSound == ASSUME FramesInv, Drained PROVE FramesInv'
<1>1. /\ at = "draining" /\ at' = "drained" /\ Proven(value) /\ registered' = FALSE
      /\ UNCHANGED <<slots, enabled, open, value, failed, submitted, uncertain, stopped, closed,
                     texture, retired, uses, busy, reached, removed>>
  BY DEF Drained, policy, textures, gpu
<1>2. busy = <<>>
  BY <1>1, ProvenIsIdle DEF FramesInv, DrainedMeansIdle
<1>3. TypeOK' /\ ListsInOrder' /\ SlotsAreHeld' /\ TexturesAreHeld'
  BY <1>1 DEF FramesInv, TypeOK, ListsInOrder, SlotsAreHeld, TexturesAreHeld
<1>4. OneIsOpen' /\ DrainedMeansIdle'
  BY <1>1, <1>2 DEF FramesInv, OneIsOpen, DrainedMeansIdle, Drawing
<1> QED  BY <1>3, <1>4 DEF FramesInv

LEMMA NotDrainedSound == ASSUME FramesInv, NotDrained PROVE FramesInv'
<1>1. /\ at = "draining" /\ at' = "idle" /\ failed' = TRUE /\ stopped' = TRUE
      /\ uncertain' \in BOOLEAN /\ (uncertain => uncertain') /\ registered' \in BOOLEAN
      /\ UNCHANGED <<slots, enabled, open, value, submitted, closed, texture, retired, uses,
                     busy, reached, removed>>
  BY DEF NotDrained, policy, textures, gpu, FramesInv, TypeOK
<1>2. TypeOK' /\ SlotsAreHeld' /\ TexturesAreHeld'
  BY <1>1 DEF FramesInv, TypeOK, SlotsAreHeld, TexturesAreHeld
<1>3. ListsInOrder'
  BY <1>1 DEF FramesInv, ListsInOrder
<1>4. OneIsOpen' /\ DrainedMeansIdle'
  BY <1>1 DEF FramesInv, OneIsOpen, DrainedMeansIdle, Drawing
<1> QED  BY <1>2, <1>3, <1>4 DEF FramesInv

LEMMA FrameResizeSound == ASSUME FramesInv, AfterResize PROVE FramesInv'
<1>1. /\ at = "drained" /\ at' = "idle" /\ busy = <<>> /\ DOMAIN busy = {} /\ open = 0
      /\ closed = "open"
      /\ UNCHANGED <<open, value, submitted, uncertain, registered, closed, texture, retired, uses,
                     busy, reached, removed>>
  BY DEF AfterResize, textures, gpu, FramesInv, DrainedMeansIdle, OneIsOpen, Drawing
<1>2. /\ slots' \in [Slot -> [state : States, fence : Values]]
      /\ {enabled', failed', stopped'} \subseteq BOOLEAN
  <2>1. CASE stopped' = TRUE /\ Fail
    BY <1>1, <2>1, FailKeeps DEF FramesInv
  <2>2. CASE stopped' = TRUE /\ UNCHANGED <<policy, failed>>
    BY <2>2 DEF policy, FramesInv, TypeOK
  <2>3. CASE /\ slots' = [i \in Slot |-> [state |-> "Idle", fence |-> 0]] /\ enabled' = TRUE
             /\ UNCHANGED <<failed, stopped>>
    BY <2>3, FramesAssumption DEF FramesInv, TypeOK, States, Values
  <2> QED  BY <2>1, <2>2, <2>3 DEF AfterResize
<1>3. TypeOK'
  BY <1>1, <1>2 DEF FramesInv, TypeOK
<1>4. ListsInOrder' /\ SlotsAreHeld' /\ TexturesAreHeld'
  BY <1>1 DEF FramesInv, ListsInOrder, SlotsAreHeld, TexturesAreHeld
<1>5. OneIsOpen' /\ DrainedMeansIdle'
  BY <1>1 DEF OneIsOpen, DrainedMeansIdle, Drawing
<1> QED  BY <1>3, <1>4, <1>5 DEF FramesInv

(* What is released on closing has no work of its own left.                *)
LEMMA CloseSound == ASSUME FramesInv, Close PROVE FramesInv'
<1>1. /\ at = "idle" /\ closed = "open" /\ closed' = IF Unknown THEN "retained" ELSE "released"
      /\ UNCHANGED <<at, slots, enabled, open, value, failed, submitted, uncertain, registered,
                     stopped, texture, retired, uses, busy, reached, removed>>
  BY DEF Close, policy, frames, textures, gpu
<1>2. closed' = "released" => busy = <<>>
  <2> SUFFICES ASSUME ~Unknown, submitted PROVE busy = <<>>
    BY <1>1 DEF FramesInv, ListsInOrder
  <2>1. ~uncertain /\ Proven(value)
    BY DEF Unknown
  <2> QED  BY <2>1, ProvenIsIdle DEF FramesInv
<1>3. TypeOK' /\ ListsInOrder' /\ SlotsAreHeld' /\ TexturesAreHeld'
  BY <1>1 DEF FramesInv, TypeOK, ListsInOrder, SlotsAreHeld, TexturesAreHeld
<1>4. OneIsOpen' /\ DrainedMeansIdle'
  BY <1>1, <1>2 DEF FramesInv, OneIsOpen, DrainedMeansIdle, Drawing
<1> QED  BY <1>3, <1>4 DEF FramesInv

-----------------------------------------------------------------------------
(* The GPU.                                                                *)
LEMMA FrameFinishesSound == ASSUME FramesInv, GpuFinishes PROVE FramesInv'
<1>1. /\ busy # <<>> /\ busy' = Tail(busy)
      /\ reached' = IF Head(busy).value = 0 THEN reached ELSE Head(busy).value
      /\ UNCHANGED <<at, slots, enabled, open, value, failed, submitted, uncertain, registered,
                     stopped, closed, texture, retired, uses, removed>>
  BY DEF GpuFinishes, policy, frames, textures
<1>2. /\ busy \in Seq(Lists) /\ Len(busy) \in Nat /\ busy' \in Seq(Lists)
      /\ Len(busy') = Len(busy) - 1 /\ Head(busy) = busy[1] /\ 1 \in DOMAIN busy
      /\ \A i \in DOMAIN busy' : 
           i + 1 \in DOMAIN busy /\ busy'[i] = busy[i + 1] /\ i \in Nat /\ i >= 1
  BY <1>1 DEF FramesInv, TypeOK
<1>3. reached \in Values /\ busy[1].value \in Values /\ reached' \in Values
  BY <1>1, <1>2, ListType DEF FramesInv, TypeOK
<1>4. TypeOK'
  BY <1>1, <1>2, <1>3 DEF FramesInv, TypeOK
<1>5. ListsInOrder'
  <2>1. reached' <= value'
    BY <1>1, <1>2 DEF FramesInv, ListsInOrder
  <2>2. ASSUME NEW i \in DOMAIN busy'
        PROVE  IF busy'[i].value = 0
                 THEN i = Len(busy') /\ failed' /\ uncertain'
                 ELSE reached' < busy'[i].value /\ busy'[i].value <= value'
    <3>1. i + 1 \in DOMAIN busy /\ busy'[i] = busy[i + 1] /\ 1 < i + 1 /\ i \in Nat
      BY <1>2
    <3>2. busy[i + 1].value # 0 => /\ busy[1].value < busy[i + 1].value
                                   /\ reached < busy[i + 1].value /\ busy[i + 1].value <= value
      BY <1>2, <3>1 DEF FramesInv, ListsInOrder
    <3>3. busy[i + 1].value = 0 => i + 1 = Len(busy) /\ failed /\ uncertain
      BY <3>1 DEF FramesInv, ListsInOrder
    <3> QED  BY <1>1, <1>2, <3>1, <3>2, <3>3
  <2>3. ASSUME NEW i \in DOMAIN busy', NEW j \in DOMAIN busy', i < j, busy'[j].value # 0
        PROVE  busy'[i].value < busy'[j].value
    <3>1. i + 1 \in DOMAIN busy /\ j + 1 \in DOMAIN busy /\ i + 1 < j + 1
      BY <1>2, <2>3
    <3> QED  BY <1>2, <2>3, <3>1 DEF FramesInv, ListsInOrder
  <2> QED  BY <1>1, <2>1, <2>2, <2>3 DEF FramesInv, ListsInOrder
<1>6. SlotsAreHeld' /\ TexturesAreHeld'
  BY <1>1, <1>2 DEF FramesInv, SlotsAreHeld, TexturesAreHeld
<1>7. OneIsOpen' /\ DrainedMeansIdle'
  BY <1>1 DEF FramesInv, OneIsOpen, DrainedMeansIdle, Drawing
<1> QED  BY <1>4, <1>5, <1>6, <1>7 DEF FramesInv

LEMMA DeviceRemovedSound == ASSUME FramesInv, DeviceRemoved PROVE FramesInv'
<1>1. /\ removed' = TRUE
      /\ UNCHANGED <<at, slots, enabled, open, value, failed, submitted, uncertain, registered,
                     stopped, closed, texture, retired, uses, busy, reached>>
  BY DEF DeviceRemoved, policy, frames, textures
<1>2. TypeOK' /\ ListsInOrder' /\ SlotsAreHeld' /\ TexturesAreHeld'
  BY <1>1 DEF FramesInv, TypeOK, ListsInOrder, SlotsAreHeld, TexturesAreHeld
<1>3. OneIsOpen' /\ DrainedMeansIdle'
  BY <1>1 DEF FramesInv, OneIsOpen, DrainedMeansIdle, Drawing
<1> QED  BY <1>2, <1>3 DEF FramesInv

LEMMA FramesStep == FramesInv /\ [Next]_vars => FramesInv'
<1> SUFFICES ASSUME FramesInv, [Next]_vars PROVE FramesInv'
  OBVIOUS
<1>1. CASE UNCHANGED vars
  <2>1. UNCHANGED <<at, slots, enabled, open, value, failed, submitted, uncertain, registered,
                    stopped, closed, texture, retired, uses, busy, reached, removed>>
    BY <1>1 DEF vars, policy, frames, textures, gpu
  <2>2. TypeOK' /\ ListsInOrder' /\ SlotsAreHeld' /\ TexturesAreHeld'
    BY <2>1 DEF FramesInv, TypeOK, ListsInOrder, SlotsAreHeld, TexturesAreHeld
  <2>3. OneIsOpen' /\ DrainedMeansIdle'
    BY <2>1 DEF FramesInv, OneIsOpen, DrainedMeansIdle, Drawing
  <2> QED  BY <2>2, <2>3 DEF FramesInv
<1>2. CASE Next
  BY <1>2, BeginSound, BeginFrameSound, StageSound, CommitSound, ReuseSound, FrameSubmitSound,
     StartDrainSound, DrainedSound, NotDrainedSound, FrameResizeSound, CloseSound,
     FrameFinishesSound, DeviceRemovedSound DEF Next
<1> QED  BY <1>1, <1>2

(* The inductive invariant holds in every reachable state.                 *)
THEOREM FramesInductive == Spec => []FramesInv
<1>1. Init => FramesInv
  BY FramesInitially
<1>2. FramesInv /\ [Next]_vars => FramesInv'
  BY FramesStep
<1> QED  BY <1>1, <1>2, PTL DEF Spec

(* Whatever the game, the GPU and the device do, and wherever a signal or  *)
(* a wait fails: no texture, no list with its upload buffer and no buffer  *)
(* of the game that the GPU may still be working on is given back or       *)
(* written over (D3d12FrameResources).                                     *)
THEOREM NothingIsFreedInUse == Spec => []NothingFreedInUse
<1>1. FramesInv => NothingFreedInUse
  <2> SUFFICES ASSUME FramesInv PROVE NothingFreedInUse
    OBVIOUS
  <2>1. ASSUME NEW i \in DOMAIN busy
        PROVE  busy[i].uses \subseteq Occupied /\ busy[i].slot # open
    <3>1. busy[i].slot \in Slot /\ busy[i].uses \subseteq Descriptor
      BY ListType DEF FramesInv
    <3>2. busy[i].uses \subseteq Occupied
      BY <3>1 DEF FramesInv, TexturesAreHeld, Occupied
    <3>3. CASE at \in Drawing
      <4> SUFFICES ASSUME busy[i].slot = open PROVE FALSE
        BY <3>2
      <4>1. slots[open].state \in {"Quarantined", "Pending"}
        BY DEF FramesInv, SlotsAreHeld
      <4> QED  BY <3>3, <4>1 DEF FramesInv, OneIsOpen
    <3>4. CASE at \notin Drawing
      <4>1. open = 0 /\ 0 \notin Slot
        BY <3>4 DEF FramesInv, OneIsOpen, Slot
      <4> QED  BY <3>1, <3>2, <4>1
    <3> QED  BY <3>3, <3>4
  <2>2. \A f \in Range(busy) : f.uses \subseteq Occupied /\ f.slot # open
    BY <2>1 DEF Range
  <2> QED  BY <2>2 DEF FramesInv, DrainedMeansIdle, NothingFreedInUse
<1>2. Spec => []FramesInv
  BY FramesInductive
<1> QED  BY <1>1, <1>2, PTL

-----------------------------------------------------------------------------
(* Which chain is drawn on (ChainSelection).                               *)

Refusals == [expected : Selection!Mutable, tries : 1 .. 3]

(* No chain and no queue is the null pointer.                              *)
SelectionAssumption ==
  /\ Nothing \notin DOMAIN Chains /\ Nothing \notin DOMAIN Queues /\ Nothing \notin Threads
  /\ Nothing \notin Refusals

Bindings ==
  [ready : BOOLEAN, ambiguous : BOOLEAN, publishing : BOOLEAN,
   chain : DOMAIN Chains \cup {Nothing}, queue : DOMAIN Queues \cup {Nothing}]

Stages ==
  {"out", "d11", "selects", "admitted", "readied", "coloured", "fails", "native", "offers",
   "publishes"}

SelectionTypes ==
  /\ selAt \in [Threads -> Stages]
  /\ selChain \in [Threads -> DOMAIN Chains \cup {Nothing}]
  /\ selContext \in [Threads -> DOMAIN Chains \cup {Nothing}]
  /\ selOffered \in [Threads -> DOMAIN Queues \cup {Nothing}]
  /\ selRefusing \in [Threads -> Refusals \cup {Nothing}]
  /\ selBackend \in {"none", "d3d11", "d3d12"}
  /\ selBinding \in Bindings
  /\ selDrawer \in Threads \cup {Nothing}
  /\ selFailed \in BOOLEAN
  /\ selReady \in Selection!Words
  /\ selRelease \in BOOLEAN

DrawStages == {"admitted", "readied", "coloured"}

(* What a thread on its way through Render has found: the backend is that  *)
(* of its chain, and in Direct3D 12 its chain is the one with a queue.     *)
Entitled(t) ==
  /\ selContext[t] \in {Nothing, selChain[t]}
  /\ selAt[t] = "out" => selChain[t] = Nothing
  /\ selAt[t] = "d11" =>
       /\ selBackend = "d3d11" /\ selChain[t] \in DOMAIN Chains
       /\ Selection!InspectBackend(selChain[t]) = "d3d11"
  /\ selAt[t] \in DrawStages \cup {"selects"} =>
       /\ selBinding.ready /\ selBinding.chain = selChain[t]
       /\ Selection!InspectBackend(selChain[t]) = "d3d12"
  /\ selAt[t] \in DrawStages => selBackend = "d3d12" /\ selDrawer = t

DrawersAdmitted == \A t \in Threads : Entitled(t)

(* The queue that was bound, and one that is about to be, is of the device *)
(* of its chain.                                                           *)
QueueBound ==
  /\ selBinding.ready =>
       /\ selBinding.chain # Nothing /\ selBinding.queue # Nothing
       /\ Queues[selBinding.queue].device = Chains[selBinding.chain].device
  /\ \A t \in Threads : selAt[t] \in {"offers", "publishes"} =>
       /\ selContext[t] # Nothing /\ selOffered[t] # Nothing
       /\ Queues[selOffered[t]].device = Chains[selContext[t]].device

(* The backend never changes once it is chosen, and neither does the value *)
(* of the binding once it is ready.                                        *)
DrawnAlike ==
  \A d \in selDrawn :
    \/ selBackend = "d3d11" /\ Selection!InspectBackend(d.chain) = "d3d11"
    \/ /\ selBackend = "d3d12" /\ Selection!InspectBackend(d.chain) = "d3d12" /\ selBinding.ready
       /\ d.chain = selBinding.chain /\ d.queue = selBinding.queue

(* A failure is recorded, or a thread is about to record it.  A try fails  *)
(* when the word has moved since it was last seen; it moves from none to   *)
(* ready once, then between ready and waiting by the one thread that was   *)
(* drawing when the failure came, and by it only once.                     *)
FailureStays ==
  /\ selFailed => selReady \notin Selection!Mutable \/ \E t \in Threads : selAt[t] = "fails"
  /\ \A t \in Threads : selAt[t] = "fails" =>
       /\ selFailed /\ selRefusing[t] # Nothing
       /\ selRefusing[t].tries = 3 => selRefusing[t].expected = "none"
       /\ selRefusing[t].tries < 3 => selReady # "none" /\ selRefusing[t].expected # "none"
       /\ selRefusing[t].tries = 2 =>
            selReady = selRefusing[t].expected \/ selReady \notin Selection!Mutable
              \/ \A u \in Threads : selAt[u] # "coloured"
       /\ selRefusing[t].tries = 1 =>
            /\ selReady = selRefusing[t].expected \/ selReady \notin Selection!Mutable
            /\ \A u \in Threads : selAt[u] # "coloured"

SelectionInv == SelectionTypes /\ DrawersAdmitted /\ QueueBound /\ DrawnAlike /\ FailureStays

-----------------------------------------------------------------------------
LEMMA SelectionInitially == ASSUME SelectionAssumption, Selection!Init PROVE SelectionInv
<1>1. SelectionTypes BY DEF Selection!Init, SelectionTypes, Stages, Bindings, Selection!Words
<1>2. DrawersAdmitted /\ QueueBound /\ DrawnAlike /\ FailureStays
  BY DEF Selection!Init, DrawersAdmitted, Entitled, QueueBound, DrawnAlike, FailureStays,
         DrawStages
<1> QED BY <1>1, <1>2 DEF SelectionInv

(* What Failure starts with.                                               *)
LEMMA FirstTry == [expected |-> "none", tries |-> 3] \in Refusals
BY DEF Refusals, Selection!Mutable

LEMMA SelectionPresentSound ==
  ASSUME SelectionAssumption, SelectionInv, NEW t \in Threads,
         NEW c \in DOMAIN Chains, Selection!Present(t, c)
  PROVE  SelectionInv'
<1>1. SelectionTypes'
  <2>1. selAt' \in [Threads -> Stages]
    BY DEF SelectionInv, SelectionTypes, Stages, Selection!Present, Selection!Render,
           Selection!RenderD3d11, Selection!RenderD3d12, Selection!Skips, Selection!RefuseInitial,
           Selection!BeginFailure, Selection!Goes
  <2>2. selRefusing' \in [Threads -> Refusals \cup {Nothing}] /\ selFailed' \in BOOLEAN
    BY FirstTry
    DEF SelectionInv, SelectionTypes, Selection!Present, Selection!Render,
        Selection!RenderD3d11, Selection!RenderD3d12, Selection!Skips, Selection!RefuseInitial,
        Selection!BeginFailure
  <2>3. selBinding' \in Bindings
    BY DEF SelectionInv, SelectionTypes, Bindings, Selection!Present, Selection!Render,
           Selection!RenderD3d11, Selection!RenderD3d12, Selection!Skips, Selection!RefuseInitial
  <2>4. selChain' \in [Threads -> DOMAIN Chains \cup {Nothing}]
          /\ UNCHANGED <<selOffered, selDrawer, selRelease>>
    BY DEF SelectionInv, SelectionTypes, Selection!Present
  <2>5. selContext' \in [Threads -> DOMAIN Chains \cup {Nothing}]
    BY DEF SelectionInv, SelectionTypes, Selection!Present, Selection!Render,
           Selection!RenderD3d11, Selection!RenderD3d12, Selection!Skips, Selection!RefuseInitial
  <2>6. selBackend' \in {"none", "d3d11", "d3d12"}
    BY DEF SelectionInv, SelectionTypes, Selection!Present, Selection!Render,
           Selection!RenderD3d11, Selection!RenderD3d12, Selection!Skips, Selection!RefuseInitial
  <2>7. selReady' \in Selection!Words
    BY DEF SelectionInv, SelectionTypes, Selection!Words, Selection!Present,
           Selection!Render, Selection!RenderD3d11, Selection!RenderD3d12, Selection!Skips,
           Selection!RefuseInitial, Selection!Swap
  <2> QED BY <2>1, <2>2, <2>3, <2>4, <2>5, <2>6, <2>7 DEF SelectionInv, SelectionTypes
<1>2. DrawersAdmitted'
  <2>1. selChain' = [selChain EXCEPT ![t] = c] /\ selDrawer' = selDrawer /\ selAt[t] = "out"
    BY DEF Selection!Present
  <2>2. selBinding'.ready = selBinding.ready /\ selBinding'.chain = selBinding.chain
    BY DEF SelectionInv, SelectionTypes, Bindings, Selection!Present, Selection!Render,
           Selection!RenderD3d11, Selection!RenderD3d12, Selection!Skips, Selection!RefuseInitial
  <2>0. \/ Selection!Skips(t)
        \/ Selection!InspectBackend(c) = "d3d11" /\ Selection!RenderD3d11(t)
        \/ Selection!InspectBackend(c) = "d3d12" /\ Selection!RenderD3d12(t, c)
        \/ Selection!RefuseInitial(t) /\ UNCHANGED selBackend
    BY DEF Selection!Present, Selection!Render, Selection!RefuseInitial
  <2>3. selBackend' = selBackend \/ (selBackend = "none" /\ selBackend' = "d3d11")
    <3>1. CASE Selection!Skips(t) BY <3>1 DEF Selection!Skips
    <3>2. CASE Selection!RenderD3d11(t) BY <3>2 DEF Selection!RenderD3d11
    <3>3. CASE Selection!RenderD3d12(t, c)
      BY <3>3 DEF Selection!RenderD3d12, Selection!RefuseInitial
    <3> QED BY <2>0, <3>1, <3>2, <3>3
  <2>4. \A u \in Threads \ {t} : selAt'[u] = selAt[u] /\ selContext'[u] = selContext[u]
          /\ selChain'[u] = selChain[u]
    BY <2>1
    DEF SelectionInv, SelectionTypes, Selection!Present, Selection!Render,
        Selection!RenderD3d11, Selection!RenderD3d12, Selection!Skips, Selection!RefuseInitial,
        Selection!BeginFailure, Selection!Goes
  <2>5. selContext'[t] \in {Nothing, c} /\ selChain'[t] = c
    <3>1. selContext[t] = Nothing \/ selContext[t] = selChain[t]
      BY DEF SelectionInv, DrawersAdmitted, Entitled
    <3>2. selContext'[t] \in {Nothing, c, selContext[t]}
      BY <2>0
      DEF SelectionInv, SelectionTypes, Selection!Skips, Selection!RenderD3d11,
          Selection!RenderD3d12, Selection!RefuseInitial
    <3>3. selContext[t] = Nothing
      BY <2>1 DEF SelectionInv, DrawersAdmitted, Entitled
    <3> QED BY <2>1, <3>2, <3>3 DEF SelectionInv, SelectionTypes
  <2>6. \/ selAt'[t] \in {"native", "fails"}
        \/ selAt'[t] = "d11" /\ selBackend' = "d3d11" /\ Selection!InspectBackend(c) = "d3d11"
        \/ selAt'[t] = "selects" /\ selBinding.ready /\ selBinding.chain = c
             /\ Selection!InspectBackend(c) = "d3d12"
    <3>0. \A where : Selection!Goes(t, where) => selAt'[t] = where
      BY DEF SelectionInv, SelectionTypes, Selection!Goes
    <3>1. CASE Selection!Skips(t) BY <3>0, <3>1 DEF Selection!Skips
    <3>2. CASE Selection!InspectBackend(c) = "d3d11" /\ Selection!RenderD3d11(t)
      BY <3>0, <3>2 DEF Selection!RenderD3d11
    <3>3. CASE Selection!InspectBackend(c) = "d3d12" /\ Selection!RenderD3d12(t, c)
      BY <3>0, <3>3 DEF Selection!RenderD3d12, Selection!RefuseInitial, Selection!BeginFailure
    <3>4. CASE Selection!RefuseInitial(t)
      BY <3>0, <3>4 DEF Selection!RefuseInitial, Selection!BeginFailure
    <3> QED BY <2>0, <3>1, <3>2, <3>3, <3>4
  <2>7. \A u \in Threads \ {t} : Entitled(u)'
    BY <2>1, <2>2, <2>3, <2>4 DEF SelectionInv, DrawersAdmitted, Entitled, DrawStages
  <2>8. Entitled(t)'
    BY <2>1, <2>2, <2>5, <2>6 DEF Entitled, DrawStages
  <2> QED BY <2>7, <2>8 DEF DrawersAdmitted
<1>3. QueueBound'
  BY DEF SelectionAssumption, SelectionInv, SelectionTypes, Bindings, QueueBound,
         DrawersAdmitted, Entitled, Selection!Present, Selection!Render, Selection!RenderD3d11,
         Selection!RenderD3d12, Selection!Skips, Selection!RefuseInitial, Selection!BeginFailure,
         Selection!Goes, Selection!Swap
<1>4. DrawnAlike'
  BY DEF SelectionAssumption, SelectionInv, SelectionTypes, Bindings, DrawnAlike,
         DrawersAdmitted, Entitled, DrawStages, Selection!Present, Selection!Render,
         Selection!RenderD3d11, Selection!RenderD3d12, Selection!Skips, Selection!RefuseInitial,
         Selection!BeginFailure, Selection!Goes, Selection!Swap
<1>5. FailureStays'
  BY DEF SelectionAssumption, SelectionInv, SelectionTypes, Refusals, FailureStays,
         Selection!Mutable, Selection!Words, DrawersAdmitted, Entitled, DrawStages, Stages,
         Selection!Present, Selection!Render, Selection!RenderD3d11, Selection!RenderD3d12,
         Selection!Skips, Selection!RefuseInitial, Selection!BeginFailure, Selection!Goes,
         Selection!Swap
<1> QED  BY <1>1, <1>2, <1>3, <1>4, <1>5 DEF SelectionInv

LEMMA SelectionDrawD3d11Sound ==
  ASSUME SelectionAssumption, SelectionInv, NEW t \in Threads, Selection!DrawD3d11(t)
  PROVE  SelectionInv'
<1>1. SelectionTypes'
  <2>1. selAt' \in [Threads -> Stages]
    BY DEF SelectionInv, SelectionTypes, Stages, Selection!DrawD3d11,
           Selection!BeginFailure, Selection!Goes
  <2>2. selRefusing' \in [Threads -> Refusals \cup {Nothing}] /\ selFailed' \in BOOLEAN
    BY FirstTry DEF SelectionInv, SelectionTypes, Selection!DrawD3d11, Selection!BeginFailure
  <2> QED
    BY <2>1, <2>2
    DEF SelectionInv, SelectionTypes, Selection!Words, Selection!DrawD3d11,
        Selection!RecordInitialReady, Selection!Swap
<1>2. DrawersAdmitted'
  BY DEF SelectionAssumption, SelectionInv, SelectionTypes, DrawersAdmitted, Entitled,
         DrawStages, Selection!DrawD3d11, Selection!BeginFailure, Selection!Goes,
         Selection!RecordInitialReady, Selection!Swap
<1>3. QueueBound'
  BY DEF SelectionAssumption, SelectionInv, SelectionTypes, Bindings, QueueBound,
         DrawersAdmitted, Entitled, Selection!DrawD3d11, Selection!BeginFailure, Selection!Goes,
         Selection!RecordInitialReady, Selection!Swap
<1>4. DrawnAlike'
  BY DEF SelectionAssumption, SelectionInv, SelectionTypes, Bindings, DrawnAlike,
         DrawersAdmitted, Entitled, DrawStages, Selection!DrawD3d11, Selection!BeginFailure,
         Selection!Goes, Selection!RecordInitialReady, Selection!Swap
<1>5. FailureStays'
  BY DEF SelectionAssumption, SelectionInv, SelectionTypes, Refusals, FailureStays,
         Selection!Mutable, Selection!Words, DrawersAdmitted, Entitled, DrawStages, Stages,
         Selection!DrawD3d11, Selection!BeginFailure, Selection!Goes,
         Selection!RecordInitialReady, Selection!Swap
<1> QED  BY <1>1, <1>2, <1>3, <1>4, <1>5 DEF SelectionInv

LEMMA SelectionSelectSound ==
  ASSUME SelectionAssumption, SelectionInv, NEW t \in Threads, Selection!Select(t)
  PROVE  SelectionInv'
<1>1. SelectionTypes'
  BY DEF SelectionAssumption, SelectionInv, SelectionTypes, Bindings, Stages,
         Selection!Words, Refusals, Selection!Mutable, Selection!Select, Selection!Goes
<1>2. DrawersAdmitted'
  BY DEF SelectionAssumption, SelectionInv, SelectionTypes, DrawersAdmitted, Entitled,
         DrawStages, Selection!Select, Selection!Goes
<1>3. QueueBound'
  BY DEF SelectionAssumption, SelectionInv, SelectionTypes, Bindings, QueueBound,
         DrawersAdmitted, Entitled, Selection!Select, Selection!Goes
<1>4. DrawnAlike'
  BY DEF SelectionAssumption, SelectionInv, SelectionTypes, Bindings, DrawnAlike,
         DrawersAdmitted, Entitled, DrawStages, Selection!Select, Selection!Goes
<1>5. FailureStays'
  BY DEF SelectionAssumption, SelectionInv, SelectionTypes, Refusals, FailureStays,
         Selection!Mutable, Selection!Words, DrawersAdmitted, Entitled, DrawStages, Stages,
         Selection!Select, Selection!Goes
<1> QED  BY <1>1, <1>2, <1>3, <1>4, <1>5 DEF SelectionInv

LEMMA SelectionAdmitSound ==
  ASSUME SelectionAssumption, SelectionInv, NEW t \in Threads, Selection!Admit(t)
  PROVE  SelectionInv'
<1>1. SelectionTypes'
  BY DEF SelectionAssumption, SelectionInv, SelectionTypes, Bindings, Stages,
         Selection!Words, Refusals, Selection!Mutable, Selection!Admit, Selection!Goes,
         Selection!RecordInitialReady, Selection!Swap
<1>2. DrawersAdmitted'
  BY DEF SelectionAssumption, SelectionInv, SelectionTypes, DrawersAdmitted, Entitled,
         DrawStages, Selection!Admit, Selection!Goes, Selection!RecordInitialReady, Selection!Swap
<1>3. QueueBound'
  BY DEF SelectionAssumption, SelectionInv, SelectionTypes, Bindings, QueueBound,
         DrawersAdmitted, Entitled, Selection!Admit, Selection!Goes, Selection!RecordInitialReady,
         Selection!Swap
<1>4. DrawnAlike'
  BY DEF SelectionAssumption, SelectionInv, SelectionTypes, Bindings, DrawnAlike,
         DrawersAdmitted, Entitled, DrawStages, Selection!Admit, Selection!Goes,
         Selection!RecordInitialReady, Selection!Swap
<1>5. FailureStays'
  BY DEF SelectionAssumption, SelectionInv, SelectionTypes, Refusals, FailureStays,
         Selection!Mutable, Selection!Words, DrawersAdmitted, Entitled, DrawStages, Stages,
         Selection!Admit, Selection!Goes, Selection!RecordInitialReady, Selection!Swap
<1> QED  BY <1>1, <1>2, <1>3, <1>4, <1>5 DEF SelectionInv

LEMMA SelectionPrepareSound ==
  ASSUME SelectionAssumption, SelectionInv, NEW t \in Threads, Selection!Prepare(t)
  PROVE  SelectionInv'
<1>1. SelectionTypes'
  <2>1. selAt' \in [Threads -> Stages]
    BY DEF SelectionInv, SelectionTypes, Stages, Selection!Prepare, Selection!BeginFailure,
           Selection!Goes
  <2>2. selRefusing' \in [Threads -> Refusals \cup {Nothing}] /\ selFailed' \in BOOLEAN
    BY FirstTry DEF SelectionInv, SelectionTypes, Selection!Prepare, Selection!BeginFailure
  <2> QED BY <2>1, <2>2 DEF SelectionInv, SelectionTypes, Selection!Prepare, Selection!EndDraw
<1>2. DrawersAdmitted'
  BY DEF SelectionAssumption, SelectionInv, SelectionTypes, DrawersAdmitted, Entitled,
         DrawStages, Selection!Prepare, Selection!EndDraw, Selection!BeginFailure, Selection!Goes
<1>3. QueueBound'
  BY DEF SelectionAssumption, SelectionInv, SelectionTypes, Bindings, QueueBound,
         DrawersAdmitted, Entitled, Selection!Prepare, Selection!EndDraw, Selection!BeginFailure,
         Selection!Goes
<1>4. DrawnAlike'
  BY DEF SelectionAssumption, SelectionInv, SelectionTypes, Bindings, DrawnAlike,
         DrawersAdmitted, Entitled, DrawStages, Selection!Prepare, Selection!EndDraw,
         Selection!BeginFailure, Selection!Goes
<1>5. FailureStays'
  BY DEF SelectionAssumption, SelectionInv, SelectionTypes, Refusals, FailureStays,
         Selection!Mutable, Selection!Words, DrawersAdmitted, Entitled, DrawStages, Stages,
         Selection!Prepare, Selection!EndDraw, Selection!BeginFailure, Selection!Goes
<1> QED  BY <1>1, <1>2, <1>3, <1>4, <1>5 DEF SelectionInv

LEMMA SelectionColourSound ==
  ASSUME SelectionAssumption, SelectionInv, NEW t \in Threads, Selection!Colour(t)
  PROVE  SelectionInv'
<1>1. SelectionTypes'
  <2>1. selAt' \in [Threads -> Stages]
    BY DEF SelectionInv, SelectionTypes, Stages, Selection!Colour, Selection!BeginFailure,
           Selection!Goes
  <2>2. selRefusing' \in [Threads -> Refusals \cup {Nothing}] /\ selFailed' \in BOOLEAN
    BY FirstTry DEF SelectionInv, SelectionTypes, Selection!Colour, Selection!BeginFailure
  <2> QED
    BY <2>1, <2>2
    DEF SelectionInv, SelectionTypes, Selection!Words, Selection!Colour, Selection!EndDraw,
        Selection!RecordColorWait, Selection!ClearColorWait, Selection!Swap
<1>2. DrawersAdmitted'
  BY DEF SelectionAssumption, SelectionInv, SelectionTypes, DrawersAdmitted, Entitled,
         DrawStages, Selection!Colour, Selection!EndDraw, Selection!BeginFailure, Selection!Goes,
         Selection!RecordColorWait, Selection!ClearColorWait, Selection!Swap
<1>3. QueueBound'
  BY DEF SelectionAssumption, SelectionInv, SelectionTypes, Bindings, QueueBound,
         DrawersAdmitted, Entitled, Selection!Colour, Selection!EndDraw, Selection!BeginFailure,
         Selection!Goes, Selection!RecordColorWait, Selection!ClearColorWait, Selection!Swap
<1>4. DrawnAlike'
  BY DEF SelectionAssumption, SelectionInv, SelectionTypes, Bindings, DrawnAlike,
         DrawersAdmitted, Entitled, DrawStages, Selection!Colour, Selection!EndDraw,
         Selection!BeginFailure, Selection!Goes, Selection!RecordColorWait,
         Selection!ClearColorWait, Selection!Swap
<1>5. FailureStays'
  BY DEF SelectionAssumption, SelectionInv, SelectionTypes, Refusals, FailureStays,
         Selection!Mutable, Selection!Words, DrawersAdmitted, Entitled, DrawStages, Stages,
         Selection!Colour, Selection!EndDraw, Selection!BeginFailure, Selection!Goes,
         Selection!RecordColorWait, Selection!ClearColorWait, Selection!Swap
<1> QED  BY <1>1, <1>2, <1>3, <1>4, <1>5 DEF SelectionInv

LEMMA SelectionSignalSound ==
  ASSUME SelectionAssumption, SelectionInv, NEW t \in Threads,
         NEW q \in DOMAIN Queues, Selection!Signal(t, q)
  PROVE  SelectionInv'
<1>1. SelectionTypes'
  BY DEF SelectionAssumption, SelectionInv, SelectionTypes, Bindings, Stages,
         Selection!Words, Refusals, Selection!Mutable, Selection!Signal, Selection!Goes,
         Selection!MarkAmbiguous
<1>2. DrawersAdmitted'
  <2>1. selBinding'.ready = selBinding.ready /\ selBinding'.chain = selBinding.chain
    BY DEF SelectionInv, SelectionTypes, Bindings, Selection!Signal, Selection!MarkAmbiguous
  <2>2. \A u \in Threads : selAt'[u] = selAt[u] \/ selAt'[u] = "offers"
    BY DEF SelectionInv, SelectionTypes, Selection!Signal, Selection!Goes
  <2>3. UNCHANGED <<selContext, selChain, selBackend, selDrawer>>
    BY DEF Selection!Signal
  <2> QED BY <2>1, <2>2, <2>3 DEF SelectionInv, DrawersAdmitted, Entitled, DrawStages
<1>3. QueueBound'
  BY DEF SelectionAssumption, SelectionInv, SelectionTypes, Bindings, QueueBound,
         DrawersAdmitted, Entitled, Selection!Signal, Selection!Goes, Selection!MarkAmbiguous
<1>4. DrawnAlike'
  BY DEF SelectionAssumption, SelectionInv, SelectionTypes, Bindings, DrawnAlike,
         DrawersAdmitted, Entitled, DrawStages, Selection!Signal, Selection!Goes,
         Selection!MarkAmbiguous
<1>5. FailureStays'
  BY DEF SelectionAssumption, SelectionInv, SelectionTypes, Refusals, FailureStays,
         Selection!Mutable, Selection!Words, DrawersAdmitted, Entitled, DrawStages, Stages,
         Selection!Signal, Selection!Goes, Selection!MarkAmbiguous
<1> QED  BY <1>1, <1>2, <1>3, <1>4, <1>5 DEF SelectionInv

LEMMA SelectionOfferSound ==
  ASSUME SelectionAssumption, SelectionInv, NEW t \in Threads, Selection!Offer(t)
  PROVE  SelectionInv'
<1>1. SelectionTypes'
  <2>1. selBinding' \in Bindings
    BY DEF SelectionInv, SelectionTypes, Bindings, Selection!Offer, Selection!MarkAmbiguous
  <2>2. selAt' \in [Threads -> Stages]
    BY DEF SelectionInv, SelectionTypes, Stages, Selection!Offer, Selection!Goes
  <2> QED BY <2>1, <2>2 DEF SelectionInv, SelectionTypes, Selection!Offer
<1>2. DrawersAdmitted'
  <2>1. selBinding'.ready = selBinding.ready /\ selBinding'.chain = selBinding.chain
    BY DEF SelectionInv, SelectionTypes, Bindings, Selection!Offer, Selection!MarkAmbiguous
  <2>2. \A u \in Threads : selAt'[u] = selAt[u] \/ selAt'[u] \in {"native", "publishes"}
    BY DEF SelectionInv, SelectionTypes, Selection!Offer, Selection!Goes
  <2>3. UNCHANGED <<selContext, selChain, selBackend, selDrawer>>
    BY DEF Selection!Offer
  <2> QED BY <2>1, <2>2, <2>3 DEF SelectionInv, DrawersAdmitted, Entitled, DrawStages
<1>3. QueueBound'
  BY DEF SelectionAssumption, SelectionInv, SelectionTypes, Bindings, QueueBound,
         DrawersAdmitted, Entitled, Selection!Offer, Selection!Goes, Selection!MarkAmbiguous
<1>4. DrawnAlike'
  BY DEF SelectionAssumption, SelectionInv, SelectionTypes, Bindings, DrawnAlike,
         DrawersAdmitted, Entitled, DrawStages, Selection!Offer, Selection!Goes,
         Selection!MarkAmbiguous
<1>5. FailureStays'
  BY DEF SelectionAssumption, SelectionInv, SelectionTypes, Refusals, FailureStays,
         Selection!Mutable, Selection!Words, DrawersAdmitted, Entitled, DrawStages, Stages,
         Selection!Offer, Selection!Goes, Selection!MarkAmbiguous
<1> QED  BY <1>1, <1>2, <1>3, <1>4, <1>5 DEF SelectionInv

LEMMA SelectionPublishSound ==
  ASSUME SelectionAssumption, SelectionInv, NEW t \in Threads, Selection!Publish(t)
  PROVE  SelectionInv'
<1>1. SelectionTypes'
  BY DEF SelectionAssumption, SelectionInv, SelectionTypes, Bindings, Stages,
         Selection!Words, Refusals, Selection!Mutable, Selection!Publish, Selection!Goes,
         Selection!Match
<1>2. DrawersAdmitted'
  BY DEF SelectionAssumption, SelectionInv, SelectionTypes, DrawersAdmitted, Entitled,
         DrawStages, Selection!Publish, Selection!Goes, Selection!Match
<1>3. QueueBound'
  BY DEF SelectionAssumption, SelectionInv, SelectionTypes, Bindings, QueueBound,
         DrawersAdmitted, Entitled, Selection!Publish, Selection!Goes, Selection!Match
<1>4. DrawnAlike'
  BY DEF SelectionAssumption, SelectionInv, SelectionTypes, Bindings, DrawnAlike,
         DrawersAdmitted, Entitled, DrawStages, Selection!Publish, Selection!Goes, Selection!Match
<1>5. FailureStays'
  BY DEF SelectionAssumption, SelectionInv, SelectionTypes, Refusals, FailureStays,
         Selection!Mutable, Selection!Words, DrawersAdmitted, Entitled, DrawStages, Stages,
         Selection!Publish, Selection!Goes, Selection!Match
<1> QED  BY <1>1, <1>2, <1>3, <1>4, <1>5 DEF SelectionInv

LEMMA SelectionReturnsSound ==
  ASSUME SelectionAssumption, SelectionInv, NEW t \in Threads, Selection!Returns(t)
  PROVE  SelectionInv'
<1>1. SelectionTypes'
  BY DEF SelectionAssumption, SelectionInv, SelectionTypes, Bindings, Stages,
         Selection!Words, Refusals, Selection!Mutable, Selection!Returns, Selection!Goes
<1>2. DrawersAdmitted'
  BY DEF SelectionAssumption, SelectionInv, SelectionTypes, DrawersAdmitted, Entitled,
         DrawStages, Selection!Returns, Selection!Goes
<1>3. QueueBound'
  BY DEF SelectionAssumption, SelectionInv, SelectionTypes, Bindings, QueueBound,
         DrawersAdmitted, Entitled, Selection!Returns, Selection!Goes
<1>4. DrawnAlike'
  BY DEF SelectionAssumption, SelectionInv, SelectionTypes, Bindings, DrawnAlike,
         DrawersAdmitted, Entitled, DrawStages, Selection!Returns, Selection!Goes
<1>5. FailureStays'
  BY DEF SelectionAssumption, SelectionInv, SelectionTypes, Refusals, FailureStays,
         Selection!Mutable, Selection!Words, DrawersAdmitted, Entitled, DrawStages, Stages,
         Selection!Returns, Selection!Goes
<1> QED  BY <1>1, <1>2, <1>3, <1>4, <1>5 DEF SelectionInv

LEMMA SelectionFailsElsewhereSound ==
  ASSUME SelectionAssumption, SelectionInv, NEW t \in Threads, Selection!FailsElsewhere(t)
  PROVE  SelectionInv'
<1>1. SelectionTypes'
  BY DEF SelectionAssumption, SelectionInv, SelectionTypes, Bindings, Stages,
         Selection!Words, Refusals, Selection!Mutable, Selection!FailsElsewhere,
         Selection!BeginFailure, Selection!Goes
<1>2. DrawersAdmitted'
  BY DEF SelectionAssumption, SelectionInv, SelectionTypes, DrawersAdmitted, Entitled,
         DrawStages, Selection!FailsElsewhere, Selection!BeginFailure, Selection!Goes
<1>3. QueueBound'
  BY DEF SelectionAssumption, SelectionInv, SelectionTypes, Bindings, QueueBound,
         DrawersAdmitted, Entitled, Selection!FailsElsewhere, Selection!BeginFailure,
         Selection!Goes
<1>4. DrawnAlike'
  BY DEF SelectionAssumption, SelectionInv, SelectionTypes, Bindings, DrawnAlike,
         DrawersAdmitted, Entitled, DrawStages, Selection!FailsElsewhere, Selection!BeginFailure,
         Selection!Goes
<1>5. FailureStays'
  BY DEF SelectionAssumption, SelectionInv, SelectionTypes, Refusals, FailureStays,
         Selection!Mutable, Selection!Words, DrawersAdmitted, Entitled, DrawStages, Stages,
         Selection!FailsElsewhere, Selection!BeginFailure, Selection!Goes
<1> QED  BY <1>1, <1>2, <1>3, <1>4, <1>5 DEF SelectionInv

LEMMA SelectionPublishRuntimeRefusalSound ==
  ASSUME SelectionAssumption, SelectionInv, NEW t \in Threads, Selection!PublishRuntimeRefusal(t)
  PROVE  SelectionInv'
<1>1. SelectionTypes'
  <2>1. selAt' \in [Threads -> Stages]
    BY DEF SelectionInv, SelectionTypes, Stages, Selection!PublishRuntimeRefusal, Selection!Goes
  <2>2. selRefusing[t] \in Refusals
    BY DEF SelectionInv, SelectionTypes, FailureStays, Selection!PublishRuntimeRefusal
  <2>3. Selection!Tries(t) \in Refusals \cup {Nothing}
    <3> SUFFICES ASSUME Selection!Tries(t) # Nothing PROVE Selection!Tries(t) \in Refusals
      OBVIOUS
    <3>1. Selection!Tries(t) = [expected |-> selReady, tries |-> selRefusing[t].tries - 1]
          /\ selReady \in Selection!Mutable /\ selRefusing[t].tries # 1
      BY DEF Selection!Tries
    <3>2. selRefusing[t].tries - 1 \in 1 .. 3
      BY <2>2, <3>1 DEF Refusals
    <3> QED BY <3>1, <3>2 DEF Refusals
  <2>4. selRefusing' \in [Threads -> Refusals \cup {Nothing}]
    BY <2>3 DEF SelectionInv, SelectionTypes, Selection!PublishRuntimeRefusal
  <2> QED
    BY <2>1, <2>4
    DEF SelectionInv, SelectionTypes, Selection!Words, Selection!PublishRuntimeRefusal,
        Selection!Swap
<1>2. DrawersAdmitted'
  BY DEF SelectionAssumption, SelectionInv, SelectionTypes, DrawersAdmitted, Entitled,
         DrawStages, Selection!PublishRuntimeRefusal, Selection!Tries, Selection!Goes,
         Selection!Swap
<1>3. QueueBound'
  BY DEF SelectionAssumption, SelectionInv, SelectionTypes, Bindings, QueueBound,
         DrawersAdmitted, Entitled, Selection!PublishRuntimeRefusal, Selection!Tries,
         Selection!Goes, Selection!Swap
<1>4. DrawnAlike'
  BY DEF SelectionAssumption, SelectionInv, SelectionTypes, Bindings, DrawnAlike,
         DrawersAdmitted, Entitled, DrawStages, Selection!PublishRuntimeRefusal, Selection!Tries,
         Selection!Goes, Selection!Swap
<1>5. FailureStays'
  BY DEF SelectionAssumption, SelectionInv, SelectionTypes, Refusals, FailureStays,
         Selection!Mutable, Selection!Words, DrawersAdmitted, Entitled, DrawStages, Stages,
         Selection!PublishRuntimeRefusal, Selection!Tries, Selection!Goes, Selection!Swap
<1> QED  BY <1>1, <1>2, <1>3, <1>4, <1>5 DEF SelectionInv

LEMMA SelectionHelperGatesSound ==
  ASSUME SelectionAssumption, SelectionInv, Selection!HelperGates
  PROVE  SelectionInv'
<1>1. SelectionTypes'
  BY DEF SelectionAssumption, SelectionInv, SelectionTypes, Bindings, Stages,
         Selection!Words, Refusals, Selection!Mutable, Selection!HelperGates
<1>2. DrawersAdmitted'
  BY DEF SelectionAssumption, SelectionInv, SelectionTypes, DrawersAdmitted, Entitled,
         DrawStages, Selection!HelperGates
<1>3. QueueBound'
  BY DEF SelectionAssumption, SelectionInv, SelectionTypes, Bindings, QueueBound,
         DrawersAdmitted, Entitled, Selection!HelperGates
<1>4. DrawnAlike'
  BY DEF SelectionAssumption, SelectionInv, SelectionTypes, Bindings, DrawnAlike,
         DrawersAdmitted, Entitled, DrawStages, Selection!HelperGates
<1>5. FailureStays'
  BY DEF SelectionAssumption, SelectionInv, SelectionTypes, Refusals, FailureStays,
         Selection!Mutable, Selection!Words, DrawersAdmitted, Entitled, DrawStages, Stages,
         Selection!HelperGates
<1> QED  BY <1>1, <1>2, <1>3, <1>4, <1>5 DEF SelectionInv

LEMMA SelectionRestSound ==
  ASSUME SelectionAssumption, SelectionInv, UNCHANGED Selection!vars
  PROVE  SelectionInv'
<1>1. SelectionTypes'
  BY DEF SelectionAssumption, SelectionInv, SelectionTypes, Bindings, Stages,
         Selection!Words, Refusals, Selection!Mutable, Selection!vars
<1>2. DrawersAdmitted'
  BY DEF SelectionAssumption, SelectionInv, SelectionTypes, DrawersAdmitted, Entitled,
         DrawStages, Selection!vars
<1>3. QueueBound'
  BY DEF SelectionAssumption, SelectionInv, SelectionTypes, Bindings, QueueBound,
         DrawersAdmitted, Entitled, Selection!vars
<1>4. DrawnAlike'
  BY DEF SelectionAssumption, SelectionInv, SelectionTypes, Bindings, DrawnAlike,
         DrawersAdmitted, Entitled, DrawStages, Selection!vars
<1>5. FailureStays'
  BY DEF SelectionAssumption, SelectionInv, SelectionTypes, Refusals, FailureStays,
         Selection!Mutable, Selection!Words, DrawersAdmitted, Entitled, DrawStages, Stages,
         Selection!vars
<1> QED  BY <1>1, <1>2, <1>3, <1>4, <1>5 DEF SelectionInv

LEMMA SelectionStep == ASSUME SelectionAssumption, SelectionInv,
    [Selection!Next]_(Selection!vars) PROVE SelectionInv'
BY SelectionPresentSound, SelectionDrawD3d11Sound, SelectionSelectSound, SelectionAdmitSound,
   SelectionPrepareSound, SelectionColourSound, SelectionSignalSound, SelectionOfferSound,
   SelectionPublishSound, SelectionReturnsSound, SelectionFailsElsewhereSound,
   SelectionPublishRuntimeRefusalSound, SelectionHelperGatesSound, SelectionRestSound
DEF Selection!Next

(* What the runs check of the selection.                                   *)
LEMMA SelectionFollows ==
  ASSUME SelectionAssumption, SelectionInv
  PROVE  Selection!SelectionHolds
<1>1. Selection!TypeOK
  BY DEF SelectionAssumption, SelectionInv, SelectionTypes, Stages, DrawersAdmitted,
         Entitled, Bindings, Refusals, Selection!TypeOK
<1>2. Selection!OneChainDrawn BY DEF SelectionInv, DrawnAlike, QueueBound, Selection!OneChainDrawn
<1>3. Selection!FailureIsTold BY DEF SelectionInv, FailureStays, Selection!FailureIsTold
<1> QED BY <1>1, <1>2, <1>3 DEF Selection!SelectionHolds

(* The inductive invariant of product_overlay_hook.cpp's choice, for every *)
(* set of threads, chains and queues: what each thread has found so far,   *)
(* what the binding is worth, and how a failure gets told.                 *)
THEOREM SelectionInvariant == ASSUME SelectionAssumption PROVE Selection!Spec => []SelectionInv
BY SelectionInitially, SelectionStep, PTL DEF Selection!Spec

(* Everything drawn was drawn with one backend, on one chain, with the     *)
(* queue of that chain's own device; and once a failure is recorded the    *)
(* three tries have left the reason where the helper reads it, and nothing *)
(* under way takes it back (queue_binding.hpp, initial_refusal.hpp).       *)
THEOREM OneChainIsDrawn ==
  ASSUME SelectionAssumption
  PROVE  Selection!Spec => []Selection!SelectionHolds
BY SelectionInvariant, SelectionFollows, PTL

-----------------------------------------------------------------------------
(* The sessions of the tray (OverlaySessions).                             *)

Carries(i, t) == sessionSlots[i].state # "Empty" /\ sessionSlots[i].target = t

SessionsTyped ==
  /\ sessionSlots \in [Sessions!Slot -> Sessions!Sessions] /\ alive \subseteq Targets
  /\ choosing = <<>> \/ \E t \in Targets : choosing = <<t>>

(* Of a program that runs and was attached the tray still knows: it has a  *)
(* session, or is among the refused, unless the list could not keep it.    *)
AttachedAreKnown ==
  \A t \in attached \cap alive :
     t \in forgotten \/ t \in Sessions!Range(refused) \/ \E i \in Sessions!Slot : Carries(i, t)

(* The question is put for programs the tray does not know.                *)
ChoiceIsOfNew ==
  \A t \in Targets :
     choosing = <<t>> /\ t \in attached \cap alive => t \in forgotten

SessionsInv == SessionsTyped /\ AttachedAreKnown /\ ChoiceIsOfNew /\ Sessions!AttachedOnce

LEMMA MinIsLeast == ASSUME NEW S, S \subseteq Nat, S # {} PROVE Sessions!Min(S) \in S
<1> DEFINE R == OpToRel(<, Nat)
<1>1. PICK x \in S : \A y \in S : ~ (<<y, x>> \in R)
  BY NatLessThanWellFounded, WFMin
<1>2. R = {pair \in Nat \X Nat : pair[1] < pair[2]} BY DEF OpToRel
<1> HIDE DEF R
<1>3. \A y \in S : x <= y
  <2> SUFFICES ASSUME NEW y \in S, ~ (x <= y) PROVE FALSE
    OBVIOUS
  <2>1. <<y, x>> \in Nat \X Nat /\ <<y, x>>[1] < <<y, x>>[2]
    OBVIOUS
  <2>2. <<y, x>> \in R
    BY <1>2, <2>1
  <2> QED BY <1>1, <2>2
<1> QED BY <1>1, <1>3 DEF Sessions!Min

LEMMA SessionsInitially == Sessions!Init => SessionsInv
BY DEF Sessions!Init, SessionsInv, SessionsTyped, AttachedAreKnown, ChoiceIsOfNew,
       Sessions!AttachedOnce, Sessions!Sessions, Sessions!None

(* Steps that keep every session where it is. *)
LEMMA SameTargets ==
  ASSUME SessionsInv, sessionSlots' \in [Sessions!Slot -> Sessions!Sessions],
         \A i \in Sessions!Slot :
           sessionSlots'[i].state # "Empty" <=> sessionSlots[i].state # "Empty",
         \A i \in Sessions!Slot : sessionSlots'[i].target = sessionSlots[i].target,
         alive' \subseteq alive, UNCHANGED <<refused, attached, again, forgotten>>,
         choosing' \in {choosing, <<>>}
  PROVE  SessionsInv'
<1>1. \A i \in Sessions!Slot, t \in Targets : Carries(i, t) => Carries(i, t)'
  BY DEF Carries
<1>2. SessionsTyped' BY DEF SessionsInv, SessionsTyped
<1>3. AttachedAreKnown'
  BY DEF SessionsInv, AttachedAreKnown, Carries
<1>4. ChoiceIsOfNew' /\ Sessions!AttachedOnce'
  BY DEF SessionsInv, ChoiceIsOfNew, Sessions!AttachedOnce
<1> QED BY <1>2, <1>3, <1>4 DEF SessionsInv

LEMMA SessionToggleSound == ASSUME SessionsInv, Sessions!Toggle PROVE SessionsInv'
<1>1. PICK i \in Sessions!SessionsOf(front) :
        sessionSlots' = [sessionSlots EXCEPT ![i] = Sessions!Toggled(@)]
  BY DEF Sessions!Toggle
<1>2. i \in Sessions!Slot /\ sessionSlots[i] \in Sessions!Sessions
  BY DEF Sessions!SessionsOf, Sessions!Used, SessionsInv, SessionsTyped
<1>3. /\ Sessions!Toggled(sessionSlots[i]) \in Sessions!Sessions
      /\ Sessions!Toggled(sessionSlots[i]).target = sessionSlots[i].target
      /\ (Sessions!Toggled(sessionSlots[i]).state # "Empty" <=> sessionSlots[i].state # "Empty")
  BY <1>2 DEF Sessions!Toggled, Sessions!Sessions
<1> QED
  BY <1>1, <1>2, <1>3, SameTargets
  DEF Sessions!Toggle, Sessions!world, Sessions!history, SessionsInv, SessionsTyped

LEMMA SessionAskSound == ASSUME SessionsInv, Sessions!Ask PROVE SessionsInv'
<1>1. choosing' = <<front>> BY DEF Sessions!Ask, Sessions!MayPress
<1>2. front \in attached => front \in forgotten
  BY DEF Sessions!Ask, SessionsInv, AttachedAreKnown, Sessions!SessionsOf, Sessions!Used, Carries
<1>3. UNCHANGED <<sessionSlots, alive, refused, attached, again, forgotten>>
  BY DEF Sessions!Ask, Sessions!world, Sessions!history
<1>4. SessionsTyped' BY <1>1, <1>3 DEF Sessions!Ask, SessionsInv, SessionsTyped
<1>5. AttachedAreKnown' BY <1>3 DEF SessionsInv, AttachedAreKnown, Carries
<1>6. ChoiceIsOfNew'
  <2> SUFFICES ASSUME NEW t \in Targets, choosing' = <<t>>, t \in attached PROVE t \in forgotten
    BY <1>3 DEF ChoiceIsOfNew
  <2>1. t = front BY <1>1
  <2> QED BY <1>2, <2>1
<1>7. Sessions!AttachedOnce' BY <1>3 DEF SessionsInv, Sessions!AttachedOnce
<1> QED BY <1>4, <1>5, <1>6, <1>7 DEF SessionsInv

LEMMA SessionDeclineSound == ASSUME SessionsInv, Sessions!Decline PROVE SessionsInv'
<1>1. choosing' = <<>>
  BY DEF Sessions!Decline, Sessions!Front, SessionsInv, SessionsTyped
<1> QED
  BY <1>1, SameTargets
  DEF Sessions!Decline, Sessions!world, Sessions!history, SessionsInv, SessionsTyped

LEMMA SessionAcceptSound ==
  ASSUME SessionsInv, Sessions!Accept, MaxSlots \in Nat
  PROVE  SessionsInv'
<1>1. PICK t \in Targets : choosing = <<t>> BY DEF Sessions!Accept, SessionsInv, SessionsTyped
<1>2. Sessions!Last(choosing) = t /\ choosing' = <<>>
  BY <1>1 DEF Sessions!Accept, Sessions!Last, Sessions!Front
<1> DEFINE i == Sessions!Min(Sessions!Slot \ Sessions!Used)
<1>3. i \in Sessions!Slot /\ sessionSlots[i].state = "Empty"
  <2>1. Sessions!Slot \ Sessions!Used # {} /\ Sessions!Slot \ Sessions!Used \subseteq Nat
    BY DEF Sessions!Accept, Sessions!Slot, Sessions!Used
  <2> QED BY <2>1, MinIsLeast DEF Sessions!Used
<1> HIDE DEF i
<1>4. /\ t \in alive /\ attached' = attached \cup {t} /\ again' = again \cup ({t} \cap attached)
      /\ UNCHANGED <<alive, refused, forgotten>>
  BY <1>2 DEF Sessions!Accept, Sessions!world
<1>5. /\ sessionSlots' \in [Sessions!Slot -> Sessions!Sessions]
      /\ sessionSlots'[i].state # "Empty" /\ sessionSlots'[i].target = t
      /\ \A j \in Sessions!Slot \ {i} :
           /\ sessionSlots'[j].state = sessionSlots[j].state
           /\ sessionSlots'[j].target = sessionSlots[j].target
  <2>1. Sessions!Fresh(t) \in Sessions!Sessions /\ Sessions!Fresh(t).target = t
          /\ Sessions!Fresh(t).state = "Installing"
    BY DEF Sessions!Fresh, Sessions!None, Sessions!Sessions
  <2>2. CASE sessionSlots' = [sessionSlots EXCEPT ![i] = Sessions!Fresh(t)]
    BY <1>3, <2>1, <2>2 DEF SessionsInv, SessionsTyped
  <2>3. CASE sessionSlots' = [j \in Sessions!Slot |->
                         IF j = i
                         THEN [Sessions!Fresh(t) EXCEPT !.state = "Failed", !.helper = "none"]
                         ELSE Sessions!Dark(sessionSlots[j])]
    <3>1. [Sessions!Fresh(t) EXCEPT !.state = "Failed", !.helper = "none"] \in Sessions!Sessions
          /\ [Sessions!Fresh(t) EXCEPT !.state = "Failed", !.helper = "none"].target = t
          /\ [Sessions!Fresh(t) EXCEPT !.state = "Failed", !.helper = "none"].state = "Failed"
      BY <2>1 DEF Sessions!Sessions
    <3>2. \A j \in Sessions!Slot :
            /\ Sessions!Dark(sessionSlots[j]) \in Sessions!Sessions
            /\ Sessions!Dark(sessionSlots[j]).state = sessionSlots[j].state
            /\ Sessions!Dark(sessionSlots[j]).target = sessionSlots[j].target
      BY DEF SessionsInv, SessionsTyped, Sessions!Sessions, Sessions!Dark
    <3> QED BY <1>3, <2>3, <3>1, <3>2
  <2> QED BY <1>2, <2>2, <2>3 DEF Sessions!Accept, i
<1>6. SessionsTyped' BY <1>2, <1>4, <1>5 DEF SessionsInv, SessionsTyped
<1>7. AttachedAreKnown' BY <1>3, <1>4, <1>5 DEF SessionsInv, AttachedAreKnown, Carries
<1>8. ChoiceIsOfNew' BY <1>2 DEF ChoiceIsOfNew
<1>9. Sessions!AttachedOnce' BY <1>1, <1>4 DEF SessionsInv, ChoiceIsOfNew, Sessions!AttachedOnce
<1> QED BY <1>6, <1>7, <1>8, <1>9 DEF SessionsInv

(* What a tick makes of a session. *)
LEMMA FollowedSession ==
  ASSUME NEW s \in Sessions!Sessions
  PROVE  /\ Sessions!Followed(s) \in Sessions!Sessions
         /\ \A picture :
              /\ Sessions!Painted(Sessions!Followed(s), picture) \in Sessions!Sessions
              /\ Sessions!Painted(Sessions!Followed(s), picture).target
                   = Sessions!Followed(s).target
              /\ Sessions!Painted(Sessions!Followed(s), picture).state
                   = Sessions!Followed(s).state
         /\ s.state # "Empty" /\ s.target \in alive /\ ~Sessions!Retired(s)
              => Sessions!Followed(s).target = s.target /\ Sessions!Followed(s).state # "Empty"
<1>1. Sessions!Followed(s) \in Sessions!Sessions
  BY DEF Sessions!Followed, Sessions!None, Sessions!Ready, Sessions!Sessions
<1>2. \A picture :
        /\ Sessions!Painted(Sessions!Followed(s), picture) \in Sessions!Sessions
        /\ Sessions!Painted(Sessions!Followed(s), picture).target = Sessions!Followed(s).target
        /\ Sessions!Painted(Sessions!Followed(s), picture).state = Sessions!Followed(s).state
  <2> TAKE picture
  <2> DEFINE f == Sessions!Followed(s)
             drawn == picture = "new" \/ (picture # "none" /\ f.drawn)
             shows == IF ~drawn THEN "no" ELSE IF picture = "unread" THEN "stopped" ELSE "yes"
  <2>1. Sessions!Painted(f, picture) = [f EXCEPT !.drawn = drawn, !.shows = shows]
    BY DEF Sessions!Painted
  <2>2. drawn \in BOOLEAN /\ shows \in {"yes", "no", "stopped"}
    OBVIOUS
  <2> HIDE DEF f, drawn, shows
  <2>3. f \in Sessions!Sessions BY <1>1 DEF f
  <2>4. /\ [f EXCEPT !.drawn = drawn, !.shows = shows] \in Sessions!Sessions
        /\ [f EXCEPT !.drawn = drawn, !.shows = shows].target = f.target
        /\ [f EXCEPT !.drawn = drawn, !.shows = shows].state = f.state
    BY <2>2, <2>3 DEF Sessions!Sessions
  <2> QED BY <2>1, <2>4 DEF f
<1>3. s.state # "Empty" /\ s.target \in alive /\ ~Sessions!Retired(s)
        => Sessions!Followed(s).target = s.target /\ Sessions!Followed(s).state # "Empty"
  BY DEF Sessions!Followed, Sessions!Ready, Sessions!Sessions
<1> QED BY <1>1, <1>2, <1>3

(* What Remember drops from the list of the refused it counts as forgotten. *)
LEMMA SessionRememberSound ==
  ASSUME NEW n, Sessions!Remember(n)
  PROVE  /\ forgotten \subseteq forgotten'
         /\ \A t \in Sessions!Range(refused) : t \in Sessions!Range(refused') \/ t \in forgotten'
         /\ \A i \in Sessions!Failing(n) :
              sessionSlots[i].target \in Sessions!Range(refused')
                \/ sessionSlots[i].target \in forgotten'
BY DEF Sessions!Remember

LEMMA SessionTickSound == ASSUME SessionsInv, Sessions!Tick PROVE SessionsInv'
<1>1. PICK pictures \in [{i \in Sessions!Slot : Sessions!Draws(sessionSlots[i])}
                             -> Sessions!Pictures] :
        sessionSlots' = [i \in Sessions!Slot |->
                           IF Sessions!Draws(sessionSlots[i])
                           THEN Sessions!Painted(Sessions!Followed(sessionSlots[i]), pictures[i])
                           ELSE Sessions!Followed(sessionSlots[i])]
  BY DEF Sessions!Tick
<1>2. Sessions!Remember(MaxSlots) /\ UNCHANGED <<alive, choosing, attached, again>>
  BY DEF Sessions!Tick, Sessions!world
<1>3. sessionSlots' \in [Sessions!Slot -> Sessions!Sessions]
  BY <1>1, FollowedSession DEF SessionsInv, SessionsTyped
<1>4. ASSUME NEW t \in attached \cap alive, NEW i \in Sessions!Slot, Carries(i, t)
      PROVE  Carries(i, t)' \/ t \in Sessions!Range(refused') \/ t \in forgotten'
  <2>1. CASE Sessions!Retired(sessionSlots[i])
    <3>1. i \in Sessions!Failing(MaxSlots)
      BY <1>4, <2>1 DEF Sessions!Failing, Carries, Sessions!Slot
    <3> QED BY <1>2, <1>4, <3>1, SessionRememberSound DEF Carries
  <2>2. CASE ~Sessions!Retired(sessionSlots[i])
    <3>1. sessionSlots[i] \in Sessions!Sessions BY DEF SessionsInv, SessionsTyped
    <3> QED BY <1>1, <1>4, <2>2, <3>1, FollowedSession DEF Carries
  <2> QED BY <2>1, <2>2
<1>5. forgotten \subseteq forgotten'
        /\ \A t \in Sessions!Range(refused) : t \in Sessions!Range(refused') \/ t \in forgotten'
  BY <1>2, SessionRememberSound
<1>6. SessionsTyped' BY <1>2, <1>3 DEF SessionsInv, SessionsTyped
<1>7. AttachedAreKnown' BY <1>2, <1>4, <1>5 DEF SessionsInv, AttachedAreKnown
<1>8. ChoiceIsOfNew' /\ Sessions!AttachedOnce'
  BY <1>2, <1>5 DEF SessionsInv, ChoiceIsOfNew, Sessions!AttachedOnce
<1> QED BY <1>6, <1>7, <1>8 DEF SessionsInv

LEMMA SessionTickThrowsSound ==
  ASSUME SessionsInv, Sessions!TickThrows, MaxSlots \in Nat
  PROVE  SessionsInv'
<1>1. PICK n \in Sessions!Slot :
        /\ Sessions!Draws(sessionSlots[n])
        /\ sessionSlots' = [i \in Sessions!Slot |->
                       Sessions!Dark(IF i <= n THEN Sessions!Followed(sessionSlots[i])
                            ELSE sessionSlots[i])]
        /\ Sessions!Remember(n - 1)
  BY DEF Sessions!TickThrows
<1>2. UNCHANGED <<alive, choosing, attached, again>> BY DEF Sessions!TickThrows, Sessions!world
<1>0. \A s \in Sessions!Sessions :
        Sessions!Dark(s) \in Sessions!Sessions /\ Sessions!Dark(s).state = s.state
          /\ Sessions!Dark(s).target = s.target
  BY DEF Sessions!Dark, Sessions!Sessions
<1>3. sessionSlots' \in [Sessions!Slot -> Sessions!Sessions]
  BY <1>0, <1>1, FollowedSession DEF SessionsInv, SessionsTyped
<1>4. ASSUME NEW t \in attached \cap alive, NEW i \in Sessions!Slot, Carries(i, t)
      PROVE  Carries(i, t)' \/ t \in Sessions!Range(refused') \/ t \in forgotten'
  <2>0. sessionSlots[i] \in Sessions!Sessions BY DEF SessionsInv, SessionsTyped
  <2>1. CASE i <= n /\ Sessions!Retired(sessionSlots[i])
    <3>1. i # n
      <4>1. i = n => Sessions!Followed(sessionSlots[n]) = Sessions!None
        BY <2>1 DEF Sessions!Followed
      <4> QED BY <1>1, <4>1 DEF Sessions!Draws, Sessions!None
    <3>2. i \in Sessions!Failing(n - 1)
      BY <1>4, <2>1, <3>1 DEF Sessions!Failing, Carries, Sessions!Slot
    <3> QED BY <1>1, <1>4, <3>2, SessionRememberSound DEF Carries
  <2>2. CASE i <= n /\ ~Sessions!Retired(sessionSlots[i])
    <3>1. /\ Sessions!Followed(sessionSlots[i]) \in Sessions!Sessions
          /\ Sessions!Followed(sessionSlots[i]).target = t
          /\ Sessions!Followed(sessionSlots[i]).state # "Empty"
      BY <1>4, <2>0, <2>2, FollowedSession DEF Carries
    <3> QED BY <1>0, <1>1, <2>2, <3>1 DEF Carries
  <2>3. CASE ~(i <= n)
    BY <1>0, <1>1, <1>4, <2>0, <2>3 DEF Carries
  <2> QED BY <2>1, <2>2, <2>3
<1>5. forgotten \subseteq forgotten'
        /\ \A t \in Sessions!Range(refused) : t \in Sessions!Range(refused') \/ t \in forgotten'
  BY <1>1, SessionRememberSound
<1>6. SessionsTyped' BY <1>2, <1>3 DEF SessionsInv, SessionsTyped
<1>7. AttachedAreKnown' BY <1>2, <1>4, <1>5 DEF SessionsInv, AttachedAreKnown
<1>8. ChoiceIsOfNew' /\ Sessions!AttachedOnce'
  BY <1>2, <1>5 DEF SessionsInv, ChoiceIsOfNew, Sessions!AttachedOnce
<1> QED BY <1>6, <1>7, <1>8 DEF SessionsInv

LEMMA SessionDisableSound == ASSUME SessionsInv, Sessions!Disable PROVE SessionsInv'
<1>1. \A s \in Sessions!Sessions :
        /\ Sessions!Disabled(s) \in Sessions!Sessions /\ Sessions!Disabled(s).target = s.target
        /\ (Sessions!Disabled(s).state # "Empty" <=> s.state # "Empty")
  <2> TAKE s \in Sessions!Sessions
  <2> DEFINE to == IF s.state = "Visible" THEN "Hidden" ELSE s.state
             d == [s EXCEPT !.want = FALSE, !.shows = "no", !.state = to]
  <2>1. Sessions!Disabled(s) = IF s.state = "Empty" THEN s ELSE d
    BY DEF Sessions!Disabled
  <2>2. to \in {"Empty", "Installing", "Visible", "Hidden", "Failed"}
          /\ (to # "Empty" <=> s.state # "Empty")
    BY DEF Sessions!Sessions
  <2> HIDE DEF to
  <2>3. d \in Sessions!Sessions /\ d.target = s.target /\ d.state = to
    BY <2>2 DEF Sessions!Sessions
  <2> QED BY <2>1, <2>2, <2>3
<1> QED
  BY <1>1, SameTargets
  DEF Sessions!Disable, Sessions!world, Sessions!history, SessionsInv, SessionsTyped

LEMMA SessionHelperSound == ASSUME SessionsInv,
         NEW i \in Sessions!Slot, Sessions!Helper(i) PROVE SessionsInv'
<1>1. PICK to \in {"Ready", "Gone"} : sessionSlots' = [sessionSlots EXCEPT ![i].helper = to]
  BY DEF Sessions!Helper
<1>2. sessionSlots[i] \in Sessions!Sessions BY DEF SessionsInv, SessionsTyped
<1>3. [sessionSlots[i] EXCEPT !.helper = to] \in Sessions!Sessions
      /\ [sessionSlots[i] EXCEPT !.helper = to].target = sessionSlots[i].target
      /\ [sessionSlots[i] EXCEPT !.helper = to].state = sessionSlots[i].state
  BY <1>2 DEF Sessions!Sessions
<1>4. /\ sessionSlots' \in [Sessions!Slot -> Sessions!Sessions]
      /\ \A j \in Sessions!Slot :
           sessionSlots'[j].target = sessionSlots[j].target
             /\ sessionSlots'[j].state = sessionSlots[j].state
  BY <1>1, <1>3 DEF SessionsInv, SessionsTyped
<1> QED BY <1>4, SameTargets DEF Sessions!Helper, Sessions!world, Sessions!history

LEMMA ElsewhereSound ==
  ASSUME SessionsInv, Sessions!Enable \/ Sessions!ShowOsd \/ (\E t \in Targets : Sessions!Exit(t))
               \/ (\E t \in Targets \cup {Nobody} : Sessions!BringToFront(t))
                    \/ UNCHANGED Sessions!vars
  PROVE  SessionsInv'
<1>1. alive' \subseteq alive
        /\ UNCHANGED <<sessionSlots, choosing, refused, attached, again, forgotten>>
  BY DEF Sessions!Enable, Sessions!ShowOsd, Sessions!Exit, Sessions!BringToFront,
         Sessions!vars, Sessions!world, Sessions!runtime, Sessions!history
<1> QED BY <1>1, SameTargets DEF SessionsInv, SessionsTyped

LEMMA SessionsStep == ASSUME SessionsInv, MaxSlots \in Nat,
    [Sessions!Next]_(Sessions!vars) PROVE SessionsInv'
BY SessionToggleSound, SessionAskSound, SessionDeclineSound, SessionAcceptSound,
   SessionTickSound, SessionTickThrowsSound, SessionDisableSound, SessionHelperSound,
   ElsewhereSound
DEF Sessions!Next

-----------------------------------------------------------------------------
(* What a recursive function computes is found by induction over the       *)
(* numbers; the facts cited are about sets, so the induction is one on a   *)
(* set of numbers.                                                         *)

(* Induction, for a set instead of a predicate.                            *)
LEMMA SetInduction ==
  ASSUME NEW T, 0 \in T, \A i \in Nat : i \in T => i + 1 \in T
  PROVE  Nat \subseteq T
<1> SUFFICES ASSUME Nat \ T # {} PROVE FALSE
  OBVIOUS
<1> DEFINE R == OpToRel(<, Nat)
<1>1. PICK n \in Nat \ T : \A k \in Nat \ T : ~ (<<k, n>> \in R)
  BY NatLessThanWellFounded, WFMin
<1>2. R = {pair \in Nat \X Nat : pair[1] < pair[2]} BY DEF OpToRel
<1> HIDE DEF R
<1>3. n # 0 /\ n - 1 \in Nat /\ n - 1 < n
  OBVIOUS
<1>4. <<n - 1, n>> \in Nat \X Nat /\ <<n - 1, n>>[1] < <<n - 1, n>>[2]
  BY <1>3
<1>5. <<n - 1, n>> \in R
  BY <1>2, <1>4
<1>6. n - 1 \in T
  BY <1>1, <1>3, <1>5
<1>7. (n - 1) + 1 \in T
  BY <1>3, <1>6
<1> QED BY <1>7

(* A function on a stretch of numbers whose values follow one another.     *)
Iterates(f, n, from, step) == f[0] = from /\ \A i \in 1 .. n : f[i] = step[i][f[i - 1]]

LEMMA FiniteRecursion ==
  ASSUME NEW S, NEW n \in Nat, NEW from \in S, NEW step \in [1 .. n -> [S -> S]]
  PROVE  \E f \in [0 .. n -> S] : Iterates(f, n, from, step)
<1> USE DEF Iterates
<1> DEFINE Upto(m) == \E f \in [0 .. m -> S] :
                         f[0] = from /\ \A i \in 1 .. m : f[i] = step[i][f[i - 1]]
           T == {m \in Nat : m <= n => Upto(m)}
<1>1. 0 \in T
  <2> DEFINE f == [i \in {0} |-> from]
  <2>1. f \in [0 .. 0 -> S] /\ f[0] = from
    OBVIOUS
  <2>2. Upto(0)
    <3> HIDE DEF f
    <3> QED BY <2>1
  <2> QED BY <2>2
<1>2. ASSUME NEW m \in Nat, m \in T PROVE m + 1 \in T
  <2> SUFFICES ASSUME m + 1 <= n PROVE Upto(m + 1)
    OBVIOUS
  <2>1. PICK f \in [0 .. m -> S] : f[0] = from /\ \A i \in 1 .. m : f[i] = step[i][f[i - 1]]
    BY <1>2
  <2> DEFINE last == step[m + 1][f[m]]
             g == [i \in 0 .. m + 1 |-> IF i = m + 1 THEN last ELSE f[i]]
  <2>2. last \in S
    <3>1. m + 1 \in 1 .. n /\ f[m] \in S BY <2>1
    <3> QED BY <3>1
  <2>3. g \in [0 .. m + 1 -> S] /\ g[0] = from
    BY <2>1, <2>2
  <2>4. ASSUME NEW i \in 1 .. m + 1 PROVE g[i] = step[i][g[i - 1]]
    <3>1. i - 1 \in 0 .. m + 1 /\ i - 1 # m + 1 /\ g[i - 1] = f[i - 1]
      OBVIOUS
    <3> QED BY <2>1, <3>1
  <2> HIDE DEF g
  <2> QED BY <2>3, <2>4
<1> HIDE DEF T
<1>3. n \in T
  BY <1>1, <1>2, SetInduction
<1> QED BY <1>3 DEF T

-----------------------------------------------------------------------------
(* The list of the refused: nobody twice, and bounded.                     *)
RefusedLists == {list \in Seq(Targets) : Len(list) <= Capacity /\ Sessions!IsInjective(list)}

LEMMA RememberedSound ==
  ASSUME Capacity \in Nat \ {0}, NEW list \in RefusedLists, NEW t \in Targets
  PROVE  Sessions!Remembered(list, t) \in RefusedLists
<1>0. /\ list \in Seq(Targets) /\ Len(list) \in Nat /\ Len(list) <= Capacity
      /\ \A i, j \in 1 .. Len(list) : list[i] = list[j] => i = j
  BY DEF RefusedLists, Sessions!IsInjective
<1>1. CASE t \in Sessions!Range(list)
  BY <1>1 DEF Sessions!Remembered
<1>2. CASE t \notin Sessions!Range(list) /\ Len(list) = Capacity
  <2> DEFINE rest == Tail(list)
             new == Append(rest, t)
  <2>1. /\ rest \in Seq(Targets) /\ Len(rest) = Len(list) - 1
        /\ \A i \in 1 .. Len(list) - 1 : rest[i] = list[i + 1]
    BY <1>0, <1>2
  <2> HIDE DEF rest
  <2>2. /\ new \in Seq(Targets) /\ Len(new) = Len(list)
        /\ \A i \in 1 .. Len(list) - 1 : new[i] = list[i + 1]
        /\ new[Len(list)] = t
    BY <1>0, <1>2, <2>1
  <2> HIDE DEF new
  <2>3. \A i \in 1 .. Len(list) : list[i] # t
    BY <1>0, <1>2 DEF Sessions!Range
  <2>4. ASSUME NEW i \in 1 .. Len(list), NEW j \in 1 .. Len(list), new[i] = new[j] PROVE i = j
    <3>1. CASE i < Len(list) /\ j < Len(list)
      <4>1. i \in 1 .. Len(list) - 1 /\ j \in 1 .. Len(list) - 1
            /\ i + 1 \in 1 .. Len(list) /\ j + 1 \in 1 .. Len(list)
        BY <1>0, <3>1
      <4>2. i + 1 = j + 1
        BY <1>0, <2>2, <2>4, <4>1
      <4> QED BY <4>2
    <3>2. CASE i < Len(list) /\ j = Len(list)
      <4>1. i \in 1 .. Len(list) - 1 /\ i + 1 \in 1 .. Len(list)
        BY <1>0, <3>2
      <4> QED BY <2>2, <2>3, <2>4, <3>2, <4>1
    <3>3. CASE i = Len(list) /\ j < Len(list)
      <4>1. j \in 1 .. Len(list) - 1 /\ j + 1 \in 1 .. Len(list)
        BY <1>0, <3>3
      <4> QED BY <2>2, <2>3, <2>4, <3>3, <4>1
    <3> QED BY <1>0, <3>1, <3>2, <3>3
  <2>5. Sessions!IsInjective(new)
    BY <1>0, <2>2, <2>4 DEF Sessions!IsInjective
  <2>6. Sessions!Remembered(list, t) = new
    BY <1>2 DEF Sessions!Remembered, new, rest
  <2> QED BY <1>0, <2>2, <2>5, <2>6 DEF RefusedLists
<1>3. CASE t \notin Sessions!Range(list) /\ Len(list) # Capacity
  <2> DEFINE new == Append(list, t)
  <2>1. /\ new \in Seq(Targets) /\ Len(new) = Len(list) + 1
        /\ \A i \in 1 .. Len(list) : new[i] = list[i]
        /\ new[Len(list) + 1] = t
    BY <1>0
  <2> HIDE DEF new
  <2>2. \A i \in 1 .. Len(list) : list[i] # t
    BY <1>0, <1>3 DEF Sessions!Range
  <2>3. \A i, j \in 1 .. Len(list) + 1 : new[i] = new[j] => i = j
    <3>1. \A i \in 1 .. Len(list) + 1 : i \in 1 .. Len(list) \/ i = Len(list) + 1
      BY <1>0
    <3> QED BY <1>0, <2>1, <2>2, <3>1
  <2>4. Sessions!IsInjective(new)
    BY <1>0, <2>1, <2>3 DEF Sessions!IsInjective
  <2>5. Sessions!Remembered(list, t) = new
    BY <1>3 DEF Sessions!Remembered, new
  <2>6. Len(list) + 1 <= Capacity
    BY <1>0, <1>3
  <2> QED BY <2>1, <2>4, <2>5, <2>6 DEF RefusedLists
<1> QED BY <1>1, <1>2, <1>3

LEMMA AddedSound ==
  ASSUME Capacity \in Nat \ {0}, MaxSlots \in Nat, NEW list \in RefusedLists,
         NEW some, some \subseteq Sessions!Slot,
         \A i \in some : sessionSlots[i].target \in Targets
  PROVE  Sessions!Added(list, some) \in RefusedLists
<1> DEFINE Then(i, before) == IF i \in some
                              THEN Sessions!Remembered(before, sessionSlots[i].target) ELSE before
           step == [i \in 1 .. MaxSlots |-> [before \in RefusedLists |-> Then(i, before)]]
           Follows(f) == f = [i \in 0 .. MaxSlots |-> IF i = 0 THEN list ELSE Then(i, f[i - 1])]
<1>1. \A i \in 1 .. MaxSlots, before \in RefusedLists : Then(i, before) \in RefusedLists
  BY RememberedSound
<1>2. step \in [1 .. MaxSlots -> [RefusedLists -> RefusedLists]]
      /\ \A i \in 1 .. MaxSlots, before \in RefusedLists : step[i][before] = Then(i, before)
  BY <1>1
<1> HIDE DEF step
<1>3. \E f : Follows(f)
  <2>1. PICK f \in [0 .. MaxSlots -> RefusedLists] : Iterates(f, MaxSlots, list, step)
    BY <1>2, FiniteRecursion
  <2>2. ASSUME NEW i \in 1 .. MaxSlots PROVE f[i] = Then(i, f[i - 1])
    <3>1. i - 1 \in 0 .. MaxSlots /\ f[i - 1] \in RefusedLists BY <2>1
    <3> QED BY <1>2, <2>1, <3>1 DEF Iterates
  <2> HIDE DEF Then
  <2>3. \A i \in 0 .. MaxSlots : f[i] = IF i = 0 THEN list ELSE Then(i, f[i - 1])
    BY <2>1, <2>2 DEF Iterates
  <2>4. f = [i \in 0 .. MaxSlots |-> IF i = 0 THEN list ELSE Then(i, f[i - 1])]
    BY <2>1, <2>3
  <2> QED BY <2>4
<1> DEFINE all == CHOOSE f : Follows(f)
<1>4. Follows(all)
  BY <1>3
<1>5. Sessions!Added(list, some) = all[MaxSlots]
  BY DEF Sessions!Added
<1> HIDE DEF all
<1> DEFINE T == {i \in Nat : i <= MaxSlots => all[i] \in RefusedLists}
<1>6. 0 \in T
  BY <1>4
<1>7. ASSUME NEW i \in Nat, i \in T PROVE i + 1 \in T
  <2> SUFFICES ASSUME i + 1 <= MaxSlots PROVE all[i + 1] \in RefusedLists
    OBVIOUS
  <2> HIDE DEF Then
  <2>1. all[i] \in RefusedLists /\ i + 1 \in 1 .. MaxSlots
    BY <1>7
  <2>2. all[i + 1] = Then(i + 1, all[i])
    BY <1>4, <2>1
  <2> QED BY <1>1, <2>1, <2>2
<1> HIDE DEF T
<1>8. MaxSlots \in T
  BY <1>6, <1>7, SetInduction
<1> QED BY <1>5, <1>8 DEF T

(* What is left of a prefix of the list is part of that prefix.            *)
PartOf(sub, list, n) ==
  /\ sub \in Seq(Targets) /\ Len(sub) <= n
  /\ \A i, j \in 1 .. Len(sub) : sub[i] = sub[j] => i = j
  /\ \A i \in 1 .. Len(sub) : \E k \in 1 .. n : sub[i] = list[k]

LEMMA RunningSound ==
  ASSUME Capacity \in Nat, NEW list \in RefusedLists
  PROVE  Sessions!Running(list) \in RefusedLists
<1>0. /\ list \in Seq(Targets) /\ Len(list) \in Nat /\ Len(list) <= Capacity
      /\ \A i, j \in 1 .. Len(list) : list[i] = list[j] => i = j
      /\ \A i \in 1 .. Len(list) : list[i] \in Targets
  BY DEF RefusedLists, Sessions!IsInjective
<1> DEFINE Then(i, before) == IF list[i] \in alive THEN Append(before, list[i]) ELSE before
           step == [i \in 1 .. Len(list) |-> [before \in Seq(Targets) |-> Then(i, before)]]
           Follows(f) == f = [i \in 0 .. Len(list) |-> IF i = 0 THEN <<>> ELSE Then(i, f[i - 1])]
<1>1. \A i \in 1 .. Len(list), before \in Seq(Targets) : Then(i, before) \in Seq(Targets)
  BY <1>0
<1>2. step \in [1 .. Len(list) -> [Seq(Targets) -> Seq(Targets)]]
      /\ \A i \in 1 .. Len(list), before \in Seq(Targets) : step[i][before] = Then(i, before)
  BY <1>1
<1> HIDE DEF step
<1>3. \E f : Follows(f)
  <2>1. PICK f \in [0 .. Len(list) -> Seq(Targets)] : Iterates(f, Len(list), <<>>, step)
    <3>1. <<>> \in Seq(Targets) OBVIOUS
    <3> QED BY <1>0, <1>2, <3>1, FiniteRecursion
  <2>2. ASSUME NEW i \in 1 .. Len(list) PROVE f[i] = Then(i, f[i - 1])
    <3>1. i - 1 \in 0 .. Len(list) /\ f[i - 1] \in Seq(Targets) BY <1>0, <2>1
    <3> QED BY <1>2, <2>1, <3>1 DEF Iterates
  <2> HIDE DEF Then
  <2>3. \A i \in 0 .. Len(list) : f[i] = IF i = 0 THEN <<>> ELSE Then(i, f[i - 1])
    BY <1>0, <2>1, <2>2 DEF Iterates
  <2>4. f = [i \in 0 .. Len(list) |-> IF i = 0 THEN <<>> ELSE Then(i, f[i - 1])]
    BY <2>1, <2>3
  <2> QED BY <2>4
<1> DEFINE left == CHOOSE f : Follows(f)
<1>4. Follows(left)
  BY <1>3
<1>5. Sessions!Running(list) = left[Len(list)]
  BY DEF Sessions!Running
<1> HIDE DEF left
<1> DEFINE T == {i \in Nat : i <= Len(list) => PartOf(left[i], list, i)}
<1>6. 0 \in T
  BY <1>0, <1>4 DEF PartOf
<1>7. ASSUME NEW i \in Nat, i \in T PROVE i + 1 \in T
  <2> SUFFICES ASSUME i + 1 <= Len(list) PROVE PartOf(left[i + 1], list, i + 1)
    OBVIOUS
  <2>1. PartOf(left[i], list, i) /\ i + 1 \in 1 .. Len(list)
    BY <1>0, <1>7
  <2>2. left[i + 1] = IF list[i + 1] \in alive THEN Append(left[i], list[i + 1]) ELSE left[i]
    <3> HIDE DEF Then
    <3>1. i + 1 \in 0 .. Len(list) /\ i + 1 # 0 /\ (i + 1) - 1 = i
      BY <2>1
    <3>2. left[i + 1] = Then(i + 1, left[i])
      BY <1>4, <3>1
    <3> QED BY <3>2 DEF Then
  <2>3. CASE list[i + 1] \notin alive
    <3>1. \A k \in 1 .. i : k \in 1 .. i + 1
      OBVIOUS
    <3>2. Len(left[i]) <= i + 1
      BY <2>1 DEF PartOf
    <3> QED BY <2>1, <2>2, <2>3, <3>1, <3>2 DEF PartOf
  <2>4. CASE list[i + 1] \in alive
    <3> DEFINE old == left[i]
               new == Append(old, list[i + 1])
    <3>1. /\ old \in Seq(Targets) /\ Len(old) \in Nat /\ Len(old) <= i
          /\ \A j, k \in 1 .. Len(old) : old[j] = old[k] => j = k
          /\ \A j \in 1 .. Len(old) : \E k \in 1 .. i : old[j] = list[k]
      BY <2>1 DEF PartOf
    <3>2. left[i + 1] = new
      BY <2>2, <2>4
    <3> HIDE DEF old
    <3>3. /\ new \in Seq(Targets) /\ Len(new) = Len(old) + 1
          /\ \A j \in 1 .. Len(old) : new[j] = old[j]
          /\ new[Len(old) + 1] = list[i + 1]
      BY <1>0, <2>1, <3>1
    <3> HIDE DEF new
    <3>4. \A j \in 1 .. Len(old) : old[j] # list[i + 1]
      <4> SUFFICES ASSUME NEW j \in 1 .. Len(old) PROVE old[j] # list[i + 1]
        OBVIOUS
      <4>1. PICK k \in 1 .. i : old[j] = list[k]
        BY <3>1
      <4>2. k \in 1 .. Len(list) /\ k # i + 1
        BY <1>0, <2>1
      <4> QED BY <1>0, <2>1, <4>1, <4>2
    <3>5. \A j \in 1 .. Len(new) : j \in 1 .. Len(old) \/ j = Len(old) + 1
      BY <3>1, <3>3
    <3>6. \A j, k \in 1 .. Len(new) : new[j] = new[k] => j = k
      BY <3>1, <3>3, <3>4, <3>5
    <3>7. \A j \in 1 .. Len(new) : \E k \in 1 .. i + 1 : new[j] = list[k]
      <4> SUFFICES ASSUME NEW j \in 1 .. Len(new) PROVE \E k \in 1 .. i + 1 : new[j] = list[k]
        OBVIOUS
      <4>1. CASE j \in 1 .. Len(old)
        <5>1. PICK k \in 1 .. i : old[j] = list[k]
          BY <3>1, <4>1
        <5>2. k \in 1 .. i + 1
          OBVIOUS
        <5> QED BY <3>3, <4>1, <5>1, <5>2
      <4>2. CASE j = Len(old) + 1
        <5>1. i + 1 \in 1 .. i + 1
          OBVIOUS
        <5> QED BY <3>3, <4>2, <5>1
      <4> QED BY <3>5, <4>1, <4>2
    <3>8. Len(new) <= i + 1
      BY <3>1, <3>3
    <3> QED BY <3>2, <3>3, <3>6, <3>7, <3>8 DEF PartOf
  <2> QED BY <2>3, <2>4
<1> HIDE DEF T
<1>8. Len(list) \in T
  BY <1>0, <1>6, <1>7, SetInduction
<1>9. PartOf(left[Len(list)], list, Len(list))
  BY <1>0, <1>8 DEF T
<1>10. Len(left[Len(list)]) <= Capacity
  <2>1. Len(left[Len(list)]) \in Nat BY <1>9 DEF PartOf
  <2> QED BY <1>0, <1>9, <2>1 DEF PartOf
<1> QED BY <1>5, <1>9, <1>10 DEF PartOf, RefusedLists, Sessions!IsInjective

(* The rest of what the tray keeps: the list of the refused, and histories *)
(* of programs only.                                                       *)
SessionsListed ==
  /\ front \in Targets \cup {Nobody}
  /\ sessionEnabled \in BOOLEAN /\ timer \in BOOLEAN /\ suppressed \in BOOLEAN
  /\ refused \in RefusedLists
  /\ again \subseteq attached /\ attached \subseteq Targets /\ forgotten \subseteq Targets

LEMMA EmptyIsList == ASSUME Capacity \in Nat PROVE <<>> \in RefusedLists
BY DEF RefusedLists, Sessions!IsInjective

LEMMA SessionRemembersListed ==
  ASSUME Capacity \in Nat \ {0}, MaxSlots \in Nat, SessionsTyped, SessionsListed,
         NEW n \in Int, n <= MaxSlots, Sessions!Remember(n)
  PROVE  refused' \in RefusedLists /\ forgotten' \subseteq Targets
<1>1. PICK list \in Sessions!Prunings, kept \in SUBSET Sessions!Failing(n) :
        /\ refused' = Sessions!Added(list, kept)
        /\ forgotten' = forgotten \cup
             ((Sessions!Range(refused) \cup {sessionSlots[i].target : i \in Sessions!Failing(n)})
                \ Sessions!Range(refused'))
  BY DEF Sessions!Remember
<1>2. list \in RefusedLists
  BY <1>1, RunningSound DEF Sessions!Prunings, SessionsListed
<1>3. /\ kept \subseteq Sessions!Slot
      /\ \A i \in Sessions!Failing(n) : sessionSlots[i].target \in Targets
  BY DEF Sessions!Failing, Sessions!Slot, SessionsTyped
<1>4. refused' \in RefusedLists
  BY <1>1, <1>2, <1>3, AddedSound
<1>5. Sessions!Range(refused) \subseteq Targets
  BY DEF SessionsListed, RefusedLists, Sessions!Range
<1> QED BY <1>1, <1>3, <1>4, <1>5 DEF SessionsListed

LEMMA SessionsListedInitially == ASSUME Capacity \in Nat, Sessions!Init PROVE SessionsListed
BY EmptyIsList DEF Sessions!Init, SessionsListed

LEMMA SessionsListedStep ==
  ASSUME Capacity \in Nat \ {0}, MaxSlots \in Nat, SessionsTyped, SessionsListed,
         [Sessions!Next]_(Sessions!vars)
  PROVE  SessionsListed'
<1>1. CASE Sessions!Tick
  <2>1. Sessions!Remember(MaxSlots) /\ suppressed' \in BOOLEAN /\ timer' \in BOOLEAN
        /\ UNCHANGED <<front, sessionEnabled, attached, again>>
    BY <1>1 DEF Sessions!Tick, Sessions!world, Sessions!Hide, Sessions!InFront, SessionsListed
  <2>2. refused' \in RefusedLists /\ forgotten' \subseteq Targets
    BY <2>1, SessionRemembersListed
  <2> QED BY <2>1, <2>2 DEF SessionsListed
<1>2. CASE Sessions!TickThrows
  <2>1. PICK n \in Sessions!Slot : Sessions!Remember(n - 1)
    BY <1>2 DEF Sessions!TickThrows
  <2>2. n - 1 \in Int /\ n - 1 <= MaxSlots
    BY DEF Sessions!Slot
  <2>3. refused' \in RefusedLists /\ forgotten' \subseteq Targets
    BY <2>1, <2>2, SessionRemembersListed
  <2>4. UNCHANGED <<front, sessionEnabled, timer, suppressed, attached, again>>
    BY <1>2 DEF Sessions!TickThrows, Sessions!world
  <2> QED BY <2>3, <2>4 DEF SessionsListed
<1>3. CASE Sessions!Accept
  <2>1. PICK t \in Targets : choosing = <<t>>
    BY <1>3 DEF Sessions!Accept, SessionsTyped
  <2>2. Sessions!Last(choosing) = t
    BY <2>1 DEF Sessions!Last
  <2>3. attached' = attached \cup {t} /\ again' = again \cup ({t} \cap attached)
    BY <1>3, <2>2 DEF Sessions!Accept
  <2>4. UNCHANGED <<front, sessionEnabled, timer, suppressed, refused, forgotten>>
    BY <1>3 DEF Sessions!Accept, Sessions!world
  <2> QED BY <2>3, <2>4 DEF SessionsListed
<1>4. CASE \/ Sessions!Toggle \/ Sessions!Ask \/ Sessions!Decline \/ UNCHANGED Sessions!vars
           \/ \E i \in Sessions!Slot : Sessions!Helper(i)
           \/ \E t \in Targets : Sessions!Exit(t)
  <2>1. UNCHANGED <<front, sessionEnabled, timer, suppressed, refused, attached, again, forgotten>>
    BY <1>4 DEF Sessions!Toggle, Sessions!Ask, Sessions!Decline, Sessions!Helper, Sessions!Exit,
      Sessions!vars, Sessions!world, Sessions!runtime, Sessions!history
  <2> QED BY <2>1 DEF SessionsListed
<1>5. CASE \/ Sessions!Enable \/ Sessions!Disable \/ Sessions!ShowOsd
           \/ \E t \in Targets \cup {Nobody} : Sessions!BringToFront(t)
  <2>1. /\ UNCHANGED <<refused, attached, again, forgotten>>
        /\ front' \in Targets \cup {Nobody}
        /\ sessionEnabled' \in BOOLEAN /\ timer' \in BOOLEAN /\ suppressed' \in BOOLEAN
    BY <1>5 DEF Sessions!Enable, Sessions!Disable, Sessions!ShowOsd, Sessions!BringToFront,
      Sessions!world, Sessions!runtime, Sessions!history, SessionsListed
  <2> QED BY <2>1 DEF SessionsListed
<1> QED BY <1>1, <1>2, <1>3, <1>4, <1>5 DEF Sessions!Next

LEMMA SessionsAreTyped ==
  ASSUME Capacity \in Nat, SessionsTyped, SessionsListed PROVE Sessions!TypeOK
<1>1. /\ Sessions!Range(refused) \subseteq Targets /\ Len(refused) <= Capacity
      /\ Sessions!IsInjective(refused)
  BY DEF SessionsListed, RefusedLists, Sessions!Range
<1>2. {sessionEnabled, timer, suppressed} \subseteq BOOLEAN
  BY DEF SessionsListed
<1> QED BY <1>1, <1>2 DEF SessionsTyped, SessionsListed, Sessions!TypeOK

(* The inductive invariant of runtime.cpp's sessions, for every number of  *)
(* slots and programs and every capacity of the list of the refused.       *)
THEOREM SessionsInvariant == ASSUME MaxSlots \in Nat PROVE Sessions!Spec => []SessionsInv
BY SessionsInitially, SessionsStep, PTL DEF Sessions!Spec

(* A helper is launched for a running program a second time only if its    *)
(* failure could not be remembered (refused_targets.hpp, runtime.cpp).     *)
THEOREM NeverAttachedTwice ==
  ASSUME MaxSlots \in Nat
  PROVE  Sessions!Spec => []Sessions!AttachedOnce
<1>1. SessionsInv => Sessions!AttachedOnce BY DEF SessionsInv
<1> QED BY <1>1, SessionsInvariant, PTL

-----------------------------------------------------------------------------
(* What the output is (FreshOutput).  A factory that is current was made   *)
(* of the displays there are, so what it tells of them is so; it is asked  *)
(* once more after it has told.                                            *)

SdrOn(colours) == outMonitor \in DOMAIN colours /\ colours[outMonitor] = "sdr"

OutputInv ==
  /\ ~outStale => outMade = outDisplays
  /\ outAt = "again" /\ ~outStale => SdrOn(outDisplays)
  /\ outAt = "same" \/ outAnswer = 1 => SdrOn(outShown)
  /\ outAnswer = 1 => outAt = "done"

LEMMA OutputInitially == Output!Init => OutputInv
BY DEF Output!Init, OutputInv

LEMMA OutputStep == OutputInv /\ [Output!Next]_(Output!vars) => OutputInv'
<1> SUFFICES ASSUME OutputInv, [Output!Next]_(Output!vars) PROVE OutputInv'
  OBVIOUS
<1> USE DEF OutputInv, SdrOn, Output!Checked, Output!Ends, Output!World
<1>1. CASE Output!Window \/ Output!Create
  BY <1>1 DEF Output!Window, Output!Create
<1>2. CASE Output!Current("current", "find")
  BY <1>2 DEF Output!Current
<1>3. CASE Output!Current("again", "same")
  BY <1>3 DEF Output!Current
<1>4. CASE Output!Find \/ Output!FindFails \/ Output!Output6 \/ Output!DescriptionFails
  BY <1>4 DEF Output!Find, Output!FindFails, Output!Output6, Output!DescriptionFails
<1>5. CASE Output!Sdr
  BY <1>5 DEF Output!Sdr, Output!Told
<1>6. CASE Output!SameMonitor
  BY <1>6 DEF Output!SameMonitor
<1>7. CASE Output!Moves \/ Output!Closes
  BY <1>7 DEF Output!Moves, Output!Closes, Output!Changes
<1>8. CASE Output!Reconfigures
  BY <1>8 DEF Output!Reconfigures, Output!Changes
<1>9. CASE UNCHANGED Output!vars
  BY <1>9 DEF Output!vars
<1> QED BY <1>1, <1>2, <1>3, <1>4, <1>5, <1>6, <1>7, <1>8, <1>9 DEF Output!Next

LEMMA OutputFollows == OutputInv => Output!QualifiedWasSdr
BY DEF OutputInv, SdrOn, Output!QualifiedWasSdr

(* Whatever is moved, closed or plugged in between any two calls: a game   *)
(* qualifies only if the monitor its window was first on was SDR when the  *)
(* factory was last found current (fresh_output.hpp, QualifyFreshOutput).  *)
THEOREM QualifiedOutputWasSdr == Output!Spec => []Output!QualifiedWasSdr
BY OutputFollows, OutputInitially, OutputStep, PTL DEF Output!Spec

-----------------------------------------------------------------------------
(* Which chain is drawn on (ChainHandoff).                                 *)

Looks == [window : Windows, full : BOOLEAN]
Owners == [id : Handoff!Identity, window : Windows, full : BOOLEAN]
Candidates == [id : Handoff!Identity, facts : Looks, tag : Handoff!Tags]
Calls == [id : Handoff!Identity, facts : Looks, tag : Handoff!Tags \cup {Nothing}]

(* Chains are of a device and for a window; the null value is neither a    *)
(* thread nor what the gate remembers of a chain.                          *)
HandoffAssumption ==
  /\ MaxChains \in Nat /\ MaxGeneration \in Nat
  /\ ChainKinds \subseteq Devices \X Windows
  /\ Nothing \notin Threads /\ Nothing \notin Owners /\ Nothing \notin Candidates

HandoffTypes ==
  /\ handChains \in [Addresses -> Handoff!Chain \cup {Handoff!Empty}]
  /\ handCreated \in 0 .. MaxChains
  /\ handAt \in [Threads -> {"out", "commits", "draws"}]
  /\ handBusy \in Threads \cup {Nothing}
  /\ handOwner \in Owners \cup {Nothing}
  /\ handGeneration \in 0 .. MaxGeneration
  /\ handPending \in Candidates \cup {Nothing}
  /\ handSamples \in 0 .. 2 /\ (handSamples = 0 <=> handPending = Nothing)
  /\ handOverlay \in {"Untouched", "Ready", "Idle", "DeviceUnavailable", "BackendInitFailed",
                      "DeviceRemoved"}
  /\ handRenderer \in Devices \cup {Nothing}
  /\ handAmbiguous \in BOOLEAN /\ handRelease \in BOOLEAN
  /\ handRun.count \in 0 .. 3

(* The gate refers to the chain that is drawn on and to the one it looks   *)
(* at; one thread at a time is inside.                                     *)
GateHolds ==
  /\ \A t \in Threads : handAt[t] # "out" <=> handBusy = t
  /\ handKept = [chain   |-> IF handOwner = Nothing THEN Nothing ELSE handOwner.id.chain,
                 pending |-> IF handPending = Nothing THEN Nothing ELSE handPending.id.chain]

Unstamped == {Handoff!Absent, Handoff!Foreign}
Older == Unstamped \cup {Handoff!Stamped(g) : g \in 1 .. handGeneration - 1}

(* The owner lives and has the newest stamp; its device is the renderer's. *)
OwnerInOrder ==
  /\ handOwner = Nothing =>
       /\ handGeneration = 0 /\ handRenderer = Nothing /\ handPending = Nothing
       /\ \A a \in Addresses : Handoff!Live(a) => handChains[a].stamp \in Unstamped
  /\ handOwner # Nothing =>
       /\ handGeneration >= 1 /\ Handoff!Live(handOwner.id.chain)
       /\ handChains[handOwner.id.chain].device = handOwner.id.device
       /\ handChains[handOwner.id.chain].window = handOwner.window
       /\ handChains[handOwner.id.chain].stamp = Handoff!Stamped(handGeneration)
       /\ handRenderer \in {Nothing, handOwner.id.device}
       /\ \A a \in Addresses : Handoff!Live(a) /\ a # handOwner.id.chain
            => handChains[a].stamp \in Older

(* The chain that is looked at is still the one that was seen first, and   *)
(* the calls that were counted all saw what is remembered.                 *)
PendingInOrder ==
  handPending # Nothing =>
    /\ Handoff!Live(handPending.id.chain)
    /\ handRun.serial = handChains[handPending.id.chain].serial
    /\ handRun.facts = handPending.facts
    /\ handRun.count >= handSamples

(* What the call inside the gate has read of its chain.                    *)
CallInOrder ==
  \A t \in Threads : handAt[t] # "out" =>
    /\ handCall \in Calls /\ handCall.id.thread = t
    /\ Handoff!Live(handCall.id.chain) /\ handChains[handCall.id.chain].held
    /\ handChains[handCall.id.chain].device = handCall.id.device
    /\ handChains[handCall.id.chain].window = handCall.facts.window
    /\ handAt[t] = "commits" /\ handOwner # Nothing =>
         /\ handRun.count = 3 /\ handRun.serial = handChains[handCall.id.chain].serial
         /\ handCall.id.device = handOwner.id.device
         /\ handCall.id.thread = handOwner.id.thread
    /\ handAt[t] = "draws" => handOwner # Nothing /\ handCall.id = handOwner.id

HandoffInv == HandoffTypes /\ GateHolds /\ OwnerInOrder /\ PendingInOrder /\ CallInOrder

LEMMA TagsDiffer ==
  /\ Handoff!Absent # Handoff!Foreign
  /\ \A g \in Nat : Handoff!Stamped(g) \notin Unstamped /\ Handoff!Stamped(g).generation = g
                      /\ Handoff!Stamped(g).state = "present"
  /\ \A g, k \in Nat : Handoff!Stamped(g) = Handoff!Stamped(k) => g = k
  /\ Handoff!Absent.state = "absent" /\ Handoff!Foreign.state = "foreign"
<1>1. /\ Handoff!Absent.state = "absent" /\ Handoff!Foreign.state = "foreign"
      /\ \A g \in Nat : Handoff!Stamped(g).state = "present" /\ Handoff!Stamped(g).generation = g
  BY DEF Handoff!Absent, Handoff!Foreign, Handoff!Stamped
<1> QED BY <1>1 DEF Unstamped

LEMMA EmptyIsNoChain == \A c \in Handoff!Chain : c # Handoff!Empty
<1>1. Handoff!Empty.serial = 0 BY DEF Handoff!Empty
<1> QED BY <1>1 DEF Handoff!Chain

LEMMA LiveIsChain ==
  ASSUME HandoffTypes, NEW a \in Addresses, Handoff!Live(a)
  PROVE  handChains[a] \in Handoff!Chain
BY DEF HandoffTypes, Handoff!Live

LEMMA HandoffInitially == ASSUME HandoffAssumption, Handoff!Init PROVE HandoffInv
<1>1. \A a \in Addresses : ~Handoff!Live(a)
  BY DEF Handoff!Init, Handoff!Live
<1>2. HandoffTypes
  <2>1. handChains \in [Addresses -> Handoff!Chain \cup {Handoff!Empty}]
    BY DEF Handoff!Init
  <2>2. handRun.count = 0
    BY DEF Handoff!Init
  <2>3. /\ handCreated \in 0 .. MaxChains /\ handGeneration \in 0 .. MaxGeneration
        /\ handSamples \in 0 .. 2 /\ (handSamples = 0 <=> handPending = Nothing)
        /\ handRun.count \in 0 .. 3
    BY <2>2 DEF HandoffAssumption, Handoff!Init
  <2>4. /\ handAt \in [Threads -> {"out", "commits", "draws"}] /\ handBusy = Nothing
        /\ handOwner = Nothing /\ handPending = Nothing /\ handOverlay = "Untouched"
        /\ handRenderer = Nothing /\ handAmbiguous = FALSE /\ handRelease = TRUE
    BY DEF Handoff!Init
  <2> QED BY <2>1, <2>3, <2>4 DEF HandoffTypes
<1>3. GateHolds
  BY DEF HandoffAssumption, Handoff!Init, GateHolds
<1>4. OwnerInOrder /\ PendingInOrder /\ CallInOrder
  BY <1>1 DEF Handoff!Init, OwnerInOrder, PendingInOrder, CallInOrder
<1> QED BY <1>2, <1>3, <1>4 DEF HandoffInv

-----------------------------------------------------------------------------
(* What the game may do with its chains beside the gate.                   *)
LEMMA GameSound ==
  ASSUME HandoffAssumption, HandoffInv,
         handChains' \in [Addresses -> Handoff!Chain \cup {Handoff!Empty}],
         handCreated' \in 0 .. MaxChains, handRelease' \in BOOLEAN,
         \A a \in Addresses : Handoff!Live(a)' =>
           \/ handChains'[a].stamp \in Unstamped
           \/ Handoff!Live(a) /\ handChains'[a].stamp = handChains[a].stamp,
         \A a \in Addresses : Handoff!Live(a) /\ (Handoff!Kept(a) \/ Handoff!Presenting(a)) =>
           /\ Handoff!Live(a)'
           /\ handChains'[a].serial = handChains[a].serial
           /\ handChains'[a].device = handChains[a].device
           /\ handChains'[a].window = handChains[a].window
           /\ handChains[a].stamp # Handoff!Absent => handChains'[a].stamp = handChains[a].stamp
           /\ Handoff!Presenting(a) /\ handChains[a].held => handChains'[a].held,
         UNCHANGED <<handAt, handCall, handBusy, Handoff!gate, Handoff!drawing, handRun>>
  PROVE  HandoffInv'
<1>1. UNCHANGED <<handAt, handCall, handBusy, handOwner, handGeneration, handAmbiguous,
                  handPending, handSamples, handKept, handOverlay, handRenderer, handRun>>
  BY DEF Handoff!gate, Handoff!drawing
<1>2. HandoffTypes' /\ GateHolds'
  BY <1>1 DEF HandoffInv, HandoffTypes, GateHolds
<1>3. OwnerInOrder'
  <2>1. CASE handOwner = Nothing
    BY <1>1, <2>1 DEF HandoffInv, OwnerInOrder
  <2>2. CASE handOwner # Nothing
    <3>1. handOwner.id.chain \in Addresses /\ Handoff!Kept(handOwner.id.chain)
      BY <2>2 DEF HandoffInv, HandoffTypes, Owners, Handoff!Identity, GateHolds, Handoff!Kept
    <3>2. handGeneration \in Nat /\ Handoff!Stamped(handGeneration) # Handoff!Absent
      BY TagsDiffer DEF HandoffInv, HandoffTypes, HandoffAssumption, Unstamped
    <3>3. \A a \in Addresses : Handoff!Live(a)' /\ a # handOwner.id.chain
            => handChains'[a].stamp \in Older
      BY <2>2 DEF HandoffInv, OwnerInOrder, Older
    <3>4. Older' = Older BY <1>1 DEF Older
    <3> QED BY <1>1, <2>2, <3>1, <3>2, <3>3, <3>4 DEF HandoffInv, OwnerInOrder
  <2> QED BY <2>1, <2>2
<1>4. PendingInOrder'
  <2>1. handPending # Nothing => handPending.id.chain \in Addresses
                                /\ Handoff!Kept(handPending.id.chain)
    BY DEF HandoffInv, HandoffTypes, Candidates, Handoff!Identity, GateHolds, Handoff!Kept
  <2> QED BY <1>1, <2>1 DEF HandoffInv, PendingInOrder
<1>5. CallInOrder'
  <2> SUFFICES ASSUME NEW t \in Threads, handAt[t] # "out"
               PROVE  CallInOrder!(t)'
    BY <1>1 DEF CallInOrder
  <2>1. handCall.id.chain \in Addresses /\ Handoff!Presenting(handCall.id.chain)
    BY DEF HandoffInv, CallInOrder, GateHolds, Calls, Handoff!Identity, Handoff!Presenting,
           HandoffAssumption
  <2> QED BY <1>1, <2>1 DEF HandoffInv, CallInOrder
<1> QED BY <1>2, <1>3, <1>4, <1>5 DEF HandoffInv

LEMMA GameStepsSound ==
  ASSUME HandoffAssumption, HandoffInv,
         \/ \E a \in Addresses, kind \in ChainKinds : Handoff!Creates(a, kind[1], kind[2])
         \/ \E a \in Addresses : Handoff!Releases(a) \/ Handoff!Toggles(a) \/ Handoff!ForeignStamp(a)
         \/ \E d \in Devices : Handoff!DeviceRemoved(d)
         \/ Handoff!HelperGates
  PROVE  HandoffInv'
<1>0. /\ handChains \in [Addresses -> Handoff!Chain \cup {Handoff!Empty}]
      /\ handCreated \in 0 .. MaxChains /\ handRelease \in BOOLEAN
  BY DEF HandoffInv, HandoffTypes
<1>1. ASSUME NEW a \in Addresses, NEW new \in Handoff!Chain \cup {Handoff!Empty},
             handChains' = [handChains EXCEPT ![a] = new],
             new # Handoff!Empty =>
               \/ new.stamp \in Unstamped
               \/ Handoff!Live(a) /\ new.stamp = handChains[a].stamp,
             Handoff!Live(a) /\ (Handoff!Kept(a) \/ Handoff!Presenting(a)) =>
               /\ new # Handoff!Empty
               /\ new.serial = handChains[a].serial
               /\ new.device = handChains[a].device
               /\ new.window = handChains[a].window
               /\ handChains[a].stamp # Handoff!Absent => new.stamp = handChains[a].stamp
               /\ Handoff!Presenting(a) /\ handChains[a].held => new.held,
             handCreated' \in 0 .. MaxChains,
             UNCHANGED <<handAt, handCall, handBusy, Handoff!gate, handRelease, Handoff!drawing,
                         handRun>>
      PROVE  HandoffInv'
  <2>1. /\ handChains' \in [Addresses -> Handoff!Chain \cup {Handoff!Empty}]
        /\ handChains'[a] = new
        /\ \A k \in Addresses : k # a => handChains'[k] = handChains[k]
    BY <1>0, <1>1
  <2>2. \A k \in Addresses : Handoff!Live(k)' =>
           \/ handChains'[k].stamp \in Unstamped
           \/ Handoff!Live(k) /\ handChains'[k].stamp = handChains[k].stamp
    BY <1>1, <2>1 DEF Handoff!Live
  <2>3. \A k \in Addresses : Handoff!Live(k) /\ (Handoff!Kept(k) \/ Handoff!Presenting(k)) =>
           /\ Handoff!Live(k)'
           /\ handChains'[k].serial = handChains[k].serial
           /\ handChains'[k].device = handChains[k].device
           /\ handChains'[k].window = handChains[k].window
           /\ handChains[k].stamp # Handoff!Absent => handChains'[k].stamp = handChains[k].stamp
           /\ Handoff!Presenting(k) /\ handChains[k].held => handChains'[k].held
    BY <1>1, <2>1 DEF Handoff!Live
  <2> QED BY <1>0, <1>1, <2>1, <2>2, <2>3, GameSound
<1>2. ASSUME NEW a \in Addresses, NEW kind \in ChainKinds, Handoff!Creates(a, kind[1], kind[2])
      PROVE  HandoffInv'
  <2> DEFINE new == [serial |-> handCreated + 1, device |-> kind[1], window |-> kind[2],
                     full |-> FALSE, stamp |-> Handoff!Absent, held |-> TRUE]
  <2>1. kind[1] \in Devices /\ kind[2] \in Windows
    BY DEF HandoffAssumption
  <2>2. /\ ~Handoff!Live(a) /\ handCreated + 1 \in 1 .. MaxChains
        /\ handCreated' = handCreated + 1 /\ handCreated' \in 0 .. MaxChains
        /\ handChains' = [handChains EXCEPT ![a] = new]
        /\ UNCHANGED <<handAt, handCall, handBusy, Handoff!gate, handRelease, Handoff!drawing,
                       handRun>>
    BY <1>0, <1>2 DEF Handoff!Creates, HandoffAssumption
  <2>3. new \in Handoff!Chain /\ new.stamp \in Unstamped
    <3>1. Handoff!Absent \in Handoff!Tags /\ Handoff!Absent \in Unstamped
      BY DEF Handoff!Tags, Unstamped
    <3> QED BY <2>1, <2>2, <3>1 DEF Handoff!Chain
  <2> HIDE DEF new
  <2> QED BY <1>1, <2>2, <2>3
<1>3. ASSUME NEW a \in Addresses, Handoff!Releases(a)
      PROVE  HandoffInv'
  <2> DEFINE new == IF Handoff!Kept(a) THEN [handChains[a] EXCEPT !.held = FALSE]
                    ELSE Handoff!Empty
  <2>1. /\ Handoff!Live(a) /\ ~Handoff!Presenting(a) /\ handChains' = [handChains EXCEPT ![a] = new]
        /\ UNCHANGED <<handCreated, handAt, handCall, handBusy, Handoff!gate, handRelease,
                       Handoff!drawing, handRun>>
    BY <1>3 DEF Handoff!Releases
  <2>2. CASE Handoff!Kept(a)
    <3>1. handChains[a] \in Handoff!Chain
      BY <1>0, <2>1 DEF Handoff!Live
    <3>2. /\ new \in Handoff!Chain /\ new.serial = handChains[a].serial
          /\ new.device = handChains[a].device /\ new.window = handChains[a].window
          /\ new.stamp = handChains[a].stamp
      BY <2>2, <3>1 DEF Handoff!Chain
    <3> HIDE DEF new
    <3> QED BY <1>0, <1>1, <2>1, <3>2, EmptyIsNoChain
  <2>3. CASE ~Handoff!Kept(a)
    <3>1. new = Handoff!Empty BY <2>3
    <3> HIDE DEF new
    <3> QED BY <1>0, <1>1, <2>1, <2>3, <3>1
  <2> QED BY <2>2, <2>3
<1>4. ASSUME NEW a \in Addresses, Handoff!Toggles(a)
      PROVE  HandoffInv'
  <2> DEFINE new == [handChains[a] EXCEPT !.full = ~@]
  <2>1. /\ handChains[a] \in Handoff!Chain /\ Handoff!Live(a)
        /\ handChains' = [handChains EXCEPT ![a] = new]
        /\ UNCHANGED <<handCreated, handAt, handCall, handBusy, Handoff!gate, handRelease,
                       Handoff!drawing, handRun>>
    BY <1>0, <1>4 DEF Handoff!Toggles, Handoff!Live
  <2>2. /\ new \in Handoff!Chain /\ new.serial = handChains[a].serial
        /\ new.device = handChains[a].device /\ new.window = handChains[a].window
        /\ new.stamp = handChains[a].stamp /\ new.held = handChains[a].held
    BY <2>1 DEF Handoff!Chain
  <2> HIDE DEF new
  <2> QED BY <1>0, <1>1, <2>1, <2>2, EmptyIsNoChain
<1>5. ASSUME NEW a \in Addresses, Handoff!ForeignStamp(a)
      PROVE  HandoffInv'
  <2> DEFINE new == [handChains[a] EXCEPT !.stamp = Handoff!Foreign]
  <2>1. /\ handChains[a] \in Handoff!Chain /\ Handoff!Live(a)
        /\ handChains[a].stamp = Handoff!Absent
        /\ handChains' = [handChains EXCEPT ![a] = new]
        /\ UNCHANGED <<handCreated, handAt, handCall, handBusy, Handoff!gate, handRelease,
                       Handoff!drawing, handRun>>
    BY <1>0, <1>5 DEF Handoff!ForeignStamp, Handoff!Live
  <2>2. /\ new \in Handoff!Chain /\ new.serial = handChains[a].serial
        /\ new.device = handChains[a].device /\ new.window = handChains[a].window
        /\ new.stamp \in Unstamped /\ new.held = handChains[a].held
    <3>1. Handoff!Foreign \in Handoff!Tags /\ Handoff!Foreign \in Unstamped
      BY DEF Handoff!Tags, Unstamped
    <3> QED BY <2>1, <3>1 DEF Handoff!Chain
  <2> HIDE DEF new
  <2> QED BY <1>0, <1>1, <2>1, <2>2, EmptyIsNoChain
<1>6. CASE (\E d \in Devices : Handoff!DeviceRemoved(d)) \/ Handoff!HelperGates
  <2>1. /\ handRelease' \in BOOLEAN
        /\ UNCHANGED <<handChains, handCreated, handAt, handCall, handBusy, Handoff!gate,
                       Handoff!drawing, handRun>>
    BY <1>0, <1>6 DEF Handoff!DeviceRemoved, Handoff!HelperGates, Handoff!game
  <2>2. \A a \in Addresses : Handoff!Live(a)' = Handoff!Live(a)
    BY <2>1 DEF Handoff!Live
  <2> QED BY <1>0, <2>1, <2>2, GameSound
<1> QED BY <1>2, <1>3, <1>4, <1>5, <1>6

-----------------------------------------------------------------------------
(* The gate.                                                               *)

(* A chain that is freed is one the gate does not refer to.                *)
LEMMA FreedChains ==
  ASSUME HandoffTypes, NEW left
  PROVE  /\ Handoff!Freed(left) \in [Addresses -> Handoff!Chain \cup {Handoff!Empty}]
         /\ \A a \in Addresses : Handoff!Freed(left)[a] \in {handChains[a], Handoff!Empty}
         /\ \A a \in Addresses : a \in {left.chain, left.pending}
              => Handoff!Freed(left)[a] = handChains[a]
         /\ \A a \in Addresses : Handoff!Live(a) /\ handChains[a].held
              => Handoff!Freed(left)[a] = handChains[a]
BY DEF HandoffTypes, Handoff!Freed

(* Whatever ends a look at a chain leaves the owner as it was.             *)
LEMMA Dropping ==
  ASSUME HandoffAssumption, HandoffInv, Handoff!ResetPending, Handoff!Interrupted,
         handOwner' = handOwner \/ (/\ handOwner # Nothing /\ handOwner' \in Owners
                                    /\ handOwner'.id = handOwner.id
                                    /\ handOwner'.window = handOwner.window),
         handAmbiguous' \in BOOLEAN,
         handAt' \in [Threads -> {"out", "commits", "draws"}], handBusy' \in Threads \cup {Nothing},
         \A t \in Threads : handAt'[t] # "out" <=> handBusy' = t,
         UNCHANGED <<handCreated, handGeneration, handRelease, handOverlay, handRenderer>>,
         CallInOrder'
  PROVE  HandoffInv'
<1>1. /\ handPending' = Nothing /\ handSamples' = 0 /\ handKept' = [handKept EXCEPT !.pending = Nothing]
      /\ handChains' = Handoff!Freed(handKept') /\ handRun' = [serial |-> 0, facts |-> Nothing, count |-> 0]
  BY DEF Handoff!ResetPending, Handoff!Interrupted, Handoff!ClearPending
<1>2. /\ handKept' = [chain |-> IF handOwner = Nothing THEN Nothing ELSE handOwner.id.chain,
                      pending |-> Nothing]
      /\ handKept'.chain = IF handOwner = Nothing THEN Nothing ELSE handOwner.id.chain
  BY <1>1 DEF HandoffInv, GateHolds
<1>3. /\ handChains' \in [Addresses -> Handoff!Chain \cup {Handoff!Empty}]
      /\ \A a \in Addresses : handChains'[a] \in {handChains[a], Handoff!Empty}
      /\ \A a \in Addresses : a = handKept'.chain => handChains'[a] = handChains[a]
  <2>1. HandoffTypes BY DEF HandoffInv
  <2> QED BY <1>1, <2>1, FreedChains
<1>4. handOwner = Nothing <=> handOwner' = Nothing
  <2>1. CASE handOwner' = handOwner
    BY <2>1
  <2>2. CASE handOwner # Nothing /\ handOwner' \in Owners
    BY <2>2 DEF HandoffAssumption
  <2> QED BY <2>1, <2>2
<1>5. HandoffTypes'
  BY <1>1, <1>3 DEF HandoffInv, HandoffTypes
<1>6. GateHolds'
  BY <1>1, <1>2, <1>4 DEF GateHolds
<1>7. OwnerInOrder'
  <2>1. \A a \in Addresses : Handoff!Live(a)' => Handoff!Live(a) /\ handChains'[a] = handChains[a]
    BY <1>3 DEF Handoff!Live
  <2>2. CASE handOwner = Nothing
    BY <1>1, <1>4, <2>1, <2>2 DEF HandoffInv, OwnerInOrder
  <2>3. CASE handOwner # Nothing
    <3>1. handOwner'.id = handOwner.id /\ handOwner'.window = handOwner.window
            /\ handOwner.id.chain \in Addresses
      BY <2>3 DEF HandoffInv, HandoffTypes, Owners, Handoff!Identity
    <3>2. handChains'[handOwner.id.chain] = handChains[handOwner.id.chain]
      BY <1>2, <1>3, <2>3, <3>1
    <3>3. Older' = Older BY DEF Older
    <3> QED BY <1>4, <2>1, <2>3, <3>1, <3>2, <3>3 DEF HandoffInv, OwnerInOrder, Handoff!Live
  <2> QED BY <2>2, <2>3
<1>8. PendingInOrder'
  BY <1>1 DEF PendingInOrder
<1> QED BY <1>5, <1>6, <1>7, <1>8 DEF HandoffInv

LEMMA Refusing ==
  ASSUME HandoffAssumption, HandoffInv, handBusy = Nothing,
         Handoff!ResetPending, Handoff!Interrupted, Handoff!Returns, handAmbiguous' \in BOOLEAN,
         UNCHANGED <<handOwner, handGeneration, handCreated, handRelease, handOverlay, handRenderer>>
  PROVE  HandoffInv'
<1>1. /\ UNCHANGED <<handAt, handBusy>>
      /\ \A t \in Threads : handAt[t] = "out"
  BY DEF Handoff!Returns, HandoffInv, GateHolds, HandoffAssumption
<1>2. CallInOrder' BY <1>1 DEF CallInOrder
<1>3. handAt' \in [Threads -> {"out", "commits", "draws"}] /\ handBusy' \in Threads \cup {Nothing}
      /\ \A t \in Threads : handAt'[t] # "out" <=> handBusy' = t
  BY <1>1 DEF HandoffInv, HandoffTypes, GateHolds
<1> QED BY <1>2, <1>3, Dropping

(* A commit that is refused lets its thread out.                           *)
LEMMA Leaving ==
  ASSUME HandoffAssumption, HandoffInv, NEW t \in Threads, handAt[t] # "out",
         Handoff!ResetPending, Handoff!Interrupted, Handoff!Leaves(t), handAmbiguous' \in BOOLEAN,
         UNCHANGED <<handOwner, handGeneration, handCreated, handRelease, handOverlay, handRenderer>>
  PROVE  HandoffInv'
<1>1. /\ handAt' \in [Threads -> {"out", "commits", "draws"}] /\ handBusy' = Nothing
      /\ \A u \in Threads : handAt'[u] = "out"
  BY DEF Handoff!Leaves, HandoffInv, HandoffTypes, GateHolds
<1>2. CallInOrder' BY <1>1 DEF CallInOrder
<1>3. handBusy' \in Threads \cup {Nothing}
      /\ \A u \in Threads : handAt'[u] # "out" <=> handBusy' = u
  BY <1>1 DEF HandoffAssumption
<1> QED BY <1>1, <1>2, <1>3, Dropping

(* What a call knows when it has looked at its chain.                      *)
LEMMA LooksAtChain ==
  ASSUME HandoffAssumption, HandoffInv, NEW t \in Threads, NEW a \in Addresses,
         Handoff!Live(a), NEW facts \in Handoff!Inspect(a), facts # Nothing
  PROVE  /\ facts \in Looks /\ facts = Handoff!Facts(a) /\ facts.window = handChains[a].window
         /\ Handoff!IdentityOf(t, a) \in Handoff!Identity
         /\ Handoff!IdentityOf(t, a).chain = a /\ Handoff!IdentityOf(t, a).thread = t
         /\ Handoff!IdentityOf(t, a).device = handChains[a].device
<1>1. handChains[a] \in Handoff!Chain BY LiveIsChain DEF HandoffInv
<1>2. facts = Handoff!Facts(a) BY DEF Handoff!Inspect
<1> QED BY <1>1, <1>2 DEF Handoff!Facts, Looks, Handoff!IdentityOf, Handoff!Identity, Handoff!Chain

LEMMA ReadTags ==
  ASSUME HandoffInv, NEW a \in Addresses, Handoff!Live(a), NEW tag \in Handoff!ReadStamp(a),
         tag # Nothing
  PROVE  tag \in Handoff!Tags
<1>1. handChains[a] \in Handoff!Chain BY LiveIsChain DEF HandoffInv
<1> QED BY <1>1 DEF Handoff!ReadStamp, Handoff!Chain

LEMMA ContinueSound ==
  ASSUME HandoffAssumption, HandoffInv, NEW t \in Threads, NEW a \in Addresses,
         handBusy = Nothing, Handoff!Live(a), handChains[a].held,
         NEW facts \in Handoff!Inspect(a), facts # Nothing,
         handOwner # Nothing, ~Handoff!Changed(Handoff!IdentityOf(t, a)),
         ~Handoff!Misplaced(Handoff!IdentityOf(t, a)),
         Handoff!Continue(t, Handoff!IdentityOf(t, a), facts),
         UNCHANGED <<handCreated, handRelease, handOverlay, handRenderer>>
  PROVE  HandoffInv'
<1> DEFINE id == Handoff!IdentityOf(t, a)
<1>1. /\ id \in Handoff!Identity /\ id.chain = a /\ id.thread = t /\ facts \in Looks
      /\ id.device = handChains[a].device /\ facts.window = handChains[a].window
  BY LooksAtChain
<1>2. handOwner \in Owners BY DEF HandoffInv, HandoffTypes
<1>3. id = handOwner.id
  <2>1. id.chain = handOwner.id.chain /\ id.device = handOwner.id.device
          /\ id.thread = handOwner.id.thread
    BY DEF Handoff!Changed, Handoff!Misplaced, Handoff!Bound
  <2>2. handOwner.id \in Handoff!Identity BY <1>2 DEF Owners
  <2> HIDE DEF id
  <2> QED BY <1>1, <2>1, <2>2 DEF Handoff!Identity
<1>4. /\ Handoff!ResetPending /\ Handoff!Interrupted
      /\ handOwner' = [handOwner EXCEPT !.full = facts.full]
      /\ UNCHANGED <<handGeneration, handAmbiguous>>
      /\ handAt' = [handAt EXCEPT ![t] = "draws"] /\ handBusy' = t
      /\ handCall' = [id |-> id, facts |-> facts, tag |-> Nothing]
  BY DEF Handoff!Continue, Handoff!GoesOn
<1> HIDE DEF id
<1>5. /\ handOwner' \in Owners /\ handOwner'.id = handOwner.id
      /\ handOwner'.window = handOwner.window
  BY <1>1, <1>2, <1>4 DEF Owners, Looks
<1>6. /\ handAt' \in [Threads -> {"out", "commits", "draws"}]
      /\ \A u \in Threads : handAt'[u] # "out" <=> handBusy' = u
      /\ \A u \in Threads : handAt'[u] # "out" => u = t /\ handAt'[u] = "draws"
  BY <1>4 DEF HandoffInv, HandoffTypes, GateHolds, HandoffAssumption
<1>7. handChains'[a] = handChains[a]
  <2>1. handChains' = Handoff!Freed(handKept') BY <1>4 DEF Handoff!ResetPending
  <2>2. HandoffTypes BY DEF HandoffInv
  <2> QED BY <2>1, <2>2, FreedChains
<1>8. CallInOrder'
  <2>1. /\ handCall' \in Calls /\ handCall'.id = id /\ handCall'.facts = facts
    BY <1>1, <1>4 DEF Calls
  <2>2. handOwner' # Nothing BY <1>5 DEF HandoffAssumption
  <2> QED BY <1>1, <1>3, <1>5, <1>6, <1>7, <2>1, <2>2 DEF CallInOrder, Handoff!Live
<1>9. handAmbiguous' \in BOOLEAN BY <1>4 DEF HandoffInv, HandoffTypes
<1> QED BY <1>4, <1>5, <1>6, <1>8, <1>9, Dropping

(* A call that goes on to commit, with nothing else changed but the run.   *)
LEMMA GoesOnToCommit ==
  ASSUME HandoffAssumption, HandoffInv, NEW t \in Threads, NEW a \in Addresses,
         handBusy = Nothing, Handoff!Live(a), handChains[a].held,
         NEW facts \in Handoff!Inspect(a), facts # Nothing, NEW tag \in Handoff!Tags,
         Handoff!GoesOn(t, "commits",
           [id |-> Handoff!IdentityOf(t, a), facts |-> facts, tag |-> tag]),
         handRun'.count \in 0 .. 3,
         handPending # Nothing => /\ handRun'.serial = handRun.serial /\ handRun'.facts = handRun.facts
                               /\ handRun'.count >= handRun.count,
         handOwner # Nothing => /\ handRun'.count = 3 /\ handRun'.serial = handChains[a].serial
                             /\ ~Handoff!Misplaced(Handoff!IdentityOf(t, a)),
         UNCHANGED <<handChains, handCreated, Handoff!gate, handRelease, Handoff!drawing>>
  PROVE  HandoffInv'
<1> DEFINE id == Handoff!IdentityOf(t, a)
<1>0. UNCHANGED <<handOwner, handGeneration, handAmbiguous, handPending, handSamples, handKept,
                  handOverlay, handRenderer>>
  BY DEF Handoff!gate, Handoff!drawing
<1>1. /\ id \in Handoff!Identity /\ id.chain = a /\ id.thread = t /\ facts \in Looks
      /\ id.device = handChains[a].device /\ facts.window = handChains[a].window
  BY LooksAtChain
<1>2. /\ handAt' = [handAt EXCEPT ![t] = "commits"] /\ handBusy' = t
      /\ handCall' = [id |-> id, facts |-> facts, tag |-> tag]
  BY DEF Handoff!GoesOn
<1>3. handOwner # Nothing => id.device = handOwner.id.device /\ id.thread = handOwner.id.thread
  BY DEF Handoff!Misplaced, Handoff!Bound
<1> HIDE DEF id
<1>4. /\ handAt' \in [Threads -> {"out", "commits", "draws"}]
      /\ \A u \in Threads : handAt'[u] # "out" <=> handBusy' = u
      /\ \A u \in Threads : handAt'[u] # "out" => u = t /\ handAt'[u] = "commits"
  BY <1>2 DEF HandoffInv, HandoffTypes, GateHolds, HandoffAssumption
<1>5. HandoffTypes' /\ GateHolds'
  BY <1>0, <1>2, <1>4 DEF HandoffInv, HandoffTypes, GateHolds
<1>6. OwnerInOrder'
  BY <1>0 DEF HandoffInv, OwnerInOrder, Older, Handoff!Live
<1>7. PendingInOrder'
  BY <1>0 DEF HandoffInv, HandoffTypes, PendingInOrder, Handoff!Live
<1>8. CallInOrder'
  <2>1. handCall' \in Calls /\ handCall'.id = id /\ handCall'.facts = facts
    BY <1>1, <1>2 DEF Calls
  <2> QED BY <1>0, <1>1, <1>3, <1>4, <2>1 DEF CallInOrder, Handoff!Live
<1> QED BY <1>5, <1>6, <1>7, <1>8 DEF HandoffInv

LEMMA ProbationSound ==
  ASSUME HandoffAssumption, HandoffInv, NEW t \in Threads, NEW a \in Addresses,
         handBusy = Nothing, Handoff!Live(a), handChains[a].held,
         NEW facts \in Handoff!Inspect(a), facts # Nothing, NEW tag \in Handoff!Tags,
         Handoff!Changed(Handoff!IdentityOf(t, a)), ~Handoff!Misplaced(Handoff!IdentityOf(t, a)),
         Handoff!Probation(t, Handoff!IdentityOf(t, a), facts, tag),
         UNCHANGED <<handCreated, handRelease, handOverlay, handRenderer>>
  PROVE  HandoffInv'
<1> DEFINE id == Handoff!IdentityOf(t, a)
           now == [id |-> id, facts |-> facts, tag |-> tag]
           same == handPending = now
<1>1. /\ id \in Handoff!Identity /\ id.chain = a /\ facts \in Looks /\ facts = Handoff!Facts(a)
  BY LooksAtChain
<1>2. handOwner # Nothing /\ a # handOwner.id.chain
  BY <1>1 DEF Handoff!Changed, Handoff!Bound
<1>3. /\ Handoff!Seen(a) /\ UNCHANGED <<handOwner, handGeneration, handAmbiguous>>
      /\ IF same /\ handSamples = 2
         THEN Handoff!GoesOn(t, "commits", now)
              /\ UNCHANGED <<handChains, handPending, handSamples, handKept>>
         ELSE /\ handSamples' = (IF same THEN handSamples + 1 ELSE 1)
              /\ handPending' = now
              /\ handKept' = (IF same THEN handKept ELSE Handoff!HoldPending(a))
              /\ handChains' = Handoff!Freed(handKept') /\ Handoff!Returns
  BY <1>1 DEF Handoff!Probation
<1>4. now \in Candidates /\ now.id = id /\ now.facts = facts
  BY <1>1 DEF Candidates
<1> HIDE DEF id, now
<1>5. /\ handRun'.count \in 1 .. 3
      /\ handRun'.serial = handChains[a].serial /\ handRun'.facts = facts
      /\ handRun.serial = handChains[a].serial /\ handRun.facts = facts =>
           handRun'.count = (IF handRun.count < 3 THEN handRun.count + 1 ELSE 3)
  <2>1. handRun.count \in 0 .. 3 BY DEF HandoffInv, HandoffTypes
  <2>2. CASE handRun.serial = handChains[a].serial /\ handRun.facts = facts
    <3>1. handRun' = [handRun EXCEPT !.count = IF handRun.count < 3 THEN handRun.count + 1
                                               ELSE handRun.count]
      BY <1>1, <1>3, <2>2 DEF Handoff!Seen
    <3> QED BY <2>1, <2>2, <3>1
  <2>3. CASE ~(handRun.serial = handChains[a].serial /\ handRun.facts = facts)
    <3>1. handRun' = [serial |-> handChains[a].serial, facts |-> facts, count |-> 1]
      BY <1>1, <1>3, <2>3 DEF Handoff!Seen
    <3> QED BY <2>3, <3>1
  <2> QED BY <2>2, <2>3
<1>6. same => /\ handRun.serial = handChains[a].serial /\ handRun.facts = facts
              /\ handRun.count >= handSamples /\ handSamples \in 1 .. 2
  <2> SUFFICES ASSUME same PROVE /\ handRun.serial = handChains[a].serial /\ handRun.facts = facts
                                 /\ handRun.count >= handSamples /\ handSamples \in 1 .. 2
    OBVIOUS
  <2>1. handPending # Nothing /\ handPending.id.chain = a /\ handPending.facts = facts
    BY <1>1, <1>4 DEF HandoffAssumption
  <2> QED BY <2>1 DEF HandoffInv, PendingInOrder, HandoffTypes
<1>7. CASE same /\ handSamples = 2
  <2>1. handRun'.count = 3 /\ handRun'.serial = handRun.serial /\ handRun'.facts = handRun.facts
          /\ handRun'.count >= handRun.count
    BY <1>5, <1>6, <1>7 DEF HandoffInv, HandoffTypes
  <2>2. UNCHANGED <<handChains, handCreated, Handoff!gate, handRelease, Handoff!drawing>>
    BY <1>3, <1>7 DEF Handoff!gate, Handoff!drawing
  <2>3. Handoff!GoesOn(t, "commits", [id |-> Handoff!IdentityOf(t, a), facts |-> facts,
                                      tag |-> tag])
    BY <1>3, <1>7 DEF now, id
  <2>4. handRun'.count \in 0 .. 3 /\ handRun'.serial = handChains[a].serial
        /\ (handPending # Nothing =>
              /\ handRun'.serial = handRun.serial /\ handRun'.facts = handRun.facts
              /\ handRun'.count >= handRun.count)
    BY <1>5, <2>1
  <2> QED BY <2>1, <2>2, <2>3, <2>4, GoesOnToCommit
<1>8. CASE ~(same /\ handSamples = 2)
  <2>1. /\ handPending' = now /\ handSamples' \in 1 .. 2 /\ handRun'.count >= handSamples'
    BY <1>3, <1>5, <1>6, <1>8 DEF HandoffInv, HandoffTypes
  <2>2. handKept' = [chain |-> handOwner.id.chain, pending |-> a]
    <3>1. handKept = [chain |-> handOwner.id.chain,
                      pending |-> IF handPending = Nothing THEN Nothing ELSE handPending.id.chain]
      BY <1>2 DEF HandoffInv, GateHolds
    <3>2. same => handPending # Nothing /\ handPending.id.chain = a
      BY <1>1, <1>4 DEF HandoffAssumption
    <3> QED BY <1>3, <1>8, <3>1, <3>2 DEF Handoff!HoldPending
  <2>3. /\ handChains' \in [Addresses -> Handoff!Chain \cup {Handoff!Empty}]
        /\ \A k \in Addresses : handChains'[k] \in {handChains[k], Handoff!Empty}
        /\ \A k \in Addresses : k \in {handOwner.id.chain, a} => handChains'[k] = handChains[k]
    <3>1. HandoffTypes BY DEF HandoffInv
    <3>2. handKept'.chain = handOwner.id.chain /\ handKept'.pending = a BY <2>2
    <3> QED BY <1>3, <1>8, <3>1, <3>2, FreedChains
  <2>4. /\ UNCHANGED <<handAt, handBusy>> /\ \A u \in Threads : handAt[u] = "out"
    BY <1>3, <1>8 DEF Handoff!Returns, HandoffInv, GateHolds, HandoffAssumption
  <2>5. now # Nothing BY <1>4 DEF HandoffAssumption
  <2>6. HandoffTypes'
    BY <1>3, <1>4, <1>5, <2>1, <2>3, <2>4, <2>5 DEF HandoffInv, HandoffTypes
  <2>7. GateHolds'
    BY <1>1, <1>2, <1>3, <1>4, <2>1, <2>2, <2>4, <2>5 DEF HandoffInv, GateHolds
  <2>8. OwnerInOrder'
    <3>1. handOwner.id.chain \in Addresses
      BY <1>2 DEF HandoffInv, HandoffTypes, Owners, Handoff!Identity
    <3>2. \A k \in Addresses : Handoff!Live(k)' => Handoff!Live(k) /\ handChains'[k] = handChains[k]
      BY <2>3 DEF Handoff!Live
    <3>3. Older' = Older BY <1>3 DEF Older
    <3> QED BY <1>2, <1>3, <2>3, <3>1, <3>2, <3>3 DEF HandoffInv, OwnerInOrder, Handoff!Live
  <2>9. PendingInOrder'
    BY <1>1, <1>4, <1>5, <2>1, <2>3 DEF PendingInOrder, Handoff!Live
  <2>10. CallInOrder' BY <2>4 DEF CallInOrder
  <2> QED BY <2>6, <2>7, <2>8, <2>9, <2>10 DEF HandoffInv
<1> QED BY <1>7, <1>8

LEMMA EnterSound ==
  ASSUME HandoffAssumption, HandoffInv, NEW t \in Threads, NEW a \in Addresses,
         Handoff!Enter(t, a)
  PROVE  HandoffInv'
<1> DEFINE id == Handoff!IdentityOf(t, a)
<1>0. /\ Handoff!Live(a) /\ handChains[a].held /\ handBusy = Nothing /\ handAmbiguous \in BOOLEAN
      /\ UNCHANGED <<handCreated, handRelease, handOverlay, handRenderer>>
      /\ Handoff!Qualify(t, a)
  BY DEF Handoff!Enter, Handoff!drawing, HandoffInv, HandoffTypes
<1>1. CASE Handoff!Refuse
  BY <1>0, <1>1, Refusing DEF Handoff!Refuse
<1>2. CASE Handoff!Latch /\ Handoff!Returns
  BY <1>0, <1>2, Refusing DEF Handoff!Latch
<1>3. ASSUME ~Handoff!Misplaced(id), NEW facts \in Handoff!Inspect(a), facts # Nothing,
             \/ /\ handOwner # Nothing /\ ~Handoff!Changed(id)
                /\ Handoff!Continue(t, id, facts)
             \/ \E tag \in Handoff!ReadStamp(a) :
                  /\ tag # Nothing
                  /\ \/ Handoff!Changed(id) /\ Handoff!Probation(t, id, facts, tag)
                     \/ handOwner = Nothing /\ Handoff!First(t, id, facts, tag)
      PROVE  HandoffInv'
  <2>1. CASE handOwner # Nothing /\ ~Handoff!Changed(id) /\ Handoff!Continue(t, id, facts)
    BY <1>0, <1>3, <2>1, ContinueSound
  <2>2. ASSUME NEW tag \in Handoff!ReadStamp(a), tag # Nothing, Handoff!Changed(id),
               Handoff!Probation(t, id, facts, tag)
        PROVE  HandoffInv'
    <3>1. tag \in Handoff!Tags BY <1>0, <2>2, ReadTags
    <3> QED BY <1>0, <1>3, <2>2, <3>1, ProbationSound
  <2>3. ASSUME NEW tag \in Handoff!ReadStamp(a), tag # Nothing, handOwner = Nothing,
               Handoff!First(t, id, facts, tag)
        PROVE  HandoffInv'
    <3>1. tag \in Handoff!Tags BY <1>0, <2>3, ReadTags
    <3>2. handPending = Nothing BY <2>3 DEF HandoffInv, OwnerInOrder
    <3>3. /\ handRun' = [serial |-> 0, facts |-> Nothing, count |-> 0]
          /\ Handoff!GoesOn(t, "commits", [id |-> id, facts |-> facts, tag |-> tag])
          /\ UNCHANGED <<handChains, Handoff!gate>>
      BY <2>3 DEF Handoff!First, Handoff!Interrupted
    <3>4. handRun'.count \in 0 .. 3 BY <3>3
    <3>5. UNCHANGED Handoff!drawing BY <1>0 DEF Handoff!drawing
    <3> HIDE DEF id
    <3> QED BY <1>0, <1>3, <2>3, <3>1, <3>2, <3>3, <3>4, <3>5, GoesOnToCommit DEF id
  <2> QED BY <1>3, <2>1, <2>2, <2>3
<1>4. \/ Handoff!Refuse
      \/ Handoff!Latch /\ Handoff!Returns
      \/ /\ ~Handoff!Misplaced(id)
         /\ \E facts \in Handoff!Inspect(a) :
              /\ facts # Nothing
              /\ \/ /\ handOwner # Nothing /\ ~Handoff!Changed(id)
                    /\ Handoff!Continue(t, id, facts)
                 \/ \E tag \in Handoff!ReadStamp(a) :
                      /\ tag # Nothing
                      /\ \/ Handoff!Changed(id) /\ Handoff!Probation(t, id, facts, tag)
                         \/ handOwner = Nothing /\ Handoff!First(t, id, facts, tag)
  <2>1. CASE Handoff!Misplaced(id) \/ (Handoff!Changed(id) /\ handRelease)
    BY <1>0, <2>1 DEF Handoff!Qualify
  <2>2. CASE ~(Handoff!Misplaced(id) \/ (Handoff!Changed(id) /\ handRelease))
    <3>1. PICK facts \in Handoff!Inspect(a) :
            IF facts = Nothing \/ (Handoff!Bound /\ facts.window # handOwner.window)
            THEN Handoff!Refuse
            ELSE IF Handoff!Bound /\ ~Handoff!Changed(id) THEN Handoff!Continue(t, id, facts)
            ELSE \E tag \in Handoff!ReadStamp(a) :
              IF tag = Nothing THEN Handoff!Refuse
              ELSE IF ~Handoff!ValidTag(tag) THEN Handoff!Latch /\ Handoff!Returns
              ELSE IF Handoff!Changed(id) THEN Handoff!Probation(t, id, facts, tag)
              ELSE Handoff!First(t, id, facts, tag)
      BY <1>0, <2>2 DEF Handoff!Qualify
    <3> HIDE DEF id
    <3>2. ~Handoff!Bound <=> handOwner = Nothing
      BY DEF Handoff!Bound
    <3>3. Handoff!Changed(id) => Handoff!Bound BY DEF Handoff!Changed
    <3> QED BY <2>2, <3>1, <3>2, <3>3
  <2> QED BY <2>1, <2>2
<1> HIDE DEF id
<1> QED BY <1>1, <1>2, <1>3, <1>4

LEMMA CancelSound ==
  ASSUME HandoffAssumption, HandoffInv, NEW t \in Threads, NEW a \in Addresses,
         Handoff!CancelPending(t, a)
  PROVE  HandoffInv'
<1>1. /\ handBusy = Nothing /\ Handoff!Refuse /\ handAmbiguous \in BOOLEAN
      /\ UNCHANGED <<handCreated, handRelease, handOverlay, handRenderer>>
  BY DEF Handoff!CancelPending, Handoff!drawing, HandoffInv, HandoffTypes
<1> QED BY <1>1, Refusing DEF Handoff!Refuse

(* A chain is handed over to: it gets the next stamp, and nothing keeps    *)
(* the one before it.                                                      *)
LEMMA CommitsSound ==
  ASSUME HandoffAssumption, HandoffInv, NEW t \in Threads, handAt[t] = "commits",
         Handoff!Commits(t), Handoff!NextGeneration(handGeneration) # 0,
         UNCHANGED <<handCreated, handRelease, handOverlay, handRenderer>>
  PROVE  HandoffInv'
<1> DEFINE id == handCall.id
           a == handCall.id.chain
           next == handGeneration + 1
<1>1. /\ handCall \in Calls /\ id \in Handoff!Identity /\ a \in Addresses /\ id.thread = t
      /\ Handoff!Live(a) /\ handChains[a].held /\ handChains[a] \in Handoff!Chain
      /\ handChains[a].device = id.device /\ handChains[a].window = handCall.facts.window
      /\ handCall.facts \in Looks
      /\ handOwner # Nothing => id.device = handOwner.id.device
  <2>1. handCall \in Calls /\ Handoff!Live(a) BY DEF HandoffInv, CallInOrder
  <2>2. a \in Addresses /\ id \in Handoff!Identity /\ handCall.facts \in Looks
    BY <2>1 DEF Calls, Handoff!Identity
  <2>3. handChains[a] \in Handoff!Chain BY <2>1, <2>2, LiveIsChain DEF HandoffInv
  <2> QED BY <2>1, <2>2, <2>3 DEF HandoffInv, CallInOrder
<1>2. /\ next \in 1 .. MaxGeneration /\ Handoff!NextGeneration(handGeneration) = next
      /\ handGeneration \in Nat
  BY DEF Handoff!NextGeneration, HandoffInv, HandoffTypes, HandoffAssumption
<1>3. /\ handOwner' = [id |-> id, window |-> handCall.facts.window, full |-> handCall.facts.full]
      /\ handGeneration' = next
      /\ handKept' = Handoff!CommitOwner(a)
      /\ handChains' = [Handoff!Freed(handKept') EXCEPT ![a].stamp = Handoff!Stamped(next)]
      /\ handPending' = Nothing /\ handSamples' = 0
      /\ handAt' = [handAt EXCEPT ![t] = "draws"]
      /\ UNCHANGED <<handAmbiguous, handCall, handBusy, handRun>>
  BY <1>2 DEF Handoff!Commits
<1> HIDE DEF id, next, a
<1>4. handKept' = [chain |-> a, pending |-> Nothing]
  BY <1>3 DEF Handoff!CommitOwner, HandoffInv, GateHolds
<1>5. /\ handOwner' \in Owners /\ handOwner' # Nothing /\ handOwner'.id = id
      /\ handOwner'.window = handCall.facts.window
  BY <1>1, <1>3 DEF Owners, Looks, HandoffAssumption
<1> DEFINE left == Handoff!Freed(handKept')
<1>6. /\ left \in [Addresses -> Handoff!Chain \cup {Handoff!Empty}]
      /\ \A k \in Addresses : left[k] \in {handChains[k], Handoff!Empty}
      /\ left[a] = handChains[a]
  <2>1. HandoffTypes BY DEF HandoffInv
  <2> QED BY <1>1, <2>1, FreedChains
<1>7. handChains' = [left EXCEPT ![a].stamp = Handoff!Stamped(next)]
  BY <1>3
<1> HIDE DEF left
<1> DEFINE new == [handChains[a] EXCEPT !.stamp = Handoff!Stamped(next)]
<1>8. /\ new \in Handoff!Chain /\ new.stamp = Handoff!Stamped(next)
      /\ new.device = handChains[a].device /\ new.window = handChains[a].window
      /\ new.held = handChains[a].held /\ new.serial = handChains[a].serial
  <2>1. Handoff!Stamped(next) \in Handoff!Tags BY <1>2 DEF Handoff!Tags
  <2> QED BY <1>1, <2>1 DEF Handoff!Chain
<1>9. handChains' = [left EXCEPT ![a] = new]
  BY <1>1, <1>6, <1>7
<1> HIDE DEF new
<1>10. /\ handChains' \in [Addresses -> Handoff!Chain \cup {Handoff!Empty}]
       /\ handChains'[a] = new
       /\ \A k \in Addresses : k # a => handChains'[k] \in {handChains[k], Handoff!Empty}
  BY <1>1, <1>6, <1>8, <1>9
<1>11. Handoff!Live(a)'
  <2>1. handCall' = handCall BY <1>3
  <2>2. a' = a BY <2>1 DEF a, id
  <2> QED BY <1>8, <1>10, <2>2, EmptyIsNoChain DEF Handoff!Live
<1>12. /\ handAt' \in [Threads -> {"out", "commits", "draws"}]
       /\ \A u \in Threads : handAt'[u] # "out" <=> handBusy' = u
       /\ \A u \in Threads : handAt'[u] # "out" => u = t /\ handAt'[u] = "draws"
  BY <1>3 DEF HandoffInv, HandoffTypes, GateHolds
<1>13. HandoffTypes'
  BY <1>2, <1>3, <1>5, <1>10, <1>12 DEF HandoffInv, HandoffTypes
<1>14. GateHolds'
  BY <1>3, <1>4, <1>5, <1>12 DEF GateHolds, a, id
<1>15. OwnerInOrder'
  <2>1. ASSUME NEW k \in Addresses, Handoff!Live(k)', k # a
        PROVE  handChains'[k].stamp \in Older'
    <3>1. Handoff!Live(k) /\ handChains'[k] = handChains[k]
      BY <1>10, <2>1 DEF Handoff!Live
    <3>2. handChains[k].stamp \in Unstamped
            \cup {Handoff!Stamped(g) : g \in 1 .. handGeneration}
      <4>1. CASE handOwner = Nothing
        BY <3>1, <4>1 DEF HandoffInv, OwnerInOrder
      <4>2. CASE handOwner # Nothing
        <5>1. CASE k = handOwner.id.chain
          BY <1>2, <4>2, <5>1 DEF HandoffInv, OwnerInOrder
        <5>2. CASE k # handOwner.id.chain
          BY <1>2, <3>1, <4>2, <5>2 DEF HandoffInv, OwnerInOrder, Older
        <5> QED BY <5>1, <5>2
      <4> QED BY <4>1, <4>2
    <3>3. handGeneration' - 1 = handGeneration BY <1>2, <1>3 DEF next
    <3> QED BY <3>1, <3>2, <3>3 DEF Older
  <2>2. handRenderer' \in {Nothing, id.device}
    BY <1>1 DEF HandoffInv, OwnerInOrder
  <2>3. handGeneration' >= 1 BY <1>2, <1>3
  <2> QED BY <1>1, <1>3, <1>5, <1>8, <1>10, <1>11, <2>1, <2>2, <2>3 DEF OwnerInOrder, a, id
<1>16. PendingInOrder' BY <1>3 DEF PendingInOrder
<1>17. CallInOrder'
  BY <1>1, <1>3, <1>5, <1>8, <1>10, <1>11, <1>12 DEF CallInOrder, a, id
<1> QED BY <1>13, <1>14, <1>15, <1>16, <1>17 DEF HandoffInv

LEMMA HandoffCommitSound ==
  ASSUME HandoffAssumption, HandoffInv, NEW t \in Threads, Handoff!Commit(t)
  PROVE  HandoffInv'
<1>0. /\ handAt[t] = "commits" /\ handAmbiguous \in BOOLEAN
      /\ UNCHANGED <<handCreated, handRelease, handOverlay, handRenderer>>
  BY DEF Handoff!Commit, Handoff!drawing, HandoffInv, HandoffTypes
<1>1. \/ Handoff!Latch /\ Handoff!Leaves(t)
      \/ /\ Handoff!ResetPending /\ Handoff!Interrupted /\ Handoff!Leaves(t)
         /\ UNCHANGED <<handOwner, handGeneration, handAmbiguous>>
      \/ Handoff!NextGeneration(handGeneration) # 0 /\ Handoff!Commits(t)
  BY DEF Handoff!Commit
<1>2. CASE Handoff!Latch /\ Handoff!Leaves(t)
  BY <1>0, <1>2, Leaving DEF Handoff!Latch
<1>3. CASE /\ Handoff!ResetPending /\ Handoff!Interrupted /\ Handoff!Leaves(t)
           /\ UNCHANGED <<handOwner, handGeneration, handAmbiguous>>
  BY <1>0, <1>3, Leaving
<1>4. CASE Handoff!NextGeneration(handGeneration) # 0 /\ Handoff!Commits(t)
  BY <1>0, <1>4, CommitsSound
<1> QED BY <1>1, <1>2, <1>3, <1>4

LEMMA HandoffDrawSound ==
  ASSUME HandoffAssumption, HandoffInv, NEW t \in Threads, Handoff!Draw(t)
  PROVE  HandoffInv'
<1>1. /\ handAt[t] = "draws" /\ Handoff!Leaves(t)
      /\ UNCHANGED <<handChains, handCreated, handOwner, handGeneration, handAmbiguous, handPending,
                     handSamples, handKept, handRelease, handRun>>
  BY DEF Handoff!Draw, Handoff!game, Handoff!gate
<1>2. /\ handOwner # Nothing /\ handCall.id = handOwner.id /\ handOwner.id.device \in Devices
      /\ handRenderer \in {Nothing, handOwner.id.device}
  <2>1. handOwner # Nothing /\ handCall.id = handOwner.id BY <1>1 DEF HandoffInv, CallInOrder
  <2>2. handOwner.id.device \in Devices
    BY <2>1 DEF HandoffInv, HandoffTypes, Owners, Handoff!Identity
  <2> QED BY <2>1, <2>2 DEF HandoffInv, OwnerInOrder
<1>3. /\ handOverlay' \in {"Untouched", "Ready", "Idle", "DeviceUnavailable", "BackendInitFailed",
                           "DeviceRemoved"}
      /\ handRenderer' \in {Nothing, handOwner.id.device}
  <2>1. handOverlay \in {"Untouched", "Ready", "Idle", "DeviceUnavailable", "BackendInitFailed",
                         "DeviceRemoved"}
    BY DEF HandoffInv, HandoffTypes
  <2>2. UNCHANGED Handoff!drawing \/ Handoff!Initialise(handCall.id.device)
          \/ Handoff!DrawOverlayFrame
    BY DEF Handoff!Draw, Handoff!TryDrawOverlay
  <2>3. CASE UNCHANGED Handoff!drawing BY <1>2, <2>1, <2>3 DEF Handoff!drawing
  <2>4. CASE Handoff!Initialise(handCall.id.device) BY <1>2, <2>4 DEF Handoff!Initialise
  <2>5. CASE Handoff!DrawOverlayFrame BY <1>2, <2>5 DEF Handoff!DrawOverlayFrame
  <2> QED BY <2>2, <2>3, <2>4, <2>5
<1>4. /\ handAt' \in [Threads -> {"out", "commits", "draws"}] /\ handBusy' = Nothing
      /\ \A u \in Threads : handAt'[u] = "out"
  BY <1>1 DEF Handoff!Leaves, HandoffInv, HandoffTypes, GateHolds
<1>5. HandoffTypes' /\ GateHolds'
  BY <1>1, <1>2, <1>3, <1>4 DEF HandoffInv, HandoffTypes, GateHolds, HandoffAssumption
<1>6. OwnerInOrder' /\ PendingInOrder'
  BY <1>1, <1>2, <1>3 DEF HandoffInv, OwnerInOrder, PendingInOrder, Older, Handoff!Live
<1>7. CallInOrder' BY <1>4 DEF CallInOrder
<1> QED BY <1>5, <1>6, <1>7 DEF HandoffInv

LEMMA HandoffStep ==
  ASSUME HandoffAssumption PROVE HandoffInv /\ [Handoff!Next]_(Handoff!vars) => HandoffInv'
<1> SUFFICES ASSUME HandoffInv, [Handoff!Next]_(Handoff!vars) PROVE HandoffInv'
  OBVIOUS
<1>1. CASE UNCHANGED Handoff!vars
  BY <1>1 DEF Handoff!vars, Handoff!game, Handoff!gate, Handoff!drawing, HandoffInv, HandoffTypes,
    GateHolds, OwnerInOrder, PendingInOrder, CallInOrder, Older, Handoff!Live
<1>2. CASE Handoff!Next
  BY <1>2, GameStepsSound, EnterSound, CancelSound, HandoffCommitSound, HandoffDrawSound
  DEF Handoff!Next
<1> QED BY <1>1, <1>2

LEMMA HandoffFollows ==
  ASSUME HandoffAssumption PROVE HandoffInv => Handoff!TypeOK /\ Handoff!HandoverQualified
<1> SUFFICES ASSUME HandoffInv PROVE Handoff!TypeOK /\ Handoff!HandoverQualified
  OBVIOUS
<1>1. Handoff!TypeOK
  <2>1. \A a \in Addresses : handChains[a] = Handoff!Empty \/ handChains[a] \in Handoff!Chain
    BY DEF HandoffInv, HandoffTypes
  <2>2. handOwner = Nothing \/ handOwner.id \in Handoff!Identity
    BY DEF HandoffInv, HandoffTypes, Owners
  <2> QED BY <2>1, <2>2 DEF HandoffInv, HandoffTypes, Handoff!TypeOK
<1>2. Handoff!HandedOver
  BY DEF HandoffInv, CallInOrder, Handoff!HandedOver, Handoff!Bound
<1>3. Handoff!OwnerIsNewest
  <2> SUFFICES ASSUME handOwner # Nothing, NEW a \in Addresses, Handoff!Live(a),
                      handChains[a].stamp \notin {Handoff!Absent, Handoff!Foreign}
               PROVE  /\ handChains[a].stamp.generation \in 1 .. handGeneration
                      /\ handChains[a].stamp.generation = handGeneration <=> a = handOwner.id.chain
    BY DEF HandoffInv, OwnerInOrder, Handoff!OwnerIsNewest, Handoff!Bound
  <2>1. handGeneration \in Nat /\ handGeneration >= 1
    BY DEF HandoffInv, HandoffTypes, OwnerInOrder
  <2>2. CASE a = handOwner.id.chain
    BY <2>1, <2>2, TagsDiffer DEF HandoffInv, OwnerInOrder
  <2>3. CASE a # handOwner.id.chain
    <3>1. handChains[a].stamp \in Older BY <2>3 DEF HandoffInv, OwnerInOrder
    <3>2. PICK g \in 1 .. handGeneration - 1 : handChains[a].stamp = Handoff!Stamped(g)
      BY <3>1 DEF Older, Unstamped
    <3>3. handChains[a].stamp.generation = g BY <2>1, <3>2, TagsDiffer
    <3> QED BY <2>1, <2>3, <3>3
  <2> QED BY <2>2, <2>3
<1>4. Handoff!RendererFits
  <2> SUFFICES ASSUME NEW t \in Threads, handAt[t] = "draws"
               PROVE  /\ t = handOwner.id.thread /\ handCall.id = handOwner.id
                      /\ handRenderer \in {Nothing, handChains[handOwner.id.chain].device}
                      /\ handChains[handOwner.id.chain].window = handOwner.window
    BY DEF Handoff!RendererFits
  <2>1. handOwner # Nothing /\ handCall.id = handOwner.id /\ handCall.id.thread = t
    BY DEF HandoffInv, CallInOrder
  <2> QED BY <2>1 DEF HandoffInv, OwnerInOrder
<1> QED BY <1>1, <1>2, <1>3, <1>4 DEF Handoff!HandoverQualified

(* The inductive invariant holds in every reachable state.                 *)
THEOREM HandoffInvariant == ASSUME HandoffAssumption PROVE Handoff!Spec => []HandoffInv
BY HandoffInitially, HandoffStep, PTL DEF Handoff!Spec

(* For any number of chains, addresses used again, threads and devices,    *)
(* and whatever cannot be read: a chain is handed over to only after three *)
(* calls in a row saw it unchanged, the owner has the newest stamp, and    *)
(* the renderer is used for its device, window and thread only             *)
(* (chain_handoff.hpp, d3d11_chain_candidate.hpp).                         *)
THEOREM HandedOverInOrder ==
  ASSUME HandoffAssumption PROVE Handoff!Spec => []Handoff!HandoverQualified
BY HandoffFollows, HandoffInvariant, PTL

-----------------------------------------------------------------------------
(* How the library is started (OverlayStart).                              *)

(* A tray is started any number of times, but finitely often.              *)
StartAssumption == IsFiniteSet(Helpers) /\ Nothing \notin Helpers

Unloaded == {"none", "discovers", "admits", "maps", "writes", "chooses", "loads"}
InSession == {"confirms", "session", "sets"}
Chosen == {"waits", "inspects"} \cup InSession
Places == Unloaded \cup Chosen \cup Start!Over

Blocks == [enabled : BOOLEAN, stop : BOOLEAN, choice : Choices,
           state : {"Starting", "Ready", "Failed", "Closed"}]
Sections == [release : BOOLEAN, contract : BOOLEAN, policy : Choices \cup {"strict"},
             word : {"waiting", "installed", "refused", "stays"},
             ready : {"none", "ready", "waits", "refused"},
             seen : BOOLEAN, errors : BOOLEAN, drawn : BOOLEAN]

StartTypes ==
  /\ startTray \in Helpers \cup {Nothing} /\ startName \in Helpers \cup {Nothing}
  /\ startControl \in [Helpers -> Blocks]
  /\ startAt \in [Helpers -> Places]
  /\ startSection \in [Helpers -> Sections]
  /\ startLoads \subseteq Helpers /\ startInspected \subseteq Helpers
  /\ startLoaded \in Nat
  /\ startWorker \in {"none", "starts", "installs", "resident"}

(* Each helper has the library loaded once at most.                        *)
LoadsAreCounted ==
  LET coming == {h \in Helpers : startAt[h] \in Unloaded}
  IN startLoaded + Cardinality(startLoads) + Cardinality(coming) <= Cardinality(Helpers)

(* The worker runs in a loaded library, with the section of the game's     *)
(* name; it stays in the game once it has installed, and only for a        *)
(* section whose contract is written.                                      *)
LibraryInOrder ==
  /\ startWorker # "none" => startLoaded > 0
  /\ startMine \in {Nothing, startName}
  /\ startMine # Nothing <=> startWorker \in {"installs", "resident"}
  /\ \A h \in Helpers : startSection[h].word = "installed" =>
       startMine = h /\ startWorker = "resident" /\ startSection[h].contract

(* With a contract the gate is closed until its helper has found           *)
(* everything in order, and from its end on.                               *)
GateInOrder ==
  \A h \in Helpers :
    /\ startSection[h].contract /\ h \notin startInspected => startSection[h].release
    /\ startAt[h] = "chooses" => startSection[h].release
    /\ startAt[h] = "ended" /\ startSection[h].contract => startSection[h].release
    /\ startSection[h].drawn => h \in startInspected

(* A tray that is still the helper's was so when the choice was read.      *)
ChoiceInOrder ==
  \A h \in Helpers :
    startAt[h] \in Chosen \/ (startAt[h] = "loads" /\ startTray = h) =>
      startSection[h].policy = startControl[h].choice

SessionInOrder ==
  \A h \in Helpers : startAt[h] \in InSession => h \in startInspected /\ startMine = h
                                                   /\ startWorker = "resident"

StartInv ==
  StartTypes /\ LoadsAreCounted /\ LibraryInOrder /\ GateInOrder /\ ChoiceInOrder /\ SessionInOrder

LEMMA FreshSection == Start!Fresh \in Sections /\ Start!Fresh.word = "waiting"
                        /\ ~Start!Fresh.contract /\ ~Start!Fresh.drawn
BY DEF Start!Fresh, Sections

LEMMA StartInitially == ASSUME StartAssumption, Start!Init PROVE StartInv
<1>1. startControl \in [Helpers -> Blocks]
  <2>1. startControl \in [Helpers -> {[enabled |-> TRUE, stop |-> FALSE, state |-> "Starting",
                                       choice |-> c] : c \in Choices}]
    BY DEF Start!Init
  <2>2. {[enabled |-> TRUE, stop |-> FALSE, state |-> "Starting", choice |-> c] : c \in Choices}
          \subseteq Blocks
    <3>1. \A c \in Choices : [enabled |-> TRUE, stop |-> FALSE, state |-> "Starting", choice |-> c]
                              \in Blocks
      BY DEF Blocks
    <3> QED BY <3>1
  <2> QED BY <2>1, <2>2
<1>2. /\ startAt = [h \in Helpers |-> "none"] /\ startSection = [h \in Helpers |-> Start!Fresh]
      /\ startTray = Nothing /\ startName = Nothing /\ startMine = Nothing /\ startLoads = {}
      /\ startLoaded = 0 /\ startWorker = "none" /\ startInspected = {}
  BY DEF Start!Init
<1>3. StartTypes
  BY <1>1, <1>2, FreshSection DEF StartTypes, Places, Unloaded
<1>4. LoadsAreCounted
  <2> DEFINE coming == {h \in Helpers : startAt[h] \in Unloaded}
  <2>1. coming = Helpers
    BY <1>2 DEF Unloaded
  <2>2. Cardinality(startLoads) = 0 /\ Cardinality(Helpers) \in Nat
    BY <1>2, FS_EmptySet, FS_CardinalityType DEF StartAssumption
  <2> HIDE DEF coming
  <2>3. startLoaded + Cardinality(startLoads) + Cardinality(coming) <= Cardinality(Helpers)
    BY <1>2, <2>1, <2>2
  <2> QED BY <2>3 DEF LoadsAreCounted, coming
<1>5. LibraryInOrder /\ GateInOrder /\ ChoiceInOrder /\ SessionInOrder
  BY <1>2, FreshSection
  DEF LibraryInOrder, GateInOrder, ChoiceInOrder, SessionInOrder, Chosen, InSession
<1> QED BY <1>3, <1>4, <1>5 DEF StartInv

(* Fewer helpers are coming, never more.                                   *)
LEMMA FewerComing ==
  ASSUME StartAssumption, LoadsAreCounted, startLoads \subseteq Helpers, startLoaded \in Nat,
         \A k \in Helpers : startAt'[k] \in Unloaded => startAt[k] \in Unloaded,
         UNCHANGED startLoads, startLoaded' \in Nat, startLoaded' <= startLoaded
  PROVE  LoadsAreCounted'
<1> DEFINE coming == {h \in Helpers : startAt[h] \in Unloaded}
<1>1. /\ IsFiniteSet(coming) /\ IsFiniteSet(startLoads) /\ IsFiniteSet(coming')
      /\ Cardinality(coming') <= Cardinality(coming)
  <2>1. coming' \subseteq coming /\ coming \subseteq Helpers OBVIOUS
  <2> HIDE DEF coming
  <2> QED BY <2>1, FS_Subset DEF StartAssumption
<1>2. /\ Cardinality(coming) \in Nat /\ Cardinality(coming') \in Nat
      /\ Cardinality(startLoads) \in Nat /\ Cardinality(Helpers) \in Nat
  BY <1>1, FS_CardinalityType DEF StartAssumption
<1>3. startLoaded + Cardinality(startLoads) + Cardinality(coming) <= Cardinality(Helpers)
  BY DEF LoadsAreCounted
<1>4. startLoaded' + Cardinality(startLoads') + Cardinality(coming') <= Cardinality(Helpers)
  <2> HIDE DEF coming
  <2> QED BY <1>1, <1>2, <1>3
<1> QED BY <1>4 DEF LoadsAreCounted

(* A step that leaves sections and library as they are.                    *)
LEMMA StartMoves ==
  ASSUME StartAssumption, StartInv,
         startTray' \in Helpers \cup {Nothing}, startName' \in Helpers \cup {Nothing},
         startMine \in {Nothing, startName'},
         startControl' \in [Helpers -> Blocks],
         \A k \in Helpers : startControl'[k].choice = startControl[k].choice,
         startAt' \in [Helpers -> Places],
         startInspected \subseteq startInspected', startInspected' \subseteq Helpers,
         \A k \in Helpers :
           \/ startAt'[k] = startAt[k]
           \/ /\ startAt'[k] \notin {"chooses", "loads", "ended"}
              /\ startAt'[k] \in Unloaded => startAt[k] \in Unloaded
              /\ startAt'[k] \in Chosen => startAt[k] \in Chosen
              /\ startAt'[k] \in InSession => /\ k \in startInspected' /\ startMine = k
                                              /\ startWorker = "resident",
         \A k \in Helpers : startAt'[k] = "loads" /\ startTray' = k => startTray = k,
         UNCHANGED <<startSection, startLoads, startLoaded, startWorker, startMine>>
  PROVE  StartInv'
<1>1. StartTypes'
  BY DEF StartInv, StartTypes
<1>2. LoadsAreCounted'
  BY FewerComing DEF StartInv, StartTypes
<1>3. LibraryInOrder'
  BY DEF StartInv, LibraryInOrder
<1>4. GateInOrder'
  BY DEF StartInv, GateInOrder
<1>5. ChoiceInOrder'
  BY DEF StartInv, ChoiceInOrder, Chosen, InSession
<1>6. SessionInOrder'
  BY DEF StartInv, SessionInOrder
<1> QED BY <1>1, <1>2, <1>3, <1>4, <1>5, <1>6 DEF StartInv

(* The steps of one helper that read and do not write.                     *)
LEMMA HelperGoesOn ==
  ASSUME StartAssumption, StartInv, NEW h \in Helpers,
         \/ Start!Discover(h) \/ Start!Admit(h) \/ Start!Map(h) \/ Start!Loaded(h)
         \/ Start!Inspect(h)
  PROVE  StartInv'
<1>1. PICK there \in {"admits", "maps", "writes", "inspects", "confirms"} :
        /\ startAt' = [startAt EXCEPT ![h] = there]
        /\ there \in Unloaded => startAt[h] \in Unloaded
        /\ there \in Chosen => startAt[h] \in Chosen
        /\ there = "confirms" => startSection[h].word = "installed" /\ h \in startInspected'
  BY DEF Start!Discover, Start!Admit, Start!Map, Start!Loaded, Start!Inspect, Start!Proceeds,
         Start!Goes, Start!InOrder, Unloaded, Chosen, InSession
<1>2. /\ startName' \in Helpers \cup {Nothing} /\ startMine \in {Nothing, startName'}
      /\ startInspected' \in {startInspected, startInspected \cup {h}}
      /\ UNCHANGED <<startTray, startControl, startSection, startLoads, startLoaded, startWorker,
                     startMine>>
  BY DEF Start!Discover, Start!Admit, Start!Map, Start!Loaded, Start!Inspect, Start!Proceeds,
         Start!game, StartInv, StartTypes, LibraryInOrder
<1>3. there \in InSession => there = "confirms"
  BY <1>1 DEF InSession
<1>4. startSection[h].word = "installed" => startMine = h /\ startWorker = "resident"
  BY DEF StartInv, LibraryInOrder
<1>5. startAt' \in [Helpers -> Places]
  BY <1>1 DEF StartInv, StartTypes, Places, Unloaded, Chosen, InSession
<1>6. \A k \in Helpers : k # h => startAt'[k] = startAt[k]
  BY <1>1 DEF StartInv, StartTypes
<1>7. startAt'[h] = there
  BY <1>1 DEF StartInv, StartTypes
<1>8. /\ startTray' \in Helpers \cup {Nothing} /\ startControl' \in [Helpers -> Blocks]
      /\ startInspected \subseteq startInspected' /\ startInspected' \subseteq Helpers
      /\ \A k \in Helpers : startControl'[k].choice = startControl[k].choice
  BY <1>2 DEF StartInv, StartTypes
<1> QED BY <1>1, <1>2, <1>3, <1>4, <1>5, <1>6, <1>7, <1>8, StartMoves

(* What the tray says never changes the choice that was made.              *)
LEMMA SaysKeepsChoice ==
  ASSUME StartTypes, NEW h \in Helpers, NEW s \in {"Starting", "Ready", "Failed", "Closed"},
         Start!Says(h, s)
  PROVE  /\ startControl' \in [Helpers -> Blocks]
         /\ \A k \in Helpers : startControl'[k].choice = startControl[k].choice
<1>1. [startControl[h] EXCEPT !.state = s] \in Blocks
      /\ [startControl[h] EXCEPT !.state = s].choice = startControl[h].choice
  BY DEF StartTypes, Blocks
<1> QED BY <1>1 DEF StartTypes, Start!Says

LEMMA TraySound ==
  ASSUME StartAssumption, StartInv,
         \/ Start!TrayEnds \/ Start!TrayToggles \/ Start!TrayStops
         \/ \E h \in Helpers : Start!Launch(h)
  PROVE  StartInv'
<1> USE DEF Start!game
<1>0. startMine \in {Nothing, startName} /\ StartTypes
  BY DEF StartInv, LibraryInOrder
<1>1. CASE Start!TrayEnds
  BY <1>0, <1>1, StartMoves DEF Start!TrayEnds, StartTypes, StartAssumption
<1>2. CASE Start!TrayToggles \/ Start!TrayStops
  <2>1. startTray \in Helpers
    BY <1>0, <1>2 DEF Start!TrayToggles, Start!TrayStops, StartTypes
  <2>2. /\ [startControl[startTray] EXCEPT !.enabled = ~@] \in Blocks
        /\ [startControl[startTray] EXCEPT !.enabled = ~@].choice = startControl[startTray].choice
        /\ [startControl[startTray] EXCEPT !.stop = TRUE] \in Blocks
        /\ [startControl[startTray] EXCEPT !.stop = TRUE].choice = startControl[startTray].choice
    BY <1>0, <2>1 DEF StartTypes, Blocks
  <2>3. /\ startControl' \in [Helpers -> Blocks]
        /\ \A k \in Helpers : startControl'[k].choice = startControl[k].choice
    BY <1>0, <1>2, <2>1, <2>2 DEF Start!TrayToggles, Start!TrayStops, StartTypes
  <2> QED BY <1>0, <1>2, <2>3, StartMoves DEF Start!TrayToggles, Start!TrayStops, StartTypes
<1>3. ASSUME NEW h \in Helpers, Start!Launch(h) PROVE StartInv'
  <2>1. /\ startAt[h] = "none" /\ startAt' = [startAt EXCEPT ![h] = "discovers"] /\ startTray' = h
        /\ UNCHANGED <<startControl, startName, startSection, startLoads, startLoaded, startWorker,
                       startMine, startInspected>>
    BY <1>3 DEF Start!Launch, Start!Goes
  <2>2. startAt' \in [Helpers -> Places] /\ startAt'[h] = "discovers"
        /\ \A k \in Helpers : k # h => startAt'[k] = startAt[k]
    BY <1>0, <2>1 DEF StartTypes, Places, Unloaded
  <2>3. /\ "discovers" \in Unloaded /\ "none" \in Unloaded
        /\ "discovers" \notin Chosen /\ "discovers" \notin InSession
    BY DEF Unloaded, Chosen, InSession
  <2> QED BY <1>0, <2>1, <2>2, <2>3, StartMoves DEF StartTypes
<1> QED BY <1>1, <1>2, <1>3

LEMMA ConfirmSound ==
  ASSUME StartAssumption, StartInv, NEW h \in Helpers, Start!Confirm(h)
  PROVE  StartInv'
<1>1. /\ startAt[h] = "confirms" /\ startAt' = [startAt EXCEPT ![h] = "session"]
      /\ Start!Says(h, "Ready")
      /\ UNCHANGED <<startTray, startName, startSection, startLoads, startLoaded, startWorker,
                     startMine, startInspected>>
  BY DEF Start!Confirm, Start!Goes, Start!game
<1>2. StartTypes /\ startMine \in {Nothing, startName} BY DEF StartInv, LibraryInOrder
<1>3. /\ startControl' \in [Helpers -> Blocks]
      /\ \A k \in Helpers : startControl'[k].choice = startControl[k].choice
  BY <1>1, <1>2, SaysKeepsChoice
<1>4. startAt' \in [Helpers -> Places] /\ startAt'[h] = "session"
      /\ \A k \in Helpers : k # h => startAt'[k] = startAt[k]
  BY <1>1, <1>2 DEF StartTypes, Places, Chosen, InSession
<1>5. /\ "session" \notin Unloaded /\ "confirms" \in Chosen
      /\ h \in startInspected /\ startMine = h /\ startWorker = "resident"
  BY <1>1 DEF StartInv, SessionInOrder, Unloaded, Chosen, InSession
<1> QED BY <1>1, <1>2, <1>3, <1>4, <1>5, StartMoves DEF StartTypes

(* A helper that ends: its section is left as it is, with the gate as said,*)
(* or is gone.                                                             *)
LEMMA Closing ==
  ASSUME StartInv, NEW h \in Helpers, NEW shut \in BOOLEAN, Start!Closes(h, shut)
  PROVE  /\ startSection' \in [Helpers -> Sections]
         /\ \A k \in Helpers : k # h => startSection'[k] = startSection[k]
         /\ startSection'[h] = IF startMine = h THEN [startSection[h] EXCEPT !.release = shut]
                               ELSE Start!Fresh
         /\ startName' \in Helpers \cup {Nothing} /\ startMine \in {Nothing, startName'}
<1>1. startSection \in [Helpers -> Sections] /\ startName \in Helpers \cup {Nothing}
      /\ startMine \in {Nothing, startName}
  BY DEF StartInv, StartTypes, LibraryInOrder
<1>2. [startSection[h] EXCEPT !.release = shut] \in Sections
  BY <1>1 DEF Sections
<1> QED BY <1>1, <1>2, FreshSection DEF Start!Closes, Start!Gate

LEMMA Ending ==
  ASSUME StartAssumption, StartInv, NEW h \in Helpers, NEW how \in Start!Over,
         NEW shut \in BOOLEAN, Start!Closes(h, shut),
         how = "ended" => shut = TRUE,
         shut = TRUE \/ shut = startSection[h].release,
         startAt' = [startAt EXCEPT ![h] = how],
         startControl' \in [Helpers -> Blocks],
         \A k \in Helpers : startControl'[k].choice = startControl[k].choice,
         UNCHANGED <<startTray, startLoads, startLoaded, startWorker, startMine, startInspected>>
  PROVE  StartInv'
<1>1. /\ startSection' \in [Helpers -> Sections]
      /\ \A k \in Helpers : k # h => startSection'[k] = startSection[k]
      /\ startName' \in Helpers \cup {Nothing} /\ startMine \in {Nothing, startName'}
  BY Closing
<1>2. \/ startSection'[h] = Start!Fresh /\ startMine # h
      \/ /\ startMine = h /\ startSection'[h].release = shut
         /\ startSection'[h].contract = startSection[h].contract
         /\ startSection'[h].word = startSection[h].word
         /\ startSection'[h].drawn = startSection[h].drawn
  <2>1. startSection[h] \in Sections BY DEF StartInv, StartTypes
  <2>2. startSection'[h] = IF startMine = h THEN [startSection[h] EXCEPT !.release = shut]
                           ELSE Start!Fresh
    BY Closing
  <2> QED BY <2>1, <2>2 DEF Sections
<1>3. startAt' \in [Helpers -> Places] /\ startAt'[h] = how
      /\ \A k \in Helpers : k # h => startAt'[k] = startAt[k]
  BY DEF StartInv, StartTypes, Places
<1>4. how \notin Unloaded /\ how \notin Chosen /\ how \notin InSession /\ how # "chooses"
      /\ how # "loads"
  BY DEF Start!Over, Unloaded, Chosen, InSession
<1>5. StartTypes'
  BY <1>1, <1>3 DEF StartInv, StartTypes
<1>6. LoadsAreCounted'
  BY <1>3, <1>4, FewerComing DEF StartInv, StartTypes
<1>7. LibraryInOrder'
  BY <1>1, <1>2, FreshSection DEF StartInv, LibraryInOrder
<1>8. GateInOrder'
  BY <1>1, <1>2, <1>3, <1>4, FreshSection DEF StartInv, GateInOrder
<1>9. ChoiceInOrder' /\ SessionInOrder'
  BY <1>1, <1>3, <1>4 DEF StartInv, ChoiceInOrder, SessionInOrder
<1> QED BY <1>5, <1>6, <1>7, <1>8, <1>9 DEF StartInv

LEMMA EndsSound ==
  ASSUME StartAssumption, StartInv, NEW h \in Helpers,
         \/ Start!Refused(h) \/ Start!Crash(h) \/ Start!ConfirmTooLate(h) \/ Start!SessionEnds(h)
  PROVE  StartInv'
<1> USE DEF Start!game, Start!Goes
<1>0. StartTypes /\ startSection[h].release \in BOOLEAN
  BY DEF StartInv, StartTypes, Sections
<1>1. CASE Start!Refused(h)
  <2>1. Start!Says(h, "Failed") /\ Start!Closes(h, TRUE) /\ startAt' = [startAt EXCEPT ![h] = "ended"]
        /\ UNCHANGED <<startTray, startLoads, startLoaded, startWorker, startMine, startInspected>>
    BY <1>1 DEF Start!Refused, Start!Fails
  <2>2. "ended" \in Start!Over BY DEF Start!Over
  <2> QED BY <1>0, <2>1, <2>2, SaysKeepsChoice, Ending
<1>2. CASE Start!Crash(h)
  <2>1. /\ Start!Closes(h, startSection[h].release) /\ startAt' = [startAt EXCEPT ![h] = "crashed"]
        /\ UNCHANGED <<startTray, startControl, startLoads, startLoaded, startWorker, startMine,
                       startInspected>>
    BY <1>2 DEF Start!Crash
  <2>2. "crashed" \in Start!Over BY DEF Start!Over
  <2> QED BY <1>0, <2>1, <2>2, Ending DEF StartTypes
<1>3. CASE Start!ConfirmTooLate(h)
  <2>1. /\ Start!Closes(h, TRUE) /\ startAt' = [startAt EXCEPT ![h] = "ended"]
        /\ UNCHANGED <<startTray, startControl, startLoads, startLoaded, startWorker, startMine,
                       startInspected>>
    BY <1>3 DEF Start!ConfirmTooLate
  <2>2. "ended" \in Start!Over BY DEF Start!Over
  <2> QED BY <1>0, <2>1, <2>2, Ending DEF StartTypes
<1>4. CASE Start!SessionEnds(h)
  <2>1. Start!Says(h, "Closed") /\ Start!Closes(h, TRUE) /\ startAt' = [startAt EXCEPT ![h] = "ended"]
        /\ UNCHANGED <<startTray, startLoads, startLoaded, startWorker, startMine, startInspected>>
    BY <1>4 DEF Start!SessionEnds
  <2>2. "ended" \in Start!Over BY DEF Start!Over
  <2> QED BY <1>0, <2>1, <2>2, SaysKeepsChoice, Ending
<1> QED BY <1>1, <1>2, <1>3, <1>4

LEMMA SessionChecksSound ==
  ASSUME StartAssumption, StartInv, NEW h \in Helpers, Start!SessionChecks(h)
  PROVE  StartInv'
<1> USE DEF Start!game, Start!Goes
<1>0. StartTypes BY DEF StartInv
<1>1. CASE startSection[h].errors
  <2>1. Start!Says(h, "Failed") /\ Start!Closes(h, TRUE) /\ startAt' = [startAt EXCEPT ![h] = "ended"]
        /\ UNCHANGED <<startTray, startLoads, startLoaded, startWorker, startMine, startInspected>>
    BY <1>1 DEF Start!SessionChecks
  <2>2. "ended" \in Start!Over BY DEF Start!Over
  <2> QED BY <1>0, <2>1, <2>2, SaysKeepsChoice, Ending
<1>2. CASE ~startSection[h].errors
  <2>1. /\ startAt[h] = "session" /\ startAt' = [startAt EXCEPT ![h] = "sets"]
        /\ UNCHANGED <<startTray, startControl, startName, startSection, startLoads, startLoaded,
                       startWorker, startMine, startInspected>>
    BY <1>2 DEF Start!SessionChecks
  <2>2. startAt' \in [Helpers -> Places] /\ startAt'[h] = "sets"
        /\ \A k \in Helpers : k # h => startAt'[k] = startAt[k]
    BY <1>0, <2>1 DEF StartTypes, Places, Chosen, InSession
  <2>3. /\ "sets" \notin Unloaded /\ "session" \in Chosen
        /\ h \in startInspected /\ startMine = h /\ startWorker = "resident"
        /\ startMine \in {Nothing, startName}
    BY <2>1 DEF StartInv, SessionInOrder, LibraryInOrder, Unloaded, Chosen, InSession
  <2> QED BY <1>0, <2>1, <2>2, <2>3, StartMoves DEF StartTypes
<1> QED BY <1>1, <1>2

LEMMA SessionSetsSound ==
  ASSUME StartAssumption, StartInv, NEW h \in Helpers, Start!SessionSets(h)
  PROVE  StartInv'
<1>1. /\ startAt[h] = "sets" /\ startAt' = [startAt EXCEPT ![h] = "session"]
      /\ startSection' = [startSection EXCEPT ![h].release = ~startControl[h].enabled]
      /\ UNCHANGED <<startTray, startControl, startName, startLoads, startLoaded, startWorker,
                     startMine, startInspected>>
  BY DEF Start!SessionSets, Start!Gate, Start!Proceeds, Start!Goes, Start!game
<1>2. /\ startSection' \in [Helpers -> Sections]
      /\ \A k \in Helpers : /\ startSection'[k].contract = startSection[k].contract
                            /\ startSection'[k].policy = startSection[k].policy
                            /\ startSection'[k].word = startSection[k].word
                            /\ startSection'[k].drawn = startSection[k].drawn
                            /\ k # h => startSection'[k].release = startSection[k].release
  <2>1. startSection \in [Helpers -> Sections] /\ startControl[h].enabled \in BOOLEAN
    BY DEF StartInv, StartTypes, Blocks
  <2> DEFINE new == [startSection[h] EXCEPT !.release = ~startControl[h].enabled]
  <2>2. /\ new \in Sections /\ new.contract = startSection[h].contract
        /\ new.policy = startSection[h].policy /\ new.word = startSection[h].word
        /\ new.drawn = startSection[h].drawn
    BY <2>1 DEF Sections
  <2>3. startSection' = [startSection EXCEPT ![h] = new]
    BY <1>1
  <2> HIDE DEF new
  <2> QED BY <2>1, <2>2, <2>3
<1>3. startAt' \in [Helpers -> Places] /\ startAt'[h] = "session"
      /\ \A k \in Helpers : k # h => startAt'[k] = startAt[k]
  BY <1>1 DEF StartInv, StartTypes, Places, Chosen, InSession
<1>4. h \in startInspected /\ startMine = h /\ startWorker = "resident"
      /\ startAt[h] \in Chosen /\ startAt[h] \notin Unloaded
      /\ "session" \notin Unloaded /\ "session" \in Chosen
  BY <1>1 DEF StartInv, SessionInOrder, Unloaded, Chosen, InSession
<1>5. StartTypes'
  BY <1>1, <1>2, <1>3 DEF StartInv, StartTypes
<1>6. LoadsAreCounted'
  BY <1>1, <1>3, <1>4, FewerComing DEF StartInv, StartTypes
<1>7. LibraryInOrder'
  BY <1>1, <1>2 DEF StartInv, LibraryInOrder
<1>8. GateInOrder'
  BY <1>1, <1>2, <1>3, <1>4 DEF StartInv, GateInOrder
<1>9. ChoiceInOrder' /\ SessionInOrder'
  BY <1>1, <1>2, <1>3, <1>4 DEF StartInv, ChoiceInOrder, SessionInOrder
<1> QED BY <1>5, <1>6, <1>7, <1>8, <1>9 DEF StartInv

(* The two writes of a section that has no contract yet.                   *)
LEMMA WritesSound ==
  ASSUME StartAssumption, StartInv, NEW h \in Helpers,
         Start!CloseBeforeContract(h) \/ Start!ReadColorChoice(h)
  PROVE  StartInv'
<1> USE DEF Start!Proceeds, Start!Goes, Start!game
<1>0. /\ startSection \in [Helpers -> Sections] /\ startControl[h].choice \in Choices
      /\ startAt \in [Helpers -> Places]
  BY DEF StartInv, StartTypes, Blocks
<1>1. PICK there \in {"chooses", "loads"} :
        /\ startAt' = [startAt EXCEPT ![h] = there] /\ startAt[h] \in {"writes", "chooses"}
        /\ there = "loads" => startAt[h] = "chooses"
        /\ UNCHANGED <<startTray, startControl, startName, startLoads, startLoaded, startWorker,
                       startMine, startInspected>>
  BY DEF Start!CloseBeforeContract, Start!ReadColorChoice
<1>2. PICK new \in Sections :
        /\ startSection' = [startSection EXCEPT ![h] = new]
        /\ new.release = TRUE
        /\ new.drawn => startSection[h].drawn
        /\ new.word = "installed" => startSection[h].word = "installed" /\ new.contract
        /\ startAt'[h] = "loads" /\ startTray = h => new.policy = startControl[h].choice
  <2>1. CASE Start!CloseBeforeContract(h)
    <3>1. /\ [Start!Fresh EXCEPT !.release = TRUE] \in Sections
          /\ [Start!Fresh EXCEPT !.release = TRUE].release
          /\ ~[Start!Fresh EXCEPT !.release = TRUE].drawn
          /\ [Start!Fresh EXCEPT !.release = TRUE].word = "waiting"
      BY FreshSection DEF Sections
    <3>2. /\ startSection' = [startSection EXCEPT ![h] = [Start!Fresh EXCEPT !.release = TRUE]]
          /\ startAt'[h] = "chooses"
      BY <1>0, <2>1 DEF Start!CloseBeforeContract
    <3> QED BY <3>1, <3>2
  <2>2. CASE Start!ReadColorChoice(h)
    <3> DEFINE colours == IF startTray = h THEN startControl[h].choice ELSE "strict"
               new == [startSection[h] EXCEPT !.contract = TRUE, !.policy = colours]
    <3>1. colours \in Choices \cup {"strict"} BY <1>0
    <3>2. startSection[h].release /\ startSection[h] \in Sections
      BY <1>0, <2>2 DEF Start!ReadColorChoice, StartInv, GateInOrder
    <3>3. startSection' = [startSection EXCEPT ![h] = new]
      BY <1>0, <2>2 DEF Start!ReadColorChoice
    <3>4. startTray = h => colours = startControl[h].choice OBVIOUS
    <3> HIDE DEF colours
    <3>5. /\ new \in Sections /\ new.release = startSection[h].release
          /\ new.drawn = startSection[h].drawn /\ new.word = startSection[h].word
          /\ new.contract = TRUE /\ new.policy = colours
      BY <3>1, <3>2 DEF Sections
    <3> HIDE DEF new
    <3>6. new.release = TRUE BY <3>2, <3>5 DEF Sections
    <3> QED BY <3>3, <3>4, <3>5, <3>6
  <2> QED BY <2>1, <2>2
<1>3. /\ startSection' \in [Helpers -> Sections] /\ startSection'[h] = new
      /\ \A k \in Helpers : k # h => startSection'[k] = startSection[k]
  BY <1>0, <1>2
<1>4. /\ startAt' \in [Helpers -> Places] /\ startAt'[h] = there
      /\ \A k \in Helpers : k # h => startAt'[k] = startAt[k]
  BY <1>0, <1>1 DEF Places, Unloaded
<1>5. startAt[h] \in Unloaded /\ there \notin Chosen /\ there \notin InSession /\ there # "ended"
  BY <1>1 DEF Unloaded, Chosen, InSession
<1>6. StartTypes'
  BY <1>1, <1>3, <1>4 DEF StartInv, StartTypes
<1>7. LoadsAreCounted'
  BY <1>1, <1>4, <1>5, FewerComing DEF StartInv, StartTypes
<1>8. LibraryInOrder'
  BY <1>1, <1>2, <1>3 DEF StartInv, LibraryInOrder
<1>9. GateInOrder'
  BY <1>1, <1>2, <1>3, <1>4, <1>5 DEF StartInv, GateInOrder
<1>10. ChoiceInOrder' /\ SessionInOrder'
  BY <1>1, <1>2, <1>3, <1>4, <1>5 DEF StartInv, ChoiceInOrder, SessionInOrder
<1> QED BY <1>6, <1>7, <1>8, <1>9, <1>10 DEF StartInv

LEMMA StartLoadSound ==
  ASSUME StartAssumption, StartInv, NEW h \in Helpers, Start!Load(h)
  PROVE  StartInv'
<1>1. /\ startAt[h] = "loads" /\ startAt' = [startAt EXCEPT ![h] = "waits"] /\ startTray = h
      /\ startLoads' = startLoads \cup {h}
      /\ UNCHANGED <<startTray, startControl, startName, startSection, startLoaded, startWorker,
                     startMine, startInspected>>
  BY DEF Start!Load, Start!MayLoad, Start!Continue, Start!Goes
<1>2. /\ startAt' \in [Helpers -> Places] /\ startAt'[h] = "waits"
      /\ \A k \in Helpers : k # h => startAt'[k] = startAt[k]
      /\ "waits" \notin Unloaded /\ "loads" \in Unloaded /\ "waits" \notin InSession
  BY <1>1 DEF StartInv, StartTypes, Places, Unloaded, Chosen, InSession
<1>3. StartTypes'
  BY <1>1, <1>2 DEF StartInv, StartTypes
<1>4. LoadsAreCounted'
  <2> DEFINE coming == {k \in Helpers : startAt[k] \in Unloaded}
  <2>1. coming' = coming \ {h} /\ h \in coming /\ coming \subseteq Helpers
    BY <1>1, <1>2
  <2>2. startLoaded + Cardinality(startLoads) + Cardinality(coming) <= Cardinality(Helpers)
    BY DEF StartInv, LoadsAreCounted
  <2> HIDE DEF coming
  <2>3. IsFiniteSet(coming) /\ IsFiniteSet(startLoads)
    BY <2>1, FS_Subset DEF StartAssumption, StartInv, StartTypes
  <2>4. Cardinality(coming') = Cardinality(coming) - 1
    BY <2>1, <2>3, FS_RemoveElement
  <2>5. Cardinality(startLoads') <= Cardinality(startLoads) + 1
        /\ IsFiniteSet(startLoads')
    BY <1>1, <2>3, FS_AddElement, FS_CardinalityType
  <2>6. /\ Cardinality(coming) \in Nat /\ Cardinality(startLoads) \in Nat
        /\ Cardinality(startLoads') \in Nat /\ Cardinality(Helpers) \in Nat /\ startLoaded \in Nat
    BY <2>3, <2>5, FS_CardinalityType DEF StartAssumption, StartInv, StartTypes
  <2>7. startLoaded' + Cardinality(startLoads') + Cardinality(coming') <= Cardinality(Helpers)
    BY <1>1, <2>2, <2>4, <2>5, <2>6
  <2> QED BY <2>7 DEF LoadsAreCounted, coming
<1>5. LibraryInOrder' /\ GateInOrder' /\ SessionInOrder'
  BY <1>1, <1>2 DEF StartInv, LibraryInOrder, GateInOrder, SessionInOrder
<1>6. ChoiceInOrder'
  BY <1>1, <1>2 DEF StartInv, ChoiceInOrder
<1> QED BY <1>3, <1>4, <1>5, <1>6 DEF StartInv

LEMMA LoadEndsSound ==
  ASSUME StartAssumption, StartInv, NEW h \in Helpers, Start!LoadEnds(h)
  PROVE  StartInv'
<1>1. /\ h \in startLoads /\ startLoads' = startLoads \ {h}
      /\ \/ UNCHANGED <<startLoaded, startWorker>>
         \/ /\ startLoaded' = startLoaded + 1
            /\ startWorker' = IF startLoaded = 0 THEN "starts" ELSE startWorker
      /\ UNCHANGED <<startTray, startControl, startAt, startName, startSection, startMine,
                     startInspected>>
  BY DEF Start!LoadEnds
<1>2. startLoaded \in Nat /\ (startLoaded = 0 => startWorker = "none")
  BY DEF StartInv, StartTypes, LibraryInOrder
<1>3. StartTypes'
  BY <1>1, <1>2 DEF StartInv, StartTypes
<1>4. LoadsAreCounted'
  <2> DEFINE coming == {k \in Helpers : startAt[k] \in Unloaded}
  <2>1. coming' = coming /\ coming \subseteq Helpers
    BY <1>1
  <2>2. startLoaded + Cardinality(startLoads) + Cardinality(coming) <= Cardinality(Helpers)
    BY DEF StartInv, LoadsAreCounted
  <2> HIDE DEF coming
  <2>3. IsFiniteSet(coming) /\ IsFiniteSet(startLoads)
    BY <2>1, FS_Subset DEF StartAssumption, StartInv, StartTypes
  <2>4. Cardinality(startLoads') = Cardinality(startLoads) - 1
    BY <1>1, <2>3, FS_RemoveElement
  <2>5. /\ Cardinality(coming) \in Nat /\ Cardinality(startLoads) \in Nat
        /\ Cardinality(Helpers) \in Nat
    BY <2>3, FS_CardinalityType DEF StartAssumption
  <2>6. startLoaded' + Cardinality(startLoads') + Cardinality(coming') <= Cardinality(Helpers)
    BY <1>1, <1>2, <2>1, <2>2, <2>4, <2>5
  <2> QED BY <2>6 DEF LoadsAreCounted, coming
<1>5. LibraryInOrder'
  BY <1>1, <1>2 DEF StartInv, LibraryInOrder
<1>6. GateInOrder' /\ ChoiceInOrder' /\ SessionInOrder'
  BY <1>1, <1>2 DEF StartInv, GateInOrder, ChoiceInOrder, SessionInOrder
<1> QED BY <1>3, <1>4, <1>5, <1>6 DEF StartInv

(* A worker that leaves; its section is as it was, or said to be refused,  *)
(* or gone with a helper that is over.                                     *)
LEMMA UnloadsSound ==
  ASSUME StartAssumption, StartInv, Start!Unloads, startWorker \in {"starts", "installs"},
         \/ UNCHANGED startSection
         \/ /\ startMine \in Helpers
            /\ startSection' =
                 IF startAt[startMine] \in Start!Over
                 THEN [startSection EXCEPT ![startMine] = Start!Fresh]
                 ELSE [startSection EXCEPT ![startMine].word = "refused"]
  PROVE  StartInv'
<1>1. /\ startLoaded' = startLoaded - 1 /\ startWorker' = "none" /\ startMine' = Nothing
      /\ startName' \in Helpers \cup {Nothing}
      /\ UNCHANGED <<startTray, startControl, startAt, startLoads, startInspected>>
  BY DEF Start!Unloads, StartInv, StartTypes
<1>2. startLoaded \in Nat /\ startLoaded > 0 /\ startLoaded' \in Nat
  BY <1>1 DEF StartInv, StartTypes, LibraryInOrder
<1>3. \A h \in Helpers : startSection[h].word # "installed" /\ startAt[h] \notin InSession
  BY DEF StartInv, LibraryInOrder, SessionInOrder
<1>4. /\ startSection' \in [Helpers -> Sections]
      /\ \A h \in Helpers :
           /\ startSection'[h].word # "installed"
           /\ startSection'[h].contract => /\ startSection[h].contract
                                           /\ startSection'[h].release = startSection[h].release
           /\ startSection'[h].drawn => startSection[h].drawn
           /\ startAt[h] \notin Start!Over =>
                /\ startSection'[h].release = startSection[h].release
                /\ startSection'[h].policy = startSection[h].policy
  <2>1. startSection \in [Helpers -> Sections] BY DEF StartInv, StartTypes
  <2>2. CASE UNCHANGED startSection BY <1>3, <2>1, <2>2
  <2>3. CASE /\ startMine \in Helpers /\ startAt[startMine] \in Start!Over
             /\ startSection' = [startSection EXCEPT ![startMine] = Start!Fresh]
    BY <1>3, <2>1, <2>3, FreshSection
  <2>4. CASE /\ startMine \in Helpers
             /\ startSection' = [startSection EXCEPT ![startMine].word = "refused"]
    <3> DEFINE new == [startSection[startMine] EXCEPT !.word = "refused"]
    <3>1. /\ new \in Sections /\ new.contract = startSection[startMine].contract
          /\ new.release = startSection[startMine].release /\ new.word = "refused"
          /\ new.drawn = startSection[startMine].drawn
          /\ new.policy = startSection[startMine].policy
      BY <2>1, <2>4 DEF Sections
    <3>2. startSection' = [startSection EXCEPT ![startMine] = new] BY <2>4
    <3> HIDE DEF new
    <3> QED BY <1>3, <2>1, <2>4, <3>1, <3>2
  <2> QED BY <2>2, <2>3, <2>4
<1>5. \A h \in Helpers : startAt[h] \in Chosen \cup {"chooses", "loads"} =>
        startAt[h] \notin Start!Over
  BY DEF Start!Over, Chosen, InSession
<1>6. StartTypes'
  BY <1>1, <1>2, <1>4 DEF StartInv, StartTypes
<1>7. LoadsAreCounted'
  BY <1>1, <1>2, FewerComing DEF StartInv, StartTypes
<1>8. LibraryInOrder'
  BY <1>1, <1>4 DEF LibraryInOrder
<1>9. GateInOrder'
  BY <1>1, <1>4, <1>5 DEF StartInv, GateInOrder
<1>10. ChoiceInOrder' /\ SessionInOrder'
  BY <1>1, <1>3, <1>4, <1>5 DEF StartInv, ChoiceInOrder, SessionInOrder
<1> QED BY <1>6, <1>7, <1>8, <1>9, <1>10 DEF StartInv

LEMMA WorkerSound ==
  ASSUME StartAssumption, StartInv, Start!WorkerOpens \/ Start!WorkerRefuses
  PROVE  StartInv'
<1>1. CASE Start!WorkerOpens /\ startName = Nothing
  BY <1>1, UnloadsSound DEF Start!WorkerOpens
<1>2. CASE Start!WorkerRefuses
  <2>1. startMine \in Helpers
    BY <1>2 DEF Start!WorkerRefuses, StartInv, StartTypes, LibraryInOrder
  <2> QED BY <1>2, <2>1, UnloadsSound DEF Start!WorkerRefuses
<1>3. CASE Start!WorkerOpens /\ startName # Nothing
  <2>1. /\ startWorker = "starts" /\ startMine' = startName /\ startWorker' = "installs"
        /\ UNCHANGED <<startTray, startControl, startAt, startName, startSection, startLoads,
                       startLoaded, startInspected>>
    BY <1>3 DEF Start!WorkerOpens
  <2>2. \A h \in Helpers : startSection[h].word # "installed" /\ startAt[h] \notin InSession
    BY <2>1 DEF StartInv, LibraryInOrder, SessionInOrder
  <2>3. StartTypes' /\ LibraryInOrder' /\ SessionInOrder'
    BY <1>3, <2>1, <2>2 DEF StartInv, StartTypes, LibraryInOrder, SessionInOrder
  <2>4. LoadsAreCounted' /\ GateInOrder' /\ ChoiceInOrder'
    BY <2>1 DEF StartInv, LoadsAreCounted, GateInOrder, ChoiceInOrder
  <2> QED BY <2>3, <2>4 DEF StartInv
<1> QED BY <1>1, <1>2, <1>3

(* What the library writes into a section whose contract is written.       *)
LEMMA LibraryWrites ==
  ASSUME StartAssumption, StartInv, startMine \in Helpers, NEW new \in Sections,
         startSection' = [startSection EXCEPT ![startMine] = new],
         new.release = startSection[startMine].release,
         new.contract = startSection[startMine].contract,
         new.policy = startSection[startMine].policy,
         new.word = "installed" => startWorker' = "resident" /\ new.contract,
         new.drawn => startSection[startMine].drawn \/ (~new.release /\ new.contract),
         startWorker' \in {startWorker, "resident"},
         UNCHANGED <<startTray, startControl, startAt, startName, startLoads, startLoaded,
                     startMine, startInspected>>
  PROVE  StartInv'
<1>1. startSection' \in [Helpers -> Sections] /\ startSection'[startMine] = new
      /\ \A k \in Helpers : k # startMine => startSection'[k] = startSection[k]
  BY DEF StartInv, StartTypes
<1>2. StartTypes'
  BY <1>1 DEF StartInv, StartTypes
<1>3. LoadsAreCounted'
  BY DEF StartInv, LoadsAreCounted
<1>4. LibraryInOrder'
  BY <1>1 DEF StartInv, LibraryInOrder, StartAssumption
<1>5. GateInOrder'
  BY <1>1 DEF StartInv, GateInOrder
<1>6. ChoiceInOrder' /\ SessionInOrder'
  BY <1>1 DEF StartInv, ChoiceInOrder, SessionInOrder
<1> QED BY <1>2, <1>3, <1>4, <1>5, <1>6 DEF StartInv

LEMMA LibrarySound ==
  ASSUME StartAssumption, StartInv, Start!WorkerInstalls \/ Start!Present
  PROVE  StartInv'
<1>0. startMine \in Helpers /\ startSection \in [Helpers -> Sections]
  BY DEF Start!WorkerInstalls, Start!Present, StartInv, StartTypes, LibraryInOrder
<1>1. CASE Start!WorkerInstalls
  <2>1. PICK word \in {"installed", "stays"} :
          startSection' = [startSection EXCEPT ![startMine].word = word]
    BY <1>1 DEF Start!WorkerInstalls
  <2> DEFINE new == [startSection[startMine] EXCEPT !.word = word]
  <2>2. /\ new \in Sections /\ new.contract = startSection[startMine].contract
        /\ new.release = startSection[startMine].release
        /\ new.drawn = startSection[startMine].drawn
        /\ new.policy = startSection[startMine].policy
    BY <1>0, <2>1 DEF Sections
  <2>3. startSection' = [startSection EXCEPT ![startMine] = new] BY <2>1
  <2>4. /\ startSection[startMine].contract /\ startWorker' = "resident"
        /\ UNCHANGED <<startTray, startControl, startAt, startName, startLoads, startLoaded,
                       startMine, startInspected>>
    BY <1>1 DEF Start!WorkerInstalls
  <2> HIDE DEF new
  <2> QED BY <1>0, <2>2, <2>3, <2>4, LibraryWrites
<1>2. CASE Start!Present
  <2>1. PICK new \in Start!Presented(startSection[startMine]) :
          startSection' = [startSection EXCEPT ![startMine] = new]
    BY <1>2 DEF Start!Present
  <2>2. /\ startSection[startMine].word = "installed"
        /\ UNCHANGED <<startTray, startControl, startAt, startName, startLoads, startLoaded,
                       startWorker, startMine, startInspected>>
    BY <1>2 DEF Start!Present, Start!game
  <2>3. startSection[startMine].contract /\ startWorker = "resident"
    BY <1>0, <2>2 DEF StartInv, LibraryInOrder
  <2>4. /\ new \in Sections /\ new.contract = startSection[startMine].contract
        /\ new.release = startSection[startMine].release
        /\ new.policy = startSection[startMine].policy
        /\ new.drawn => startSection[startMine].drawn \/ ~startSection[startMine].release
    <3>1. startSection[startMine] \in Sections BY <1>0
    <3> QED BY <2>1, <3>1 DEF Start!Presented, Sections
  <2> QED BY <1>0, <2>1, <2>2, <2>3, <2>4, LibraryWrites
<1> QED BY <1>1, <1>2

LEMMA StartStep ==
  ASSUME StartAssumption PROVE StartInv /\ [Start!Next]_(Start!vars) => StartInv'
<1> SUFFICES ASSUME StartInv, [Start!Next]_(Start!vars) PROVE StartInv'
  OBVIOUS
<1>1. CASE UNCHANGED Start!vars
  BY <1>1 DEF Start!vars, StartInv, StartTypes, LoadsAreCounted, LibraryInOrder, GateInOrder,
    ChoiceInOrder, SessionInOrder
<1>2. CASE Start!Next
  BY <1>2, HelperGoesOn, TraySound, ConfirmSound, EndsSound, SessionChecksSound,
     SessionSetsSound, WritesSound, StartLoadSound, LoadEndsSound, WorkerSound, LibrarySound
  DEF Start!Next, Start!Helps
<1> QED BY <1>1, <1>2

LEMMA LoadsCountAlike == ASSUME NEW S PROVE Start!Cardinality(S) = Cardinality(S)
BY DEF Start!Cardinality, Cardinality

LEMMA StartFollows == ASSUME StartAssumption PROVE StartInv => Start!TypeOK /\ Start!StartHolds
<1> SUFFICES ASSUME StartInv PROVE Start!TypeOK /\ Start!StartHolds
  OBVIOUS
<1>1. startLoaded <= Cardinality(Helpers)
  <2> DEFINE coming == {h \in Helpers : startAt[h] \in Unloaded}
  <2>1. startLoaded + Cardinality(startLoads) + Cardinality(coming) <= Cardinality(Helpers)
    BY DEF StartInv, LoadsAreCounted
  <2>2. IsFiniteSet(coming) /\ IsFiniteSet(startLoads)
    BY FS_Subset DEF StartAssumption, StartInv, StartTypes
  <2> HIDE DEF coming
  <2>3. /\ Cardinality(coming) \in Nat /\ Cardinality(startLoads) \in Nat
        /\ Cardinality(Helpers) \in Nat /\ startLoaded \in Nat
    BY <2>2, FS_CardinalityType DEF StartAssumption, StartInv, StartTypes
  <2> QED BY <2>1, <2>3
<1>2. startLoaded \in 0 .. Start!Cardinality(Helpers)
  <2>1. Cardinality(Helpers) \in Nat /\ startLoaded \in Nat
    BY FS_CardinalityType DEF StartAssumption, StartInv, StartTypes
  <2> QED BY <1>1, <2>1, LoadsCountAlike
<1>3. \A h \in Helpers :
        /\ startSection[h].word \in {"waiting", "installed", "refused", "stays"}
        /\ startSection[h].ready \in {"none", "ready", "waits", "refused"}
        /\ {startSection[h].seen, startSection[h].drawn, startSection[h].errors} \subseteq BOOLEAN
  BY DEF StartInv, StartTypes, Sections
<1>4. Start!TypeOK
  BY <1>2, <1>3 DEF StartInv, StartTypes, LibraryInOrder, Start!TypeOK, Blocks
<1>5. Start!DrawnWhenInspected /\ Start!GateClosedAtEnd
  BY DEF StartInv, GateInOrder, Start!DrawnWhenInspected, Start!GateClosedAtEnd
<1>6. Start!ChoiceHonoured /\ Start!SessionIsMine
  BY DEF StartInv, ChoiceInOrder, SessionInOrder, Start!ChoiceHonoured, Start!SessionIsMine,
         Chosen, InSession
<1> QED BY <1>4, <1>5, <1>6 DEF Start!StartHolds

(* The inductive invariant holds in every reachable state.                 *)
THEOREM StartInvariant == ASSUME StartAssumption PROVE Start!Spec => []StartInv
BY StartInitially, StartStep, PTL DEF Start!Spec

(* However often the tray is started anew, and wherever helper, tray or    *)
(* library give up: nothing is drawn before a helper found everything in   *)
(* order, its end closes the gate, the colours are those chosen, and the   *)
(* session is with the section the library has (helper.cpp,                *)
(* target_attach.cpp, startup_readiness.hpp).                              *)
THEOREM StartsInOrder == ASSUME StartAssumption PROVE Start!Spec => []Start!StartHolds
BY StartFollows, StartInvariant, PTL

-----------------------------------------------------------------------------
(* How the library puts itself in place of the methods (StagedInstall).    *)

(* A library has methods to replace and tries more than not at all.        *)
InstallAssumption == Methods \in Nat \ {0} /\ Attempts \in Nat \ {0}

Trying == {"collects", "opens", "asks", "protects"}

(* What is known beyond the types: where the worker is among the methods,  *)
(* and that a question is only asked when another try is left.             *)
InstallTypes ==
  /\ Install!TypeOK
  /\ instOutcome \in {"none", "installed", "refused", "recovery"}
  /\ instAt = "asks" => instAttempt < Attempts
  /\ instAt \notin {"publishes", "done"} => instSite \in 1 .. Methods

(* Threads sleep only while a recovery is under way.                       *)
AwakeElsewhere ==
  /\ instAt # "recovers" => Install!Asleep = {}
  /\ Install!MovedSleep

(* Before the worker comes to a method exactly those in front of it are in *)
(* place and no page is left writable; while it is at one, only its own.   *)
MethodsInOrder ==
  /\ instAt \in {"starts", "prepares"} => instPublished = {} /\ instWritable = {}
  /\ instAt \in Trying \cup {"commits"} => instPublished = 1 .. instSite - 1
  /\ instAt \in Trying => instWritable = {}
  /\ instAt \in {"commits", "recovers", "closes"} => instWritable = {instSite}
  /\ instAt = "recovers" => instOutcome = "recovery"
  /\ instAt = "closes" => instOutcome # "none"
  /\ instAt = "closes" /\ instOutcome = "installed" => instPublished = 1 .. instSite
  /\ instAt = "closes" /\ instOutcome = "refused" => instPublished = 1 .. instSite - 1

(* Only the end of the last method says that the overlay is installed, and *)
(* a library is refused only when it has left nothing.                     *)
SaidAtTheEnd ==
  /\ instAt \notin {"publishes", "done"} => instState = "waiting"
  /\ instState = "refused" => instPublished = {} /\ instWritable = {}
  /\ instActive \in BOOLEAN
  /\ instActive <=> instState = "installed"
  /\ instActive => instPublished = 1 .. Methods

InstallInv == InstallTypes /\ AwakeElsewhere /\ MethodsInOrder /\ SaidAtTheEnd

LEMMA InstallInitially == ASSUME InstallAssumption, Install!Init PROVE InstallInv
<1>1. Install!NoSlot = [open |-> FALSE, asleep |-> FALSE, moved |-> FALSE]
  BY DEF Install!NoSlot
<1>2. Install!Asleep = {} /\ Install!Moved = {}
  BY <1>1 DEF Install!Init, Install!Asleep, Install!Moved
<1>3. InstallTypes
  BY <1>1 DEF InstallAssumption, Install!Init, InstallTypes, Install!TypeOK
<1>4. AwakeElsewhere
  BY <1>2 DEF AwakeElsewhere, Install!MovedSleep
<1>5. MethodsInOrder /\ SaidAtTheEnd
  BY DEF Install!Init, MethodsInOrder, SaidAtTheEnd, Trying
<1> QED BY <1>3, <1>4, <1>5 DEF InstallInv

(* What AttachStaged makes of a method that ended in order.                *)
LEMMA Concluded ==
  ASSUME InstallAssumption, InstallInv, instAt \in Trying \cup {"closes"},
         NEW ending \in {"installed", "refused", "recovery"}, Install!Concludes(ending),
         ending = "installed" => instPublished' = 1 .. instSite /\ instWritable' = {},
         ending = "refused" => instPublished' = 1 .. instSite - 1 /\ instWritable' = {},
         instPublished' \cup instWritable' \subseteq 1 .. Methods,
         \/ UNCHANGED instSlots
         \/ Install!CloseAll,
         instAttempt' \in 1 .. Attempts,
         UNCHANGED <<instAlive, instSnapshot>>
  PROVE  InstallInv'
<1>0. instSite \in 1 .. Methods /\ instState = "waiting" /\ instActive = FALSE /\ Methods \in Nat
  BY DEF InstallInv, InstallTypes, SaidAtTheEnd, Trying, InstallAssumption
<1>1. /\ instSlots' \in [Threads -> [open : BOOLEAN, asleep : BOOLEAN, moved : BOOLEAN]]
      /\ \A t \in Threads : /\ instSlots'[t].asleep = instSlots[t].asleep
                            /\ instSlots'[t].moved = instSlots[t].moved
  <2>1. instSlots \in [Threads -> [open : BOOLEAN, asleep : BOOLEAN, moved : BOOLEAN]]
    BY DEF InstallInv, InstallTypes, Install!TypeOK
  <2>2. CASE UNCHANGED instSlots BY <2>1, <2>2
  <2>3. CASE Install!CloseAll BY <2>1, <2>3 DEF Install!CloseAll
  <2> QED BY <2>2, <2>3
<1>2. Install!Asleep' = {} /\ Install!Moved' = {}
  BY <1>1 DEF InstallInv, AwakeElsewhere, Install!MovedSleep, Install!Asleep, Install!Moved, Trying
<1>3. AwakeElsewhere'
  BY <1>2 DEF AwakeElsewhere, Install!MovedSleep
<1>4. CASE ending = "installed" /\ instSite < Methods
  <2>0. instSite # Methods /\ instSite + 1 \in 1 .. Methods /\ (instSite + 1) - 1 = instSite
    BY <1>0, <1>4
  <2>1. /\ instAt' = "collects" /\ instSite' = instSite + 1 /\ instOutcome' = "none"
        /\ UNCHANGED <<instActive, instState>>
    BY <1>4, <2>0 DEF Install!Concludes, Install!report
  <2>2. instPublished' = 1 .. instSite' - 1 /\ instWritable' = {} /\ instSite' \in 1 .. Methods
    BY <1>4, <2>0, <2>1
  <2>3. InstallTypes'
    BY <1>0, <1>1, <2>1, <2>2 DEF InstallInv, InstallTypes, Install!TypeOK
  <2>4. MethodsInOrder'
    BY <2>1, <2>2 DEF MethodsInOrder, Trying
  <2>5. SaidAtTheEnd'
    BY <1>0, <2>1 DEF SaidAtTheEnd
  <2> QED BY <1>3, <2>3, <2>4, <2>5 DEF InstallInv
<1>5. CASE ~(ending = "installed" /\ instSite < Methods)
  <2>1. /\ instAt' = "publishes" /\ instSite' = instSite /\ instOutcome' = "none"
        /\ \/ /\ ending = "installed" /\ instSite = Methods
              /\ instActive' = TRUE /\ instState' = "installed"
           \/ /\ ending = "refused" /\ instActive' = FALSE
              /\ instState' = IF instSite = 1 THEN "refused" ELSE "partial"
           \/ /\ ending = "recovery" /\ instActive' = FALSE /\ instState' = "recovery"
    <3>1. CASE ending = "installed"
      <4>1. instSite = Methods /\ ~(instSite < Methods) BY <1>0, <1>5, <3>1
      <4> QED BY <3>1, <4>1 DEF Install!Concludes, Install!Publishes
    <3>2. CASE ending = "refused"
      BY <1>0, <3>2 DEF Install!Concludes, Install!Publishes
    <3>3. CASE ending = "recovery"
      BY <1>0, <3>3 DEF Install!Concludes, Install!Publishes
    <3> QED BY <3>1, <3>2, <3>3
  <2>2. InstallTypes'
    BY <1>0, <1>1, <2>1 DEF InstallInv, InstallTypes, Install!TypeOK
  <2>3. MethodsInOrder'
    BY <2>1 DEF MethodsInOrder, Trying
  <2>4. SaidAtTheEnd'
    <3>1. 1 .. 1 - 1 = {} OBVIOUS
    <3> QED BY <1>0, <2>1, <3>1 DEF SaidAtTheEnd
  <2> QED BY <1>3, <2>2, <2>3, <2>4 DEF InstallInv
<1> QED BY <1>4, <1>5

(* The game's threads come and go beside the worker.                       *)
LEMMA GameThreadsSound ==
  ASSUME InstallInv, NEW t \in Threads, Install!Begins(t) \/ Install!Exits(t)
  PROVE  InstallInv'
<1>1. /\ instAlive' \subseteq Threads
      /\ UNCHANGED <<instAt, instSite, instAttempt, instSnapshot, instSlots, instPublished,
                     instWritable, instOutcome, instActive, instState>>
  BY DEF Install!Begins, Install!Exits, Install!progress, Install!memory, Install!report,
         InstallInv, InstallTypes, Install!TypeOK
<1>2. InstallTypes'
  BY <1>1 DEF InstallInv, InstallTypes, Install!TypeOK
<1>3. AwakeElsewhere' /\ MethodsInOrder' /\ SaidAtTheEnd'
  BY <1>1 DEF InstallInv, AwakeElsewhere, MethodsInOrder, SaidAtTheEnd, Install!MovedSleep,
              Install!Asleep, Install!Moved, Trying
<1> QED BY <1>2, <1>3 DEF InstallInv

LEMMA NextMethod ==
  ASSUME InstallAssumption, NEW n \in 1 .. Methods
  PROVE  (n % Methods) + 1 \in 1 .. Methods /\ (n = Methods => (n % Methods) + 1 = 1)
BY DEF InstallAssumption

LEMMA PreparesSound ==
  ASSUME InstallAssumption, InstallInv, Install!Start \/ Install!Prepare
  PROVE  InstallInv'
<1> USE DEF Install!memory, Install!report, Install!Publishes
<1>0. instSite \in 1 .. Methods /\ instPublished = {} /\ instWritable = {} /\ instState = "waiting"
      /\ instActive = FALSE
  BY DEF Install!Start, Install!Prepare, InstallInv, InstallTypes, MethodsInOrder, SaidAtTheEnd
<1>1. /\ instSite' \in 1 .. Methods
      /\ instAt' \in {"prepares", "collects", "publishes"}
      /\ instAt' = "collects" => instSite' = 1
      /\ instState' = IF instAt' = "publishes" THEN "refused" ELSE "waiting"
      /\ UNCHANGED <<instAlive, instSnapshot, instAttempt, instSlots, instPublished,
                     instWritable, instOutcome, instActive>>
  BY <1>0, NextMethod DEF Install!Start, Install!Prepare
<1>2. InstallTypes'
  <2>1. instSite' \in 1 .. Methods + 1
    BY <1>1 DEF InstallAssumption
  <2> QED BY <1>0, <1>1, <2>1 DEF InstallInv, InstallTypes, Install!TypeOK
<1>3. AwakeElsewhere'
  BY <1>1 DEF InstallInv, AwakeElsewhere, Install!MovedSleep, Install!Asleep, Install!Moved,
              Install!Start, Install!Prepare
<1>4. 1 .. 1 - 1 = {}
  OBVIOUS
<1>5. MethodsInOrder'
  BY <1>0, <1>1, <1>4 DEF MethodsInOrder, Trying
<1>6. SaidAtTheEnd'
  BY <1>0, <1>1 DEF SaidAtTheEnd
<1> QED BY <1>2, <1>3, <1>5, <1>6 DEF InstallInv

LEMMA CollectSound == ASSUME InstallInv, Install!Collect PROVE InstallInv'
<1>1. /\ instAt = "collects" /\ instAt' = "opens" /\ instSnapshot' = instAlive
      /\ UNCHANGED <<instSite, instAttempt, instAlive, instSlots, instPublished,
                     instWritable, instOutcome, instActive, instState>>
  BY DEF Install!Collect, Install!memory, Install!report
<1>2. InstallTypes'
  BY <1>1 DEF InstallInv, InstallTypes, Install!TypeOK
<1>3. AwakeElsewhere' /\ MethodsInOrder' /\ SaidAtTheEnd'
  BY <1>1 DEF InstallInv, AwakeElsewhere, MethodsInOrder, SaidAtTheEnd, Install!MovedSleep,
              Install!Asleep, Install!Moved, Trying
<1> QED BY <1>2, <1>3 DEF InstallInv

(* No method of those in front is undone when one is refused.              *)
LEMMA RefusedHere ==
  ASSUME InstallAssumption, InstallInv, instAt \in Trying, Install!Concludes("refused"),
         instSlots' = instSlots \/ Install!CloseAll, instAttempt' \in 1 .. Attempts,
         UNCHANGED <<instAlive, instSnapshot, instPublished, instWritable>>
  PROVE  InstallInv'
<1>1. /\ instPublished' = 1 .. instSite - 1 /\ instWritable' = {}
      /\ instPublished' \cup instWritable' \subseteq 1 .. Methods
  BY DEF InstallInv, MethodsInOrder, InstallTypes, Install!TypeOK, Trying
<1> QED BY <1>1, Concluded

LEMMA OpenSound == ASSUME InstallAssumption, InstallInv, Install!Open PROVE InstallInv'
<1>0. instAt = "opens" /\ instAttempt \in 1 .. Attempts
      /\ UNCHANGED <<instAlive, instSnapshot, instPublished, instWritable>>
  BY DEF Install!Open, Install!memory, InstallInv, InstallTypes, Install!TypeOK
<1>1. CASE Install!Concludes("refused") /\ UNCHANGED <<instAttempt, instSlots>>
  BY <1>0, <1>1, RefusedHere DEF Trying
<1>2. CASE /\ instAt' \in {"protects", "asks"}
           /\ instAt' = "asks" => instAttempt < Attempts /\ UNCHANGED instSlots
           /\ instAt' = "protects" =>
                instSlots' = [t \in Threads |-> IF t \in instSnapshot THEN Install!Enlisted
                                                ELSE Install!NoSlot]
           /\ UNCHANGED <<instSite, instAttempt, instOutcome, instActive, instState>>
  <2>1. /\ instSlots' \in [Threads -> [open : BOOLEAN, asleep : BOOLEAN, moved : BOOLEAN]]
        /\ Install!Asleep' = {} /\ Install!Moved' = {}
    <3>1. CASE UNCHANGED instSlots
      BY <1>0, <3>1 DEF InstallInv, InstallTypes, Install!TypeOK, AwakeElsewhere,
          Install!MovedSleep, Install!Asleep, Install!Moved
    <3>2. CASE instAt' = "protects"
      <4>1. \A s \in {Install!NoSlot, Install!Enlisted} :
              /\ s \in [open : BOOLEAN, asleep : BOOLEAN, moved : BOOLEAN]
              /\ ~s.asleep /\ ~s.moved
        <5>1. /\ Install!NoSlot \in [open : BOOLEAN, asleep : BOOLEAN, moved : BOOLEAN]
              /\ ~Install!NoSlot.asleep /\ ~Install!NoSlot.moved
          BY DEF Install!NoSlot
        <5>2. \A s \in [open : BOOLEAN, asleep : BOOLEAN, moved : BOOLEAN] :
                /\ [s EXCEPT !.open = TRUE] \in [open : BOOLEAN, asleep : BOOLEAN, moved : BOOLEAN]
                /\ [s EXCEPT !.open = TRUE].asleep = s.asleep
                /\ [s EXCEPT !.open = TRUE].moved = s.moved
          OBVIOUS
        <5> QED BY <5>1, <5>2 DEF Install!Enlisted
      <4>2. \A t \in Threads : instSlots'[t] \in {Install!NoSlot, Install!Enlisted}
        BY <1>2, <3>2
      <4>3. instSlots' \in [Threads -> [open : BOOLEAN, asleep : BOOLEAN, moved : BOOLEAN]]
        BY <1>2, <3>2, <4>1
      <4> QED BY <4>1, <4>2, <4>3 DEF Install!Asleep, Install!Moved
    <3> QED BY <1>2, <3>1, <3>2
  <2>2. InstallTypes'
    BY <1>0, <1>2, <2>1 DEF InstallInv, InstallTypes, Install!TypeOK
  <2>3. AwakeElsewhere'
    BY <2>1 DEF AwakeElsewhere, Install!MovedSleep
  <2>4. MethodsInOrder' /\ SaidAtTheEnd'
    BY <1>0, <1>2 DEF InstallInv, MethodsInOrder, SaidAtTheEnd, Trying
  <2> QED BY <2>2, <2>3, <2>4 DEF InstallInv
<1> QED BY <1>1, <1>2 DEF Install!Open, Install!report

LEMMA AskSound == ASSUME InstallAssumption, InstallInv, Install!Ask PROVE InstallInv'
<1>0. instAt = "asks" /\ instAttempt \in 1 .. Attempts /\ instAttempt < Attempts
      /\ UNCHANGED <<instAlive, instSnapshot, instSlots, instPublished, instWritable>>
  BY DEF Install!Ask, Install!memory, InstallInv, InstallTypes, Install!TypeOK
<1>1. CASE Install!Concludes("refused") /\ UNCHANGED instAttempt
  BY <1>0, <1>1, RefusedHere DEF Trying
<1>2. CASE /\ instAt' = "collects" /\ instAttempt' = instAttempt + 1
           /\ UNCHANGED <<instSite, instOutcome, instActive, instState>>
  <2>1. instAttempt' \in 1 .. Attempts
    BY <1>0, <1>2 DEF InstallAssumption
  <2>2. InstallTypes'
    BY <1>0, <1>2, <2>1 DEF InstallInv, InstallTypes, Install!TypeOK
  <2>3. AwakeElsewhere' /\ MethodsInOrder' /\ SaidAtTheEnd'
    BY <1>0, <1>2 DEF InstallInv, AwakeElsewhere, MethodsInOrder, SaidAtTheEnd, Install!MovedSleep,
                Install!Asleep, Install!Moved, Trying
  <2> QED BY <2>2, <2>3 DEF InstallInv
<1> QED BY <1>1, <1>2 DEF Install!Ask, Install!report

LEMMA ProtectSound == ASSUME InstallAssumption, InstallInv, Install!Protect PROVE InstallInv'
<1>0. instAt = "protects" /\ instAttempt' = 1 /\ instAttempt' \in 1 .. Attempts
      /\ UNCHANGED <<instAlive, instSnapshot, instPublished>>
  BY DEF Install!Protect, InstallAssumption
<1>1. CASE Install!CloseAll /\ Install!Concludes("refused") /\ UNCHANGED instWritable
  BY <1>0, <1>1, RefusedHere DEF Trying
<1>2. CASE /\ instWritable' = instWritable \cup {instSite} /\ instAt' = "commits"
           /\ UNCHANGED <<instSite, instSlots, instOutcome, instActive, instState>>
  <2>1. instWritable' = {instSite} /\ instSite \in 1 .. Methods
    BY <1>0, <1>2 DEF InstallInv, MethodsInOrder, InstallTypes, Trying
  <2>2. InstallTypes'
    BY <1>0, <1>2, <2>1 DEF InstallInv, InstallTypes, Install!TypeOK
  <2>3. AwakeElsewhere' /\ MethodsInOrder' /\ SaidAtTheEnd'
    BY <1>0, <1>2, <2>1 DEF InstallInv, AwakeElsewhere, MethodsInOrder, SaidAtTheEnd,
                Install!MovedSleep, Install!Asleep, Install!Moved, Trying
  <2> QED BY <2>2, <2>3 DEF InstallInv
<1> QED BY <1>1, <1>2 DEF Install!Protect, Install!report

LEMMA InstallCommitSound == ASSUME InstallInv, Install!Commit PROVE InstallInv'
<1>0. /\ instAt = "commits" /\ instSite \in 1 .. Methods /\ instWritable = {instSite}
      /\ instPublished = 1 .. instSite - 1 /\ instState = "waiting" /\ instActive = FALSE
      /\ UNCHANGED <<instSite, instAttempt, instAlive, instSnapshot, instWritable, instActive,
                     instState>>
  BY DEF Install!Commit, Install!report, InstallInv, InstallTypes, MethodsInOrder, SaidAtTheEnd
<1>1. instPublished \cup {instSite} = 1 .. instSite
  BY <1>0 DEF InstallInv, InstallTypes, Install!TypeOK
<1>2. CASE /\ instAt' = "closes" /\ UNCHANGED instSlots
           /\ \/ instOutcome' = "installed" /\ instPublished' = instPublished \cup {instSite}
              \/ instOutcome' = "refused" /\ UNCHANGED instPublished
  <2>1. InstallTypes'
    BY <1>0, <1>2 DEF InstallInv, InstallTypes, Install!TypeOK
  <2>2. AwakeElsewhere' /\ MethodsInOrder' /\ SaidAtTheEnd'
    BY <1>0, <1>1, <1>2 DEF InstallInv, AwakeElsewhere, MethodsInOrder, SaidAtTheEnd,
                Install!MovedSleep, Install!Asleep, Install!Moved, Trying
  <2> QED BY <2>1, <2>2 DEF InstallInv
<1>3. ASSUME NEW asleep, NEW moved, moved \subseteq asleep, Install!Suspends(asleep, moved),
             instAt' = "recovers", instOutcome' = "recovery",
             instPublished' \in {instPublished, instPublished \cup {instSite}}
      PROVE  InstallInv'
  <2>1. instSlots' \in [Threads -> [open : BOOLEAN, asleep : BOOLEAN, moved : BOOLEAN]]
        /\ \A t \in Threads : (instSlots'[t].asleep <=> t \in asleep)
                                /\ (instSlots'[t].moved <=> t \in moved)
    <3>1. instSlots \in [Threads -> [open : BOOLEAN, asleep : BOOLEAN, moved : BOOLEAN]]
      BY DEF InstallInv, InstallTypes, Install!TypeOK
    <3>2. \A t \in Threads :
            instSlots'[t] = [open |-> instSlots[t].open, asleep |-> t \in asleep,
                             moved |-> t \in moved]
      BY <1>3, <3>1 DEF Install!Suspends
    <3>3. instSlots' = [t \in Threads |-> instSlots'[t]]
      BY <1>3 DEF Install!Suspends
    <3>4. \A t \in Threads :
            instSlots'[t] \in [open : BOOLEAN, asleep : BOOLEAN, moved : BOOLEAN]
      <4> TAKE t \in Threads
      <4> DEFINE sleeps == t \in asleep
                 stands == t \in moved
      <4>1. sleeps \in BOOLEAN /\ stands \in BOOLEAN /\ instSlots[t].open \in BOOLEAN
        BY <3>1
      <4>2. instSlots'[t] = [open |-> instSlots[t].open, asleep |-> sleeps, moved |-> stands]
        BY <3>2
      <4> HIDE DEF sleeps, stands
      <4> QED BY <4>1, <4>2
    <3> QED BY <3>2, <3>3, <3>4
  <2>2. AwakeElsewhere'
    BY <1>3, <2>1 DEF AwakeElsewhere, Install!MovedSleep, Install!Asleep, Install!Moved
  <2>3. InstallTypes'
    BY <1>0, <1>3, <2>1 DEF InstallInv, InstallTypes, Install!TypeOK
  <2>4. MethodsInOrder' /\ SaidAtTheEnd'
    BY <1>0, <1>3 DEF InstallInv, MethodsInOrder, SaidAtTheEnd, Trying
  <2> QED BY <2>2, <2>3, <2>4 DEF InstallInv
<1> QED BY <1>2, <1>3 DEF Install!Commit

(* A recovery goes on until whoever sleeps has been woken.                 *)
LEMMA RecoverSound == ASSUME InstallInv, Install!Recover PROVE InstallInv'
<1>0. /\ instAt = "recovers"
      /\ UNCHANGED <<instSite, instAttempt, instAlive, instSnapshot, instPublished, instWritable,
                     instOutcome, instActive, instState>>
  BY DEF Install!Recover, Install!memory, Install!report
<1>1. PICK restored \in SUBSET Install!Moved, woken \in SUBSET Install!Asleep :
        /\ woken # {} => restored = Install!Moved
        /\ instSlots' = [t \in Threads |->
                           [instSlots[t] EXCEPT !.moved = @ /\ t \notin restored,
                                                !.asleep = @ /\ t \notin woken]]
        /\ instAt' \in {"recovers", "closes"}
        /\ instAt' = "closes" => woken = Install!Asleep
  BY DEF Install!Recover, Install!MayWake
<1>2. instSlots' \in [Threads -> [open : BOOLEAN, asleep : BOOLEAN, moved : BOOLEAN]]
        /\ \A t \in Threads :
             /\ instSlots'[t].asleep <=> instSlots[t].asleep /\ t \notin woken
             /\ instSlots'[t].moved <=> instSlots[t].moved /\ t \notin restored
  <2>1. instSlots \in [Threads -> [open : BOOLEAN, asleep : BOOLEAN, moved : BOOLEAN]]
    BY DEF InstallInv, InstallTypes, Install!TypeOK
  <2> QED BY <1>1, <2>1
<1>3. AwakeElsewhere'
  <2>1. Install!Moved \subseteq Install!Asleep
    BY DEF InstallInv, AwakeElsewhere, Install!MovedSleep
  <2>2. Install!Asleep' = Install!Asleep \ woken /\ Install!Moved' = Install!Moved \ restored
    BY <1>2 DEF Install!Asleep, Install!Moved
  <2> QED BY <1>1, <2>1, <2>2 DEF AwakeElsewhere, Install!MovedSleep
<1>4. InstallTypes'
  BY <1>0, <1>1, <1>2 DEF InstallInv, InstallTypes, Install!TypeOK
<1>5. MethodsInOrder' /\ SaidAtTheEnd'
  BY <1>0, <1>1 DEF InstallInv, MethodsInOrder, SaidAtTheEnd, Trying
<1> QED BY <1>3, <1>4, <1>5 DEF InstallInv

LEMMA InstallCloseSound == ASSUME InstallAssumption, InstallInv, Install!Close PROVE InstallInv'
<1>1. PICK protection \in BOOLEAN, shut \in BOOLEAN :
        /\ instWritable' = IF protection THEN instWritable \ {instSite} ELSE instWritable
        /\ Install!Concludes(IF protection /\ shut THEN instOutcome ELSE "recovery")
  BY DEF Install!Close
<1>2. /\ instAt = "closes" /\ Install!CloseAll
      /\ UNCHANGED <<instAttempt, instAlive, instSnapshot, instPublished>>
  BY DEF Install!Close
<1>3. /\ instOutcome \in {"installed", "refused", "recovery"} /\ instWritable = {instSite}
      /\ instOutcome = "installed" => instPublished = 1 .. instSite
      /\ instOutcome = "refused" => instPublished = 1 .. instSite - 1
      /\ instPublished \cup instWritable \subseteq 1 .. Methods
      /\ instAttempt \in 1 .. Attempts
  BY <1>2 DEF InstallInv, MethodsInOrder, InstallTypes, Install!TypeOK
<1> DEFINE ending == IF protection /\ shut THEN instOutcome ELSE "recovery"
<1>4. /\ ending \in {"installed", "refused", "recovery"}
      /\ ending = "installed" => instPublished' = 1 .. instSite /\ instWritable' = {}
      /\ ending = "refused" => instPublished' = 1 .. instSite - 1 /\ instWritable' = {}
      /\ instPublished' \cup instWritable' \subseteq 1 .. Methods
  BY <1>1, <1>2, <1>3
<1>5. Install!Concludes(ending) BY <1>1
<1> HIDE DEF ending
<1> QED BY <1>2, <1>3, <1>4, <1>5, Concluded

LEMMA PublishSound == ASSUME InstallInv, Install!Publish PROVE InstallInv'
<1>1. /\ instAt = "publishes" /\ instAt' = "done"
      /\ UNCHANGED <<instSite, instAttempt, instAlive, instSnapshot, instSlots, instPublished,
                     instWritable, instOutcome, instActive, instState>>
  BY DEF Install!Publish, Install!memory, Install!report
<1>2. InstallTypes'
  BY <1>1 DEF InstallInv, InstallTypes, Install!TypeOK
<1>3. AwakeElsewhere' /\ MethodsInOrder' /\ SaidAtTheEnd'
  BY <1>1 DEF InstallInv, AwakeElsewhere, MethodsInOrder, SaidAtTheEnd, Install!MovedSleep,
              Install!Asleep, Install!Moved, Trying
<1> QED BY <1>2, <1>3 DEF InstallInv

LEMMA InstallStep ==
  ASSUME InstallAssumption PROVE InstallInv /\ [Install!Next]_(Install!vars) => InstallInv'
<1> SUFFICES ASSUME InstallInv, [Install!Next]_(Install!vars) PROVE InstallInv'
  OBVIOUS
<1>1. CASE UNCHANGED Install!vars
  BY <1>1 DEF Install!vars, InstallInv, InstallTypes, Install!TypeOK, AwakeElsewhere,
    MethodsInOrder, SaidAtTheEnd, Install!MovedSleep, Install!Asleep, Install!Moved
<1>2. CASE Install!Next
  BY <1>2, GameThreadsSound, PreparesSound, CollectSound, OpenSound, AskSound, ProtectSound,
     InstallCommitSound, RecoverSound, InstallCloseSound, PublishSound
  DEF Install!Next, Install!Worker
<1> QED BY <1>1, <1>2

LEMMA InstallFollows == InstallInv => Install!TypeOK /\ Install!InstallHolds
BY DEF InstallInv, InstallTypes, AwakeElsewhere, SaidAtTheEnd, Install!InstallHolds,
       Install!NothingLeftBehind, Install!WholeOrIdle

(* The inductive invariant holds in every reachable state.                 *)
THEOREM InstallInvariant == ASSUME InstallAssumption PROVE Install!Spec => []InstallInv
BY InstallInitially, InstallStep, PTL DEF Install!Spec

(* For any number of threads, methods and tries, and wherever a page, a    *)
(* handle or a thread refuses: no thread of the game is left suspended or  *)
(* moved, a library that is unloaded leaves no method replaced, and the    *)
(* overlay does nothing before all methods are (target_attach.cpp,         *)
(* staged_attach.hpp, install_policy.hpp).                                 *)
THEOREM NothingIsLeftBehind ==
  ASSUME InstallAssumption PROVE Install!Spec => []Install!InstallHolds
<1>1. InstallInv => Install!InstallHolds
  BY InstallFollows
<1> QED BY <1>1, InstallInvariant, PTL

-----------------------------------------------------------------------------
(* The parts together; a behaviour is one of the part chosen at its start. *)

resources == vars
output == <<outAt, outOn, outOpen, outDisplays, outMade, outStale, outMonitor,
            outAnswer, outShown, outChanges>>
selection == <<selAt, selChain, selContext, selOffered, selRefusing, selBackend,
               selBinding, selDrawer, selFailed, selReady, selRelease, selDrawn>>
handoff == <<handChains, handCreated, handChanges, handAt, handCall, handBusy,
             handOwner, handGeneration, handAmbiguous, handPending, handSamples,
             handKept, handRelease, handOverlay, handRenderer, handRemoved, handRun>>
sessions == <<alive, front, sessionEnabled, choosing, sessionSlots, refused, timer, suppressed,
              attached, again, forgotten>>
start == <<startTray, startControl, startAt, startName, startSection, startLoads,
           startLoaded, startWorker, startMine, startInspected>>
install == <<instAt, instSite, instAlive, instSnapshot, instAttempt, instSlots,
             instStage, instUncertain, instPublished, instWritable, instOutcome,
             instActive, instState>>

inGame  == <<resources, output, selection, handoff>>
attach  == <<sessions, start, install>>
overlay == <<part, inGame, attach>>

(* A part that was not chosen has no state; the resources, whose state is  *)
(* that of the module extended, stay as they are at the start.             *)
OverlayInit ==
  /\ Init
  /\ IF part = "output" THEN Output!Init
     ELSE /\ outAt = Absent /\ outOn = Absent /\ outOpen = Absent /\ outDisplays = Absent
          /\ outMade = Absent /\ outStale = Absent /\ outMonitor = Absent /\ outAnswer = Absent
          /\ outShown = Absent /\ outChanges = Absent
  /\ IF part = "selection" THEN Selection!Init
     ELSE /\ selAt = Absent /\ selChain = Absent /\ selContext = Absent /\ selOffered = Absent
          /\ selRefusing = Absent /\ selBackend = Absent /\ selBinding = Absent
          /\ selDrawer = Absent /\ selFailed = Absent /\ selReady = Absent /\ selRelease = Absent
          /\ selDrawn = Absent
  /\ IF part = "handoff" THEN Handoff!Init
     ELSE /\ handChains = Absent /\ handCreated = Absent /\ handChanges = Absent /\ handAt = Absent
          /\ handCall = Absent /\ handBusy = Absent /\ handOwner = Absent
          /\ handGeneration = Absent /\ handAmbiguous = Absent /\ handPending = Absent
          /\ handSamples = Absent /\ handKept = Absent /\ handRelease = Absent
          /\ handOverlay = Absent /\ handRenderer = Absent /\ handRemoved = Absent
          /\ handRun = Absent
  /\ IF part = "sessions" THEN Sessions!Init
     ELSE /\ alive = Absent /\ front = Absent /\ sessionEnabled = Absent /\ choosing = Absent
          /\ sessionSlots = Absent /\ refused = Absent /\ timer = Absent /\ suppressed = Absent
          /\ attached = Absent /\ again = Absent /\ forgotten = Absent
  /\ IF part = "start" THEN Start!Init
     ELSE /\ startTray = Absent /\ startControl = Absent /\ startAt = Absent /\ startName = Absent
          /\ startSection = Absent /\ startLoads = Absent /\ startLoaded = Absent
          /\ startWorker = Absent /\ startMine = Absent /\ startInspected = Absent
  /\ IF part = "install" THEN Install!Init
     ELSE /\ instAt = Absent /\ instSite = Absent /\ instAlive = Absent /\ instSnapshot = Absent
          /\ instAttempt = Absent /\ instSlots = Absent /\ instStage = Absent
          /\ instUncertain = Absent /\ instPublished = Absent /\ instWritable = Absent
          /\ instOutcome = Absent /\ instActive = Absent /\ instState = Absent

InFrames == part = "frames" /\ UNCHANGED <<part, output, selection, handoff, attach>>
InOutput == part = "output" /\ UNCHANGED <<part, resources, selection, handoff, attach>>
InSelection == part = "selection" /\ UNCHANGED <<part, resources, output, handoff, attach>>
InHandoff == part = "handoff" /\ UNCHANGED <<part, resources, output, selection, attach>>
InSessions == part = "sessions" /\ UNCHANGED <<part, inGame, start, install>>
InStart == part = "start" /\ UNCHANGED <<part, inGame, sessions, install>>
InInstall == part = "install" /\ UNCHANGED <<part, inGame, sessions, start>>

OverlayNext ==
  \/ InFrames /\ Next
  \/ InOutput /\ Output!Next
  \/ InSelection /\ Selection!Next
  \/ InHandoff /\ Handoff!Next
  \/ InSessions /\ Sessions!Next
  \/ InStart /\ Start!Next
  \/ InInstall /\ Install!Next

OverlaySpec == OverlayInit /\ [][OverlayNext]_overlay

(* The assumptions made for each part.                                     *)
ASSUME OverlayAssumption ==
  /\ SelectionAssumption /\ HandoffAssumption /\ StartAssumption /\ InstallAssumption
  /\ MaxSlots \in Nat /\ Capacity \in Nat \ {0}

(* ChainHandoff, ChainSelection, FreshOutput: one backend, one queue and   *)
(* one chain at a time are drawn on, a new chain takes over only after a   *)
(* probation without mistakes, and an output qualified as SDR was.  What   *)
(* is drawn with is well typed (OverlayFrames).                            *)
OneChainDrawn ==
  /\ TypeOK
  /\ part = "handoff" => Handoff!TypeOK /\ Handoff!HandoverQualified
  /\ part = "selection" => Selection!SelectionHolds
  /\ part = "output" => Output!QualifiedWasSdr

(* OverlaySessions, OverlayStart, StagedInstall: a process is attached to  *)
(* once, its overlay draws only for a tray that found everything in order  *)
(* and with the colours chosen, and no thread of the game is left asleep.  *)
AttachedOnce ==
  /\ part = "sessions" => Sessions!TypeOK /\ Sessions!AttachedOnce
  /\ part = "start" => Start!TypeOK /\ Start!StartHolds
  /\ part = "install" => Install!TypeOK /\ Install!InstallHolds

(* A step is one of the part chosen, or none of any part.                  *)
LEMMA OfOneOverlayPart ==
  ASSUME [OverlayNext]_overlay
  PROVE  /\ part' = part /\ [Next]_vars
         /\ part = "output" => [Output!Next]_(Output!vars)
         /\ part = "selection" => [Selection!Next]_(Selection!vars)
         /\ part = "handoff" => [Handoff!Next]_(Handoff!vars)
         /\ part = "sessions" => [Sessions!Next]_(Sessions!vars)
         /\ part = "start" => [Start!Next]_(Start!vars)
         /\ part = "install" => [Install!Next]_(Install!vars)
<1>1. CASE OverlayNext
  BY <1>1
  DEF OverlayNext, InFrames, InOutput, InSelection, InHandoff, InSessions, InStart, InInstall,
      inGame, resources
<1>2. CASE UNCHANGED overlay
  <2>1. UNCHANGED <<part, resources, output, selection, handoff, sessions, start, install>>
    BY <1>2 DEF overlay, inGame, attach
  <2>2. UNCHANGED vars
    BY <2>1 DEF resources
  <2>3. UNCHANGED Output!vars
    BY <2>1 DEF output, Output!vars
  <2>4. UNCHANGED Selection!vars
    BY <2>1 DEF selection, Selection!vars
  <2>5. UNCHANGED Handoff!vars
    BY <2>1 DEF handoff, Handoff!vars, Handoff!game, Handoff!gate, Handoff!drawing
  <2>6. UNCHANGED Sessions!vars
    BY <2>1 DEF sessions, Sessions!vars, Sessions!world, Sessions!runtime, Sessions!history
  <2>7. UNCHANGED Start!vars
    BY <2>1 DEF start, Start!vars
  <2>8. UNCHANGED Install!vars
    BY <2>1 DEF install, Install!vars
  <2> QED BY <2>1, <2>2, <2>3, <2>4, <2>5, <2>6, <2>7, <2>8
<1> QED BY <1>1, <1>2

(* Whatever chains the game makes, presents, resizes and frees, and on     *)
(* whatever threads: what the overlay draws on is the one chain it chose,  *)
(* or the one it has been handed over to after three calls that saw it     *)
(* unchanged; and it was on a display found SDR by a factory that was      *)
(* still current (product_overlay_hook.cpp, chain_handoff.hpp,             *)
(* fresh_output.hpp).                                                      *)
THEOREM OneChainAtATime == OverlaySpec => []OneChainDrawn
<1> DEFINE Inv == /\ FramesInv
                  /\ part = "handoff" => HandoffInv
                  /\ part = "selection" => SelectionInv
                  /\ part = "output" => OutputInv
<1>1. OverlayInit => Inv
  BY OverlayAssumption, FramesInitially, HandoffInitially, SelectionInitially, OutputInitially
  DEF OverlayInit
<1>2. Inv /\ [OverlayNext]_overlay => Inv'
  BY OverlayAssumption, OfOneOverlayPart, FramesStep, HandoffStep, SelectionStep, OutputStep
<1>3. Inv => OneChainDrawn
  <2> SUFFICES ASSUME Inv PROVE OneChainDrawn
    OBVIOUS
  <2>1. TypeOK
    BY DEF FramesInv
  <2>2. part = "handoff" => Handoff!TypeOK /\ Handoff!HandoverQualified
    BY OverlayAssumption, HandoffFollows
  <2>3. part = "selection" => Selection!SelectionHolds
    BY OverlayAssumption, SelectionFollows
  <2>4. part = "output" => Output!QualifiedWasSdr
    BY OutputFollows
  <2> QED BY <2>1, <2>2, <2>3, <2>4 DEF OneChainDrawn
<1> QED BY <1>1, <1>2, <1>3, PTL DEF OverlaySpec

(* Whatever the user presses and starts anew, whatever programs exit, and  *)
(* wherever tray, helper or library give up: a running program is attached *)
(* to a second time only if its failure could not be remembered in the     *)
(* bounded list; nothing is drawn before a helper found everything in      *)
(* order; and no thread of the game stays suspended (runtime.cpp,          *)
(* refused_targets.hpp, helper.cpp, target_attach.cpp).                    *)
THEOREM AttachedOnlyOnce == OverlaySpec => []AttachedOnce
<1> DEFINE Inv == /\ part = "sessions" => SessionsInv /\ SessionsListed
                  /\ part = "start" => StartInv
                  /\ part = "install" => InstallInv
<1>1. OverlayInit => Inv
  BY OverlayAssumption, SessionsInitially, SessionsListedInitially, StartInitially,
     InstallInitially
  DEF OverlayInit
<1>2. Inv /\ [OverlayNext]_overlay => Inv'
  <2> SUFFICES ASSUME Inv, [OverlayNext]_overlay PROVE Inv'
    OBVIOUS
  <2>1. part = "sessions" => SessionsInv' /\ SessionsListed'
    BY OverlayAssumption, OfOneOverlayPart, SessionsStep, SessionsListedStep DEF SessionsInv
  <2>2. part = "start" => StartInv'
    BY OverlayAssumption, OfOneOverlayPart, StartStep
  <2>3. part = "install" => InstallInv'
    BY OverlayAssumption, OfOneOverlayPart, InstallStep
  <2> QED BY <2>1, <2>2, <2>3, OfOneOverlayPart
<1>3. Inv => AttachedOnce
  BY OverlayAssumption, SessionsAreTyped, StartFollows, InstallFollows
  DEF AttachedOnce, SessionsInv
<1> QED BY <1>1, <1>2, <1>3, PTL DEF OverlaySpec
=============================================================================
