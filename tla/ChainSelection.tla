---------------------------- MODULE ChainSelection ----------------------------
(***************************************************************************)
(* Which chain and which queue of a game the overlay draws with: Render,   *)
(* WithPresent and Signal of product_overlay_hook.cpp before the renderer  *)
(* is asked, with the classification of backend_selection.hpp, the queue   *)
(* binding of queue_binding.hpp and the word of initial_refusal.hpp that   *)
(* the helper reads.  Every thread of the game may present any chain; none *)
(* of these steps takes a lock.                                            *)
(*                                                                         *)
(* at[t]: "out"; in Render "d11" (the Direct3D 11 path), "selects" (a      *)
(* Direct3D 12 chain whose queue is known), "admitted", "readied",         *)
(* "coloured", all three with the drawing owned; "fails" in Failure;       *)
(* "native" in the game's own Present, "offers", "publishes" in a Signal   *)
(* inside it.                                                              *)
(***************************************************************************)
EXTENDS Naturals

CONSTANTS
  Threads,
  Chains,     (* chain -> [evidence, device]                               *)
  Queues,     (* queue -> [device, direct]                                 *)
  None

VARIABLES
  at,
  chainOf,    (* thread -> the chain it presents                           *)
  context,    (* thread -> what Render left for Signal                     *)
  offered,    (* thread -> the queue it signals                            *)
  refusing,   (* thread -> what Failure records, and how often it tried    *)
  backend,    (* selected_backend                                          *)
  binding,    (* QueueBinding: [ready, ambiguous, publishing, chain, queue]*)
  drawer,     (* the thread that owns the drawing                          *)
  failed,
  ready,      (* product_ready                                             *)
  release,    (* header.release                                            *)
  drawn       (* observer: backends, chains and queues drawn with          *)

vars == <<at, chainOf, context, offered, refusing, backend, binding, drawer, failed, ready,
          release, drawn>>

(* Capabilities of a chain: absent, present or not to be asked.            *)
Capabilities == {"absent", "present", "error"}

SelectBackend(e) ==
  IF "error" \in {e.d3d11, e.d3d12, e.interop} THEN "queryfailed"
  ELSE IF e.interop = "present" THEN "unsupported"
  ELSE IF e.d3d11 = "present" /\ e.d3d12 = "present" THEN "ambiguous"
  ELSE IF e.d3d11 = "present" THEN "d3d11"
  ELSE IF e.d3d12 = "present" THEN "d3d12"
  ELSE "unsupported"

InspectBackend(c) == SelectBackend(Chains[c].evidence)

(* The word: nothing yet, ready, waiting for a colour space, or a reason   *)
(* that ends the overlay, found before or while it ran.                    *)
Words == {"none", "ready", "waits", "initial", "runtime"}
Mutable == {"none", "ready", "waits"}

TypeOK ==
  /\ at \in [Threads -> {"out", "d11", "selects", "admitted", "readied", "coloured", "fails",
                         "native", "offers", "publishes"}]
  /\ \A t \in Threads :
       /\ chainOf[t] \in DOMAIN Chains \cup {None}
       /\ context[t] \in {None, chainOf[t]}
       /\ offered[t] \in DOMAIN Queues \cup {None}
       /\ refusing[t] = None \/ refusing[t].expected \in Mutable
  /\ backend \in {"none", "d3d11", "d3d12"}
  /\ binding.chain \in DOMAIN Chains \cup {None} /\ binding.queue \in DOMAIN Queues \cup {None}
  /\ drawer \in Threads \cup {None}
  /\ ready \in Words

Init ==
  /\ at = [t \in Threads |-> "out"]
  /\ chainOf = [t \in Threads |-> None]
  /\ context = [t \in Threads |-> None]
  /\ offered = [t \in Threads |-> None]
  /\ refusing = [t \in Threads |-> None]
  /\ backend = "none"
  /\ binding = [ready |-> FALSE, ambiguous |-> FALSE, publishing |-> FALSE, chain |-> None, queue |-> None]
  /\ drawer = None /\ failed = FALSE /\ ready = "none" /\ release = TRUE
  /\ drawn = {}

Goes(t, where) == at' = [at EXCEPT ![t] = where]

-----------------------------------------------------------------------------
(* The word, changed by compare-and-swap only.                             *)

Swap(from, to) == ready' = IF ready = from THEN to ELSE ready
RecordInitialReady == Swap("none", "ready")
RecordColorWait == Swap("ready", "waits")
ClearColorWait == Swap("waits", "ready")

(* Mutant of BeginFailure: the word is tried twice.                         *)
BeginFailureTwice(t) ==
  /\ failed' = TRUE
  /\ refusing' = [refusing EXCEPT ![t] = [expected |-> "none", tries |-> 2]]
  /\ Goes(t, "fails")

(* Failure: no new drawing is admitted from here on, then the reason.  The *)
(* word is tried three times, each time against what it was last seen as.  *)
BeginFailure(t) ==
  /\ failed' = TRUE
  /\ refusing' = [refusing EXCEPT ![t] = [expected |-> "none", tries |-> 3]]
  /\ Goes(t, "fails")

Tries(t) ==
  LET n == refusing[t].tries IN
  IF ready = refusing[t].expected \/ ready \notin Mutable \/ n = 1 THEN None
  ELSE [expected |-> ready, tries |-> n - 1]

(* After Failure the game's call is made all the same.                     *)
PublishRuntimeRefusal(t) ==
  /\ at[t] = "fails"
  /\ Swap(refusing[t].expected, "runtime")
  /\ refusing' = [refusing EXCEPT ![t] = Tries(t)]
  /\ Goes(t, IF Tries(t) = None THEN (IF chainOf[t] = None THEN "out" ELSE "native") ELSE "fails")
  /\ UNCHANGED <<chainOf, context, offered, backend, binding, drawer, failed, release, drawn>>

(* A resize, a colour space or a partial Present that ends the overlay.    *)
FailsElsewhere(t) ==
  /\ at[t] = "out" /\ ~failed
  /\ BeginFailure(t)
  /\ UNCHANGED <<chainOf, context, offered, backend, binding, drawer, ready, release, drawn>>

(* refuse: the first reason is written if nothing else was.                *)
RefuseInitial(t) ==
  /\ Swap("none", "initial")
  /\ BeginFailure(t)
  /\ UNCHANGED <<context, backend, binding>>

-----------------------------------------------------------------------------
(* Render.                                                                 *)

Skips(t) == Goes(t, "native") /\ UNCHANGED <<context, refusing, backend, binding, failed, ready>>

RenderD3d11(t) ==
  /\ backend' = IF backend = "none" THEN "d3d11" ELSE backend
  /\ Goes(t, IF backend' = "d3d11" THEN "d11" ELSE "native")
  /\ UNCHANGED <<context, refusing, binding, failed, ready>>

(* The chain, its device and its window answer, and are this process's own.*)
RenderD3d12(t, c) ==
  \/ RefuseInitial(t)
  \/ /\ context' = [context EXCEPT ![t] = c]
     /\ IF ~binding.ready \/ binding.ambiguous
        THEN Goes(t, "native") /\ UNCHANGED <<refusing, binding, failed>>
        ELSE IF binding.chain # c
        THEN binding' = [binding EXCEPT !.ambiguous = TRUE] /\ BeginFailure(t)
        ELSE Goes(t, "selects") /\ UNCHANGED <<refusing, binding, failed>>
     /\ UNCHANGED <<backend, ready>>

Render(t, c) ==
  IF failed THEN Skips(t)
  ELSE CASE InspectBackend(c) = "d3d11" -> RenderD3d11(t)
         [] InspectBackend(c) = "d3d12" ->
              IF backend = "d3d11" THEN Skips(t) ELSE RenderD3d12(t, c)
         [] OTHER -> RefuseInitial(t)

Present(t, c) ==
  /\ at[t] = "out"
  /\ chainOf' = [chainOf EXCEPT ![t] = c]
  /\ Render(t, c)
  /\ UNCHANGED <<offered, drawer, release, drawn>>

(* RenderAndCheck: an exception, or a frame, with the identity published   *)
(* when the device is no Direct3D 12 device in disguise.                   *)
DrawD3d11(t) ==
  /\ at[t] = "d11"
  /\ \/ /\ BeginFailure(t) /\ UNCHANGED <<ready, drawn>>
     \/ /\ drawn' = drawn \cup (IF release THEN {} ELSE {[chain |-> chainOf[t], queue |-> None]})
        /\ RecordInitialReady \/ UNCHANGED ready
        /\ Goes(t, "native")
        /\ UNCHANGED <<refusing, failed>>
  /\ UNCHANGED <<chainOf, context, offered, backend, binding, drawer, release>>

(* TryDraw admits one thread.                                              *)
Select(t) ==
  /\ at[t] = "selects"
  /\ backend' = IF backend = "none" THEN "d3d12" ELSE backend
  /\ IF backend' = "d3d12" /\ drawer = None
     THEN drawer' = t /\ Goes(t, "admitted")
     ELSE UNCHANGED drawer /\ Goes(t, "native")
  /\ UNCHANGED <<chainOf, context, offered, refusing, binding, failed, ready, release, drawn>>

Admit(t) ==
  /\ at[t] = "admitted"
  /\ RecordInitialReady
  /\ Goes(t, "readied")
  /\ UNCHANGED <<chainOf, context, offered, refusing, backend, binding, drawer, failed, release, drawn>>

EndDraw == drawer' = None

(* Staged, or not to be initialized, or stopped meanwhile.                 *)
Prepare(t) ==
  /\ at[t] = "readied"
  /\ \/ /\ release \/ failed
        /\ EndDraw /\ Goes(t, "native") /\ UNCHANGED <<refusing, failed>>
     \/ /\ ~release
        /\ EndDraw /\ BeginFailure(t)
     \/ /\ ~release /\ ~failed
        /\ Goes(t, "coloured") /\ UNCHANGED <<drawer, refusing, failed>>
  /\ UNCHANGED <<chainOf, context, offered, backend, binding, ready, release, drawn>>

(* A colour space to wait for, one that is refused, or a frame.            *)
Colour(t) ==
  /\ at[t] = "coloured"
  /\ EndDraw
  /\ \/ RecordColorWait /\ Goes(t, "native") /\ UNCHANGED <<refusing, failed, drawn>>
     \/ BeginFailure(t) /\ UNCHANGED <<ready, drawn>>
     \/ /\ ClearColorWait
        /\ drawn' = drawn \cup {[chain |-> chainOf[t], queue |-> binding.queue]}
        /\ Goes(t, "native") /\ UNCHANGED <<refusing, failed>>
  /\ UNCHANGED <<chainOf, context, offered, backend, binding, release>>

-----------------------------------------------------------------------------
(* The game's Present, and a Signal inside it.                             *)

Returns(t) ==
  /\ at[t] = "native"
  /\ Goes(t, "out")
  /\ chainOf' = [chainOf EXCEPT ![t] = None]
  /\ context' = [context EXCEPT ![t] = None]
  /\ UNCHANGED <<offered, refusing, backend, binding, drawer, failed, ready, release, drawn>>

Match(t, b) == b.queue = offered[t] /\ b.chain = context[t]
MarkAmbiguous == binding' = [binding EXCEPT !.ambiguous = TRUE]

(* Offer, up to the decision to publish.                                   *)
Signal(t, q) ==
  /\ at[t] = "native" /\ context[t] # None /\ ~binding.ambiguous
  /\ Queues[q].direct
  /\ offered' = [offered EXCEPT ![t] = q]
  /\ IF Queues[q].device # Chains[context[t]].device
     THEN MarkAmbiguous /\ UNCHANGED at
     ELSE Goes(t, "offers") /\ UNCHANGED binding
  /\ UNCHANGED <<chainOf, context, refusing, backend, drawer, failed, ready, release, drawn>>

Offer(t) ==
  /\ at[t] = "offers"
  /\ IF binding.ready
     THEN /\ IF Match(t, binding) THEN UNCHANGED binding ELSE MarkAmbiguous
          /\ Goes(t, "native")
     ELSE IF binding.publishing THEN MarkAmbiguous /\ Goes(t, "native")
     ELSE binding' = [binding EXCEPT !.publishing = TRUE] /\ Goes(t, "publishes")
  /\ UNCHANGED <<chainOf, context, offered, refusing, backend, drawer, failed, ready, release, drawn>>

(* Inside publishing nobody else writes the value.                         *)
Publish(t) ==
  /\ at[t] = "publishes"
  /\ LET value == IF binding.ready THEN binding
                  ELSE [binding EXCEPT !.ready = TRUE, !.chain = context[t], !.queue = offered[t]]
     IN binding' = [value EXCEPT !.publishing = FALSE, !.ambiguous = @ \/ ~Match(t, value)]
  /\ Goes(t, "native")
  /\ UNCHANGED <<chainOf, context, offered, refusing, backend, drawer, failed, ready, release, drawn>>

HelperGates ==
  /\ release' = ~release
  /\ UNCHANGED <<at, chainOf, context, offered, refusing, backend, binding, drawer, failed, ready, drawn>>

Next ==
  \/ \E t \in Threads :
       \/ \E c \in DOMAIN Chains : Present(t, c)
       \/ \E q \in DOMAIN Queues : Signal(t, q)
       \/ FailsElsewhere(t) \/ PublishRuntimeRefusal(t)
       \/ DrawD3d11(t) \/ Select(t) \/ Admit(t) \/ Prepare(t) \/ Colour(t)
       \/ Offer(t) \/ Publish(t) \/ Returns(t)
  \/ HelperGates

Spec == Init /\ [][Next]_vars

-----------------------------------------------------------------------------
(* Everything drawn was drawn with one backend, on one chain of it, and in *)
(* Direct3D 12 with the queue of that chain's own device that was seen in  *)
(* the chain's own Present, whatever other chains the game presents and    *)
(* from whatever threads (product_overlay_hook.cpp:205, queue_binding.hpp).*)
OneChainDrawn ==
  \A d \in drawn :
    /\ InspectBackend(d.chain) = backend
    /\ backend = "d3d12" =>
         /\ d.queue # None /\ Queues[d.queue].device = Chains[d.chain].device
         /\ d.chain = binding.chain /\ d.queue = binding.queue

(* A failure that has been recorded stays to be read: three tries are      *)
(* enough against the presents already under way, and none of these brings *)
(* the word back (initial_refusal.hpp:43, :186).                           *)
FailureIsTold ==
  failed /\ (\A t \in Threads : at[t] # "fails") => ready \notin Mutable

SelectionHolds == TypeOK /\ OneChainDrawn /\ FailureIsTold
=============================================================================
