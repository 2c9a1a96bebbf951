------------------------------ MODULE DeferredLog ------------------------------
(***************************************************************************)
(* The log of the threads that must not wait (logging/logger.cpp and       *)
(* deferred_queue.hpp): TryDeferred drops a record or puts it in a ring,   *)
(* the writer thread takes it out and writes it, Shutdown ends the writer. *)
(* Every load and store of an atomic is a step; a record is copied in two. *)
(*                                                                         *)
(* A producer is "out", or has "asked" for the event, is "in" TryPush, has *)
(* copied "half" of the record or its "full" text, has "pushed" it and has *)
(* "left" without having set the event.  The writer "wait"s, may "drain",  *)
(* has taken "half" a record or a "full" one, "write"s it, "ask"s whether  *)
(* to stop, has "ended".  main is the thread of Initialize and Shutdown.   *)
(***************************************************************************)
EXTENDS Naturals, Sequences, FiniteSets, SequencesExt

CONSTANTS
  Producers,
  Capacity,    (* of the ring                                              *)
  MaxRecords   (* bound: records that ask to be logged                     *)

VARIABLES
  main,        (* "start", "run", "stop", "join", "done"                   *)
  event,       (* g_deferred_event is set                                  *)
  stopping,    (* g_deferred_stop                                          *)
  signalled,   (* the event object                                         *)
  pc,          (* producer -> where it is                                  *)
  record,      (* producer -> the record it brings                         *)
  busy,        (* producer_busy_                                           *)
  ring,        (* records_, each in two halves                             *)
  head, tail,
  writer, taken,
  asked,       (* records so far                                           *)
  admitted,    (* records pushed, in order                                 *)
  written,     (* records handed to Write                                  *)
  late         (* producers on their way when Shutdown took the event      *)

shared == <<event, stopping, signalled, busy, ring, head, tail>>
vars == <<main, shared, pc, record, writer, taken, asked, admitted, written, late>>

Cell == 0 .. Capacity - 1
Records == 1 .. MaxRecords

TypeOK ==
  /\ main \in {"start", "run", "stop", "join", "done"}
  /\ {event, stopping, signalled, busy} \subseteq BOOLEAN
  /\ pc \in [Producers -> {"out", "asked", "in", "half", "full", "pushed", "left"}]
  /\ ring \in [Cell -> (0 .. MaxRecords) \X (0 .. MaxRecords)]
  /\ tail <= head /\ head <= tail + Capacity
  /\ writer \in {"none", "wait", "drain", "half", "full", "write", "ask", "ended"}
  /\ taken \in (0 .. MaxRecords) \X (0 .. MaxRecords)
  /\ Range(admitted) \subseteq Records
  /\ late \subseteq Producers

Init ==
  /\ main = "start"
  /\ event = FALSE /\ stopping = FALSE /\ signalled = FALSE
  /\ pc = [p \in Producers |-> "out"] /\ record = [p \in Producers |-> 0]
  /\ busy = FALSE /\ ring = [i \in Cell |-> <<0, 0>>] /\ head = 0 /\ tail = 0
  /\ writer = "none" /\ taken = <<0, 0>>
  /\ asked = 0 /\ admitted = <<>> /\ written = <<>> /\ late = {}

-----------------------------------------------------------------------------
(* TryDeferred.                                                            *)

Goes(p, from, to) ==
  /\ pc[p] = from
  /\ pc' = [pc EXCEPT ![p] = to]

Ask(p) ==
  /\ asked < MaxRecords
  /\ asked' = asked + 1
  /\ Goes(p, "out", IF event /\ ~stopping THEN "asked" ELSE "out")
  /\ record' = [record EXCEPT ![p] = asked + 1]
  /\ UNCHANGED <<shared, admitted>>

Enter(p) ==
  /\ Goes(p, "asked", IF busy THEN "out" ELSE "in")
  /\ busy' = TRUE
  /\ UNCHANGED <<event, stopping, signalled, ring, head, tail, record, asked, admitted>>

HasRoom == head - tail < Capacity

CopyHalf(p) ==
  /\ Goes(p, "in", IF HasRoom THEN "half" ELSE "out")
  /\ IF HasRoom
       THEN ring' = [ring EXCEPT ![head % Capacity][1] = record[p]] /\ UNCHANGED busy
       ELSE busy' = FALSE /\ UNCHANGED ring
  /\ UNCHANGED <<event, stopping, signalled, head, tail, record, asked, admitted>>

CopyRest(p) ==
  /\ Goes(p, "half", "full")
  /\ ring' = [ring EXCEPT ![head % Capacity][2] = record[p]]
  /\ UNCHANGED <<event, stopping, signalled, busy, head, tail, record, asked, admitted>>

Push(p) ==
  /\ Goes(p, "full", "pushed")
  /\ head' = head + 1
  /\ admitted' = Append(admitted, record[p])
  /\ UNCHANGED <<event, stopping, signalled, busy, ring, tail, record, asked>>

Leave(p) ==
  /\ Goes(p, "pushed", "left")
  /\ busy' = FALSE
  /\ UNCHANGED <<event, stopping, signalled, ring, head, tail, record, asked, admitted>>

(* The handle may have been closed by then.                                *)
Signal(p) ==
  /\ Goes(p, "left", "out")
  /\ signalled' = (signalled \/ main # "done")
  /\ UNCHANGED <<event, stopping, busy, ring, head, tail, record, asked, admitted>>

TryDeferred(p) ==
  /\ \/ Ask(p) \/ Enter(p) \/ CopyHalf(p) \/ CopyRest(p) \/ Push(p) \/ Leave(p) \/ Signal(p)
  /\ UNCHANGED <<main, writer, taken, written, late>>

-----------------------------------------------------------------------------
(* DeferredWriter.                                                         *)

Woken ==
  /\ writer = "wait" /\ signalled
  /\ writer' = "drain" /\ signalled' = FALSE
  /\ UNCHANGED <<event, stopping, busy, ring, head, tail, taken, written>>

Take ==
  /\ writer = "drain"
  /\ IF tail = head
       THEN writer' = "ask" /\ UNCHANGED taken
       ELSE writer' = "half" /\ taken' = <<ring[tail % Capacity][1], 0>>
  /\ UNCHANGED <<shared, written>>

TakeRest ==
  /\ writer = "half" /\ writer' = "full"
  /\ taken' = [taken EXCEPT ![2] = ring[tail % Capacity][2]]
  /\ UNCHANGED <<shared, written>>

Pop ==
  /\ writer = "full" /\ writer' = "write"
  /\ tail' = tail + 1
  /\ UNCHANGED <<event, stopping, signalled, busy, ring, head, taken, written>>

Write ==
  /\ writer = "write" /\ writer' = "drain"
  /\ written' = Append(written, taken)
  /\ UNCHANGED <<shared, taken>>

(* Mutant of MayEnd: told to stop, it stops.                               *)
MayEndAtOnce == stopping

MayEnd == stopping /\ tail = head

AskToEnd ==
  /\ writer = "ask"
  /\ writer' = IF MayEnd THEN "ended" ELSE "wait"
  /\ UNCHANGED <<shared, taken, written>>

DeferredWriter ==
  /\ Woken \/ Take \/ TakeRest \/ Pop \/ Write \/ AskToEnd
  /\ UNCHANGED <<main, pc, record, asked, admitted, late>>

-----------------------------------------------------------------------------
Initialize ==
  /\ main = "start" /\ main' = "run"
  /\ writer' = "wait" /\ event' = TRUE
  /\ UNCHANGED <<stopping, signalled, late>>

Shutdown ==
  /\ \/ /\ main = "run" /\ main' = "stop"
        /\ event' = FALSE
        /\ late' = {p \in Producers : pc[p] # "out"}
        /\ UNCHANGED <<stopping, signalled>>
     \/ /\ main = "stop" /\ main' = "join"
        /\ stopping' = TRUE /\ signalled' = TRUE
        /\ UNCHANGED <<event, late>>
     \/ /\ main = "join" /\ writer = "ended" /\ main' = "done"
        /\ UNCHANGED <<event, stopping, signalled, late>>
  /\ UNCHANGED writer

Main ==
  /\ Initialize \/ Shutdown
  /\ UNCHANGED <<busy, ring, head, tail, pc, record, taken, asked, admitted, written>>

Next == (\E p \in Producers : TryDeferred(p)) \/ DeferredWriter \/ Main

Spec == Init /\ [][Next]_vars

-----------------------------------------------------------------------------
(* What was admitted is written, whole and in its order.  The writer does  *)
(* not go to sleep on a record whose producer has set the event, and       *)
(* Shutdown does not return before everything is written, except what was  *)
(* still on its way into the ring when Shutdown began.                     *)
Text == [i \in DOMAIN written |-> written[i][1]]

AdmittedIsWritten ==
  /\ \A i \in DOMAIN written : written[i][1] = written[i][2]
  /\ IsPrefix(Text, admitted)
  /\ writer = "wait" /\ ~signalled /\ (\A p \in Producers : pc[p] \notin {"pushed", "left"})
       => Text = admitted
  /\ main = "done" => Len(admitted) <= Len(Text) + Cardinality(late)
  /\ main = "done" /\ late = {} => Text = admitted
=============================================================================
