------------------------------ MODULE PollCadence ------------------------------
(***************************************************************************)
(* When a protection loop samples the sensor (timing/protection_timing.hpp *)
(* and the loops of local_protection_worker.cpp and service_main.cpp): a   *)
(* timer is armed for the next slot, the thread wakes for it, late, or for *)
(* a command before it, works for as long as the driver takes, and chooses *)
(* the next slot.  Slots are a period apart from the first one at 0.       *)
(***************************************************************************)
EXTENDS Integers, FiniteSets, FiniteSetsExt

CONSTANTS
  Period,      (* kPollIntervalMs, in ticks                                *)
  MaxTime      (* bound of the model                                       *)

VARIABLES
  now,         (* QpcNow                                                   *)
  at,          (* "arm", "wait" or "work"                                  *)
  deadline,    (* next_deadline                                            *)
  woke,        (* wake_qpc                                                 *)
  counts,      (* the missed deadlines: at the wake, while working, total  *)
  answered,    (* observer: the slots an iteration was for                 *)
  late,        (* observer: the slots that passed before a thread woke     *)
  overrun,     (* observer: the slots that passed while it worked          *)
  ended        (* observer: when the last iteration ended, -1 for none     *)

vars == <<now, at, deadline, woke, counts, answered, late, overrun, ended>>

Init ==
  /\ now = 0 /\ at = "arm" /\ deadline = 0 /\ woke = 0
  /\ counts = [wake |-> 0, execution |-> 0, total |-> 0]
  /\ answered = {} /\ late = {} /\ overrun = {} /\ ended = -1

(* Mutant: a slot that falls on the end of the work is taken for the next. *)
AdvanceDeadlineInclusive(previous, completed) ==
  LET next    == previous + Period
      elapsed == (completed - next) \div Period + 1
  IN IF next < completed THEN [next |-> next + elapsed * Period, missed |-> elapsed]
                         ELSE [next |-> next, missed |-> 0]

AdvanceDeadline(previous, completed) ==
  LET next    == previous + Period
      elapsed == (completed - next) \div Period + 1
  IN IF next <= completed THEN [next |-> next + elapsed * Period, missed |-> elapsed]
                          ELSE [next |-> next, missed |-> 0]

(* A wake for a command that is served before the slot leaves the slot.    *)
ClassifyCadence(scheduled, wokeAt, completed) ==
  LET wake  == AdvanceDeadline(scheduled, wokeAt)
      whole == AdvanceDeadline(scheduled, completed)
      first == Min({wake.missed, whole.missed})
  IN IF completed < scheduled
     THEN [next |-> scheduled, wake |-> 0, execution |-> 0, total |-> 0]
     ELSE [next |-> whole.next, wake |-> first,
           execution |-> whole.missed - first, total |-> whole.missed]

-----------------------------------------------------------------------------
(* ArmDeadline, ArmPollTimer: relative to the clock, at once when it is    *)
(* past.                                                                   *)
ArmDeadline ==
  /\ at = "arm" /\ at' = "wait"
  /\ UNCHANGED <<now, deadline, woke, counts, answered, late, overrun, ended>>

(* The timer fires when the slot has come, or a hair before it; a command  *)
(* sets wake_event_ at any time.                                           *)
Wake ==
  /\ at = "wait" /\ at' = "work" /\ woke' = now
  /\ UNCHANGED <<now, deadline, counts, answered, late, overrun, ended>>

(* The end of an iteration.                                                *)
Complete ==
  LET cadence == ClassifyCadence(deadline, woke, now)
      passed  == IF now < deadline THEN {}
                 ELSE {t \in deadline + 1 .. now : t % Period = 0}
  IN /\ at = "work" /\ at' = "arm"
     /\ deadline' = cadence.next
     /\ counts' = [wake      |-> counts.wake + cadence.wake,
                   execution |-> counts.execution + cadence.execution,
                   total     |-> counts.total + cadence.total]
     /\ answered' = IF now < deadline THEN answered ELSE answered \cup {deadline}
     /\ late' = late \cup {t \in passed : t <= woke}
     /\ overrun' = overrun \cup {t \in passed : t > woke}
     /\ ended' = now
     /\ UNCHANGED <<now, woke>>

(* The thread may be scheduled late, and a call of the driver take long.   *)
TimePasses ==
  /\ now < MaxTime /\ now' = now + 1
  /\ UNCHANGED <<at, deadline, woke, counts, answered, late, overrun, ended>>

Next == ArmDeadline \/ Wake \/ Complete \/ TimePasses

Spec == Init /\ [][Next]_vars

-----------------------------------------------------------------------------
(* Every slot before the next one was answered by one iteration or counted *)
(* as missed once, by the scheduler or by the work, and the next slot is   *)
(* after the end of the last iteration and at most a period away: no slot  *)
(* is sampled twice, none is skipped in silence, and a late loop does not  *)
(* catch up in a burst.                                                    *)
SlotsAreAccounted ==
  LET missed == late \cup overrun
  IN /\ counts = [wake      |-> Cardinality(late),
                  execution |-> Cardinality(overrun),
                  total     |-> Cardinality(missed)]
     /\ answered \cap missed = {} /\ late \cap overrun = {}
     /\ answered \cup missed = {t \in 0 .. deadline - 1 : t % Period = 0}
     /\ deadline % Period = 0

SampledOnTime ==
  /\ SlotsAreAccounted
  /\ ended # -1 /\ at # "work" => ended < deadline /\ deadline <= ended + Period
=============================================================================
