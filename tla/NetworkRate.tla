------------------------------- MODULE NetworkRate -------------------------------
(***************************************************************************)
(* The network cell: the sampler that reads the counters of the adapter    *)
(* that carries the default route (net/throughput_win32.cpp), the rates    *)
(* between two readings (net/throughput.hpp), the samples kept of them     *)
(* (net/history.hpp) and the window's timer and switch (main_dialog.cpp).  *)
(* Adapters come, go and restart, and the route moves among them.  Both    *)
(* directions are treated alike: there is one counter.                     *)
(***************************************************************************)
EXTENDS Integers, Sequences, FiniteSetsExt

CONSTANTS
  Adapters, None,
  Link,        (* octets an adapter says it carries in a tick              *)
  Before,      (* what each adapter counted before                         *)
  Gap,         (* kMaximumGapMs, in ticks                                  *)
  Recheck,     (* kRouteRecheckMs                                          *)
  Retained, MaxSamples,
  MaxTime, MaxChanges   (* bounds of the model                             *)

VARIABLES
  now, present, route, octets, changes,    (* the machine                  *)
  enabled, watched, checked,   (* show_net_ and the Sampler                *)
  last,        (* last_net_sample_ms_                                      *)
  previous,    (* the counters of the last reading, or None                *)
  samples,     (* [at, rate, span]: what was counted over how long, or     *)
               (* None                                                     *)
  carried,     (* observer: what an adapter carried since that reading     *)
  routed,      (* observer: since when the route is what it is             *)
  true         (* observer: every rate was carried by the one adapter      *)

machine == <<now, present, route, octets, changes>>
sampler == <<enabled, watched, checked>>
history == <<previous, samples>>
vars == <<machine, sampler, last, history, carried, routed, true>>

Init ==
  /\ now = 0 /\ present = Adapters /\ octets = Before /\ changes = 0
  /\ route \in Adapters
  /\ enabled = TRUE /\ watched = route /\ checked = 0
  /\ last = -1 /\ previous = None /\ samples = <<>>
  /\ carried = [a \in Adapters |-> 0] /\ routed = 0 /\ true = TRUE

(* Faster than the link, with a tolerance of a quarter.                    *)
ExceedsLink(counted, span) == 4 * counted > 5 * Link * span

(* Mutant: the counters of two adapters are subtracted.                    *)
RateAcrossAdapters(before, after) ==
  LET span == after.at - before.at
      counted == after.octets - before.octets
  IN IF span \in 1 .. Gap /\ counted >= 0 /\ ~ExceedsLink(counted, span)
     THEN counted ELSE None

RateBetween(before, after) ==
  LET span == after.at - before.at
      counted == after.octets - before.octets
  IN IF /\ span \in 1 .. Gap /\ counted >= 0
        /\ before.adapter = after.adapter
        /\ ~ExceedsLink(counted, span)
     THEN counted ELSE None

(* Mutant: the route is looked up again only when the adapter is lost.     *)
RouteIsDueWhenLost == watched = None

RouteIsDue == watched = None \/ now - checked >= Recheck

(* ResolveInterface; without a route the adapter is kept.                  *)
Resolved == IF RouteIsDue /\ route # None THEN route ELSE watched

-----------------------------------------------------------------------------
(* The timer of the window: Sampler::Read, and History::Record, or         *)
(* Interrupt when nothing could be read.  Samples are dropped from the     *)
(* front, up to the first that may stay.                                   *)
Kept(s) ==
  LET staying == {i \in DOMAIN s : now - s[i].at <= Retained /\ Len(s) - i < MaxSamples}
  IN IF staying = {} THEN <<>> ELSE SubSeq(s, Min(staying), Len(s))

Interrupt ==
  /\ previous' = None /\ UNCHANGED <<samples, carried, true>>

Record(reading) ==
  LET rate == IF previous = None THEN None ELSE RateBetween(previous, reading)
  IN /\ previous' = reading
     /\ samples' = Kept(Append(samples, [at |-> now, rate |-> rate]))
     /\ carried' = [a \in Adapters |-> 0]
     /\ true' = (true /\ (rate # None => rate <= carried[reading.adapter]))

Sample ==
  /\ enabled /\ now # last /\ last' = now
  /\ checked' = IF RouteIsDue THEN now ELSE checked
  /\ IF Resolved \in present
     THEN /\ watched' = Resolved
          /\ Record([adapter |-> Resolved, octets |-> octets[Resolved], at |-> now])
     ELSE watched' = None /\ Interrupt
  /\ UNCHANGED <<machine, enabled, routed>>

(* OnNetToggle, with Open or with Close and Clear.                         *)
TurnOff ==
  /\ enabled /\ enabled' = FALSE
  /\ watched' = None /\ checked' = 0 /\ previous' = None /\ samples' = <<>>
  /\ UNCHANGED <<machine, last, carried, routed, true>>

TurnOn ==
  /\ ~enabled /\ enabled' = TRUE /\ watched' = route /\ checked' = 0
  /\ UNCHANGED <<machine, last, history, carried, routed, true>>

-----------------------------------------------------------------------------
(* The machine.                                                            *)
TimePasses ==
  /\ now < MaxTime /\ now' = now + 1
  /\ \E more \in [Adapters -> 0 .. Link] :
       /\ \A a \in Adapters \ present : more[a] = 0
       /\ octets' = [a \in Adapters |-> octets[a] + more[a]]
       /\ carried' = [a \in Adapters |-> carried[a] + more[a]]
  /\ UNCHANGED <<present, route, changes, sampler, last, history, routed, true>>

Changed == changes < MaxChanges /\ changes' = changes + 1

RouteMoves(a) ==
  /\ Changed /\ a # route /\ (a # None => a \in present)
  /\ route' = a /\ routed' = now
  /\ UNCHANGED <<now, present, octets, sampler, last, history, carried, true>>

AdapterGoes(a) ==
  /\ Changed /\ a \in present /\ present' = present \ {a}
  /\ route' = IF route = a THEN None ELSE route
  /\ routed' = IF route = a THEN now ELSE routed
  /\ UNCHANGED <<now, octets, sampler, last, history, carried, true>>

(* It comes, or restarts: its counter counts since it came up.             *)
AdapterComes(a) ==
  /\ Changed /\ present' = present \cup {a} /\ octets' = [octets EXCEPT ![a] = 0]
  /\ UNCHANGED <<now, route, sampler, last, history, carried, routed, true>>

Next ==
  \/ Sample \/ TurnOff \/ TurnOn \/ TimePasses
  \/ \E a \in Adapters \cup {None} : RouteMoves(a)
  \/ \E a \in Adapters : AdapterGoes(a) \/ AdapterComes(a)

Spec == Init /\ [][Next]_vars

-----------------------------------------------------------------------------
(* A rate is never more than the one adapter carried between two readings  *)
(* that follow one another, whatever moved, went or restarted in between.  *)
RatesWereCarried ==
  /\ true
  /\ previous # None => /\ enabled /\ samples # <<>>
                        /\ samples[Len(samples)].at = previous.at
  /\ Len(samples) <= MaxSamples
  /\ \A i, j \in DOMAIN samples : i < j => samples[i].at < samples[j].at

(* An adapter that no longer carries the route is not watched beyond the   *)
(* next lookup, however readable it stays.                                 *)
RouteIsFollowed ==
  enabled /\ last = now /\ route # None /\ now - routed >= Recheck
    => watched \in {route, None}

NetworkHolds == RatesWereCarried /\ RouteIsFollowed
=============================================================================
