------------------------------- MODULE PathVerdict -------------------------------
(***************************************************************************)
(* What the network action says of a program's connections (net/estats     *)
(* _win32.cpp and net/verdict.hpp): the statistics of each are turned on,  *)
(* read one by one, watched for a while and read again, and the worst of   *)
(* the differences is the verdict.  Meanwhile the connections measure,     *)
(* lose, end, and come again between the same ends, and other tools turn   *)
(* the same statistics off and on.                                         *)
(***************************************************************************)
EXTENDS Integers, FiniteSets, FiniteSetsExt

CONSTANTS
  Connections,   (* keys of both ends                                      *)
  RoundTrips,    (* smoothed round trips, in ms                            *)
  GoodRtt, FairRtt,
  MaxEvents      (* bound of the model                                     *)

VARIABLES
  open, collecting, counters, rtt,   (* the TCP stack                      *)
  at,            (* "idle", "enable", "baseline", "watch", "finish", "said"*)
  rows, left,    (* the connections found, and those still to be visited   *)
  permitted,     (* watched_                                               *)
  baseline,      (* the readings taken by Begin                            *)
  verdict,       (* [grade, rtt, connections] of the builder               *)
  window,        (* observer: what happened since the baseline was read,   *)
                 (* or ever, where that failed                             *)
  judged,        (* observer: [grade, rtt] of every reading added          *)
  events

stack == <<open, collecting, counters, rtt>>
probe == <<at, rows, left, permitted, baseline, verdict>>
vars  == <<stack, probe, window, judged, events>>

NoCounts == [sampled |-> 0, lost |-> 0, timeouts |-> 0]
Unknown == 0
Good == 1
Fair == 2
Poor == 3

Init ==
  /\ open = Connections /\ collecting \in SUBSET open
  /\ rtt = [k \in Connections |-> Min(RoundTrips)]
  /\ \E old \in {NoCounts, [sampled |-> 1, lost |-> 0, timeouts |-> 1]} :
       counters = [k \in Connections |-> IF k \in collecting THEN old ELSE NoCounts]
  /\ at = "idle" /\ rows = {} /\ left = {} /\ permitted = {}
  /\ baseline = [k \in {} |-> NoCounts]
  /\ verdict = [grade |-> Unknown, rtt |-> 0, connections |-> 0]
  /\ window = [k \in Connections |-> NoCounts] /\ judged = {} /\ events = 0

GradeLatency(ms) == IF ms <= GoodRtt THEN Good ELSE IF ms <= FairRtt THEN Fair ELSE Poor

GradeLoss(delta) ==
  IF delta.timeouts > 0 THEN Poor ELSE IF delta.lost > 0 THEN Fair ELSE Good

(* GradeJitter is a second GradeLatency and is left out.                   *)
Judge(delta, ms) ==
  IF delta.sampled = 0 THEN Unknown ELSE Max({GradeLatency(ms), GradeLoss(delta)})

(* A counter that went backwards counts as nothing.                        *)
Since(now, then) ==
  [c \in DOMAIN now |-> IF now[c] >= then[c] THEN now[c] - then[c] ELSE 0]

(* Mutant: the round trip shown is that of the last connection.            *)
AddLast(grade, ms) ==
  IF grade = Unknown THEN verdict
  ELSE [grade       |-> Max({grade, verdict.grade}),
        rtt         |-> ms,
        connections |-> verdict.connections + 1]

Add(grade, ms) ==
  IF grade = Unknown THEN verdict
  ELSE [grade       |-> Max({grade, verdict.grade}),
        rtt         |-> IF grade > verdict.grade THEN ms ELSE verdict.rtt,
        connections |-> verdict.connections + 1]

-----------------------------------------------------------------------------
Happens == events < MaxEvents /\ events' = events + 1

(* GetPerTcpConnectionEStats may fail for any of them.                     *)
Readable(k) == k \in open \cap collecting

NotRead(k) == IF Readable(k) THEN Happens ELSE UNCHANGED events

(* BeginFor: the connections of the program, as the table has them.        *)
Begin ==
  /\ at = "idle" /\ open # {}
  /\ rows' = open /\ left' = open /\ at' = "enable"
  /\ UNCHANGED <<stack, permitted, baseline, verdict, window, judged, events>>

(* Turning the statistics on is refused, or finds the connection gone.     *)
Enable(k) ==
  /\ at = "enable" /\ k \in left
  /\ \/ /\ k \in open
        /\ collecting' = collecting \cup {k} /\ permitted' = permitted \cup {k}
     \/ UNCHANGED <<collecting, permitted>>
  /\ left' = left \ {k}
  /\ UNCHANGED <<open, counters, rtt, at, rows, baseline, verdict, window, judged, events>>

Enabled ==
  /\ at = "enable" /\ left = {}
  /\ at' = IF permitted = {} THEN "said" ELSE "baseline"
  /\ left' = rows
  /\ UNCHANGED <<stack, rows, permitted, baseline, verdict, window, judged, events>>

(* Mutant: all that a connection ever counted is taken for the window.     *)
BaselineFromZero(k) ==
  [x \in DOMAIN baseline \cup {k} |-> IF x = k THEN NoCounts ELSE baseline[x]]

BaselineWith(k) ==
  [x \in DOMAIN baseline \cup {k} |-> IF x = k THEN counters[k] ELSE baseline[x]]

(* A connection that collects nothing, is gone or cannot be read is left   *)
(* out.                                                                    *)
TakeBaseline(k) ==
  /\ at = "baseline" /\ k \in left /\ left' = left \ {k}
  /\ \/ /\ Readable(k)
        /\ baseline' = BaselineWith(k)
        /\ window' = [window EXCEPT ![k] = NoCounts]
        /\ UNCHANGED events
     \/ /\ NotRead(k)
        /\ baseline' = baseline
        /\ window' = [window EXCEPT ![k] = counters[k]]
  /\ UNCHANGED <<stack, at, rows, permitted, verdict, judged>>

Watch ==
  /\ at = "baseline" /\ left = {} /\ at' = "watch"
  /\ UNCHANGED <<stack, rows, left, permitted, baseline, verdict, window, judged, events>>

(* The window of the action is over.                                       *)
Finish ==
  /\ at = "watch" /\ at' = "finish" /\ left' = rows
  /\ UNCHANGED <<stack, rows, permitted, baseline, verdict, window, judged, events>>

(* One without a baseline is judged from nothing on; one that cannot be    *)
(* read now is left out.                                                   *)
ReadAgain(k) ==
  LET before == IF k \in DOMAIN baseline THEN baseline[k] ELSE NoCounts
      grade  == Judge(Since(counters[k], before), rtt[k])
  IN /\ at = "finish" /\ k \in left /\ left' = left \ {k}
     /\ \/ /\ Readable(k)
           /\ verdict' = Add(grade, rtt[k])
           /\ judged' = judged \cup {[key |-> k, grade |-> grade, rtt |-> rtt[k],
                                      bound |-> Judge(window[k], rtt[k])]}
           /\ UNCHANGED events
        \/ NotRead(k) /\ UNCHANGED <<verdict, judged>>
     /\ UNCHANGED <<stack, at, rows, permitted, baseline, window>>

Result ==
  /\ at = "finish" /\ left = {} /\ at' = "said"
  /\ UNCHANGED <<stack, rows, left, permitted, baseline, verdict, window, judged, events>>

-----------------------------------------------------------------------------
(* The stack.                                                              *)

(* A connection counts while its statistics are on.                        *)
Measures(k) ==
  /\ Happens /\ k \in open \cap collecting
  /\ \E lost, timeout \in 0 .. 1 :
       LET more(c) == [sampled |-> c.sampled + 1, lost |-> c.lost + lost,
                       timeouts |-> c.timeouts + timeout]
       IN /\ counters' = [counters EXCEPT ![k] = more(@)]
          /\ window' = [window EXCEPT ![k] = more(@)]
  /\ rtt' \in {[rtt EXCEPT ![k] = ms] : ms \in RoundTrips}
  /\ UNCHANGED <<open, collecting, probe, judged>>

Ends(k) ==
  /\ Happens /\ k \in open /\ open' = open \ {k} /\ collecting' = collecting \ {k}
  /\ counters' = [counters EXCEPT ![k] = NoCounts]
  /\ UNCHANGED <<rtt, probe, window, judged>>

(* A new connection between the same ends, without statistics.             *)
Reopens(k) ==
  /\ Happens /\ k \notin open /\ open' = open \cup {k}
  /\ UNCHANGED <<collecting, counters, rtt, probe, window, judged>>

(* Another tool; statistics that are turned on start from nothing.         *)
Toggled(k) ==
  /\ Happens /\ k \in open
  /\ collecting' = IF k \in collecting THEN collecting \ {k} ELSE collecting \cup {k}
  /\ counters' = [counters EXCEPT ![k] = NoCounts]
  /\ UNCHANGED <<open, rtt, probe, window, judged>>

Next ==
  \/ Begin \/ Enabled \/ Watch \/ Finish \/ Result
  \/ \E k \in Connections :
       Enable(k) \/ TakeBaseline(k) \/ ReadAgain(k)
       \/ Measures(k) \/ Ends(k) \/ Reopens(k) \/ Toggled(k)

Spec == Init /\ [][Next]_vars

-----------------------------------------------------------------------------
(* Of a connection whose baseline was read nothing worse is said than what *)
(* happened in the window, though it had counted timeouts for hours before *)
(* (one whose baseline could not be read answers for all of them,          *)
(* estats_win32.cpp:192 and 247-249); the verdict is the worst of what was *)
(* measured, and its round trip that of a connection which earned it.      *)
VerdictHolds ==
  LET measured == {j \in judged : j.grade # Unknown}
  IN /\ \A j \in judged : j.grade <= j.bound
     /\ verdict.connections = Cardinality(measured)
     /\ verdict.grade = Max({Unknown} \cup {j.grade : j \in measured})
     /\ measured # {} => \E j \in measured : j.grade = verdict.grade /\ j.rtt = verdict.rtt
=============================================================================
