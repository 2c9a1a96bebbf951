--------------------------- MODULE ProvedMechanisms ---------------------------
(***************************************************************************)
(* Nine mechanisms that share no state with each other, with the proofs   *)
(* of what holds of each: the overlay's drawing between the transitions of *)
(* the game (OverlayDraw), a write of a power limit (BoundCard), the       *)
(* samples of the sensor (PollCadence), the limits of a first run          *)
(* (FirstRunLimits), the place of the desktop OSD (OsdPlacement), the time *)
(* played (PlayTime), the rate of the network (NetworkRate), the verdict   *)
(* on a path (PathVerdict) and the frames that are displayed               *)
(* (DisplayedFrames).  A behaviour is one of the part chosen at its start; *)
(* MCMechanisms has them checked on small instances, beside the others.    *)
(*                                                                         *)
(* The argument is the same for each part: an invariant that says what     *)
(* every place in the code may rely on is shown to hold at the start and   *)
(* to survive every action, and the property follows from it.  The last    *)
(* section puts the parts together.                                        *)
(***************************************************************************)
EXTENDS Integers, FiniteSetTheorems, SequenceTheorems, WellFoundedInduction, TLAPS

CONSTANTS
  Threads, MaxRunning, Policies,        (* of OverlayDraw                  *)
  Cards, PowerLimits, AcceptedLimits,   (* of BoundCard                    *)
  Period, Horizon,                      (* of PollCadence                  *)
  Watts, Temperatures, FreshCards,      (* of FirstRunLimits               *)
  Fallback,
  Arrangements, WidthOf,                (* of OsdPlacement                 *)
  Threshold, ScreenMargin,
  Programs, Handover, MaxTick, Steps,   (* of PlayTime                     *)
  PlayHorizon, MaxClears,
  Adapters, Link, Before, NetGap,       (* of NetworkRate                  *)
  RouteRecheck, NetRetained, NetCapacity, NetHorizon, MaxNetChanges,
  Connections, RoundTrips,              (* of PathVerdict                  *)
  GoodRtt, FairRtt, MaxEvents,
  DisplayThreads, DisplaySurfaces,      (* of DisplayedFrames              *)
  Room, MaxPresents, MaxFlips, MaxMishaps,
  Nothing                               (* no card, no configuration       *)

VARIABLES
  part,
  phase, drawClosed, drawAt, job, selected, initialized, observed, ambiguous, drawFailed,
  broken, drawHeld, format, chain, running, drawPolicy,
  listed, limit, cardInitialized, identity, bound, boundUuid, constraints, op, result,
  cardHeld, setters, touched,
  cadNow, cadAt, cadDeadline, cadWoke, cadCounts, cadAnswered, cadLate, cadOverrun, cadEnded,
  limCard, limLimit, limConfig, limFresh, limRanged, limWorker, limLatched, limStored,
  limStoredLatch, limFault, limAllowed, limReason

VARIABLES
  osdScreens, osdAt, osdScale, osdSize, osdCollapsed, osdPositions, osdGrab, osdCursor,
  osdSaved, osdLeft,
  playNow, playCurrent, playElapsed, playLastSeen, playWaiting, playWaitingMs,
  playWaitingSeen, playEarned, playLatest, playClears,
  netNow, netPresent, netRoute, netOctets, netChanges, netEnabled, netWatched, netChecked,
  netLast, netPrevious, netSamples, netCarried, netRouted, netTrue,
  pathOpen, pathCollecting, pathCounters, pathRtt, pathAt, pathRows, pathLeft,
  pathPermitted, pathBaseline, pathVerdict, pathWindow, pathJudged, pathEvents,
  disReal, disFlips, disDwm, disMishaps, disOn, disWhole, disCorrelator, disDirect, disCounted

draw == <<phase, drawClosed, drawAt, job, selected, initialized, observed, ambiguous, drawFailed,
          broken, drawHeld, format, chain, running, drawPolicy>>
card == <<listed, limit, cardInitialized, identity, bound, boundUuid, constraints, op, result,
          cardHeld, setters, touched>>
cadence == <<cadNow, cadAt, cadDeadline, cadWoke, cadCounts, cadAnswered, cadLate, cadOverrun,
             cadEnded>>
limits == <<limCard, limLimit, limConfig, limFresh, limRanged, limWorker, limLatched, limStored,
            limStoredLatch, limFault, limAllowed, limReason>>
placement == <<osdScreens, osdAt, osdScale, osdSize, osdCollapsed, osdPositions, osdGrab,
               osdCursor, osdSaved, osdLeft>>
play == <<playNow, playCurrent, playElapsed, playLastSeen, playWaiting, playWaitingMs,
          playWaitingSeen, playEarned, playLatest, playClears>>
network == <<netNow, netPresent, netRoute, netOctets, netChanges, netEnabled, netWatched,
             netChecked, netLast, netPrevious, netSamples, netCarried, netRouted, netTrue>>
path == <<pathOpen, pathCollecting, pathCounters, pathRtt, pathAt, pathRows, pathLeft,
          pathPermitted, pathBaseline, pathVerdict, pathWindow, pathJudged, pathEvents>>
guard == <<draw, card, cadence, limits>>
display == <<disReal, disFlips, disDwm, disMishaps, disOn, disWhole, disCorrelator, disDirect,
             disCounted>>
desktop == <<placement, play, network, path, display>>
core == <<part, guard, desktop>>

Draw == INSTANCE OverlayDraw WITH
  closed <- drawClosed, at <- drawAt, failed <- drawFailed, held <- drawHeld,
  policy <- drawPolicy

Card == INSTANCE BoundCard WITH
  Limits <- PowerLimits, Accepted <- AcceptedLimits,
  initialized <- cardInitialized, held <- cardHeld

Cadence == INSTANCE PollCadence WITH
  MaxTime <- Horizon,
  now <- cadNow, at <- cadAt, deadline <- cadDeadline, woke <- cadWoke, counts <- cadCounts,
  answered <- cadAnswered, late <- cadLate, overrun <- cadOverrun, ended <- cadEnded

Limits == INSTANCE FirstRunLimits WITH
  Cards <- FreshCards, None <- Nothing,
  card <- limCard, limit <- limLimit, config <- limConfig, fresh <- limFresh,
  ranged <- limRanged, worker <- limWorker, latched <- limLatched, stored <- limStored,
  storedLatch <- limStoredLatch, fault <- limFault, allowed <- limAllowed,
  reason <- limReason

Placement == INSTANCE OsdPlacement WITH
  None <- Nothing, Margin <- ScreenMargin,
  screens <- osdScreens, at <- osdAt, scale <- osdScale, size <- osdSize,
  collapsed <- osdCollapsed, positions <- osdPositions, grab <- osdGrab,
  cursor <- osdCursor, saved <- osdSaved, left <- osdLeft

Play == INSTANCE PlayTime WITH
  None <- Nothing, MaxTime <- PlayHorizon,
  now <- playNow, current <- playCurrent, elapsed <- playElapsed,
  lastSeen <- playLastSeen, waiting <- playWaiting, waitingMs <- playWaitingMs,
  waitingSeen <- playWaitingSeen, earned <- playEarned, latest <- playLatest,
  clears <- playClears

Network == INSTANCE NetworkRate WITH
  None <- Nothing, Gap <- NetGap, Recheck <- RouteRecheck, Retained <- NetRetained,
  MaxSamples <- NetCapacity, MaxTime <- NetHorizon, MaxChanges <- MaxNetChanges,
  now <- netNow, present <- netPresent, route <- netRoute, octets <- netOctets,
  changes <- netChanges, enabled <- netEnabled, watched <- netWatched,
  checked <- netChecked, last <- netLast, previous <- netPrevious,
  samples <- netSamples, carried <- netCarried, routed <- netRouted, true <- netTrue

Path == INSTANCE PathVerdict WITH
  open <- pathOpen, collecting <- pathCollecting, counters <- pathCounters,
  rtt <- pathRtt, at <- pathAt, rows <- pathRows, left <- pathLeft,
  permitted <- pathPermitted, baseline <- pathBaseline, verdict <- pathVerdict,
  window <- pathWindow, judged <- pathJudged, events <- pathEvents

Display == INSTANCE DisplayedFrames WITH
  Threads <- DisplayThreads, Surfaces <- DisplaySurfaces,
  real <- disReal, flips <- disFlips, dwm <- disDwm, mishaps <- disMishaps, on <- disOn,
  whole <- disWhole, correlator <- disCorrelator, direct <- disDirect,
  counted <- disCounted

(* What has no part in a behaviour.                                        *)
Absent == 0

CoreInit ==
  /\ IF part = "draw" THEN Draw!Init
     ELSE /\ phase = Absent /\ drawClosed = Absent /\ drawAt = Absent /\ job = Absent
          /\ selected = Absent /\ initialized = Absent /\ observed = Absent /\ ambiguous = Absent
          /\ drawFailed = Absent /\ broken = Absent /\ drawHeld = Absent /\ format = Absent
          /\ chain = Absent /\ running = Absent /\ drawPolicy = Absent
  /\ IF part = "card" THEN Card!Init
     ELSE /\ listed = Absent /\ limit = Absent /\ cardInitialized = Absent /\ identity = Absent
          /\ bound = Absent /\ boundUuid = Absent /\ constraints = Absent /\ op = Absent
          /\ result = Absent /\ cardHeld = Absent /\ setters = Absent /\ touched = Absent
  /\ IF part = "cadence" THEN Cadence!Init
     ELSE /\ cadNow = Absent /\ cadAt = Absent /\ cadDeadline = Absent /\ cadWoke = Absent
          /\ cadCounts = Absent /\ cadAnswered = Absent /\ cadLate = Absent /\ cadOverrun = Absent
          /\ cadEnded = Absent
  /\ IF part = "limits" THEN Limits!Init
     ELSE /\ limCard = Absent /\ limLimit = Absent /\ limConfig = Absent /\ limFresh = Absent
          /\ limRanged = Absent /\ limWorker = Absent /\ limLatched = Absent /\ limStored = Absent
          /\ limStoredLatch = Absent /\ limFault = Absent /\ limAllowed = Absent
          /\ limReason = Absent
  /\ IF part = "placement" THEN Placement!Init
     ELSE /\ osdScreens = Absent /\ osdAt = Absent /\ osdScale = Absent /\ osdSize = Absent
          /\ osdCollapsed = Absent /\ osdPositions = Absent /\ osdGrab = Absent
          /\ osdCursor = Absent /\ osdSaved = Absent /\ osdLeft = Absent
  /\ IF part = "play" THEN Play!Init
     ELSE /\ playNow = Absent /\ playCurrent = Absent /\ playElapsed = Absent
          /\ playLastSeen = Absent /\ playWaiting = Absent /\ playWaitingMs = Absent
          /\ playWaitingSeen = Absent /\ playEarned = Absent /\ playLatest = Absent
          /\ playClears = Absent
  /\ IF part = "network" THEN Network!Init
     ELSE /\ netNow = Absent /\ netPresent = Absent /\ netRoute = Absent /\ netOctets = Absent
          /\ netChanges = Absent /\ netEnabled = Absent /\ netWatched = Absent
          /\ netChecked = Absent /\ netLast = Absent /\ netPrevious = Absent /\ netSamples = Absent
          /\ netCarried = Absent /\ netRouted = Absent /\ netTrue = Absent
  /\ IF part = "path" THEN Path!Init
     ELSE /\ pathOpen = Absent /\ pathCollecting = Absent /\ pathCounters = Absent
          /\ pathRtt = Absent /\ pathAt = Absent /\ pathRows = Absent /\ pathLeft = Absent
          /\ pathPermitted = Absent /\ pathBaseline = Absent /\ pathVerdict = Absent
          /\ pathWindow = Absent /\ pathJudged = Absent /\ pathEvents = Absent
  /\ IF part = "display" THEN Display!Init
     ELSE /\ disReal = Absent /\ disFlips = Absent /\ disDwm = Absent /\ disMishaps = Absent
          /\ disOn = Absent /\ disWhole = Absent /\ disCorrelator = Absent
          /\ disDirect = Absent /\ disCounted = Absent

CoreNext ==
  \/ part = "draw"      /\ UNCHANGED <<part, card, cadence, limits, desktop>> /\ Draw!Next
  \/ part = "card"      /\ UNCHANGED <<part, draw, cadence, limits, desktop>> /\ Card!Next
  \/ part = "cadence"   /\ UNCHANGED <<part, draw, card, limits, desktop>>    /\ Cadence!Next
  \/ part = "limits"    /\ UNCHANGED <<part, draw, card, cadence, desktop>>   /\ Limits!Next
  \/ part = "placement" /\ UNCHANGED <<part, guard, play, network, path, display>>
                        /\ Placement!Next
  \/ part = "play"      /\ UNCHANGED <<part, guard, placement, network, path, display>>
                        /\ Play!Next
  \/ part = "network"   /\ UNCHANGED <<part, guard, placement, play, path, display>>
                        /\ Network!Next
  \/ part = "path"      /\ UNCHANGED <<part, guard, placement, play, network, display>>
                        /\ Path!Next
  \/ part = "display"   /\ UNCHANGED <<part, guard, placement, play, network, path>>
                        /\ Display!Next

CoreSpec == CoreInit /\ [][CoreNext]_core

-----------------------------------------------------------------------------
(* The properties of the parts, stated in their modules.                   *)

(* OverlayDraw: the game's resize never fails over buffers of the overlay, *)
(* and nothing is drawn on a chain not seen to be SDR.                     *)
DrawsUnnoticed ==
  part = "draw" => Draw!TypeOK /\ Draw!ResizeUnhindered /\ Draw!SdrOnly

(* BoundCard, PollCadence, FirstRunLimits: a verified write was in force,  *)
(* on the protected card only, every slot of the sensor is sampled once or *)
(* counted as missed, and no limit is raised above every one that was      *)
(* chosen, except to the built-in one.                                     *)
SensedAndWritten ==
  /\ part = "card" => Card!WritesAreHonest
  /\ part = "cadence" => Cadence!SampledOnTime
  /\ part = "limits" => Limits!TypeOK /\ Limits!LimitsHold

(* OsdPlacement: the window follows the hand that drags it, and a restart  *)
(* opens it where it was left on a screen of the primary one's scale.      *)
(* PlayTime: the time shown is all that its program earned in its turn.    *)
(* NetworkRate, PathVerdict: a rate of the network was carried by one      *)
(* adapter, which has the route, and a verdict is of what its connections  *)
(* measured while they were watched, of those whose baseline was read.     *)
(* DisplayedFrames: a counted frame was on the screen.                     *)
KeptAndCounted ==
  /\ [](part = "play" => Play!PlayTimeIsEarned)
  /\ [](part = "network" => Network!NetworkHolds)
  /\ [](part = "path" => Path!VerdictHolds)
  /\ [](part = "display" => Display!TypeOK /\ Display!FlipsPaired)
  /\ [][part = "placement" => Placement!NeverStuck /\ Placement!Reopens]_placement

-----------------------------------------------------------------------------
(* When the sensor is sampled (PollCadence).                               *)

(* What is assumed of the period (kPollIntervalMs).                        *)
CadenceAssumption == Period \in Nat \ {0}

(* The slots from one time to another.                                     *)
SlotsIn(a, b) == {t \in a .. b : t % Period = 0}

CadenceTypes ==
  /\ cadNow \in Nat /\ cadDeadline \in Nat /\ cadWoke \in Nat /\ cadWoke <= cadNow
  /\ cadEnded \in Int /\ -1 <= cadEnded /\ cadEnded <= cadNow
  /\ IsFiniteSet(cadLate) /\ IsFiniteSet(cadOverrun)

(* Every slot is accounted for, and after an iteration the next one is     *)
(* ahead of its end by at most a period.                                   *)
CadenceInv ==
  /\ CadenceTypes
  /\ Cadence!SlotsAreAccounted
  /\ cadEnded = -1 => cadDeadline = 0
  /\ cadEnded # -1 => cadEnded < cadDeadline /\ cadDeadline <= cadEnded + Period

(* Slots are a period apart.                                               *)
LEMMA Multiples ==
  ASSUME CadenceAssumption, NEW t \in Int
  PROVE  /\ t % Period = 0 => \E k \in Int : t = k * Period
         /\ (t * Period) % Period = 0
         /\ \A s \in Int : t < s => t * Period + Period <= s * Period
         /\ t \div Period \in Int
         /\ (t \div Period) * Period <= t /\ t < (t \div Period) * Period + Period
BY DEF CadenceAssumption

(* The slots after one of them and up to a time are as many as the whole   *)
(* periods between.                                                        *)
LEMMA SlotCount ==
  ASSUME CadenceAssumption, NEW d \in Int, d % Period = 0, NEW t \in Int, d <= t
  PROVE  /\ (t - d) \div Period \in Nat
         /\ IsFiniteSet(SlotsIn(d + 1, t))
         /\ Cardinality(SlotsIn(d + 1, t)) = (t - d) \div Period
<1> DEFINE m == (t - d) \div Period
           S == SlotsIn(d + 1, t)
           f == [i \in 1 .. m |-> d + i * Period]
<1>1. PICK k \in Int : d = k * Period
  BY Multiples
<1>2. Period \in Nat /\ Period > 0
  BY DEF CadenceAssumption
<1>3. m \in Int /\ m * Period <= t - d /\ t - d < m * Period + Period
  BY Multiples
<1>4. m \in Nat
  BY <1>2, <1>3
<1> HIDE DEF m
<1>5. \A i \in Int : d + i * Period \in Int /\ (d + i * Period) % Period = 0
  <2> SUFFICES ASSUME NEW i \in Int PROVE d + i * Period \in Int /\ (d + i * Period) % Period = 0
    OBVIOUS
  <2>1. d + i * Period = (k + i) * Period
    BY <1>1, <1>2
  <2> DEFINE q == k + i
  <2>2. q \in Int
    OBVIOUS
  <2> HIDE DEF q
  <2>3. (q * Period) % Period = 0
    BY <2>2, Multiples
  <2>4. d + i * Period = q * Period
    BY <2>1 DEF q
  <2>5. d + i * Period \in Int
    BY <1>2
  <2> QED BY <2>3, <2>4, <2>5
<1>6. \A i \in 1 .. m : d + 1 <= d + i * Period /\ d + i * Period <= t
  <2> SUFFICES ASSUME NEW i \in 1 .. m PROVE d + 1 <= d + i * Period /\ d + i * Period <= t
    OBVIOUS
  <2>1. Period <= i * Period /\ i * Period <= m * Period
    BY <1>2, <1>4
  <2> QED BY <1>2, <1>3, <1>4, <2>1
<1>7. f \in [1 .. m -> S]
  BY <1>4, <1>5, <1>6 DEF SlotsIn
<1>8. \A i, j \in 1 .. m : f[i] = f[j] => i = j
  BY <1>2, <1>4
<1>9. ASSUME NEW s \in S PROVE \E i \in 1 .. m : f[i] = s
  <2>1. s \in Int /\ d + 1 <= s /\ s <= t /\ s % Period = 0
    BY DEF SlotsIn
  <2>2. PICK n \in Int : s = n * Period
    BY <2>1, Multiples
  <2> DEFINE i == n - k
  <2>3. i \in Int /\ s = d + i * Period
    BY <1>1, <1>2, <2>2
  <2>4. 0 < i * Period /\ i * Period <= t - d /\ i * Period < m * Period + Period
    BY <1>2, <1>3, <2>1, <2>3
  <2> HIDE DEF i
  <2>5. 0 < i /\ i <= m
    BY <1>2, <1>4, <2>3, <2>4
  <2>6. i \in 1 .. m
    BY <1>4, <2>3, <2>5
  <2> QED BY <2>3, <2>6
<1>10. f \in Bijection(1 .. m, S)
  <2>1. f \in Injection(1 .. m, S)
    BY <1>7, <1>8 DEF Injection, IsInjective
  <2>2. f \in Surjection(1 .. m, S)
    BY <1>7, <1>9 DEF Surjection
  <2> QED BY <2>1, <2>2 DEF Bijection
<1>11. ExistsBijection(1 .. m, S)
  BY <1>10 DEF ExistsBijection
<1>12. IsFiniteSet(1 .. m) /\ Cardinality(1 .. m) = m
  BY <1>4, FS_Interval
<1> QED BY <1>4, <1>11, <1>12, FS_Bijection DEF m

(* AdvanceDeadline, at and after the slot, goes to the first slot that is  *)
(* still to come.                                                          *)
LEMMA Advances ==
  ASSUME CadenceAssumption, NEW d \in Int, NEW c \in Int
  PROVE  /\ c < d => Cadence!AdvanceDeadline(d, c) = [next |-> d + Period, missed |-> 0]
         /\ d <= c => Cadence!AdvanceDeadline(d, c) =
              [next |-> d + ((c - d) \div Period) * Period + Period,
               missed |-> (c - d) \div Period]
<1> DEFINE m == (c - d) \div Period
           e == (c - (d + Period)) \div Period + 1
<1>1. Period \in Nat /\ Period > 0
  BY DEF CadenceAssumption
<1>2. m \in Int /\ m * Period <= c - d /\ c - d < m * Period + Period
  BY Multiples
<1>3. e = m
  <2>1. e - 1 \in Int /\ (e - 1) * Period <= c - (d + Period)
        /\ c - (d + Period) < (e - 1) * Period + Period
    BY <1>1, Multiples
  <2> HIDE DEF e, m
  <2>2. e * Period <= c - d /\ c - d < e * Period + Period /\ e \in Int
    <3>1. e \in Int
      BY <2>1, <1>1 DEF e
    <3> QED BY <1>1, <2>1, <3>1
  <2> QED BY <1>1, <1>2, <2>2
<1>4. c < d => ~(d + Period <= c)
  BY <1>1
<1>5. d <= c /\ ~(d + Period <= c) => m = 0
  BY <1>1, <1>2
<1>6. d + Period + m * Period = d + m * Period + Period
  BY <1>1, <1>2
<1>7. Cadence!AdvanceDeadline(d, c) =
        IF d + Period <= c THEN [next |-> d + Period + e * Period, missed |-> e]
                           ELSE [next |-> d + Period, missed |-> 0]
  BY DEF Cadence!AdvanceDeadline
<1>8. CASE d + Period <= c
  BY <1>1, <1>3, <1>4, <1>6, <1>7, <1>8
<1>9. CASE ~(d + Period <= c)
  BY <1>1, <1>5, <1>7, <1>9
<1> QED BY <1>8, <1>9

(* The slots of a stretch are those of its two parts.                      *)
LEMMA Stretches ==
  ASSUME NEW a \in Int, NEW b \in Int, NEW c \in Int, a <= b + 1, b <= c
  PROVE  /\ SlotsIn(a, c) = SlotsIn(a, b) \cup SlotsIn(b + 1, c)
         /\ SlotsIn(a, b) \cap SlotsIn(b + 1, c) = {}
BY DEF SlotsIn

(* No slot lies strictly between two that are a period apart.              *)
LEMMA Gap ==
  ASSUME CadenceAssumption, NEW d \in Int, d % Period = 0
  PROVE  /\ SlotsIn(d, d + Period - 1) = {d}
         /\ (d + Period) % Period = 0
<1>1. Period \in Nat /\ Period > 0
  BY DEF CadenceAssumption
<1>2. PICK k \in Int : d = k * Period
  BY Multiples
<1>3. k + 1 \in Int /\ (k + 1) * Period = d + Period
  BY <1>1, <1>2
<1>4. (d + Period) % Period = 0
  <2> DEFINE t == k + 1
  <2>1. t \in Int /\ t * Period = d + Period
    BY <1>3
  <2> HIDE DEF t
  <2> QED BY <2>1, Multiples
<1>5. ASSUME NEW s \in SlotsIn(d, d + Period - 1) PROVE s = d
  <2>1. s \in Int /\ d <= s /\ s < d + Period /\ s % Period = 0
    BY <1>1 DEF SlotsIn
  <2>2. PICK n \in Int : s = n * Period
    BY <2>1, Multiples
  <2>3. ~(n < k) /\ ~(k < n)
    BY <1>1, <1>2, <2>1, <2>2, Multiples
  <2> QED BY <1>2, <2>2, <2>3
<1>6. d \in SlotsIn(d, d + Period - 1)
  BY <1>1 DEF SlotsIn
<1> QED BY <1>4, <1>5, <1>6

(* How many slots passed before and after a time between a slot and now.   *)
LEMMA Missed ==
  ASSUME CadenceAssumption, NEW d \in Int, d % Period = 0,
         NEW v \in Int, NEW n \in Int, d <= v, v <= n
  PROVE  /\ (v - d) \div Period \in Nat /\ (n - d) \div Period \in Nat
         /\ (v - d) \div Period <= (n - d) \div Period
         /\ IsFiniteSet(SlotsIn(d + 1, v)) /\ IsFiniteSet(SlotsIn(v + 1, n))
         /\ IsFiniteSet(SlotsIn(d + 1, n))
         /\ Cardinality(SlotsIn(d + 1, n)) = (n - d) \div Period
         /\ Cardinality(SlotsIn(d + 1, v)) = (v - d) \div Period
         /\ Cardinality(SlotsIn(v + 1, n)) = (n - d) \div Period - (v - d) \div Period
<1> DEFINE A == SlotsIn(d + 1, v)
           B == SlotsIn(v + 1, n)
           C == SlotsIn(d + 1, n)
<1>1. (v - d) \div Period \in Nat /\ IsFiniteSet(A) /\ Cardinality(A) = (v - d) \div Period
  BY SlotCount
<1>2. (n - d) \div Period \in Nat /\ IsFiniteSet(C) /\ Cardinality(C) = (n - d) \div Period
  <2>1. d <= n
    OBVIOUS
  <2> QED BY <2>1, SlotCount
<1>3. C = A \cup B /\ A \cap B = {}
  <2>1. d + 1 \in Int /\ d + 1 <= v + 1
    OBVIOUS
  <2> QED BY <2>1, Stretches
<1>4. IsFiniteSet(B)
  BY <1>2, <1>3, FS_Subset
<1> HIDE DEF A, B, C
<1>5. Cardinality(C) = Cardinality(A) + Cardinality(B) - Cardinality(A \cap B)
  BY <1>1, <1>3, <1>4, FS_Union
<1>6. Cardinality(A \cap B) = 0
  BY <1>3, FS_EmptySet
<1>7. Cardinality(B) \in Nat /\ Cardinality(A) \in Nat /\ Cardinality(C) \in Nat
  BY <1>1, <1>2, <1>4, FS_CardinalityType
<1>8. Cardinality(C) = Cardinality(A) + Cardinality(B)
  BY <1>5, <1>6, <1>7
<1> DEFINE a == (v - d) \div Period
           c == (n - d) \div Period
<1>9. a \in Nat /\ c \in Nat /\ Cardinality(A) = a /\ Cardinality(C) = c
  BY <1>1, <1>2
<1> HIDE DEF a, c
<1>10. a <= c /\ Cardinality(B) = c - a
  BY <1>7, <1>8, <1>9
<1> QED BY <1>1, <1>2, <1>4, <1>9, <1>10 DEF A, B, C, a, c

(* The slots up to now are those up to the next.                           *)
LEMMA NextIsNext ==
  ASSUME CadenceAssumption, NEW d \in Int, d % Period = 0, NEW n \in Int, d <= n, 0 <= d,
         NEW next, next = d + ((n - d) \div Period) * Period + Period
  PROVE  /\ next \in Int /\ next % Period = 0
         /\ n < next /\ next <= n + Period
         /\ SlotsIn(0, next - 1) = SlotsIn(0, d - 1) \cup {d} \cup SlotsIn(d + 1, n)
<1> DEFINE m == (n - d) \div Period
           e == d + m * Period
<1>1. Period \in Nat /\ Period > 0
  BY DEF CadenceAssumption
<1>2. m \in Int /\ m * Period <= n - d /\ n - d < m * Period + Period
  BY Multiples
<1>3. e \in Int /\ e <= n /\ n < e + Period /\ e + Period <= n + Period
  BY <1>1, <1>2
<1>4. PICK k \in Int : d = k * Period
  BY Multiples
<1>5. e % Period = 0
  <2> DEFINE t == k + m
  <2>1. t \in Int /\ t * Period = e
    BY <1>1, <1>2, <1>4
  <2> HIDE DEF t, e
  <2> QED BY <2>1, Multiples
<1> HIDE DEF e
<1>6. SlotsIn(e, e + Period - 1) = {e} /\ (e + Period) % Period = 0
  BY <1>3, <1>5, Gap
<1>7. SlotsIn(n + 1, e + Period - 1) = {}
  BY <1>1, <1>3, <1>6 DEF SlotsIn
<1>8. SlotsIn(0, e + Period - 1) = SlotsIn(0, n) \cup SlotsIn(n + 1, e + Period - 1)
  <2>1. 0 <= n + 1 /\ n <= e + Period - 1 /\ e + Period - 1 \in Int /\ 0 \in Int
    BY <1>1, <1>3
  <2> QED BY <2>1, Stretches
<1>9. SlotsIn(0, n) = SlotsIn(0, d - 1) \cup SlotsIn(d, n)
  BY DEF SlotsIn
<1>10. SlotsIn(d, n) = {d} \cup SlotsIn(d + 1, n)
  BY DEF SlotsIn
<1>11. e + Period = next
  BY DEF e
<1>12. SlotsIn(0, e + Period - 1) = SlotsIn(0, d - 1) \cup {d} \cup SlotsIn(d + 1, n)
  BY <1>7, <1>8, <1>9, <1>10
<1>13. e + Period \in Int /\ n < e + Period /\ e + Period <= n + Period
  BY <1>1, <1>3
<1>14. next % Period = 0
  BY <1>6, <1>11
<1>15. SlotsIn(0, next - 1) = SlotsIn(0, d - 1) \cup {d} \cup SlotsIn(d + 1, n)
  <2>1. e \in Int /\ Period \in Int /\ e + Period \in Int /\ next \in Int
    BY <1>1, <1>3, <1>11
  <2>2. e + Period - 1 = next - 1
    BY <1>11, <2>1
  <2>3. SlotsIn(0, e + Period - 1) = SlotsIn(0, next - 1)
    BY ONLY <2>2
  <2> QED BY <1>12, <2>3
<1>16. next \in Int /\ n < next /\ next <= n + Period
  BY <1>11, <1>13
<1> QED BY <1>14, <1>15, <1>16

(* What ClassifyCadence says: the slots missed before and after the wake   *)
(* and the next slot.                                                      *)
LEMMA Classified ==
  ASSUME CadenceAssumption, NEW d \in Int, d % Period = 0,
         NEW w \in Int, NEW n \in Int, w <= n, d <= n,
         NEW v, v = IF d <= w THEN w ELSE d
  PROVE  Cadence!ClassifyCadence(d, w, n) =
           [next |-> d + ((n - d) \div Period) * Period + Period,
            wake |-> (v - d) \div Period,
            execution |-> (n - d) \div Period - (v - d) \div Period,
            total |-> (n - d) \div Period]
<1> DEFINE a == (v - d) \div Period
           c == (n - d) \div Period
           x == d + c * Period + Period
<1>1. Period \in Nat /\ Period > 0 /\ v \in Int /\ d <= v /\ v <= n
  BY DEF CadenceAssumption
<1>2. a \in Nat /\ c \in Nat /\ a <= c
  BY <1>1, Missed
<1>3. Cadence!AdvanceDeadline(d, n) = [next |-> x, missed |-> c]
  BY Advances
<1>4. Cadence!AdvanceDeadline(d, w).missed = a
  <2>1. CASE d <= w
    BY <2>1, Advances
  <2>2. CASE ~(d <= w)
    <3>1. Cadence!AdvanceDeadline(d, w) = [next |-> d + Period, missed |-> 0]
      BY <2>2, Advances
    <3>2. a = 0
      BY <1>1, <2>2
    <3> QED BY <3>1, <3>2
  <2> QED BY <2>1, <2>2
<1> HIDE DEF a, c, x
<1>5. Cadence!Min({a, c}) = a
  <2>1. a \in {a, c} /\ \A y \in {a, c} : a <= y
    BY <1>2
  <2>2. \A z \in {a, c} : (\A y \in {a, c} : z <= y) => z = a
    BY <1>2
  <2> QED BY <2>1, <2>2 DEF Cadence!Min
<1>6. Cadence!ClassifyCadence(d, w, n)
        = [next |-> x, wake |-> a, execution |-> c - a, total |-> c]
  BY <1>3, <1>4, <1>5 DEF Cadence!ClassifyCadence
<1> QED BY <1>6 DEF a, c, x

(* Counting sets without common elements.                                  *)
LEMMA Disjoint ==
  ASSUME NEW S, IsFiniteSet(S), NEW T, IsFiniteSet(T), S \cap T = {}
  PROVE  /\ IsFiniteSet(S \cup T)
         /\ Cardinality(S \cup T) = Cardinality(S) + Cardinality(T)
<1>1. Cardinality(S \cap T) = 0
  BY FS_EmptySet
<1>2. Cardinality(S) \in Nat /\ Cardinality(T) \in Nat
  BY FS_CardinalityType
<1>3. IsFiniteSet(S \cup T)
      /\ Cardinality(S \cup T) = Cardinality(S) + Cardinality(T) - Cardinality(S \cap T)
  BY FS_Union
<1> QED BY <1>1, <1>2, <1>3

-----------------------------------------------------------------------------
(* PollCadence counts with the Cardinality this module reasons about.      *)
LEMMA CountsAlike == ASSUME NEW S PROVE Cadence!Cardinality(S) = Cardinality(S)
BY DEF Cadence!Cardinality, Cardinality

LEMMA CadenceInitially ==
  ASSUME CadenceAssumption PROVE Cadence!Init => CadenceInv
<1>1. Period \in Nat /\ Period > 0
  BY DEF CadenceAssumption
<1> SUFFICES ASSUME Cadence!Init PROVE CadenceInv
  OBVIOUS
<1>2. IsFiniteSet({}) /\ Cardinality({}) = 0
  BY FS_EmptySet
<1>3. {t \in 0 .. 0 - 1 : t % Period = 0} = {}
  OBVIOUS
<1>4. 0 % Period = 0
  BY <1>1
<1>5. {} \cup {} = {}
  OBVIOUS
<1>6. Cadence!SlotsAreAccounted
  BY <1>2, <1>3, <1>4, <1>5, CountsAlike DEF Cadence!Init, Cadence!SlotsAreAccounted
<1>7. CadenceTypes
  BY <1>2 DEF Cadence!Init, CadenceTypes
<1> QED BY <1>6, <1>7 DEF Cadence!Init, CadenceInv

(* An iteration for a command, before the slot, answers no slot.           *)
LEMMA EarlySound ==
  ASSUME CadenceAssumption, CadenceInv, Cadence!Complete, cadNow < cadDeadline PROVE CadenceInv'
<1>1. CadenceTypes /\ Cadence!SlotsAreAccounted /\ (cadEnded # -1 => cadEnded < cadDeadline
        /\ cadDeadline <= cadEnded + Period)
      /\ (cadEnded = -1 => cadDeadline = 0)
  BY DEF CadenceInv
<1>2. cadNow \in Nat /\ cadDeadline \in Nat
  BY <1>1 DEF CadenceTypes
<1>3. Cadence!ClassifyCadence(cadDeadline, cadWoke, cadNow) =
        [next |-> cadDeadline, wake |-> 0, execution |-> 0, total |-> 0]
  BY DEF Cadence!ClassifyCadence
<1>4. /\ cadDeadline' = cadDeadline /\ cadAnswered' = cadAnswered /\ cadEnded' = cadNow
      /\ cadNow' = cadNow /\ cadWoke' = cadWoke
      /\ cadCounts' = [wake |-> cadCounts.wake + 0, execution |-> cadCounts.execution + 0,
                    total |-> cadCounts.total + 0]
      /\ cadLate' = cadLate \cup {t \in {} : t <= cadWoke}
      /\ cadOverrun' = cadOverrun \cup {t \in {} : t > cadWoke}
  BY <1>3 DEF Cadence!Complete
<1>5. cadLate' = cadLate /\ cadOverrun' = cadOverrun
  BY <1>4
<1>6. Cardinality(cadLate) \in Nat /\ Cardinality(cadOverrun) \in Nat
      /\ Cardinality(cadLate \cup cadOverrun) \in Nat
  BY <1>1, FS_CardinalityType, FS_Union DEF CadenceTypes
<1>7. cadCounts' = cadCounts
  BY <1>1, <1>4, <1>6, CountsAlike DEF Cadence!SlotsAreAccounted
<1>8. Cadence!SlotsAreAccounted'
  BY <1>1, <1>4, <1>5, <1>7 DEF Cadence!SlotsAreAccounted
<1>9. CadenceTypes'
  BY <1>1, <1>4, <1>5 DEF CadenceTypes
<1>10. cadNow < cadDeadline /\ cadDeadline <= cadNow + Period
  BY <1>1, <1>2 DEF CadenceTypes, CadenceAssumption
<1> QED BY <1>2, <1>4, <1>8, <1>9, <1>10 DEF CadenceInv

(* The end of an iteration at or after its slot.                           *)
LEMMA AnsweredSound ==
  ASSUME CadenceAssumption, CadenceInv, Cadence!Complete,
      ~(cadNow < cadDeadline) PROVE CadenceInv'
<1> DEFINE v == IF cadDeadline <= cadWoke THEN cadWoke ELSE cadDeadline
           a == (v - cadDeadline) \div Period
           c == (cadNow - cadDeadline) \div Period
           next == cadDeadline + c * Period + Period
           L == SlotsIn(cadDeadline + 1, v)
           O == SlotsIn(v + 1, cadNow)
           P == SlotsIn(cadDeadline + 1, cadNow)
           B == SlotsIn(0, cadDeadline - 1)
<1>1. CadenceTypes /\ Cadence!SlotsAreAccounted
  BY DEF CadenceInv
<1>2. /\ cadNow \in Nat /\ cadDeadline \in Nat /\ cadWoke \in Nat /\ cadWoke <= cadNow
           /\ cadDeadline <= cadNow
      /\ IsFiniteSet(cadLate) /\ IsFiniteSet(cadOverrun)
  BY <1>1 DEF CadenceTypes
<1>3. v \in Nat /\ cadDeadline <= v /\ v <= cadNow
  BY <1>2
<1>4. cadDeadline % Period = 0
  BY <1>1 DEF Cadence!SlotsAreAccounted
<1>5. /\ a \in Nat /\ c \in Nat /\ a <= c
      /\ IsFiniteSet(L) /\ Cardinality(L) = a
      /\ IsFiniteSet(O) /\ Cardinality(O) = c - a
      /\ IsFiniteSet(P) /\ Cardinality(P) = c
  <2>1. cadDeadline \in Int /\ v \in Int /\ cadNow \in Int
    BY <1>2, <1>3
  <2> HIDE DEF v
  <2> QED BY <1>3, <1>4, <2>1, Missed
<1>6. Cadence!ClassifyCadence(cadDeadline, cadWoke, cadNow) =
        [next |-> next, wake |-> a, execution |-> c - a, total |-> c]
  <2>1. cadDeadline \in Int /\ cadWoke \in Int /\ cadNow \in Int
    BY <1>2
  <2> QED BY <1>2, <1>4, <2>1, Classified
<1>7. /\ next \in Int /\ next % Period = 0 /\ cadNow < next /\ next <= cadNow + Period
      /\ SlotsIn(0, next - 1) = B \cup {cadDeadline} \cup P
  <2>1. cadDeadline \in Int /\ cadNow \in Int /\ 0 <= cadDeadline
    BY <1>2
  <2> QED BY <1>2, <1>4, <2>1, NextIsNext
<1>8. P = L \cup O /\ L \cap O = {}
  <2>1. cadDeadline + 1 \in Int /\ v \in Int /\ cadNow \in Int /\ cadDeadline + 1 <= v + 1
    BY <1>2, <1>3
  <2> HIDE DEF v
  <2> QED BY <1>3, <2>1, Stretches
<1>9. B \cap P = {} /\ cadDeadline \notin B /\ cadDeadline \notin P
  BY <1>2 DEF SlotsIn
<1>10. {t \in P : t <= cadWoke} = L /\ {t \in P : t > cadWoke} = O
  BY <1>2 DEF SlotsIn
<1>11. P = {t \in cadDeadline + 1 .. cadNow : t % Period = 0}
  BY DEF SlotsIn
<1> HIDE DEF v, a, c, next, L, O, P, B
<1>12. /\ cadDeadline' = next /\ cadEnded' = cadNow /\ cadNow' = cadNow /\ cadWoke' = cadWoke
       /\ cadAnswered' = cadAnswered \cup {cadDeadline}
       /\ cadCounts' = [wake |-> cadCounts.wake + a, execution |-> cadCounts.execution + (c - a),
                     total |-> cadCounts.total + c]
       /\ cadLate' = cadLate \cup {t \in P : t <= cadWoke}
       /\ cadOverrun' = cadOverrun \cup {t \in P : t > cadWoke}
  BY <1>6, <1>11 DEF Cadence!Complete
<1>13. cadLate' = cadLate \cup L /\ cadOverrun' = cadOverrun \cup O
  BY <1>10, <1>12
<1>14. /\ cadCounts = [wake |-> Cardinality(cadLate), execution |-> Cardinality(cadOverrun),
                    total |-> Cardinality(cadLate \cup cadOverrun)]
       /\ cadAnswered \cap (cadLate \cup cadOverrun) = {} /\ cadLate \cap cadOverrun = {}
       /\ cadAnswered \cup cadLate \cup cadOverrun = B
  BY <1>1, CountsAlike DEF Cadence!SlotsAreAccounted, SlotsIn, B
<1>15. cadLate \cap L = {} /\ cadOverrun \cap O = {} /\ (cadLate \cup cadOverrun) \cap P = {}
  BY <1>8, <1>9, <1>14
<1>16. Cardinality(cadLate') = Cardinality(cadLate) + a
  BY <1>2, <1>5, <1>13, <1>15, Disjoint
<1>17. Cardinality(cadOverrun') = Cardinality(cadOverrun) + (c - a)
  BY <1>2, <1>5, <1>13, <1>15, Disjoint
<1>18. cadLate' \cup cadOverrun' = (cadLate \cup cadOverrun) \cup P
  BY <1>8, <1>13
<1>19. IsFiniteSet(cadLate \cup cadOverrun)
  BY <1>2, FS_Union
<1>20. Cardinality(cadLate' \cup cadOverrun') = Cardinality(cadLate \cup cadOverrun) + c
  BY <1>5, <1>15, <1>18, <1>19, Disjoint
<1>21. cadCounts' = [wake |-> Cardinality(cadLate'), execution |-> Cardinality(cadOverrun'),
                  total |-> Cardinality(cadLate' \cup cadOverrun')]
  BY <1>12, <1>14, <1>16, <1>17, <1>20
<1>22. cadLate' \cap cadOverrun' = {} /\ cadAnswered' \cap (cadLate' \cup cadOverrun') = {}
  BY <1>8, <1>9, <1>12, <1>13, <1>14, <1>15
<1>23. cadAnswered' \cup (cadLate' \cup cadOverrun') = SlotsIn(0, next - 1)
  BY <1>7, <1>12, <1>14, <1>18
<1>24. Cadence!SlotsAreAccounted'
  <2>1. (LET missed == cadLate \cup cadOverrun
         IN /\ cadCounts = [wake      |-> Cardinality(cadLate),
                         execution |-> Cardinality(cadOverrun),
                         total     |-> Cardinality(missed)]
            /\ cadAnswered \cap missed = {} /\ cadLate \cap cadOverrun = {}
            /\ cadAnswered \cup missed = {t \in 0 .. cadDeadline - 1 : t % Period = 0}
            /\ cadDeadline % Period = 0)'
    BY <1>7, <1>12, <1>21, <1>22, <1>23 DEF SlotsIn
  <2> QED BY <2>1, CountsAlike DEF Cadence!SlotsAreAccounted
<1>25. IsFiniteSet(cadLate') /\ IsFiniteSet(cadOverrun')
  BY <1>2, <1>5, <1>13, FS_Union
<1>26. CadenceTypes'
  BY <1>2, <1>7, <1>12, <1>25 DEF CadenceTypes
<1> QED BY <1>2, <1>7, <1>12, <1>24, <1>26 DEF CadenceInv

LEMMA CadenceStep ==
  ASSUME CadenceAssumption PROVE CadenceInv /\ [Cadence!Next]_(Cadence!vars) => CadenceInv'
<1> SUFFICES ASSUME CadenceInv, [Cadence!Next]_(Cadence!vars) PROVE CadenceInv'
  OBVIOUS
<1>1. CASE Cadence!ArmDeadline
  BY <1>1 DEF Cadence!ArmDeadline, CadenceInv, CadenceTypes, Cadence!SlotsAreAccounted
<1>2. CASE Cadence!Wake
  BY <1>2 DEF Cadence!Wake, CadenceInv, CadenceTypes, Cadence!SlotsAreAccounted
<1>3. CASE Cadence!Complete
  BY <1>3, EarlySound, AnsweredSound
<1>4. CASE Cadence!TimePasses
  BY <1>4 DEF Cadence!TimePasses, CadenceInv, CadenceTypes, Cadence!SlotsAreAccounted
<1>5. CASE UNCHANGED Cadence!vars
  BY <1>5 DEF Cadence!vars, CadenceInv, CadenceTypes, Cadence!SlotsAreAccounted
<1> QED BY <1>1, <1>2, <1>3, <1>4, <1>5 DEF Cadence!Next

LEMMA CadenceFollows == CadenceInv => Cadence!SampledOnTime
BY DEF CadenceInv, Cadence!SampledOnTime

(* For every period, every lateness of the thread and of the driver: each  *)
(* slot was answered by one iteration or counted as missed once, and the   *)
(* next one is at most a period after the end of the last iteration        *)
(* (protection_timing.hpp, AdvanceDeadline and ClassifyCadence).           *)
THEOREM SlotsAreCounted == ASSUME CadenceAssumption PROVE Cadence!Spec => []Cadence!SampledOnTime
<1>1. Cadence!Init => CadenceInv
  BY CadenceInitially
<1>2. CadenceInv /\ [Cadence!Next]_(Cadence!vars) => CadenceInv'
  BY CadenceStep
<1>3. CadenceInv => Cadence!SampledOnTime
  BY CadenceFollows
<1> QED BY <1>1, <1>2, <1>3, PTL DEF Cadence!Spec

-----------------------------------------------------------------------------
(* What a write of a limit is worth (BoundCard).                           *)

(* No identity of a card is the empty one.                                 *)
CardAssumption == Nothing \notin Cards

Writes == [stage : {"Idle", "Set", "Read", "Recheck"}, requested : PowerLimits \cup {Nothing}]
Results == [verified : BOOLEAN, retryable : BOOLEAN, onRecheck : BOOLEAN]

CardTypes ==
  /\ \A i \in DOMAIN listed : listed[i] \in Cards
  /\ DOMAIN limit = Cards
  /\ bound \in Cards \cup {Nothing} /\ identity \in Cards \cup {Nothing}
  /\ op \in Writes /\ result \in Results
  /\ cardHeld \in BOOLEAN /\ setters \in {0, 1}

(* The handle is of the card that was first protected, and a write under   *)
(* way has a handle.                                                       *)
BoundIsProtected ==
  /\ bound \in {Nothing, identity}
  /\ touched \subseteq {identity} \ {Nothing}

(* A write calls its setter once, on its way to the read-back.             *)
WrittenOnce ==
  /\ op.stage = "Idle" => op = Card!Idle
  /\ op.stage # "Idle" => bound # Nothing
  /\ op.stage = "Set" => setters = 0

(* Whatever the limit is now, if it is the one asked for it was so after   *)
(* the setter.                                                             *)
HeldIsSeen ==
  /\ op.stage \in {"Read", "Recheck"} /\ limit[bound] = op.requested => cardHeld
  /\ op = Card!Idle /\ result.verified => cardHeld
  /\ ~(result.verified /\ result.retryable)

CardInv == CardTypes /\ BoundIsProtected /\ WrittenOnce /\ HeldIsSeen

LEMMA CardInitially == ASSUME CardAssumption PROVE Card!Init => CardInv
<1> SUFFICES ASSUME Card!Init PROVE CardInv
  OBVIOUS
<1>1. \A i \in DOMAIN listed : listed[i] \in Cards
  BY DEF Card!Init, Card!Orders
<1>2. Card!Idle \in Writes /\ Card!Idle.stage = "Idle"
  BY DEF Card!Idle, Writes
<1>3. Card!Failure(FALSE) \in Results /\ Card!Failure(FALSE).verified = FALSE
  BY DEF Card!Failure, Results
<1>4. CardTypes
  BY <1>1, <1>2, <1>3 DEF Card!Init, CardTypes
<1>5. BoundIsProtected /\ WrittenOnce
  BY <1>2 DEF Card!Init, BoundIsProtected, WrittenOnce
<1>6. HeldIsSeen
  BY <1>2, <1>3 DEF Card!Init, HeldIsSeen
<1> QED BY <1>4, <1>5, <1>6 DEF CardInv

LEMMA Failures ==
  ASSUME NEW retryable \in BOOLEAN
  PROVE  /\ Card!Failure(retryable) \in Results
         /\ Card!Failure(retryable).verified = FALSE
BY DEF Card!Failure, Results

(* The end of a write, whatever it found.                                  *)
LEMMA EndOfWrite ==
  ASSUME CardInv, NEW r \in Results, Card!Finish(r), r.verified => cardHeld',
         ~(r.verified /\ r.retryable),
         DOMAIN limit' = Cards, cardHeld' \in BOOLEAN, setters' \in {0, 1},
         touched' \subseteq {identity} \ {Nothing},
         UNCHANGED <<listed, Card!binding>>
  PROVE  CardInv'
<1>1. op' = Card!Idle /\ result' = r /\ UNCHANGED <<listed, identity, bound>>
  BY DEF Card!Finish, Card!binding
<1>2. Card!Idle \in Writes /\ Card!Idle.stage = "Idle"
  BY DEF Card!Idle, Writes
<1>3. CardTypes'
  BY <1>1, <1>2 DEF CardInv, CardTypes
<1>4. BoundIsProtected' /\ WrittenOnce'
  BY <1>1, <1>2 DEF CardInv, BoundIsProtected, WrittenOnce
<1>5. HeldIsSeen'
  BY <1>1, <1>2 DEF HeldIsSeen
<1> QED BY <1>3, <1>4, <1>5 DEF CardInv

LEMMA LoadSound == ASSUME CardInv, Card!Initialize PROVE CardInv'
<1>1. /\ op = Card!Idle /\ bound' = Nothing
      /\ UNCHANGED <<listed, limit, identity, op, result, cardHeld, setters, touched>>
  BY DEF Card!Initialize, Card!writing
<1>2. Card!Idle.stage = "Idle"
  BY DEF Card!Idle
<1>3. CardTypes'
  BY <1>1 DEF CardInv, CardTypes
<1>4. BoundIsProtected' /\ WrittenOnce' /\ HeldIsSeen'
  BY <1>1, <1>2 DEF CardInv, BoundIsProtected, WrittenOnce, HeldIsSeen
<1> QED BY <1>3, <1>4 DEF CardInv

(* The first card that is bound gives the identity, and later none but     *)
(* that card is bound.                                                     *)
LEMMA BindSound == ASSUME CardAssumption, CardInv, Card!BindProtectedCard PROVE CardInv'
<1>1. /\ op = Card!Idle /\ identity' = (IF identity = Nothing THEN boundUuid' ELSE identity)
      /\ UNCHANGED <<listed, limit, op, result, cardHeld, setters, touched>>
  BY DEF Card!BindProtectedCard, Card!writing
<1>2. /\ bound' \in Cards \cup {Nothing} /\ identity' \in Cards \cup {Nothing}
      /\ bound' \in {Nothing, identity'} /\ touched \subseteq {identity'} \ {Nothing}
  <2>1. CASE identity = Nothing
    <3>1. bound' = boundUuid' /\ bound' \in Cards \cup {Nothing}
      BY <2>1
      DEF Card!BindProtectedCard, Card!BindDevice, Card!Bind, Card!Unbind, CardInv, CardTypes
    <3> QED BY <1>1, <2>1, <3>1 DEF CardInv, BoundIsProtected
  <2>2. CASE identity # Nothing
    <3>1. bound' \in {Nothing, identity}
      BY <2>2 DEF Card!BindProtectedCard, Card!BindByUuid, Card!Bind, Card!Unbind
    <3> QED BY <1>1, <2>2, <3>1 DEF CardInv, CardTypes, BoundIsProtected
  <2> QED BY <2>1, <2>2
<1>3. CardTypes' /\ BoundIsProtected'
  BY <1>1, <1>2 DEF CardInv, CardTypes, BoundIsProtected
<1>4. WrittenOnce' /\ HeldIsSeen'
  <2>1. Card!Idle.stage = "Idle"
    BY DEF Card!Idle
  <2> QED BY <1>1, <2>1 DEF CardInv, WrittenOnce, HeldIsSeen
<1> QED BY <1>3, <1>4 DEF CardInv

LEMMA BeginWriteSound == ASSUME CardInv, NEW w \in PowerLimits, Card!BeginWrite(w) PROVE CardInv'
<1>1. /\ op = Card!Idle /\ setters' = 0 /\ cardHeld' = FALSE
      /\ UNCHANGED <<listed, limit, identity, bound, touched>>
  BY DEF Card!BeginWrite, Card!binding
<1>2. BoundIsProtected'
  BY <1>1 DEF CardInv, BoundIsProtected
<1>3. CASE bound # Nothing /\ op' = [stage |-> "Set", requested |-> w] /\ UNCHANGED result
  <2>1. op' \in Writes /\ op'.stage = "Set" /\ op' # Card!Idle
    BY <1>3 DEF Card!Idle, Writes
  <2>2. CardTypes'
    BY <1>1, <1>3, <2>1 DEF CardInv, CardTypes
  <2>3. WrittenOnce' /\ HeldIsSeen'
    BY <1>1, <1>3, <2>1 DEF CardInv, WrittenOnce, HeldIsSeen
  <2> QED BY <1>2, <2>2, <2>3 DEF CardInv
<1>4. CASE result' = Card!Failure(FALSE) /\ UNCHANGED op
  <2>1. Card!Idle.stage = "Idle"
    BY DEF Card!Idle
  <2>2. result' \in Results /\ result'.verified = FALSE
    BY <1>4, Failures
  <2>3. CardTypes'
    BY <1>1, <1>4, <2>2 DEF CardInv, CardTypes
  <2>4. WrittenOnce' /\ HeldIsSeen'
    BY <1>1, <1>4, <2>1, <2>2 DEF CardInv, WrittenOnce, HeldIsSeen
  <2> QED BY <1>2, <2>3, <2>4 DEF CardInv
<1> QED BY <1>3, <1>4 DEF Card!BeginWrite

(* The setter reaches the protected card and no other.                     *)
LEMMA SetterSound == ASSUME CardInv, Card!Setter PROVE CardInv'
<1>1. /\ op.stage = "Set" /\ op \in Writes /\ bound # Nothing /\ bound = identity
      /\ bound \in Cards /\ DOMAIN limit = Cards
  BY DEF Card!Setter, CardInv, CardTypes, WrittenOnce, BoundIsProtected
<1>2. setters = 0
  BY <1>1 DEF CardInv, WrittenOnce
<1>3. PICK code \in Card!Codes, got \in AcceptedLimits[bound] \cup {limit[bound]} :
        /\ limit' = [limit EXCEPT ![bound] = got]
        /\ cardHeld' = (code = "Success" /\ got = op.requested)
        /\ IF code = "Success"
           THEN op' = [op EXCEPT !.stage = "Read"] /\ UNCHANGED result
           ELSE Card!Finish(Card!Failure(code = "Retryable"))
  BY DEF Card!Setter
<1>4. /\ setters' = 1 /\ touched' = touched \cup {bound} /\ UNCHANGED <<listed, Card!binding>>
      /\ DOMAIN limit' = Cards /\ limit'[bound] = got
  BY <1>1, <1>2, <1>3 DEF Card!Setter
<1>5. touched' \subseteq {identity} \ {Nothing}
  BY <1>1, <1>4 DEF CardInv, BoundIsProtected
<1>6. CASE code = "Success"
  <2>1. op' = [op EXCEPT !.stage = "Read"] /\ UNCHANGED result /\ cardHeld' = (got = op.requested)
    BY <1>3, <1>6
  <2>2. op' \in Writes /\ op'.stage = "Read" /\ op'.requested = op.requested
    BY <1>1, <2>1 DEF Writes
  <2>3. op'.stage # Card!Idle.stage
    BY <2>2 DEF Card!Idle
  <2>4. cardHeld' \in BOOLEAN
    BY <2>1
  <2>5. CardTypes'
    BY <1>4, <2>1, <2>2, <2>4 DEF CardInv, CardTypes, Card!binding
  <2>6. BoundIsProtected' /\ WrittenOnce'
    BY <1>1, <1>4, <1>5, <2>2 DEF CardInv, BoundIsProtected, WrittenOnce, Card!binding
  <2>7. limit'[bound'] = op'.requested => cardHeld'
    BY <1>4, <2>1, <2>2 DEF Card!binding
  <2>8. HeldIsSeen'
    BY <2>1, <2>3, <2>7 DEF CardInv, HeldIsSeen
  <2> QED BY <2>5, <2>6, <2>8 DEF CardInv
<1>7. CASE code # "Success"
  <2>1. Card!Finish(Card!Failure(code = "Retryable")) /\ cardHeld' \in BOOLEAN
    BY <1>3, <1>7
  <2>2. Card!Failure(code = "Retryable") \in Results /\ ~Card!Failure(code = "Retryable").verified
    BY Failures
  <2> QED BY <1>4, <1>5, <2>1, <2>2, EndOfWrite
<1> QED BY <1>6, <1>7

(* A read-back: verified only if it told the limit that was asked for.     *)
LEMMA ReadSound ==
  ASSUME CardInv, Card!Readback \/ Card!Recheck
  PROVE  CardInv'
<1>1. /\ op.stage \in {"Read", "Recheck"} /\ op \in Writes
      /\ cardHeld \in BOOLEAN /\ setters \in {0, 1} /\ touched \subseteq {identity} \ {Nothing}
      /\ DOMAIN limit = Cards
      /\ UNCHANGED <<listed, limit, Card!binding, cardHeld, setters, touched>>
  BY DEF Card!Readback, Card!Recheck, CardInv, CardTypes, BoundIsProtected
<1>2. PICK a \in Card!Answers :
        \/ /\ Card!Matches(a.code, a.value)
           /\ \E more \in BOOLEAN :
                Card!Finish([verified |-> TRUE, retryable |-> FALSE, onRecheck |-> more])
        \/ \E retryable \in BOOLEAN : Card!Finish(Card!Failure(retryable))
        \/ op' = [op EXCEPT !.stage = "Recheck"] /\ UNCHANGED result
  <2>1. CASE Card!Readback
    <3>1. PICK a \in Card!Answers :
            IF Card!Matches(a.code, a.value)
            THEN Card!Finish([verified |-> TRUE, retryable |-> FALSE, onRecheck |-> FALSE])
            ELSE IF a.code = "Fatal" THEN Card!Finish(Card!Failure(FALSE))
            ELSE op' = [op EXCEPT !.stage = "Recheck"] /\ UNCHANGED result
      BY <2>1 DEF Card!Readback
    <3>2. CASE Card!Matches(a.code, a.value)
      BY <3>1, <3>2
    <3>3. CASE ~Card!Matches(a.code, a.value)
      BY <3>1, <3>3
    <3> QED BY <3>2, <3>3
  <2>2. CASE Card!Recheck
    <3>1. PICK a \in Card!Answers :
            IF Card!Matches(a.code, a.value)
            THEN Card!Finish([verified |-> TRUE, retryable |-> FALSE, onRecheck |-> TRUE])
            ELSE Card!Finish(Card!Failure(a.code \in {"Success", "Retryable"}))
      BY <2>2 DEF Card!Recheck
    <3>2. CASE Card!Matches(a.code, a.value)
      BY <3>1, <3>2
    <3>3. CASE ~Card!Matches(a.code, a.value)
      <4>1. Card!Finish(Card!Failure(a.code \in {"Success", "Retryable"}))
        BY <3>1, <3>3
      <4>2. (a.code \in {"Success", "Retryable"}) \in BOOLEAN
        OBVIOUS
      <4> QED BY <4>1, <4>2
    <3> QED BY <3>2, <3>3
  <2> QED BY <2>1, <2>2
<1>3. CASE Card!Matches(a.code, a.value)
           /\ \E more \in BOOLEAN :
                Card!Finish([verified |-> TRUE, retryable |-> FALSE, onRecheck |-> more])
  <2>1. PICK more \in BOOLEAN :
          Card!Finish([verified |-> TRUE, retryable |-> FALSE, onRecheck |-> more])
    BY <1>3
  <2> DEFINE r == [verified |-> TRUE, retryable |-> FALSE, onRecheck |-> more]
  <2>2. r \in Results /\ r.verified = TRUE /\ r.retryable = FALSE
    BY DEF Results
  <2>3. a.code = "Success" /\ a.value = op.requested
    BY <1>3 DEF Card!Matches
  <2>4. a.value = limit[bound]
    BY <2>3 DEF Card!Answers
  <2>5. cardHeld
    BY <1>1, <2>3, <2>4 DEF CardInv, HeldIsSeen
  <2> HIDE DEF r
  <2> QED BY <1>1, <2>1, <2>2, <2>5, EndOfWrite DEF r
<1>4. CASE \E retryable \in BOOLEAN : Card!Finish(Card!Failure(retryable))
  <2>1. PICK retryable \in BOOLEAN : Card!Finish(Card!Failure(retryable))
    BY <1>4
  <2>2. Card!Failure(retryable) \in Results /\ Card!Failure(retryable).verified = FALSE
    BY Failures
  <2> QED BY <1>1, <2>1, <2>2, EndOfWrite
<1>5. CASE op' = [op EXCEPT !.stage = "Recheck"] /\ UNCHANGED result
  <2>1. op' \in Writes /\ op'.stage = "Recheck" /\ op'.requested = op.requested
    BY <1>1, <1>5 DEF Writes
  <2>2. op'.stage # Card!Idle.stage
    BY <2>1 DEF Card!Idle
  <2>3. CardTypes'
    BY <1>1, <1>5, <2>1 DEF CardInv, CardTypes, Card!binding
  <2>4. BoundIsProtected' /\ WrittenOnce'
    BY <1>1, <2>1 DEF CardInv, BoundIsProtected, WrittenOnce, Card!binding
  <2>5. HeldIsSeen'
    BY <1>1, <1>5, <2>1, <2>2 DEF CardInv, HeldIsSeen, Card!binding
  <2> QED BY <2>3, <2>4, <2>5 DEF CardInv
<1> QED BY <1>2, <1>3, <1>4, <1>5

LEMMA EvidenceFailsSound == ASSUME CardInv, Card!EvidenceFails PROVE CardInv'
<1>1. /\ Card!Finish(Card!Failure(FALSE))
      /\ cardHeld \in BOOLEAN /\ setters \in {0, 1} /\ touched \subseteq {identity} \ {Nothing}
      /\ DOMAIN limit = Cards
      /\ UNCHANGED <<listed, limit, Card!binding, cardHeld, setters, touched>>
  BY DEF Card!EvidenceFails, CardInv, CardTypes, BoundIsProtected
<1>2. Card!Failure(FALSE) \in Results /\ Card!Failure(FALSE).verified = FALSE
  BY Failures
<1> QED BY <1>1, <1>2, EndOfWrite

LEMMA RelistSound == ASSUME CardInv, Card!Relist PROVE CardInv'
<1>1. UNCHANGED <<limit, identity, bound, op, result, cardHeld, setters, touched>>
  BY DEF Card!Relist, Card!binding, Card!writing
<1>2. \A i \in DOMAIN listed' : listed'[i] \in Cards
  BY DEF Card!Relist, Card!Orders
<1>3. CardTypes'
  BY <1>1, <1>2 DEF CardInv, CardTypes
<1> QED BY <1>1, <1>3 DEF CardInv, BoundIsProtected, WrittenOnce, HeldIsSeen

(* Another tool may bring about what was asked for; then it was in force.  *)
LEMMA TamperSound == ASSUME CardInv, NEW k \in Cards, Card!Tamper(k) PROVE CardInv'
<1>1. PICK got \in AcceptedLimits[k] \ {limit[k]} :
        /\ limit' = [limit EXCEPT ![k] = got]
        /\ cardHeld' = (cardHeld \/ (op.stage \in {"Read", "Recheck"} /\ k = bound
                             /\ got = op.requested))
  BY DEF Card!Tamper
<1>2. UNCHANGED <<listed, identity, bound, op, result, setters, touched>>
  BY DEF Card!Tamper, Card!binding
<1>3. DOMAIN limit' = Cards /\ cardHeld' \in BOOLEAN /\ (cardHeld => cardHeld')
  BY <1>1 DEF CardInv, CardTypes
<1>4. CardTypes'
  BY <1>2, <1>3 DEF CardInv, CardTypes
<1>5. op.stage \in {"Read", "Recheck"} /\ limit'[bound] = op.requested => cardHeld'
  <2> SUFFICES ASSUME op.stage \in {"Read", "Recheck"}, limit'[bound] = op.requested
               PROVE  cardHeld'
    OBVIOUS
  <2>1. bound \in Cards
    BY DEF CardInv, CardTypes, WrittenOnce
  <2>2. CASE k = bound
    <3>1. limit'[bound] = got
      BY <1>1, <2>1, <2>2 DEF CardInv, CardTypes
    <3> QED BY <1>1, <2>2, <3>1
  <2>3. CASE k # bound
    <3>1. limit'[bound] = limit[bound]
      BY <1>1, <2>1, <2>3 DEF CardInv, CardTypes
    <3> QED BY <1>3, <3>1 DEF CardInv, HeldIsSeen
  <2> QED BY <2>2, <2>3
<1>6. HeldIsSeen'
  BY <1>2, <1>3, <1>5 DEF CardInv, HeldIsSeen
<1> QED BY <1>2, <1>4, <1>6 DEF CardInv, BoundIsProtected, WrittenOnce

LEMMA CardStep == ASSUME CardAssumption PROVE CardInv /\ [Card!Next]_(Card!vars) => CardInv'
<1> SUFFICES ASSUME CardInv, [Card!Next]_(Card!vars) PROVE CardInv'
  OBVIOUS
<1>1. CASE UNCHANGED Card!vars
  BY <1>1
  DEF Card!vars, Card!binding, Card!writing, CardInv, CardTypes, BoundIsProtected,
      WrittenOnce, HeldIsSeen
<1>2. CASE Card!Next
  BY <1>2, LoadSound, BindSound, BeginWriteSound, SetterSound, ReadSound, EvidenceFailsSound,
     RelistSound, TamperSound
  DEF Card!Next
<1> QED BY <1>1, <1>2

(* The inductive invariant holds in every reachable state.                 *)
THEOREM CardInvariant == ASSUME CardAssumption PROVE Card!Spec => []CardInv
BY CardInitially, CardStep, PTL DEF Card!Spec

LEMMA CardFollows == CardInv => Card!WritesAreHonest
BY DEF CardInv, CardTypes, BoundIsProtected, WrittenOnce, HeldIsSeen, Card!WritesAreHonest

(* For every order of the cards and every clamp, loss or delay of a write: *)
(* success is only reported of a limit that was in force after the setter, *)
(* and no card is written but the one first protected (nvml_loader.cpp,    *)
(* BindDeviceByUuid and SetBoundPowerLimitWatts).                          *)
THEOREM WritesHonest == ASSUME CardAssumption PROVE Card!Spec => []Card!WritesAreHonest
BY CardInvariant, CardFollows, PTL

-----------------------------------------------------------------------------
(* The limits of a first run (FirstRunLimits).                             *)

(* What holds of a configuration the window or its worker may hold: it is  *)
(* valid, it is the built-in one or no higher than what somebody wanted,   *)
(* and it lowers nothing unless there is a reason to.                      *)
Justified(c) ==
  /\ Limits!Valid(c)
  /\ c = Limits!Unconfigured \/ c.normal <= limAllowed
  /\ ~Limits!IsMonitorOnly(c) => limReason # "none"

(* The card is below its ceiling, and so is all that may be written to it. *)
LimitsInv ==
  /\ Limits!TypeOK /\ limLimit <= limAllowed
  /\ Justified(limConfig)
  /\ limWorker # Nothing => Justified(limWorker)
  /\ limStored # Nothing => Justified(limStored)
  /\ limLatched => limWorker # Nothing /\ ~Limits!IsMonitorOnly(limWorker)

(* Derive, for every card and every limit in force: the pair is in the     *)
(* range of the card, safe is not above working, and a limit the card      *)
(* accepts is the working limit (core/power_envelope.hpp, Derive).         *)
THEOREM DeriveFits ==
  ASSUME NEW k \in [minimum : Int, maximum : Int, default : Int, slowdown : Int],
         NEW current \in Int, k.minimum <= k.maximum
  PROVE  LET d == Limits!Derive(k, current)
         IN /\ d.working \in Int /\ d.safe \in Int
            /\ k.minimum <= d.safe /\ d.safe <= d.working /\ d.working <= k.maximum
            /\ k.minimum <= current /\ current <= k.maximum => d.working = current
            /\ Limits!HasHeadroom(d) => k.default < current \/ k.maximum < current
BY DEF Limits!Derive, Limits!Clamp, Limits!Least, Limits!HasHeadroom

(* DeriveTriggerTemperature, for every slowdown point: valid, and below    *)
(* the slowdown unless it is the fallback.                                 *)
THEOREM TriggerFits ==
  ASSUME NEW slowdown \in Int, NEW fallback \in 40 .. 100
  PROVE  LET t == Limits!DeriveTriggerTemperature(slowdown, fallback)
         IN t \in 40 .. 100 /\ (t < slowdown \/ t = fallback)
BY DEF Limits!DeriveTriggerTemperature

-----------------------------------------------------------------------------
LEMMA UnconfiguredIsValid ==
  ASSUME Limits!LimitsAssumption
  PROVE  /\ Limits!Unconfigured \in Limits!Configurations /\ Limits!Valid(Limits!Unconfigured)
         /\ Limits!IsMonitorOnly(Limits!Unconfigured)
BY DEF Limits!LimitsAssumption, Limits!Unconfigured, Limits!Configurations, Limits!Valid,
       Limits!IsMonitorOnly

LEMMA CardIsSane ==
  ASSUME Limits!LimitsAssumption, Limits!TypeOK
  PROVE  /\ limCard.minimum \in Int /\ limCard.maximum \in Int /\ limCard.default \in Int
         /\ limCard.slowdown \in Int /\ limCard.minimum <= limCard.maximum
         /\ 0 < limCard.minimum
         /\ limCard \in [minimum : Int, maximum : Int, default : Int, slowdown : Int]
<1>1. limCard \in [minimum : Watts, maximum : Watts, default : Watts, slowdown : Nat]
  BY DEF Limits!LimitsAssumption, Limits!TypeOK
<1>2. \A w \in Watts : w \in Int /\ 0 < w
  BY DEF Limits!LimitsAssumption
<1>3. limCard.minimum \in Watts /\ limCard.maximum \in Watts /\ limCard.default \in Watts
      /\ limCard.slowdown \in Int
  BY <1>1
<1>4. limCard = [minimum |-> limCard.minimum, maximum |-> limCard.maximum,
              default |-> limCard.default, slowdown |-> limCard.slowdown]
  BY <1>1
<1>5. limCard.minimum <= limCard.maximum
  BY DEF Limits!LimitsAssumption, Limits!TypeOK
<1> QED
  BY <1>2, <1>3, <1>4, <1>5

(* A write leaves a limit that the card accepts.                           *)
LEMMA WriteStays ==
  ASSUME Limits!TypeOK, NEW w \in Int, Limits!Write(w)
  PROVE  limLimit' \in Int /\ Limits!Writable(limLimit') /\ limLimit' \in {w, limLimit}
BY DEF Limits!TypeOK, Limits!Write, Limits!Writable

(* What a write of a safe limit leaves.                                    *)
LEMMA SafeIsWritten ==
  ASSUME Limits!LimitsAssumption, LimitsInv,
         NEW c \in Limits!Configurations, Justified(c), Limits!WriteSafe(c)
  PROVE  /\ limLimit' \in Int /\ Limits!Writable(limLimit') /\ limAllowed' \in Int
         /\ limStoredLatch' \in BOOLEAN /\ limLimit' <= limAllowed' /\ limAllowed <= limAllowed'
<1>1. c.safe \in Int /\ c.normal \in Int /\ c.safe <= c.normal
  BY DEF Limits!Configurations, Justified, Limits!Valid
<1>2. limLimit' \in Int /\ Limits!Writable(limLimit') /\ limLimit' \in {c.safe, limLimit}
  BY <1>1, WriteStays DEF LimitsInv, Limits!WriteSafe
<1>3. limAllowed \in Int /\ limLimit \in Int /\ limLimit <= limAllowed
        /\ limStoredLatch \in BOOLEAN
  BY DEF LimitsInv, Limits!TypeOK
<1>4. limStoredLatch' \in BOOLEAN
  BY <1>3 DEF Limits!WriteSafe, Limits!Writable
<1>5. CASE c = Limits!Unconfigured
  <2>1. limAllowed' = Limits!Higher(limAllowed, c.safe)
    BY <1>5 DEF Limits!WriteSafe
  <2> QED
    BY <2>1, <1>1, <1>2, <1>3, <1>4 DEF Limits!Higher
<1>6. CASE c # Limits!Unconfigured
  <2>1. limAllowed' = limAllowed /\ c.normal <= limAllowed
    BY <1>6 DEF Limits!WriteSafe, Justified
  <2> QED
    BY <2>1, <1>1, <1>2, <1>3, <1>4
<1> QED
  BY <1>5, <1>6

(* A justified configuration stays so while the ceiling and the reason     *)
(* only grow.                                                              *)
LEMMA StaysJustified ==
  ASSUME NEW c \in Limits!Configurations, Justified(c), limAllowed \in Int, limAllowed' \in Int,
         limAllowed <= limAllowed', limReason # "none" => limReason' # "none"
  PROVE  Justified(c)'
BY DEF Justified, Limits!Configurations

LEMMA LimitsInitially == ASSUME Limits!LimitsAssumption PROVE Limits!Init => LimitsInv
<1> SUFFICES ASSUME Limits!Init PROVE LimitsInv
  OBVIOUS
<1>1. limConfig = Limits!Unconfigured /\ Justified(limConfig)
        /\ limConfig \in Limits!Configurations
  BY UnconfiguredIsValid DEF Limits!Init, Limits!Opened, Justified
<1>2. limLimit \in Int /\ Limits!Writable(limLimit) /\ limAllowed = limLimit
  BY DEF Limits!Init, Limits!LimitsAssumption
<1>3. Limits!TypeOK
  BY <1>1, <1>2 DEF Limits!Init, Limits!TypeOK
<1> QED
  BY <1>1, <1>2, <1>3 DEF Limits!Init, LimitsInv, Limits!TypeOK

(* What a step that changes neither limit, ceiling nor reason has to show. *)
LEMMA Unmoved ==
  ASSUME LimitsInv, UNCHANGED <<limCard, limLimit, limAllowed, limReason>>,
         limConfig' \in {limConfig, Limits!Unconfigured} \cup ({limStored} \ {Nothing}),
             limStored' = limStored,
         limWorker' \in {limWorker, limConfig, Nothing},
         Justified(Limits!Unconfigured) /\ Limits!Unconfigured \in Limits!Configurations,
         {limFresh', limRanged', limLatched', limStoredLatch', limFault'} \subseteq BOOLEAN,
         limLatched' => limWorker' # Nothing /\ ~Limits!IsMonitorOnly(limWorker')
  PROVE  LimitsInv'
<1>1. \A c \in {limConfig, limWorker, limStored, Limits!Unconfigured} \ {Nothing} :
        c \in Limits!Configurations /\ Justified(c)
  BY DEF LimitsInv, Limits!TypeOK
<1>2. \A c : Justified(c) => Justified(c)'
  BY DEF Justified
<1>3. limConfig' \in Limits!Configurations /\ Justified(limConfig)'
  BY <1>1, <1>2 DEF LimitsInv, Limits!TypeOK, Justified
<1> QED
  BY <1>1, <1>2, <1>3 DEF LimitsInv, Limits!TypeOK, Limits!Writable, Justified

LEMMA LimitsStep == ASSUME Limits!LimitsAssumption PROVE LimitsInv
  /\ [Limits!Next]_(Limits!vars) => LimitsInv'
<1> SUFFICES ASSUME LimitsInv, [Limits!Next]_(Limits!vars) PROVE LimitsInv'
  OBVIOUS
<1>u. Limits!Unconfigured \in Limits!Configurations /\ Justified(Limits!Unconfigured)
  BY UnconfiguredIsValid DEF Justified
<1>t. /\ Limits!TypeOK /\ limLimit \in Int /\ limAllowed \in Int /\ limLimit <= limAllowed
      /\ {limFresh, limRanged, limLatched, limStoredLatch, limFault} \subseteq BOOLEAN
  BY DEF LimitsInv, Limits!TypeOK
<1>w. ASSUME limWorker # Nothing
      PROVE  limWorker \in Limits!Configurations /\ Justified(limWorker)
  BY <1>w DEF LimitsInv, Limits!TypeOK
<1>1. CASE Limits!Restart
  BY <1>1, <1>u, <1>t, Unmoved DEF Limits!Restart, Limits!Opened
<1>2. CASE Limits!ApplyFirstRunDefaults
  <2> DEFINE defaults == Limits!Derive(limCard, limLimit)
             trigger  == Limits!DeriveTriggerTemperature(limCard.slowdown, limConfig.trigger)
  <2>1. limCard.minimum <= limLimit /\ limLimit <= limCard.maximum
    BY <1>t DEF Limits!TypeOK, Limits!Writable
  <2>2. /\ defaults.working = limLimit /\ defaults.safe \in Int /\ defaults.safe <= limLimit
        /\ limCard.minimum <= defaults.safe
    BY <2>1, <1>t, CardIsSane, DeriveFits
  <2>3. trigger \in 40 .. 100
    BY <1>t, CardIsSane, TriggerFits DEF LimitsInv, Justified, Limits!Valid
  <2>4. limConfig' = [normal |-> limLimit, safe |-> defaults.safe, trigger |-> trigger]
    BY <1>2, <2>2
    DEF Limits!ApplyFirstRunDefaults, LimitsInv, Limits!TypeOK, Limits!Configurations
  <2>5. limConfig' \in Limits!Configurations
    BY <2>2, <2>3, <2>4, <1>t DEF Limits!Configurations
  <2>6. Limits!Valid(limConfig') /\ limConfig'.normal <= limAllowed
    BY <2>2, <2>3, <2>4, <1>t, CardIsSane DEF Limits!Valid
  <2>7. ~Limits!IsMonitorOnly(limConfig') => limReason' # "none"
    <3> SUFFICES ASSUME ~Limits!IsMonitorOnly(limConfig') PROVE limReason' # "none"
      OBVIOUS
    <3>1. defaults.safe # defaults.working
      BY <2>2, <2>4 DEF Limits!IsMonitorOnly
    <3>2. Limits!HasHeadroom(defaults)
      BY <2>2, <3>1, <1>t DEF Limits!HasHeadroom
    <3> HIDE DEF defaults
    <3>3. limReason' = IF Limits!HasHeadroom(defaults)
            /\ limReason = "none" THEN "headroom" ELSE limReason
      BY <1>2 DEF Limits!ApplyFirstRunDefaults, defaults
    <3> QED
      BY <3>2, <3>3
  <2>8. limReason # "none" => limReason' # "none"
    BY <1>2 DEF Limits!ApplyFirstRunDefaults
  <2>9. limReason' \in {"none", "headroom", "fault", "user"}
    BY <1>2 DEF Limits!ApplyFirstRunDefaults, LimitsInv, Limits!TypeOK
  <2>10. UNCHANGED <<limCard, limLimit, limWorker, limLatched, limStored, limStoredLatch,
                     limFault, limAllowed>>
         /\ limFresh' = FALSE /\ limRanged' = TRUE
    BY <1>2 DEF Limits!ApplyFirstRunDefaults
  <2>11. Limits!TypeOK'
    BY <2>5, <2>9, <2>10, <1>t DEF Limits!TypeOK, Limits!Writable
  <2>12. Justified(limConfig)'
    BY <2>6, <2>7, <2>10 DEF Justified
  <2>13. limWorker # Nothing => Justified(limWorker)'
    BY <2>8, <2>10, <1>w, <1>t, StaysJustified
  <2>14. limStored # Nothing => Justified(limStored)'
    BY <2>8, <2>10, <1>t, StaysJustified DEF LimitsInv, Limits!TypeOK
  <2> QED
    BY <2>10, <2>11, <2>12, <2>13, <2>14, <1>t DEF LimitsInv
<1>3. CASE Limits!Unread \/ Limits!Read
  <2>1. /\ UNCHANGED <<limCard, limLimit, limConfig, limFresh, limWorker, limLatched, limStored,
                       limStoredLatch, limFault, limAllowed, limReason>>
        /\ limRanged' \in BOOLEAN
    BY <1>3 DEF Limits!Unread, Limits!Read
  <2>2. limLatched' => limWorker' # Nothing /\ ~Limits!IsMonitorOnly(limWorker')
    BY <2>1 DEF LimitsInv
  <2> QED
    BY <2>1, <2>2, <1>u, <1>t, Unmoved
<1>4. CASE Limits!StartWorker
  <2> DEFINE inherits == limStoredLatch \/ limFault
  <2>1. limConfig \in Limits!Configurations /\ Justified(limConfig) /\ limConfig # Nothing
    BY DEF LimitsInv, Limits!TypeOK, Limits!LimitsAssumption
  <2>2. /\ limWorker' = limConfig /\ limFault' = FALSE /\ limLatched' = (inherits
             /\ ~Limits!IsMonitorOnly(limConfig))
        /\ UNCHANGED <<limCard, limConfig, limFresh, limRanged, limStored>>
    BY <1>4 DEF Limits!StartWorker
  <2>3. CASE ~inherits
    <3>1. UNCHANGED <<limLimit, limStoredLatch, limAllowed, limReason>>
      BY <1>4, <2>3 DEF Limits!StartWorker
    <3> QED
      BY <2>1, <2>2, <2>3, <3>1, <1>u, <1>t, Unmoved
  <2>4. CASE inherits
    <3>1. Limits!WriteSafe(limConfig) /\ limReason' = "fault"
      BY <1>4, <2>4 DEF Limits!StartWorker
    <3>2. /\ limLimit' \in Int /\ Limits!Writable(limLimit') /\ limAllowed' \in Int
          /\ limStoredLatch' \in BOOLEAN /\ limLimit' <= limAllowed' /\ limAllowed <= limAllowed'
      BY <3>1, <2>1, SafeIsWritten
    <3>3. Limits!TypeOK'
      BY <2>1, <2>2, <3>1, <3>2, <1>t DEF Limits!TypeOK, Limits!Writable
    <3>4. Justified(limConfig)' /\ Justified(limWorker)'
            /\ (limStored # Nothing => Justified(limStored)')
      BY <2>1, <2>2, <3>1, <3>2, <1>t, StaysJustified DEF LimitsInv, Limits!TypeOK
    <3> QED
      BY <2>1, <2>2, <3>2, <3>3, <3>4 DEF LimitsInv
  <2> QED
    BY <2>3, <2>4
<1>5. CASE Limits!WorkerEnds
  BY <1>5, <1>u, <1>t, Unmoved DEF Limits!WorkerEnds
<1>6. CASE Limits!Trip
  <2>1. /\ limWorker # Nothing /\ ~Limits!IsMonitorOnly(limWorker) /\ limLatched' = TRUE
             /\ Limits!WriteSafe(limWorker)
        /\ UNCHANGED <<limCard, limConfig, limFresh, limRanged, limWorker, limStored, limFault,
                       limReason>>
    BY <1>6 DEF Limits!Trip
  <2>2. /\ limLimit' \in Int /\ Limits!Writable(limLimit') /\ limAllowed' \in Int
        /\ limStoredLatch' \in BOOLEAN /\ limLimit' <= limAllowed' /\ limAllowed <= limAllowed'
    BY <2>1, <1>w, SafeIsWritten
  <2>3. Limits!TypeOK'
    BY <2>1, <2>2, <1>t DEF Limits!TypeOK, Limits!Writable
  <2>4. Justified(limConfig)' /\ Justified(limWorker)'
          /\ (limStored # Nothing => Justified(limStored)')
    BY <2>1, <2>2, <1>t, <1>w, StaysJustified DEF LimitsInv, Limits!TypeOK
  <2> QED
    BY <2>1, <2>2, <2>3, <2>4 DEF LimitsInv
<1>7. CASE Limits!Restore
  <2>1. /\ limWorker # Nothing /\ limLatched /\ Limits!Write(limWorker.normal)
             /\ limLatched' = FALSE
        /\ limStoredLatch' = FALSE /\ Limits!Writable(limWorker.normal)
        /\ UNCHANGED <<limCard, limConfig, limFresh, limRanged, limWorker, limStored, limFault,
                       limAllowed, limReason>>
    BY <1>7 DEF Limits!Restore
  <2>2. limWorker.normal \in Int /\ limWorker.normal <= limAllowed
    BY <2>1, <1>w, UnconfiguredIsValid DEF Limits!Configurations, Justified, LimitsInv
  <2>3. limLimit' = limWorker.normal
    BY <2>1 DEF Limits!Write
  <2>4. Limits!TypeOK'
    BY <2>1, <2>2, <2>3, <1>t DEF Limits!TypeOK, Limits!Writable
  <2> QED
    BY <2>1, <2>2, <2>3, <2>4 DEF LimitsInv, Justified
<1>8. ASSUME NEW n \in Watts, NEW s \in Watts, NEW t \in Temperatures,
             Limits!SaveAndApply([normal |-> n, safe |-> s, trigger |-> t])
      PROVE  LimitsInv'
  <2> DEFINE c == [normal |-> n, safe |-> s, trigger |-> t]
  <2>1. c \in Limits!Configurations /\ n \in Int
    BY DEF Limits!LimitsAssumption, Limits!Configurations
  <2>2. /\ limWorker # Nothing /\ ~limLatched /\ Limits!Valid(c) /\ limReason' = "user"
        /\ UNCHANGED <<limCard, limFresh, limRanged, limFault>>
    BY <1>8 DEF Limits!SaveAndApply
  <2>3. CASE /\ Limits!Writable(c.normal) /\ Limits!Write(c.normal)
             /\ limAllowed' = Limits!Higher(limAllowed, c.normal)
             /\ limWorker' = c /\ limConfig' = c /\ limStored' \in {limStored, c}
             /\ UNCHANGED <<limLatched, limStoredLatch>>
    <3>1. limLimit' = n /\ limAllowed' \in Int /\ n <= limAllowed' /\ limAllowed <= limAllowed'
      BY <2>1, <2>3, <1>t DEF Limits!Write, Limits!Higher
    <3>2. Limits!TypeOK'
      BY <2>1, <2>2, <2>3, <3>1, <1>t DEF Limits!TypeOK, Limits!Writable
    <3>3. Justified(limConfig)' /\ Justified(limWorker)'
      BY <2>2, <2>3, <3>1 DEF Justified
    <3>4. limStored' # Nothing => Justified(limStored)'
      <4>1. CASE limStored' = c
        BY <2>2, <4>1, <3>1 DEF Justified
      <4>2. CASE limStored' = limStored
        BY <2>2, <4>2, <3>1, <1>t, StaysJustified DEF LimitsInv, Limits!TypeOK, Justified
      <4> QED
        BY <2>3, <4>1, <4>2
    <3> QED
      BY <2>2, <2>3, <3>1, <3>2, <3>3, <3>4 DEF LimitsInv
  <2>4. CASE /\ Limits!WriteSafe(limWorker) /\ limLatched' = ~Limits!IsMonitorOnly(limWorker)
             /\ UNCHANGED <<limWorker, limConfig, limStored>>
    <3>1. /\ limLimit' \in Int /\ Limits!Writable(limLimit') /\ limAllowed' \in Int
          /\ limStoredLatch' \in BOOLEAN /\ limLimit' <= limAllowed' /\ limAllowed <= limAllowed'
      BY <2>2, <2>4, <1>w, SafeIsWritten
    <3>2. Limits!TypeOK'
      BY <2>2, <2>4, <3>1, <1>t DEF Limits!TypeOK, Limits!Writable
    <3>3. Justified(limConfig)' /\ Justified(limWorker)'
            /\ (limStored # Nothing => Justified(limStored)')
      BY <2>2, <2>4, <3>1, <1>t, <1>w, StaysJustified DEF LimitsInv, Limits!TypeOK
    <3> QED
      BY <2>2, <2>4, <3>1, <3>2, <3>3 DEF LimitsInv
  <2> QED
    BY <1>8, <2>3, <2>4 DEF Limits!SaveAndApply
<1>9. ASSUME NEW w \in Watts, Limits!SomeoneSets(w) PROVE LimitsInv'
  <2>1. /\ Limits!Writable(w) /\ limLimit' = w /\ limAllowed' = Limits!Higher(limAllowed, w)
             /\ w \in Int
        /\ UNCHANGED <<limCard, Limits!program, limReason>>
    BY <1>9 DEF Limits!SomeoneSets, Limits!LimitsAssumption
  <2>2. limAllowed' \in Int /\ w <= limAllowed' /\ limAllowed <= limAllowed'
    BY <2>1, <1>t DEF Limits!Higher
  <2>3. Limits!TypeOK'
    BY <2>1, <2>2, <1>t DEF Limits!TypeOK, Limits!Writable, Limits!program
  <2>4. Justified(limConfig)'
    BY <2>1, <2>2, <1>t, StaysJustified DEF LimitsInv, Limits!TypeOK, Limits!program, Justified
  <2>5. (limWorker # Nothing => Justified(limWorker)')
          /\ (limStored # Nothing => Justified(limStored)')
    BY <2>1, <2>2, <1>t, StaysJustified DEF LimitsInv, Limits!TypeOK, Limits!program, Justified
  <2> QED
    BY <2>1, <2>2, <2>3, <2>4, <2>5 DEF LimitsInv, Limits!program
<1>10. CASE UNCHANGED Limits!vars
  BY <1>10 DEF Limits!vars, LimitsInv, Limits!TypeOK, Justified, Limits!Writable
<1> QED
  BY <1>1, <1>2, <1>3, <1>4, <1>5, <1>6, <1>7, <1>8, <1>9, <1>10 DEF Limits!Next

LEMMA LimitsFollow == ASSUME Limits!LimitsAssumption PROVE LimitsInv => Limits!TypeOK
  /\ Limits!LimitsHold
BY DEF LimitsInv, Limits!LimitsHold, Limits!NeverRaised, Limits!AlwaysAccepted,
       Limits!UninvitedOnlyAboveStock, Justified

(* The inductive invariant holds in every reachable state.                 *)
THEOREM LimitsInvariant == ASSUME Limits!LimitsAssumption PROVE Limits!Spec => []LimitsInv
BY LimitsInitially, LimitsStep, PTL DEF Limits!Spec

(* For every card, every set of limits and every built-in pair: the card   *)
(* is never left above what its user or another tool wanted, every         *)
(* configuration held is valid, and nothing is guarded without a reason    *)
(* (main_dialog.cpp, ApplyFirstRunDefaults and the start of the worker).   *)
THEOREM LimitsAlwaysHold ==
  ASSUME Limits!LimitsAssumption
  PROVE  Limits!Spec => []Limits!LimitsHold
<1>1. LimitsInv => Limits!LimitsHold
  BY LimitsFollow
<1> QED
  BY <1>1, LimitsInvariant, PTL

-----------------------------------------------------------------------------
(* The overlay's drawing between the transitions of the game (OverlayDraw).*)

(* What is assumed of the number of slots (kSlots).                        *)
DrawAssumption == MaxRunning \in Nat

(* The game's chain.                                                       *)
GameChains == [format : Draw!Formats, before : Draw!Real, told : Draw!Spaces]

Jobs == [kind : Draw!Kinds, space : Draw!Spaces, owned : BOOLEAN, drained : BOOLEAN,
         sel : BOOLEAN, ok : BOOLEAN]

DrawTypes ==
  /\ Draw!Gate!TypeOK
  /\ drawAt \in [Threads -> {"idle", "present", "drawing", "recorded", "resize", "color",
      "native", "after"}]
  /\ job \in [Threads -> Jobs]
  /\ selected \in BOOLEAN /\ initialized \in BOOLEAN /\ observed \in BOOLEAN
  /\ ambiguous \in BOOLEAN /\ drawFailed \in BOOLEAN /\ broken \in BOOLEAN /\ drawHeld \in BOOLEAN
  /\ format \in Draw!Formats
  /\ chain \in GameChains
  /\ running \in 0 .. MaxRunning
  /\ drawPolicy \in Policies

Inside == {"drawing", "changing"}

(* The part of the gate each thread holds, by its place.                   *)
Placed(t) ==
  /\ drawAt[t] = "idle" => phase[t] = "out"
  /\ drawAt[t] = "present" => phase[t] \in {"asking", "drawing"}
  /\ drawAt[t] \in {"drawing", "recorded"} => phase[t] = "drawing"
  /\ drawAt[t] \in {"resize", "color"} => phase[t] = IF job[t].owned THEN "changing" ELSE "asking"
  /\ drawAt[t] = "native" => phase[t] = IF job[t].owned THEN "changing" ELSE "out"
  /\ drawAt[t] = "after" => phase[t] = "changing" /\ job[t].owned
  /\ drawAt[t] = "resize" => job[t].kind = "resize" /\ job[t].sel
  /\ drawAt[t] = "color" => job[t].kind = "color"
  /\ drawAt[t] \in {"native", "after"} => job[t].kind \in {"resize", "color"}
  /\ job[t].sel => selected

AllPlaced ==
  /\ \A t \in Threads : Placed(t)
  /\ \A t, u \in Threads : phase[t] \in Inside /\ phase[u] \in Inside => t = u

(* What the renderer has before it was initialised, and a frame's slot.    *)
Prepared ==
  /\ ~initialized => running = 0 /\ (broken \/ ~drawHeld)
  /\ \A t \in Threads : drawAt[t] \in {"drawing", "recorded"} => initialized
  /\ \A t \in Threads : drawAt[t] = "recorded" => running < MaxRunning

(* A resize of the selected chain was let in, and drained, or turned away. *)
LetGo ==
  \A t \in Threads :
    drawAt[t] = "native" /\ job[t].kind = "resize" /\ job[t].sel =>
      IF job[t].owned THEN broken \/ (~drawHeld /\ running = 0) ELSE drawClosed

Stopped == drawFailed \/ drawClosed

(* What was seen of the colours is what the chain has.                     *)
Seen ==
  /\ observed => selected
  /\ observed => Stopped \/ chain.told = "sdr"
  /\ \A t \in Threads : drawAt[t] \in {"native", "after"} /\ job[t].kind = "color"
       /\ job[t].owned => ~observed
  /\ \A t \in Threads :
       drawAt[t] = "after" /\ job[t].kind = "color" /\ job[t].ok
         => Stopped \/ chain.told = job[t].space

Barred ==
  /\ chain.told = "pq" =>
       \/ Stopped
       \/ \E t \in Threads : drawAt[t] = "after" /\ job[t].kind = "color" /\ job[t].space = "pq"
  /\ \A t \in Threads : drawAt[t] \in {"drawing", "recorded"} =>
       \/ Stopped
       \/ /\ chain.told # "pq"
          /\ format = "10bit" /\ drawPolicy = "strict" => chain.told = "sdr"

(* Together they are inductive.                                            *)
DrawInv == DrawTypes /\ AllPlaced /\ Prepared /\ LetGo /\ Seen /\ Barred

(* Whoever is inside the gate is alone with the chain.                     *)
LEMMA Alone ==
  ASSUME DrawInv, NEW t \in Threads, phase[t] \in Inside, NEW u \in Threads, u # t
  PROVE  /\ phase[u] \notin Inside
         /\ drawAt[u] \notin {"drawing", "recorded", "after"}
         /\ drawAt[u] = "native" => ~job[u].owned
<1>1. phase[u] \notin Inside
  BY DEF DrawInv, AllPlaced
<1> QED BY <1>1 DEF DrawInv, AllPlaced, Placed, Inside

LEMMA PresentSound == ASSUME DrawInv, NEW t \in Threads, Draw!Present(t) PROVE DrawInv'
<1>1. /\ drawAt[t] = "idle" /\ phase[t] = "out"
      /\ drawAt' = [drawAt EXCEPT ![t] = "present"] /\ phase' = [phase EXCEPT ![t] = "asking"]
      /\ UNCHANGED <<drawClosed, job, selected, initialized, observed, ambiguous, drawFailed,
                     broken, drawHeld, format, chain, running, drawPolicy>>
  BY DEF Draw!Present, Draw!Gate!Ask, Draw!Go, Draw!hook, Draw!renderer, Draw!gpu
<1>2. DrawTypes'
  BY <1>1 DEF DrawInv, DrawTypes, Draw!Gate!TypeOK
<1>3. AllPlaced'
  BY <1>1 DEF DrawInv, DrawTypes, Draw!Gate!TypeOK, AllPlaced, Placed, Inside
<1>4. Prepared'
  BY <1>1 DEF DrawInv, DrawTypes, Prepared
<1>5. LetGo'
  BY <1>1 DEF DrawInv, DrawTypes, LetGo
<1>6. Seen'
  BY <1>1 DEF DrawInv, DrawTypes, Seen, Stopped
<1>7. Barred'
  BY <1>1 DEF DrawInv, DrawTypes, Barred, Stopped
<1> QED BY <1>2, <1>3, <1>4, <1>5, <1>6, <1>7 DEF DrawInv

LEMMA PresentRefusedSound ==
  ASSUME DrawInv, NEW t \in Threads, Draw!PresentRefused(t)
  PROVE  DrawInv'
<1>1. /\ drawAt[t] = "present"
      /\ drawAt' = [drawAt EXCEPT ![t] = "idle"] /\ phase' = [phase EXCEPT ![t] = "out"]
      /\ UNCHANGED <<drawClosed, job, selected, initialized, observed, ambiguous, drawFailed,
                     broken, drawHeld, format, chain, running, drawPolicy>>
  BY DEF Draw!PresentRefused, Draw!Gate!Refuse, Draw!Go, Draw!hook, Draw!renderer, Draw!gpu
<1>2. DrawTypes'
  BY <1>1 DEF DrawInv, DrawTypes, Draw!Gate!TypeOK
<1>3. AllPlaced'
  BY <1>1 DEF DrawInv, DrawTypes, Draw!Gate!TypeOK, AllPlaced, Placed, Inside
<1>4. Prepared'
  BY <1>1 DEF DrawInv, DrawTypes, Prepared
<1>5. LetGo'
  BY <1>1 DEF DrawInv, DrawTypes, LetGo
<1>6. Seen'
  BY <1>1 DEF DrawInv, DrawTypes, Seen, Stopped
<1>7. Barred'
  BY <1>1 DEF DrawInv, DrawTypes, Barred, Stopped
<1> QED BY <1>2, <1>3, <1>4, <1>5, <1>6, <1>7 DEF DrawInv

LEMMA PresentAdmittedSound ==
  ASSUME DrawInv, NEW t \in Threads, Draw!PresentAdmitted(t)
  PROVE  DrawInv'
<1>1. /\ drawAt[t] = "present"
      /\ \A u \in Threads : phase[u] \in {"out", "asking"}
      /\ phase' = [phase EXCEPT ![t] = "drawing"]
      /\ UNCHANGED <<drawClosed, drawAt, job, selected, initialized, observed, ambiguous,
                     drawFailed, broken, drawHeld, format, chain, running, drawPolicy>>
  BY DEF Draw!PresentAdmitted, Draw!Gate!Enter, Draw!Gate!NoneInside, DrawInv, DrawTypes,
         Draw!Gate!TypeOK, Draw!hook, Draw!renderer, Draw!gpu
<1>2. DrawTypes'
  BY <1>1 DEF DrawInv, DrawTypes, Draw!Gate!TypeOK
<1>3. AllPlaced'
  BY <1>1 DEF DrawInv, DrawTypes, Draw!Gate!TypeOK, AllPlaced, Placed, Inside
<1>4. Prepared'
  BY <1>1 DEF DrawInv, DrawTypes, Prepared
<1>5. LetGo'
  BY <1>1 DEF DrawInv, DrawTypes, LetGo
<1>6. Seen'
  BY <1>1 DEF DrawInv, DrawTypes, Seen, Stopped
<1>7. Barred'
  BY <1>1 DEF DrawInv, DrawTypes, Barred, Stopped
<1> QED BY <1>2, <1>3, <1>4, <1>5, <1>6, <1>7 DEF DrawInv

LEMMA InitializeSound == ASSUME DrawInv, NEW t \in Threads, Draw!Initialize(t) PROVE DrawInv'
<1>1. /\ drawAt[t] = "present" /\ phase[t] = "drawing" /\ ~initialized /\ selected' = TRUE
      /\ UNCHANGED <<job, observed, ambiguous, chain, running, drawPolicy>>
  BY DEF Draw!Initialize, Draw!gpu
<1>2. \A u \in Threads : /\ drawAt[u] \notin {"drawing", "recorded", "after"}
                         /\ drawAt[u] = "native" => ~job[u].owned
  BY <1>1, Alone DEF Inside
<1>3. CASE /\ initialized' = TRUE /\ drawHeld' = TRUE /\ format' = chain.format
           /\ UNCHANGED <<broken, drawFailed, drawAt, phase, drawClosed>>
  <2>1. DrawTypes'
    BY <1>1, <1>3 DEF DrawInv, DrawTypes, Draw!Gate!TypeOK, GameChains
  <2>2. AllPlaced'
    BY <1>1, <1>3 DEF DrawInv, AllPlaced, Placed
  <2>3. Prepared' /\ LetGo'
    BY <1>1, <1>2, <1>3 DEF DrawInv, Prepared, LetGo
  <2>4. Seen' /\ Barred'
    BY <1>1, <1>2, <1>3 DEF DrawInv, Seen, Barred, Stopped
  <2> QED BY <2>1, <2>2, <2>3, <2>4 DEF DrawInv
<1>4. CASE /\ drawFailed' = TRUE
           /\ \/ UNCHANGED Draw!renderer
              \/ broken' = TRUE /\ drawHeld' \in BOOLEAN /\ UNCHANGED format
           /\ Draw!EndRender(t)
           /\ UNCHANGED initialized
  <2>1. /\ drawAt' = [drawAt EXCEPT ![t] = "idle"] /\ phase' = [phase EXCEPT ![t] = "out"]
        /\ drawFailed' = TRUE /\ UNCHANGED <<drawClosed, initialized, format>>
        /\ \/ UNCHANGED <<broken, drawHeld>>
           \/ broken' = TRUE /\ drawHeld' \in BOOLEAN
    BY <1>4 DEF Draw!EndRender, Draw!Gate!Leave, Draw!Go, Draw!renderer
  <2>2. DrawTypes'
    BY <1>1, <2>1 DEF DrawInv, DrawTypes, Draw!Gate!TypeOK
  <2>3. AllPlaced'
    BY <1>1, <2>1 DEF DrawInv, DrawTypes, Draw!Gate!TypeOK, AllPlaced, Placed, Inside
  <2>4. Prepared' /\ LetGo'
    BY <1>1, <2>1 DEF DrawInv, DrawTypes, Prepared, LetGo
  <2>5. Seen' /\ Barred'
    BY <1>1, <2>1 DEF DrawInv, DrawTypes, Seen, Barred, Stopped
  <2> QED BY <2>2, <2>3, <2>4, <2>5 DEF DrawInv
<1> QED BY <1>3, <1>4 DEF Draw!Initialize

(* A frame goes on only if what it will draw on was seen to be SDR.        *)
LEMMA AdmitColorSound == ASSUME DrawInv, NEW t \in Threads, Draw!AdmitColor(t) PROVE DrawInv'
<1>1. /\ drawAt[t] = "present" /\ phase[t] = "drawing" /\ initialized
      /\ UNCHANGED <<job, selected, initialized, observed, ambiguous, drawFailed, broken,
                     drawHeld, format, chain, running, drawPolicy>>
  BY DEF Draw!AdmitColor, Draw!hook, Draw!renderer, Draw!gpu
<1>2. \A u \in Threads : drawAt[u] # "after"
  BY <1>1, Alone DEF Inside
<1>3. CASE ~drawFailed /\ Draw!MayDraw(format, observed)
  <2>1. drawAt' = [drawAt EXCEPT ![t] = "drawing"] /\ UNCHANGED <<phase, drawClosed>>
    BY <1>3 DEF Draw!AdmitColor, Draw!Go
  <2>2. DrawTypes'
    BY <1>1, <2>1 DEF DrawInv, DrawTypes, Draw!Gate!TypeOK
  <2>3. AllPlaced'
    BY <1>1, <2>1 DEF DrawInv, DrawTypes, AllPlaced, Placed
  <2>4. Prepared' /\ LetGo' /\ Seen'
    BY <1>1, <2>1 DEF DrawInv, DrawTypes, Prepared, LetGo, Seen, Stopped
  <2>5. Stopped \/ chain.told # "pq"
    BY <1>2 DEF DrawInv, Barred
  <2>6. Stopped \/ (format = "10bit" /\ drawPolicy = "strict" => chain.told = "sdr")
    BY <1>3 DEF DrawInv, Seen, Draw!MayDraw
  <2>7. Barred'
    BY <1>1, <1>2, <2>1, <2>5, <2>6 DEF DrawInv, DrawTypes, Barred, Stopped
  <2> QED BY <2>2, <2>3, <2>4, <2>7 DEF DrawInv
<1>4. CASE ~(~drawFailed /\ Draw!MayDraw(format, observed))
  <2>1. /\ drawAt' = [drawAt EXCEPT ![t] = "idle"] /\ phase' = [phase EXCEPT ![t] = "out"]
        /\ UNCHANGED drawClosed
    BY <1>4 DEF Draw!AdmitColor, Draw!EndRender, Draw!Gate!Leave, Draw!Go
  <2>2. DrawTypes'
    BY <1>1, <2>1 DEF DrawInv, DrawTypes, Draw!Gate!TypeOK
  <2>3. AllPlaced'
    BY <1>1, <2>1 DEF DrawInv, DrawTypes, Draw!Gate!TypeOK, AllPlaced, Placed, Inside
  <2>4. Prepared' /\ LetGo'
    BY <1>1, <2>1 DEF DrawInv, DrawTypes, Prepared, LetGo
  <2>5. Seen' /\ Barred'
    BY <1>1, <2>1 DEF DrawInv, DrawTypes, Seen, Barred, Stopped
  <2> QED BY <2>2, <2>3, <2>4, <2>5 DEF DrawInv
<1> QED BY <1>3, <1>4

LEMMA RecordSound == ASSUME DrawInv, NEW t \in Threads, Draw!Record(t) PROVE DrawInv'
<1>1. /\ drawAt[t] = "drawing" /\ phase[t] = "drawing"
      /\ \/ running < MaxRunning /\ drawAt' = [drawAt EXCEPT ![t] = "recorded"] /\ UNCHANGED phase
         \/ drawAt' = [drawAt EXCEPT ![t] = "idle"] /\ phase' = [phase EXCEPT ![t] = "out"]
      /\ drawFailed' \in BOOLEAN /\ broken' \in BOOLEAN /\ (drawFailed => drawFailed')
           /\ (broken => broken')
      /\ UNCHANGED <<drawClosed, job, selected, initialized, observed, ambiguous, drawHeld,
                     format, chain, running, drawPolicy>>
  BY DEF Draw!Record, Draw!EndRender, Draw!Gate!Leave, Draw!Go, Draw!gpu, DrawInv,
         DrawTypes, AllPlaced, Placed
<1>2. DrawTypes'
  BY <1>1 DEF DrawInv, DrawTypes, Draw!Gate!TypeOK
<1>3. AllPlaced'
  BY <1>1 DEF DrawInv, DrawTypes, Draw!Gate!TypeOK, AllPlaced, Placed, Inside
<1>4. Prepared' /\ LetGo'
  BY <1>1 DEF DrawInv, DrawTypes, Prepared, LetGo
<1>5. Seen' /\ Barred'
  BY <1>1 DEF DrawInv, DrawTypes, Seen, Barred, Stopped
<1> QED BY <1>2, <1>3, <1>4, <1>5 DEF DrawInv

LEMMA SubmitSound ==
  ASSUME DrawAssumption, DrawInv, NEW t \in Threads, Draw!Submit(t)
  PROVE  DrawInv'
<1>s. /\ drawAt[t] = "recorded" /\ running' = running + 1
      /\ drawAt' = [drawAt EXCEPT ![t] = "idle"] /\ phase' = [phase EXCEPT ![t] = "out"]
      /\ UNCHANGED <<drawClosed, job, selected, initialized, observed, ambiguous, drawHeld,
                     format, chain, drawPolicy>>
  BY DEF Draw!Submit, Draw!EndRender, Draw!Gate!Leave, Draw!Go
<1>b. drawFailed' \in BOOLEAN /\ broken' \in BOOLEAN /\ (drawFailed => drawFailed')
        /\ (broken => broken')
  <2>1. drawFailed \in BOOLEAN /\ broken \in BOOLEAN
    BY DEF DrawInv, DrawTypes
  <2>2. UNCHANGED <<drawFailed, broken>> \/ (broken' = TRUE /\ drawFailed' = TRUE)
    BY DEF Draw!Submit
  <2> QED BY <2>1, <2>2
<1>p. phase[t] = "drawing"
  BY <1>s DEF DrawInv, AllPlaced, Placed
<1>1. /\ drawAt[t] = "recorded" /\ phase[t] = "drawing" /\ running' = running + 1
      /\ drawAt' = [drawAt EXCEPT ![t] = "idle"] /\ phase' = [phase EXCEPT ![t] = "out"]
      /\ drawFailed' \in BOOLEAN /\ broken' \in BOOLEAN /\ (drawFailed => drawFailed')
           /\ (broken => broken')
      /\ UNCHANGED <<drawClosed, job, selected, initialized, observed, ambiguous, drawHeld,
                     format, chain, drawPolicy>>
  BY <1>s, <1>b, <1>p
<1>2. \A u \in Threads \ {t} : /\ drawAt[u] # "recorded"
                               /\ drawAt[u] = "native" => ~job[u].owned
  BY <1>1, Alone DEF Inside
<1>3. running < MaxRunning /\ initialized
  BY <1>1 DEF DrawInv, Prepared
<1>4. DrawTypes'
  BY <1>1, <1>3 DEF DrawInv, DrawTypes, Draw!Gate!TypeOK, DrawAssumption
<1>5. AllPlaced'
  BY <1>1 DEF DrawInv, DrawTypes, Draw!Gate!TypeOK, AllPlaced, Placed, Inside
<1>6. Prepared' /\ LetGo'
  BY <1>1, <1>2, <1>3 DEF DrawInv, DrawTypes, Prepared, LetGo
<1>7. Seen' /\ Barred'
  BY <1>1 DEF DrawInv, DrawTypes, Seen, Barred, Stopped
<1> QED BY <1>4, <1>5, <1>6, <1>7 DEF DrawInv

-----------------------------------------------------------------------------
(* Transitions.                                                            *)

(* A new job is typed, and owns nothing yet.                               *)
LEMMA NewJob ==
  ASSUME NEW k \in Draw!Kinds, NEW s \in Draw!Spaces, NEW b \in BOOLEAN
  PROVE  LET j == [Draw!NoJob EXCEPT !.kind = k, !.space = s, !.sel = b]
         IN  /\ j \in Jobs
             /\ j.kind = k /\ j.space = s /\ j.sel = b /\ ~j.owned /\ ~j.ok
BY DEF Draw!NoJob, Jobs, Draw!Spaces

(* A thread comes to the gate, or past it once it is closed.               *)
LEMMA Comes ==
  ASSUME DrawInv, NEW t \in Threads, NEW k \in {"resize", "color"}, NEW j, NEW place,
         drawAt[t] = "idle", job' = [job EXCEPT ![t] = j],
         j \in Jobs,
         j.kind = k, ~j.owned, j.sel => selected /\ k = "resize",
         \/ place = k /\ phase' = [phase EXCEPT ![t] = "asking"] /\ (k = "resize" => j.sel)
         \/ place = "native" /\ UNCHANGED phase /\ (j.sel => drawClosed),
         drawAt' = [drawAt EXCEPT ![t] = place],
         drawFailed' \in BOOLEAN, drawFailed => drawFailed',
         UNCHANGED <<drawClosed, selected, initialized, observed, ambiguous, broken, drawHeld,
                     format, chain, running, drawPolicy>>
  PROVE  DrawInv'
<1>1. DrawTypes'
  BY DEF DrawInv, DrawTypes, Draw!Gate!TypeOK
<1>2. AllPlaced'
  BY DEF DrawInv, DrawTypes, Draw!Gate!TypeOK, AllPlaced, Placed, Inside
<1>3. Prepared' /\ LetGo'
  BY DEF DrawInv, DrawTypes, Prepared, LetGo
<1>4. Seen' /\ Barred'
  BY DEF DrawInv, DrawTypes, Seen, Barred, Stopped
<1> QED BY <1>1, <1>2, <1>3, <1>4 DEF DrawInv

LEMMA ComingSound ==
  ASSUME DrawInv, NEW t \in Threads, NEW space \in {"sdr", "pq"},
         Draw!ResizeUnseen(t) \/ Draw!Resize(t) \/ Draw!SetColor(t, space)
  PROVE  DrawInv'
<1>1. CASE Draw!ResizeUnseen(t)
  <2> DEFINE j == [Draw!NoJob EXCEPT !.kind = "resize"]
  <2>1. /\ j \in Jobs
        /\ j.kind = "resize" /\ ~j.owned /\ ~j.sel
    BY DEF Draw!NoJob, Jobs, Draw!Kinds, Draw!Spaces
  <2>2. /\ drawAt[t] = "idle" /\ drawAt' = [drawAt EXCEPT ![t] = "native"]
             /\ job' = [job EXCEPT ![t] = j]
        /\ UNCHANGED <<phase, drawClosed, selected, initialized, observed, ambiguous, drawFailed,
                       broken, drawHeld, format, chain, running, drawPolicy>>
    BY <1>1 DEF Draw!ResizeUnseen, Draw!Go, Draw!hook, Draw!renderer, Draw!gpu
  <2>3. drawFailed' \in BOOLEAN /\ (drawFailed => drawFailed')
    BY <2>2 DEF DrawInv, DrawTypes
  <2> HIDE DEF j
  <2> QED BY <2>1, <2>2, <2>3, Comes
<1>2. CASE Draw!Resize(t)
  <2> DEFINE j == [Draw!NoJob EXCEPT !.kind = "resize", !.sel = TRUE]
  <2>1. /\ j \in Jobs
        /\ j.kind = "resize" /\ ~j.owned /\ j.sel
    BY DEF Draw!NoJob, Jobs, Draw!Kinds, Draw!Spaces
  <2>2. /\ drawAt[t] = "idle" /\ selected /\ job' = [job EXCEPT ![t] = j]
        /\ UNCHANGED <<selected, initialized, observed, ambiguous, broken, drawHeld, format,
                       chain, running, drawPolicy>>
    BY <1>2 DEF Draw!Resize, Draw!renderer, Draw!gpu
  <2>3. /\ UNCHANGED drawClosed
        /\ \/ /\ drawAt' = [drawAt EXCEPT ![t] = "resize"]
             /\ phase' = [phase EXCEPT ![t] = "asking"]
              /\ UNCHANGED drawFailed
           \/ /\ drawAt' = [drawAt EXCEPT ![t] = "native"] /\ UNCHANGED phase /\ drawClosed
              /\ drawFailed' = TRUE
    BY <1>2 DEF Draw!Resize, Draw!Gate!Ask, Draw!Go
  <2>4. drawFailed' \in BOOLEAN /\ (drawFailed => drawFailed')
    BY <2>3 DEF DrawInv, DrawTypes
  <2> HIDE DEF j
  <2> QED BY <2>1, <2>2, <2>3, <2>4, Comes
<1>3. CASE Draw!SetColor(t, space)
  <2> DEFINE j == [Draw!NoJob EXCEPT !.kind = "color", !.space = space]
  <2>1. /\ j \in Jobs
        /\ j.kind = "color" /\ ~j.owned /\ ~j.sel
    BY DEF Draw!NoJob, Jobs, Draw!Kinds, Draw!Spaces
  <2>2. /\ drawAt[t] = "idle" /\ job' = [job EXCEPT ![t] = j]
        /\ UNCHANGED <<drawClosed, selected, initialized, observed, ambiguous, drawFailed,
                       broken, drawHeld, format, chain, running, drawPolicy>>
        /\ \/ drawAt' = [drawAt EXCEPT ![t] = "color"] /\ phase' = [phase EXCEPT ![t] = "asking"]
           \/ drawAt' = [drawAt EXCEPT ![t] = "native"] /\ UNCHANGED phase
    BY <1>3 DEF Draw!SetColor, Draw!Gate!Ask, Draw!Go, Draw!hook, Draw!renderer, Draw!gpu
  <2>3. drawFailed' \in BOOLEAN /\ (drawFailed => drawFailed')
    BY <2>2 DEF DrawInv, DrawTypes
  <2> HIDE DEF j
  <2> QED BY <2>1, <2>2, <2>3, Comes
<1> QED BY <1>1, <1>2, <1>3

(* Turned away for good.                                                   *)
LEMMA RefusedSound ==
  ASSUME DrawInv, NEW t \in Threads, Draw!ResizeRefused(t) \/ Draw!ColorRefused(t)
  PROVE  DrawInv'
<1>1. /\ drawAt[t] \in {"resize", "color"} /\ phase[t] = "asking" /\ drawClosed' = TRUE
      /\ drawAt' = [drawAt EXCEPT ![t] = "native"] /\ phase' = [phase EXCEPT ![t] = "out"]
      /\ drawFailed' \in {drawFailed, TRUE}
      /\ UNCHANGED <<job, selected, initialized, observed, ambiguous, broken, drawHeld, format,
                     chain, running, drawPolicy>>
  BY DEF Draw!ResizeRefused, Draw!ColorRefused, Draw!Gate!Refuse, Draw!Go, Draw!hook,
         Draw!renderer, Draw!gpu
<1>2. DrawTypes'
  BY <1>1 DEF DrawInv, DrawTypes, Draw!Gate!TypeOK
<1>3. AllPlaced'
  BY <1>1 DEF DrawInv, DrawTypes, Draw!Gate!TypeOK, AllPlaced, Placed, Inside
<1>4. ~job[t].owned
  BY <1>1 DEF DrawInv, AllPlaced, Placed
<1>5. Prepared' /\ LetGo'
  BY <1>1, <1>4 DEF DrawInv, DrawTypes, Prepared, LetGo
<1>6. Seen' /\ Barred'
  BY <1>1, <1>4 DEF DrawInv, DrawTypes, Seen, Barred, Stopped
<1> QED BY <1>2, <1>3, <1>5, <1>6 DEF DrawInv

LEMMA TransitionAdmittedSound ==
  ASSUME DrawInv, NEW t \in Threads, Draw!TransitionAdmitted(t)
  PROVE  DrawInv'
<1>1. /\ drawAt[t] \in {"resize", "color"}
      /\ \A u \in Threads : phase[u] \in {"out", "asking"}
      /\ phase' = [phase EXCEPT ![t] = "changing"]
      /\ job' = [job EXCEPT ![t].owned = TRUE]
      /\ UNCHANGED <<drawClosed, drawAt, selected, initialized, observed, ambiguous, drawFailed,
                     broken, drawHeld, format, chain, running, drawPolicy>>
  BY DEF Draw!TransitionAdmitted, Draw!Gate!Enter, Draw!Gate!NoneInside, Draw!hook,
         Draw!renderer, Draw!gpu, DrawInv, DrawTypes, Draw!Gate!TypeOK
<1>2. /\ \A u \in Threads \ {t} : job'[u] = job[u]
      /\ job'[t] = [job[t] EXCEPT !.owned = TRUE]
      /\ job'[t].owned /\ job'[t].kind = job[t].kind /\ job'[t].sel = job[t].sel
      /\ job' \in [Threads -> Jobs]
  <2>1. job[t] \in Jobs
    BY DEF DrawInv, DrawTypes
  <2>2. job'[t] = [job[t] EXCEPT !.owned = TRUE]
    BY <1>1 DEF DrawInv, DrawTypes
  <2>3. /\ [job[t] EXCEPT !.owned = TRUE] \in Jobs
        /\ job'[t].owned /\ job'[t].kind = job[t].kind /\ job'[t].sel = job[t].sel
    BY <2>1, <2>2 DEF Jobs
  <2> QED BY <1>1, <2>2, <2>3 DEF DrawInv, DrawTypes
<1>3. DrawTypes'
  BY <1>1, <1>2 DEF DrawInv, DrawTypes, Draw!Gate!TypeOK
<1>4. AllPlaced'
  BY <1>1, <1>2 DEF DrawInv, DrawTypes, Draw!Gate!TypeOK, AllPlaced, Placed, Inside
<1>5. Prepared' /\ LetGo'
  BY <1>1, <1>2 DEF DrawInv, DrawTypes, Prepared, LetGo
<1>6. Seen' /\ Barred'
  BY <1>1, <1>2 DEF DrawInv, DrawTypes, Seen, Barred, Stopped
<1> QED BY <1>3, <1>4, <1>5, <1>6 DEF DrawInv

(* BeforeResize writes down what became of the wait, and lets go of the    *)
(* buffers only after it.                                                  *)
LEMMA DrainSound ==
  ASSUME DrawInv, NEW t \in Threads, Draw!DrainForResize(t) \/ Draw!DrainForColor(t)
  PROVE  DrawInv'
<1>1. /\ drawAt[t] \in {"resize", "color"} /\ phase[t] = "changing"
      /\ drawAt' = [drawAt EXCEPT ![t] = "native"]
      /\ UNCHANGED <<phase, drawClosed, selected, initialized, ambiguous, format, chain, running,
                     drawPolicy>>
      /\ drawAt[t] = "resize" => observed' = observed
      /\ drawAt[t] = "color" => observed' = (observed /\ ~selected)
  BY DEF Draw!DrainForResize, Draw!DrainForColor, Draw!Go, Draw!gpu
<1>2. job[t].owned /\ (drawAt[t] = "resize" => job[t].kind = "resize" /\ job[t].sel)
      /\ (drawAt[t] = "color" => job[t].kind = "color")
  BY <1>1 DEF DrawInv, AllPlaced, Placed
<1>3. PICK sel \in BOOLEAN : Draw!BeforeResize(t, sel) /\ (drawAt[t] = "resize" => sel)
        /\ (sel => selected)
  BY <1>1, <1>2 DEF Draw!DrainForResize, Draw!DrainForColor, DrawInv, DrawTypes, AllPlaced, Placed
<1>4. /\ job' \in [Threads -> Jobs]
      /\ \A u \in Threads \ {t} : job'[u] = job[u]
      /\ job'[t].owned /\ job'[t].kind = job[t].kind /\ job'[t].sel = sel
      /\ job'[t].drained \in BOOLEAN
  <2>1. job[t] \in Jobs
    BY DEF DrawInv, DrawTypes
  <2>2. PICK b \in BOOLEAN : job' = [job EXCEPT ![t] = [job[t] EXCEPT !.drained = b, !.sel = sel]]
    <3>1. \/ job' = [job EXCEPT ![t].drained = TRUE, ![t].sel = sel]
          \/ job' = [job EXCEPT ![t].sel = sel]
      BY <1>3 DEF Draw!BeforeResize
    <3>2. job[t] = [job[t] EXCEPT !.drained = job[t].drained] /\ job[t].drained \in BOOLEAN
      BY <2>1 DEF Jobs
    <3> QED BY <2>1, <3>1, <3>2 DEF DrawInv, DrawTypes, Jobs
  <2>3. LET j == [job[t] EXCEPT !.drained = b, !.sel = sel]
        IN  /\ j \in Jobs
            /\ j.owned = job[t].owned /\ j.kind = job[t].kind /\ j.sel = sel /\ j.drained = b
    BY <2>1 DEF Jobs
  <2> QED BY <1>2, <2>2, <2>3 DEF DrawInv, DrawTypes
<1>5. /\ broken' \in BOOLEAN /\ drawHeld' \in BOOLEAN /\ (broken => broken')
           /\ (drawHeld' => drawHeld)
      /\ initialized /\ sel => broken' \/ (~drawHeld' /\ running = 0)
  <2>1. broken \in BOOLEAN /\ drawHeld \in BOOLEAN
    BY DEF DrawInv, DrawTypes
  <2>2. CASE (~initialized \/ ~sel) /\ UNCHANGED <<broken, drawHeld>>
    BY <2>1, <2>2
  <2>3. CASE running = 0 /\ drawHeld' = FALSE /\ UNCHANGED broken
    BY <2>1, <2>3
  <2>4. CASE broken' = TRUE /\ UNCHANGED drawHeld
    BY <2>1, <2>4
  <2> QED BY <1>3, <2>2, <2>3, <2>4 DEF Draw!BeforeResize, Draw!Drained
<1>6. drawFailed' \in BOOLEAN /\ (drawFailed => drawFailed')
  <2>1. CASE Draw!DrainForResize(t)
    BY <2>1, <1>4 DEF Draw!DrainForResize, DrawInv, DrawTypes
  <2>2. CASE Draw!DrainForColor(t)
    BY <2>2 DEF Draw!DrainForColor, DrawInv, DrawTypes
  <2> QED BY <2>1, <2>2
<1>7. /\ observed' \in BOOLEAN /\ (observed' => observed)
      /\ drawAt[t] = "color" => ~observed'
  <2>1. observed \in BOOLEAN /\ (observed => selected)
    BY DEF DrawInv, DrawTypes, Seen
  <2>2. CASE drawAt[t] = "resize"
    BY <1>1, <2>1, <2>2
  <2>3. CASE drawAt[t] = "color"
    <3>1. observed' = FALSE
      BY <1>1, <2>1, <2>3
    <3> QED BY <2>3, <3>1
  <2> QED BY <1>1, <2>2, <2>3
<1>8. DrawTypes'
  BY <1>1, <1>4, <1>5, <1>6, <1>7 DEF DrawInv, DrawTypes, Draw!Gate!TypeOK
<1>9. AllPlaced'
  BY <1>1, <1>2, <1>3, <1>4 DEF DrawInv, DrawTypes, Draw!Gate!TypeOK, AllPlaced, Placed, Inside
<1>10. Prepared' /\ LetGo'
  BY <1>1, <1>2, <1>3, <1>4, <1>5 DEF DrawInv, DrawTypes, Prepared, LetGo
<1>11. Seen'
  BY <1>1, <1>2, <1>4, <1>6, <1>7 DEF DrawInv, DrawTypes, Seen, Stopped
<1>12. Barred'
  BY <1>1, <1>2, <1>4, <1>6 DEF DrawInv, DrawTypes, Barred, Stopped
<1> QED BY <1>8, <1>9, <1>10, <1>11, <1>12 DEF DrawInv

(* The game's call returns: either it was alone with the chain, or the     *)
(* overlay is stopped, or it could not touch the colours.                  *)
LEMMA NativeSound == ASSUME DrawInv, NEW t \in Threads, Draw!Native(t) PROVE DrawInv'
<1>1. /\ drawAt[t] = "native"
      /\ drawAt' = [drawAt EXCEPT ![t] = IF job[t].owned THEN "after" ELSE "idle"]
      /\ UNCHANGED <<phase, drawClosed, selected, initialized, observed, broken, drawHeld,
                     format, running, drawPolicy>>
  BY DEF Draw!Native, Draw!Go, Draw!renderer
<1>2. PICK ok \in BOOLEAN :
        /\ job' = [job EXCEPT ![t] = Draw!Returned(t, ok)]
        /\ chain' \in GameChains
        /\ drawFailed' \in BOOLEAN /\ (drawFailed => drawFailed') /\ ambiguous' \in BOOLEAN
        /\ job[t].kind = "color" =>
             chain'.told = (IF ok THEN job[t].space ELSE chain.told)
               /\ (job[t].owned \/ drawFailed')
        /\ job[t].kind = "resize" =>
             \/ chain'.told = chain.told
             \/ job[t].sel /\ (drawFailed' \/ chain'.told = "sdr")
  <2>1. /\ chain \in GameChains /\ job[t].space \in Draw!Spaces
        /\ drawFailed \in BOOLEAN /\ ambiguous \in BOOLEAN /\ job[t].owned \in BOOLEAN
        /\ job[t].sel \in BOOLEAN
    BY DEF DrawInv, DrawTypes, Jobs
  <2>2. CASE job[t].kind = "color"
    <3>1. PICK ok \in BOOLEAN :
            /\ chain' = IF ok THEN [chain EXCEPT !.told = job[t].space] ELSE chain
            /\ job' = [job EXCEPT ![t] = Draw!Returned(t, ok)]
            /\ drawFailed' = (drawFailed \/ ~job[t].owned)
            /\ UNCHANGED ambiguous
      BY <2>2 DEF Draw!Native
    <3>2. /\ chain' \in GameChains
          /\ chain'.told = IF ok THEN job[t].space ELSE chain.told
      BY <2>1, <3>1 DEF GameChains
    <3> QED BY <2>1, <2>2, <3>1, <3>2
  <2>3. CASE job[t].kind = "resize"
    <3>1. PICK ok \in BOOLEAN,
               nested \in IF job[t].sel THEN {"none", "failed", "sdr", "pq"} ELSE {"none"},
               other \in Draw!Formats :
            /\ chain' = [chain EXCEPT !.format = other,
                           !.told = IF nested \in Draw!Spaces THEN nested ELSE @]
            /\ job' = [job EXCEPT ![t] = Draw!Returned(t, ok)]
            /\ drawFailed' = (drawFailed \/ nested \in {"failed", "pq"})
      <4>1. PICK ok \in (IF drawHeld THEN {FALSE} ELSE BOOLEAN),
                 nested \in IF job[t].sel THEN {"none", "failed", "sdr", "pq"} ELSE {"none"} :
              /\ \E other \in IF ok THEN Draw!Formats ELSE {chain.format} :
                   chain' = [chain EXCEPT !.format = other,
                           !.told = IF nested \in Draw!Spaces THEN nested ELSE @]
              /\ job' = [job EXCEPT ![t] = Draw!Returned(t, ok)]
              /\ drawFailed' = (drawFailed \/ nested \in {"failed", "pq"})
        BY <2>3 DEF Draw!Native
      <4>2. ok \in BOOLEAN /\ chain.format \in Draw!Formats
        BY <2>1 DEF GameChains
      <4> QED BY <4>1, <4>2
    <3>2. ambiguous' \in BOOLEAN
      BY <2>1, <2>3 DEF Draw!Native
    <3>3. /\ chain' \in GameChains
          /\ chain'.told = IF nested \in Draw!Spaces THEN nested ELSE chain.told
      BY <2>1, <3>1 DEF GameChains
    <3>4. \/ chain'.told = chain.told
          \/ job[t].sel /\ (drawFailed' \/ chain'.told = "sdr")
      BY <3>1, <3>3 DEF Draw!Spaces
    <3> QED BY <2>1, <2>3, <3>1, <3>2, <3>3, <3>4
  <2>4. job[t].kind \in {"resize", "color"}
    BY <1>1 DEF DrawInv, AllPlaced, Placed
  <2> QED BY <2>2, <2>3, <2>4
<1>3. /\ job' \in [Threads -> Jobs]
      /\ \A u \in Threads \ {t} : job'[u] = job[u]
      /\ job[t].owned => /\ job'[t].owned /\ job'[t].kind = job[t].kind
                         /\ job'[t].sel = job[t].sel /\ job'[t].space = job[t].space
                         /\ job'[t].ok = ok
      /\ ~job[t].owned => job'[t].sel = FALSE
  <2>1. job[t] \in Jobs
    BY DEF DrawInv, DrawTypes
  <2>2. LET j == [job[t] EXCEPT !.ok = ok]
        IN  /\ j \in Jobs
            /\ j.owned = job[t].owned /\ j.kind = job[t].kind /\ j.sel = job[t].sel
            /\ j.space = job[t].space /\ j.ok = ok
    BY <2>1 DEF Jobs
  <2>3. Draw!NoJob \in Jobs /\ Draw!NoJob.sel = FALSE
    BY DEF Draw!NoJob, Jobs, Draw!Kinds, Draw!Spaces
  <2> QED BY <1>2, <2>2, <2>3 DEF Draw!Returned, DrawInv, DrawTypes
<1>4. /\ job[t].owned => \A u \in Threads \ {t}
           : drawAt[u] \notin {"drawing", "recorded", "after"}
      /\ job[t].kind \in {"resize", "color"} /\ job[t].owned \in BOOLEAN
      /\ job[t].kind = "resize" /\ job[t].sel /\ ~job[t].owned => drawClosed
      /\ job[t].kind = "color" /\ job[t].owned => ~observed
  <2>1. job[t].owned => phase[t] \in Inside
    BY <1>1 DEF DrawInv, AllPlaced, Placed, Inside
  <2>2. job[t].owned \in BOOLEAN
    BY DEF DrawInv, DrawTypes, Jobs
  <2>3. /\ job[t].kind \in {"resize", "color"}
        /\ job[t].kind = "resize" /\ job[t].sel /\ ~job[t].owned => drawClosed
        /\ job[t].kind = "color" /\ job[t].owned => ~observed
    BY <1>1 DEF DrawInv, AllPlaced, Placed, LetGo, Seen
  <2> QED BY <2>1, <2>2, <2>3, Alone
<1>5. DrawTypes'
  BY <1>1, <1>2, <1>3 DEF DrawInv, DrawTypes, Draw!Gate!TypeOK
<1>6. AllPlaced'
  BY <1>1, <1>3 DEF DrawInv, DrawTypes, Draw!Gate!TypeOK, AllPlaced, Placed, Inside
<1>7. Prepared' /\ LetGo'
  BY <1>1, <1>3 DEF DrawInv, DrawTypes, Prepared, LetGo
<1>8. Seen'
  BY <1>1, <1>2, <1>3, <1>4 DEF DrawInv, DrawTypes, Seen, Stopped
<1>9. Barred'
  BY <1>1, <1>2, <1>3, <1>4 DEF DrawInv, DrawTypes, Barred, Stopped
<1> QED BY <1>5, <1>6, <1>7, <1>8, <1>9 DEF DrawInv

-----------------------------------------------------------------------------
(* Once the overlay has stopped, a colour space of the game is not seen.   *)
LEMMA SetColorUnseenSound ==
  ASSUME DrawInv, NEW t \in Threads, NEW space \in {"sdr", "pq"}, Draw!SetColorUnseen(t, space)
  PROVE  DrawInv'
<1>1. /\ drawFailed
      /\ UNCHANGED <<phase, drawClosed, drawAt, job, selected, initialized, observed, ambiguous,
                     drawFailed, broken, drawHeld, format, running, drawPolicy>>
  BY DEF Draw!SetColorUnseen, Draw!hook, Draw!renderer
<1>2. chain' \in GameChains
  <2>1. chain \in GameChains /\ space \in Draw!Spaces
    BY DEF DrawInv, DrawTypes, Draw!Spaces
  <2>2. [chain EXCEPT !.told = space] \in GameChains
    BY <2>1 DEF GameChains
  <2> QED BY <2>1, <2>2 DEF Draw!SetColorUnseen
<1>3. DrawTypes'
  BY <1>1, <1>2 DEF DrawInv, DrawTypes, Draw!Gate!TypeOK
<1>4. AllPlaced' /\ Prepared' /\ LetGo'
  BY <1>1 DEF DrawInv, AllPlaced, Placed, Prepared, LetGo
<1>5. Seen' /\ Barred'
  BY <1>1 DEF DrawInv, Seen, Barred, Stopped
<1> QED BY <1>3, <1>4, <1>5 DEF DrawInv

(* What the end of a transition leaves behind, whatever it finds: its      *)
(* thread is out of the gate, and was alone in it.                         *)
LEMMA Ends ==
  ASSUME DrawInv, NEW t \in Threads, drawAt[t] = "after",
         drawAt' = [drawAt EXCEPT ![t] = "idle"], phase' = [phase EXCEPT ![t] = "out"],
         job' = [job EXCEPT ![t] = Draw!NoJob],
         drawClosed' \in BOOLEAN, drawFailed' \in BOOLEAN, drawClosed => drawClosed',
             drawFailed => drawFailed',
         broken' \in BOOLEAN, drawHeld' \in BOOLEAN, format' \in Draw!Formats,
             observed' \in BOOLEAN,
         ~initialized => UNCHANGED <<broken, drawHeld>>,
         observed' => selected /\ (Stopped' \/ chain.told = "sdr"),
         chain.told = "pq" /\ job[t].kind = "color" /\ job[t].space = "pq" => Stopped',
         UNCHANGED <<selected, initialized, ambiguous, chain, running, drawPolicy>>
  PROVE  DrawInv'
<1>1. phase[t] \in Inside /\ job[t].owned
  BY DEF DrawInv, AllPlaced, Placed, Inside
<1>2. \A u \in Threads \ {t} : /\ drawAt[u] \notin {"drawing", "recorded", "after"}
                               /\ drawAt[u] = "native" => ~job[u].owned
  BY <1>1, Alone
<1>3. Draw!NoJob \in Jobs /\ Draw!NoJob.sel = FALSE
  BY DEF Draw!NoJob, Jobs, Draw!Kinds, Draw!Spaces
<1>4. DrawTypes'
  BY <1>3 DEF DrawInv, DrawTypes, Draw!Gate!TypeOK
<1>5. AllPlaced'
  BY <1>3 DEF DrawInv, DrawTypes, Draw!Gate!TypeOK, AllPlaced, Placed, Inside
<1>6. Prepared'
  BY <1>2 DEF DrawInv, DrawTypes, Prepared
<1>7. LetGo'
  BY <1>2 DEF DrawInv, DrawTypes, LetGo
<1>8. Seen'
  BY <1>2 DEF DrawInv, DrawTypes, Seen, Stopped
<1>9. Barred'
  BY <1>2 DEF DrawInv, DrawTypes, Barred, Stopped
<1> QED BY <1>4, <1>5, <1>6, <1>7, <1>8, <1>9 DEF DrawInv

(* What Rebuild leaves: the buffers and the format of the chain are typed. *)
LEMMA RebuildTyped ==
  ASSUME DrawInv, NEW valid \in BOOLEAN, Draw!Rebuild(valid) \/ UNCHANGED Draw!renderer
  PROVE  /\ broken' \in BOOLEAN /\ drawHeld' \in BOOLEAN /\ format' \in Draw!Formats
<1>1. broken \in BOOLEAN /\ drawHeld \in BOOLEAN /\ format \in Draw!Formats
        /\ chain.format \in Draw!Formats
  BY DEF DrawInv, DrawTypes, GameChains
<1>2. CASE Draw!Rebuild(valid)
  BY <1>1, <1>2 DEF Draw!Rebuild
<1>3. CASE UNCHANGED Draw!renderer
  BY <1>1, <1>3 DEF Draw!renderer
<1> QED BY <1>2, <1>3

LEMMA AfterResizeSound == ASSUME DrawInv, NEW t \in Threads, Draw!AfterResize(t) PROVE DrawInv'
<1>1. /\ drawAt[t] = "after" /\ job[t].kind = "resize"
      /\ job' = [job EXCEPT ![t] = Draw!NoJob]
      /\ UNCHANGED <<selected, initialized, observed, ambiguous, chain, running, drawPolicy>>
  BY DEF Draw!AfterResize, Draw!gpu
<1>2. PICK sdr \in BOOLEAN :
        LET valid == job[t].drained /\ job[t].ok /\ ~Draw!Blocked /\ sdr IN
        /\ IF initialized /\ job[t].drained THEN Draw!Rebuild(valid) ELSE UNCHANGED Draw!renderer
        /\ IF valid /\ broken' = FALSE THEN Draw!EndRender(t)
             /\ UNCHANGED drawFailed ELSE Draw!Stop(t)
  BY DEF Draw!AfterResize
<1> DEFINE valid == job[t].drained /\ job[t].ok /\ ~Draw!Blocked /\ sdr
<1>3. valid \in BOOLEAN
  OBVIOUS
<1>4. /\ drawAt' = [drawAt EXCEPT ![t] = "idle"] /\ phase' = [phase EXCEPT ![t] = "out"]
      /\ \/ UNCHANGED <<drawClosed, drawFailed>>
         \/ drawClosed' = TRUE /\ drawFailed' = TRUE
  BY <1>2 DEF Draw!EndRender, Draw!Gate!Leave, Draw!Stop, Draw!Go
<1>5. drawClosed' \in BOOLEAN /\ drawFailed' \in BOOLEAN /\ (drawClosed => drawClosed')
        /\ (drawFailed => drawFailed')
  <2>1. drawClosed \in BOOLEAN /\ drawFailed \in BOOLEAN
    BY DEF DrawInv, DrawTypes, Draw!Gate!TypeOK
  <2>2. CASE UNCHANGED <<drawClosed, drawFailed>>
    BY <2>1, <2>2
  <2>3. CASE drawClosed' = TRUE /\ drawFailed' = TRUE
    BY <2>3
  <2> QED BY <1>4, <2>2, <2>3
<1>6. /\ broken' \in BOOLEAN /\ drawHeld' \in BOOLEAN /\ format' \in Draw!Formats
      /\ ~initialized => UNCHANGED <<broken, drawHeld>>
  <2>1. Draw!Rebuild(valid) \/ UNCHANGED Draw!renderer
    BY <1>2
  <2>2. ~initialized => UNCHANGED <<broken, drawHeld>>
    BY <1>2 DEF Draw!renderer
  <2> HIDE DEF valid
  <2> QED BY <1>3, <2>1, <2>2, RebuildTyped
<1>7. observed' \in BOOLEAN /\ (observed' => selected /\ (Stopped' \/ chain.told = "sdr"))
  <2>1. observed \in BOOLEAN /\ (observed => selected /\ (Stopped \/ chain.told = "sdr"))
    BY DEF DrawInv, DrawTypes, Seen
  <2>2. Stopped => Stopped'
    BY <1>5 DEF Stopped
  <2> QED BY <1>1, <2>1, <2>2
<1> QED BY <1>1, <1>4, <1>5, <1>6, <1>7, Ends

(* Only an SDR space that was set becomes evidence; if HDR was set, the    *)
(* overlay stops.                                                          *)
LEMMA AfterColorSound == ASSUME DrawInv, NEW t \in Threads, Draw!AfterColor(t) PROVE DrawInv'
<1>1. /\ drawAt[t] = "after" /\ job[t].kind = "color"
      /\ job' = [job EXCEPT ![t] = Draw!NoJob]
      /\ UNCHANGED <<selected, initialized, ambiguous, chain, running, drawPolicy>>
  BY DEF Draw!AfterColor, Draw!gpu
<1> DEFINE legal == job[t].drained /\ job[t].ok /\ ~Draw!Blocked
                    /\ (Draw!Evidence(t) \/ (~job[t].sel /\ job[t].space = "sdr"))
<1>2. PICK sdr \in BOOLEAN :
        /\ IF job[t].sel /\ initialized /\ job[t].drained
             THEN Draw!Rebuild(legal /\ (sdr \/ ~job[t].sel)) ELSE UNCHANGED Draw!renderer
        /\ IF (legal /\ (sdr \/ ~job[t].sel)) /\ (job[t].sel => broken' = FALSE)
             THEN /\ Draw!EndRender(t)
                  /\ observed' = (observed \/ job[t].sel)
                  /\ UNCHANGED drawFailed
             ELSE /\ Draw!Stop(t)
                  /\ observed' = FALSE
  BY DEF Draw!AfterColor
<1> DEFINE valid == legal /\ (sdr \/ ~job[t].sel)
<1>3. /\ valid \in BOOLEAN
      /\ valid => job[t].ok /\ job[t].space = "sdr"
  BY DEF Draw!Evidence
<1>4. /\ drawAt' = [drawAt EXCEPT ![t] = "idle"] /\ phase' = [phase EXCEPT ![t] = "out"]
      /\ \/ UNCHANGED <<drawClosed, drawFailed>> /\ valid /\ observed' = (observed \/ job[t].sel)
         \/ drawClosed' = TRUE /\ drawFailed' = TRUE /\ observed' = FALSE
  BY <1>2 DEF Draw!EndRender, Draw!Gate!Leave, Draw!Stop, Draw!Go
<1>5. Draw!Rebuild(valid) \/ UNCHANGED Draw!renderer
  BY <1>2
<1>6. ~initialized => UNCHANGED <<broken, drawHeld>>
  BY <1>2 DEF Draw!renderer
<1> HIDE DEF valid, legal
<1>7. /\ broken' \in BOOLEAN /\ drawHeld' \in BOOLEAN /\ format' \in Draw!Formats
  BY <1>3, <1>5, RebuildTyped
<1>8. drawClosed \in BOOLEAN /\ drawFailed \in BOOLEAN /\ observed \in BOOLEAN
        /\ job[t].sel \in BOOLEAN
  BY DEF DrawInv, DrawTypes, Draw!Gate!TypeOK, Jobs
<1>9. CASE UNCHANGED <<drawClosed, drawFailed>> /\ valid /\ observed' = (observed \/ job[t].sel)
  <2>1. Stopped \/ chain.told = "sdr"
    BY <1>1, <1>3, <1>9 DEF DrawInv, Seen
  <2>2. job[t].sel => selected
    BY DEF DrawInv, AllPlaced, Placed
  <2>3. observed => selected
    BY DEF DrawInv, Seen
  <2>4. Stopped' <=> Stopped
    BY <1>9 DEF Stopped
  <2>5. observed' => selected /\ (Stopped' \/ chain.told = "sdr")
    BY <1>9, <2>1, <2>2, <2>3, <2>4
  <2>6. job[t].space # "pq"
    BY <1>3, <1>9
  <2>7. observed' \in BOOLEAN
    BY <1>8, <1>9
  <2>8. drawClosed' \in BOOLEAN /\ drawFailed' \in BOOLEAN /\ (drawClosed => drawClosed')
          /\ (drawFailed => drawFailed')
    BY <1>8, <1>9
  <2> QED BY <1>1, <1>4, <1>6, <1>7, <2>5, <2>6, <2>7, <2>8, Ends
<1>10. CASE drawClosed' = TRUE /\ drawFailed' = TRUE /\ observed' = FALSE
  <2>1. Stopped'
    BY <1>10 DEF Stopped
  <2>2. /\ drawClosed' \in BOOLEAN /\ drawFailed' \in BOOLEAN /\ (drawClosed => drawClosed')
             /\ (drawFailed => drawFailed')
        /\ observed' \in BOOLEAN /\ ~observed'
    BY <1>10
  <2> QED BY <1>1, <1>4, <1>6, <1>7, <2>1, <2>2, Ends
<1> QED BY <1>4, <1>9, <1>10

LEMMA GpuFinishesSound == ASSUME DrawAssumption, DrawInv, Draw!GpuFinishes PROVE DrawInv'
<1>1. /\ running > 0 /\ running' = running - 1
      /\ UNCHANGED <<phase, drawClosed, drawAt, job, selected, initialized, observed, ambiguous,
                     drawFailed, broken, drawHeld, format, chain, drawPolicy>>
  BY DEF Draw!GpuFinishes, Draw!hook, Draw!renderer
<1>2. /\ running' \in 0 .. MaxRunning /\ running' < running /\ running # 0
      /\ running < MaxRunning => running' < MaxRunning
  BY <1>1 DEF DrawInv, DrawTypes, DrawAssumption
<1>3. DrawTypes'
  BY <1>1, <1>2 DEF DrawInv, DrawTypes, Draw!Gate!TypeOK
<1>4. AllPlaced' /\ LetGo'
  BY <1>1, <1>2 DEF DrawInv, AllPlaced, Placed, LetGo
<1>5. Prepared'
  BY <1>1, <1>2 DEF DrawInv, Prepared
<1>6. Seen' /\ Barred'
  BY <1>1 DEF DrawInv, Seen, Barred, Stopped
<1> QED BY <1>3, <1>4, <1>5, <1>6 DEF DrawInv

LEMMA DisqualifiedSound == ASSUME DrawInv, Draw!Disqualified PROVE DrawInv'
<1>1. UNCHANGED <<phase, drawClosed, drawAt, job, selected, initialized, observed, broken,
                  drawHeld, format, chain, running, drawPolicy>>
  BY DEF Draw!Disqualified, Draw!renderer, Draw!gpu
<1>2. ambiguous' \in BOOLEAN /\ drawFailed' \in BOOLEAN /\ (drawFailed => drawFailed')
  <2>1. ambiguous \in BOOLEAN /\ drawFailed \in BOOLEAN
    BY DEF DrawInv, DrawTypes
  <2>2. \/ ambiguous' = TRUE /\ UNCHANGED drawFailed
        \/ drawFailed' = TRUE /\ UNCHANGED ambiguous
    BY DEF Draw!Disqualified
  <2> QED BY <2>1, <2>2
<1>3. DrawTypes'
  BY <1>1, <1>2 DEF DrawInv, DrawTypes, Draw!Gate!TypeOK
<1>4. AllPlaced' /\ Prepared' /\ LetGo'
  BY <1>1 DEF DrawInv, AllPlaced, Placed, Prepared, LetGo
<1>5. Seen' /\ Barred'
  BY <1>1, <1>2 DEF DrawInv, Seen, Barred, Stopped
<1> QED BY <1>3, <1>4, <1>5 DEF DrawInv

-----------------------------------------------------------------------------
LEMMA DrawInitially == ASSUME DrawAssumption PROVE Draw!Init => DrawInv
<1> SUFFICES ASSUME Draw!Init PROVE DrawInv
  OBVIOUS
<1>1. /\ phase = [t \in Threads |-> "out"] /\ drawClosed = FALSE
      /\ drawAt = [t \in Threads |-> "idle"] /\ job = [t \in Threads |-> Draw!NoJob]
      /\ selected = FALSE /\ initialized = FALSE /\ observed = FALSE
      /\ ambiguous = FALSE /\ drawFailed = FALSE
      /\ broken = FALSE /\ drawHeld = FALSE /\ format = "8bit"
      /\ running = 0 /\ drawPolicy \in Policies
  BY DEF Draw!Init, Draw!Gate!Init
<1>2. chain \in GameChains /\ chain.told = "unset"
  BY DEF Draw!Init, Draw!Formats, Draw!Spaces, GameChains
<1>3. Draw!NoJob \in Jobs /\ Draw!NoJob.sel = FALSE
  BY DEF Draw!NoJob, Jobs, Draw!Kinds, Draw!Spaces
<1>4. DrawTypes
  <2>1. /\ Draw!Gate!TypeOK
        /\ drawAt \in [Threads -> {"idle", "present", "drawing", "recorded", "resize", "color",
                              "native", "after"}]
        /\ job \in [Threads -> Jobs] /\ format \in Draw!Formats
    BY <1>1, <1>3 DEF Draw!Gate!TypeOK, Draw!Formats
  <2>2. running \in 0 .. MaxRunning
    BY <1>1 DEF DrawAssumption
  <2> QED BY <1>1, <1>2, <2>1, <2>2 DEF DrawTypes
<1>5. AllPlaced /\ Prepared /\ LetGo
  BY <1>1, <1>3 DEF AllPlaced, Placed, Inside, Prepared, LetGo
<1>6. Seen /\ Barred
  BY <1>1, <1>2 DEF Seen, Barred
<1> QED BY <1>4, <1>5, <1>6 DEF DrawInv

LEMMA DrawStep == ASSUME DrawAssumption PROVE DrawInv /\ [Draw!Next]_(Draw!draw) => DrawInv'
<1> SUFFICES ASSUME DrawInv, [Draw!Next]_(Draw!draw) PROVE DrawInv'
  OBVIOUS
<1>1. CASE UNCHANGED Draw!draw
  BY <1>1
  DEF Draw!draw, Draw!hook, Draw!renderer, Draw!gpu, DrawInv, DrawTypes, Draw!Gate!TypeOK,
      AllPlaced, Placed, Prepared, LetGo, Seen, Barred, Stopped
<1>2. CASE Draw!Next
  BY <1>2, PresentSound, PresentRefusedSound, PresentAdmittedSound, InitializeSound,
     AdmitColorSound, RecordSound, SubmitSound, ComingSound, RefusedSound,
     TransitionAdmittedSound, DrainSound, NativeSound, SetColorUnseenSound, AfterResizeSound,
     AfterColorSound, GpuFinishesSound, DisqualifiedSound
  DEF Draw!Next
<1> QED BY <1>1, <1>2

LEMMA DrawFollows == DrawInv => Draw!TypeOK /\ Draw!ResizeUnhindered /\ Draw!SdrOnly
<1> SUFFICES ASSUME DrawInv PROVE Draw!TypeOK /\ Draw!ResizeUnhindered /\ Draw!SdrOnly
  OBVIOUS
<1>1. {selected, initialized, observed, ambiguous, drawFailed, broken, drawHeld} \subseteq BOOLEAN
  BY DEF DrawInv, DrawTypes
<1>2. Draw!TypeOK
  BY <1>1 DEF DrawInv, DrawTypes, Jobs, GameChains, Draw!TypeOK
<1>3. Draw!ResizeUnhindered
  BY DEF DrawInv, LetGo, Draw!ResizeUnhindered
<1>4. Draw!SdrOnly
  <2>1. chain.told \in {"unset", "sdr", "pq"}
    BY DEF DrawInv, DrawTypes, GameChains, Draw!Spaces
  <2> QED BY <2>1 DEF DrawInv, Barred, Stopped, Draw!SdrOnly, Draw!ColorSpace
<1> QED BY <1>2, <1>3, <1>4

(* The inductive invariant holds in every reachable state.                 *)
THEOREM DrawInvariant == ASSUME DrawAssumption PROVE Draw!Spec => []DrawInv
BY DrawInitially, DrawStep, PTL DEF Draw!Spec

-----------------------------------------------------------------------------
(* The place of the desktop OSD.                                           *)

(* Screens side by side, the primary one where the coordinates begin.      *)
PlacementAssumption ==
  /\ \A all \in Arrangements :
       /\ all \subseteq [left : Int, right : Int, scale : Nat \ {0}]
       /\ \A s \in all : s.left < s.right
       /\ \A s, t \in all : s = t \/ s.right <= t.left \/ t.right <= s.left
       /\ \E s \in all : Placement!Contains(s, 0)
  /\ WidthOf \in [DOMAIN WidthOf -> [BOOLEAN -> Nat \ {0}]]
  /\ Threshold \in Nat /\ ScreenMargin \in Int
  /\ Nothing \notin Int /\ Nothing \notin {"exited", "crashed"}

Pairs == [expanded : Int \cup {Nothing}, collapsed : Int \cup {Nothing}]

PlacementTypes ==
  /\ osdScreens \in Arrangements /\ osdAt \in Int /\ osdScale \in Nat \ {0}
  /\ osdSize \in DOMAIN WidthOf /\ osdCollapsed \in BOOLEAN
  /\ osdPositions \in Pairs
  /\ osdGrab \in Int \cup {Nothing} /\ osdCursor \in Int
  /\ osdSaved \in [positions : Pairs, collapsed : BOOLEAN]
  /\ osdLeft \in {Nothing, "exited", "crashed"}

(* What a normal exit left behind is where the window was.                 *)
LeftBehind ==
  osdLeft = "exited" =>
    /\ osdSaved.collapsed = osdCollapsed
    /\ Placement!For(osdSaved.positions, osdCollapsed) = osdAt

PlacementInv ==
  /\ PlacementTypes
  /\ osdLeft # Nothing => osdGrab = Nothing
  /\ LeftBehind

(* A set of numbers has a smallest, one of bounded numbers a greatest.     *)
LEMMA SmallestOf ==
  ASSUME NEW S \in SUBSET Nat, S # {}
  PROVE  \E n \in S : \A m \in S : n <= m
<1> DEFINE R == OpToRel(<, Nat)
<1>1. PICK n \in S : \A k \in S : ~ (<<k, n>> \in R)
  BY NatLessThanWellFounded, WFMin
<1>2. R = {pair \in Nat \X Nat : pair[1] < pair[2]} BY DEF OpToRel
<1> HIDE DEF R
<1>3. ASSUME NEW m \in S PROVE n <= m
  <2> SUFFICES ASSUME m < n PROVE FALSE
    OBVIOUS
  <2>0. m \in Nat /\ n \in Nat
    BY <1>1
  <2>1. <<m, n>> \in Nat \X Nat /\ <<m, n>>[1] < <<m, n>>[2]
    BY <2>0
  <2> QED BY <1>1, <1>2, <2>1
<1> QED BY <1>3

LEMMA GreatestOf ==
  ASSUME NEW S \in SUBSET Nat, S # {}, NEW most \in Nat, \A n \in S : n <= most
  PROVE  \E n \in S : \A m \in S : m <= n
<1> DEFINE T == {most - n : n \in S}
<1>1. T \in SUBSET Nat /\ T # {}
  <2>1. ASSUME NEW n \in S PROVE most - n \in Nat
    <3>1. n \in Nat /\ n <= most
      OBVIOUS
    <3> QED BY <3>1
  <2> QED BY <2>1
<1>2. PICK k \in T : \A m \in T : k <= m
  BY <1>1, SmallestOf
<1>3. PICK n \in S : k = most - n
  OBVIOUS
<1>4. ASSUME NEW m \in S PROVE m <= n
  <2>1. most - n <= most - m
    BY <1>2, <1>3
  <2> QED BY <2>1
<1> QED BY <1>4

(* A rectangle is mostly on some screen, and one that starts on a screen   *)
(* is on that one.                                                         *)
LEMMA MostlyOnAScreen ==
  ASSUME PlacementAssumption, NEW all \in Arrangements, NEW x \in Int, NEW w \in Nat \ {0}
  PROVE  Placement!MostlyOn(all, x, w) \in all
<1> DEFINE Dist(s) == Placement!Distance(s, x, w)
           Over(s) == Placement!Overlap(s, x, w)
<1>0. /\ all # {} /\ \A s \in all : s.left \in Int /\ s.right \in Int /\ s.left < s.right
  BY DEF PlacementAssumption
<1>1. \A s \in all : Dist(s) \in Nat /\ Over(s) \in Nat /\ Over(s) <= w
  BY <1>0 DEF Placement!Distance, Placement!Overlap, Placement!Larger, Placement!Smaller
<1> HIDE DEF Dist, Over
<1>2. PICK best \in {Over(s) : s \in all} : \A n \in {Over(s) : s \in all} : n <= best
  <2> DEFINE S == {Over(s) : s \in all}
  <2>1. S \in SUBSET Nat /\ S # {} /\ \A n \in S : n <= w
    BY <1>0, <1>1
  <2> HIDE DEF S
  <2>2. \E n \in S : \A m \in S : m <= n
    BY <2>1, GreatestOf
  <2> QED BY <2>2 DEF S
<1>3. PICK near \in {Dist(s) : s \in {t \in all : Over(t) = best}} :
        \A n \in {Dist(s) : s \in {t \in all : Over(t) = best}} : near <= n
  <2> DEFINE S == {Dist(s) : s \in {t \in all : Over(t) = best}}
  <2>1. S \in SUBSET Nat /\ S # {}
    BY <1>1, <1>2
  <2> HIDE DEF S
  <2>2. \E n \in S : \A m \in S : n <= m
    BY <2>1, SmallestOf
  <2> QED BY <2>2 DEF S
<1>4. PICK s \in all : Over(s) = best /\ Dist(s) = near
  BY <1>3
<1>5. ASSUME NEW t \in all
      PROVE  IF Over(s) = Over(t) THEN Dist(s) <= Dist(t) ELSE Over(s) > Over(t)
  <2>1. CASE Over(t) = best
    BY <1>3, <1>4, <2>1
  <2>2. CASE Over(t) # best
    <3>1. Over(t) <= best
      BY <1>2
    <3> QED BY <1>1, <1>4, <2>2, <3>1
  <2> QED BY <2>1, <2>2
<1>6. \E u \in all : \A t \in all :
        IF Over(u) = Over(t) THEN Dist(u) <= Dist(t) ELSE Over(u) > Over(t)
  BY <1>5
<1> QED BY <1>6 DEF Placement!MostlyOn, Dist, Over

LEMMA OnAScreen ==
  ASSUME PlacementAssumption, NEW all \in Arrangements, NEW x \in Int, NEW w \in Nat \ {0}
  PROVE  Placement!ScreenOf(all, x, w) \in all
BY MostlyOnAScreen DEF Placement!ScreenOf

LEMMA FitsSomewhere ==
  ASSUME PlacementAssumption, NEW all \in Arrangements, NEW x \in Int, NEW w \in Nat \ {0}
  PROVE  Placement!Fit(all, x, w) \in Int
<1> DEFINE s == Placement!ScreenOf(all, x, w)
<1>1. s \in all
  BY OnAScreen
<1> HIDE DEF s
<1>2. s.left \in Int /\ s.right \in Int
  BY <1>1 DEF PlacementAssumption
<1> QED BY <1>2 DEF Placement!Fit, Placement!Smaller, Placement!Larger, s

(* What lies on a screen stays where it is.                                *)
LEMMA FitsThere ==
  ASSUME PlacementAssumption, NEW all \in Arrangements, NEW x \in Int, NEW w \in Nat \ {0},
         NEW s \in all, s.left <= x, x + w <= s.right
  PROVE  Placement!Fit(all, x, w) = x
<1>0. \A t \in all : t.left \in Int /\ t.right \in Int /\ t.left < t.right
  BY DEF PlacementAssumption
<1>1. Placement!Contains(s, x)
  BY <1>0 DEF Placement!Contains
<1>2. ASSUME NEW t \in all, Placement!Contains(t, x) PROVE t = s
  <2>1. s = t \/ s.right <= t.left \/ t.right <= s.left
    BY DEF PlacementAssumption
  <2> QED BY <1>0, <1>2, <2>1 DEF Placement!Contains
<1>3. Placement!ScreenOf(all, x, w) = s
  BY <1>1, <1>2 DEF Placement!ScreenOf
<1> QED BY <1>0, <1>3 DEF Placement!Fit, Placement!Smaller, Placement!Larger

(* It is mostly on that screen, too.                                       *)
LEMMA MostlyThere ==
  ASSUME PlacementAssumption, NEW all \in Arrangements, NEW x \in Int, NEW w \in Nat \ {0},
         NEW s \in all, s.left <= x, x + w <= s.right
  PROVE  Placement!MostlyOn(all, x, w) = s
<1> DEFINE Dist(t) == Placement!Distance(t, x, w)
           Over(t) == Placement!Overlap(t, x, w)
           Most(u) == \A t \in all : IF Over(u) = Over(t) THEN Dist(u) <= Dist(t)
                                     ELSE Over(u) > Over(t)
<1>0. \A t \in all : t.left \in Int /\ t.right \in Int /\ t.left < t.right
  BY DEF PlacementAssumption
<1>1. Over(s) = w
  BY <1>0 DEF Placement!Overlap, Placement!Larger, Placement!Smaller
<1>2. ASSUME NEW t \in all, t # s PROVE Over(t) = 0
  <2>1. s.right <= t.left \/ t.right <= s.left
    BY <1>2 DEF PlacementAssumption
  <2> QED BY <1>0, <2>1 DEF Placement!Overlap, Placement!Larger, Placement!Smaller
<1>3. Dist(s) \in Int
  BY <1>0 DEF Placement!Distance, Placement!Larger
<1> HIDE DEF Dist, Over
<1>4. Most(s)
  BY <1>1, <1>2, <1>3
<1>5. ASSUME NEW u \in all, Most(u) PROVE u = s
  BY <1>1, <1>2, <1>5
<1>6. Placement!MostlyOn(all, x, w) = CHOOSE u \in all : Most(u)
  BY DEF Placement!MostlyOn, Dist, Over
<1> HIDE DEF Most
<1> QED BY <1>4, <1>5, <1>6

LEMMA Widths ==
  ASSUME PlacementAssumption, NEW s \in DOMAIN WidthOf, NEW folded \in BOOLEAN,
         NEW c \in Nat \ {0}
  PROVE  Placement!Width(s, folded, c) \in Nat \ {0}
<1>1. WidthOf[s][folded] \in Nat \ {0}
  BY DEF PlacementAssumption
<1>2. \A m, n \in Nat \ {0} : m * n \in Nat \ {0}
  OBVIOUS
<1> QED BY <1>1, <1>2 DEF Placement!Width

(* A window that keeps its scale is where it was put.                      *)
LEMMA PlacedSomewhere ==
  ASSUME PlacementAssumption, NEW all \in Arrangements, NEW folded \in BOOLEAN,
         NEW s \in DOMAIN WidthOf, NEW c \in Nat \ {0}, NEW x \in Int,
         NEW p \in Placement!Placed(all, s, folded, c, x)
  PROVE  p.at \in Int /\ p.scale \in Nat \ {0} /\ (p.scale = c => p.at = x)
<1> DEFINE on == Placement!MostlyOn(all, x, Placement!Width(s, folded, c))
<1>1. on \in all
  BY MostlyOnAScreen, Widths
<1>2. on.left \in Int /\ on.right \in Int /\ on.scale \in Nat \ {0}
  BY <1>1 DEF PlacementAssumption
<1>3. p \in IF on.scale = c THEN {[at |-> x, scale |-> c]}
           ELSE {[at |-> Placement!Fit(all, y, Placement!Width(s, folded, on.scale)),
                  scale |-> on.scale] : y \in on.left .. (on.right - 1)}
  BY DEF Placement!Placed
<1> HIDE DEF on
<1>4. CASE on.scale = c
  BY <1>3, <1>4
<1>5. CASE on.scale # c
  <2>1. PICK y \in on.left .. (on.right - 1) :
          p = [at |-> Placement!Fit(all, y, Placement!Width(s, folded, on.scale)),
               scale |-> on.scale]
    BY <1>3, <1>5
  <2>2. Placement!Width(s, folded, on.scale) \in Nat \ {0} /\ y \in Int
    BY <1>2, Widths
  <2>3. Placement!Fit(all, y, Placement!Width(s, folded, on.scale)) \in Int
    BY <2>2, FitsSomewhere
  <2> QED BY <1>2, <1>5, <2>1, <2>3
<1> QED BY <1>4, <1>5

LEMMA FittedSomewhere ==
  ASSUME PlacementAssumption, NEW all \in Arrangements, NEW folded \in BOOLEAN,
         NEW s \in DOMAIN WidthOf, NEW c \in Nat \ {0}, NEW x \in Int,
         NEW p \in Placement!Fitted(all, s, folded, c, x)
  PROVE  p.at \in Int /\ p.scale \in Nat \ {0}
<1>1. Placement!Fit(all, x, Placement!Width(s, folded, c)) \in Int
  BY FitsSomewhere, Widths
<1> QED BY <1>1, PlacedSomewhere DEF Placement!Fitted

LEMMA PrimaryIsAScreen ==
  ASSUME PlacementAssumption, NEW all \in Arrangements
  PROVE  /\ Placement!Primary(all) \in all
         /\ Placement!Primary(all).left \in Int /\ Placement!Primary(all).scale \in Nat \ {0}
<1>1. Placement!Primary(all) \in all
  BY DEF PlacementAssumption, Placement!Primary
<1> QED BY <1>1 DEF PlacementAssumption

LEMMA OpensSomewhere ==
  ASSUME PlacementAssumption, NEW all \in Arrangements, NEW folded \in BOOLEAN,
         NEW s \in DOMAIN WidthOf, osdSaved.positions \in Pairs,
         NEW p \in Placement!Opened(all, folded, s)
  PROVE  p.at \in Int /\ p.scale \in Nat \ {0}
<1> DEFINE there == Placement!For(Placement!FromStored(osdSaved.positions), folded)
           x == IF there = Nothing THEN Placement!Primary(all).left + ScreenMargin ELSE there
<1>1. Placement!Primary(all).left \in Int /\ ScreenMargin \in Int
  BY PrimaryIsAScreen DEF PlacementAssumption
<1>2. there \in Int \cup {Nothing}
  BY DEF Placement!For, Placement!FromStored, Pairs
<1>3. x \in Int
  BY <1>1, <1>2
<1>4. p \in Placement!Fitted(all, s, folded, Placement!Primary(all).scale, x)
  BY DEF Placement!Opened
<1> HIDE DEF x
<1> QED BY <1>3, <1>4, FittedSomewhere, PrimaryIsAScreen

-----------------------------------------------------------------------------
LEMMA PlacementInitially ==
  ASSUME PlacementAssumption, Placement!Init PROVE PlacementInv
<1>1. osdSaved.positions \in Pairs /\ osdSaved.collapsed = osdCollapsed
  BY DEF Placement!Init, Pairs
<1>2. osdAt \in Int /\ osdScale \in Nat \ {0}
  BY <1>1, OpensSomewhere DEF Placement!Init
<1>3. PlacementTypes
  BY <1>1, <1>2 DEF Placement!Init, PlacementTypes, Pairs
<1> QED
  BY <1>3 DEF Placement!Init, PlacementInv, LeftBehind, PlacementAssumption

(* Where a move of the mouse puts the window before Windows says anything. *)
LEMMA PulledNear ==
  ASSUME PlacementAssumption, PlacementInv, NEW x \in Int,
         NEW y \in Placement!Snap(x, Placement!Wide) \cup {x}
  PROVE  y \in Int /\ Placement!Abs(y - x) <= Threshold * osdScale
<1>0. Threshold * osdScale \in Nat
  <2>1. \A m \in Nat, n \in Nat \ {0} : m * n \in Nat
    OBVIOUS
  <2> QED BY <2>1 DEF PlacementAssumption, PlacementInv, PlacementTypes
<1>1. CASE y = x
  BY <1>0, <1>1 DEF Placement!Abs
<1>2. CASE y # x
  <2>1. PICK d \in Placement!Pulls(x, Placement!Wide) : y = x + d
    BY <1>2 DEF Placement!Snap
  <2>2. \A e \in Placement!Edges : e \in Int
    BY DEF Placement!Edges, PlacementInv, PlacementTypes, PlacementAssumption
  <2>3. Placement!Wide \in Nat \ {0}
    BY Widths DEF Placement!Wide, PlacementInv, PlacementTypes
  <2>4. d \in Int /\ Placement!Abs(d) <= Threshold * osdScale
    BY <2>2, <2>3 DEF Placement!Pulls
  <2>5. (x + d) - x = d
    BY <2>4
  <2> QED BY <2>1, <2>4, <2>5
<1> QED BY <1>1, <1>2

LEMMA CursorsAreNumbers ==
  ASSUME PlacementAssumption, PlacementInv, NEW c \in Placement!Cursors PROVE c \in Int
BY DEF Placement!Cursors, PlacementInv, PlacementTypes, PlacementAssumption

LEMMA PlacementStep ==
  ASSUME PlacementAssumption, PlacementInv, [Placement!Next]_(Placement!vars)
  PROVE  PlacementInv'
<1> USE DEF PlacementInv
<1>0. Nothing \notin Int /\ Nothing \notin {"exited", "crashed"}
  BY DEF PlacementAssumption
<1>1. CASE Placement!BeginMove
  <2>1. /\ osdGrab' \in {0, Placement!Wide - 1} /\ osdCursor' = osdAt + osdGrab'
        /\ osdLeft = Nothing
        /\ UNCHANGED <<osdScreens, osdAt, osdScale, osdSize, osdCollapsed, osdPositions, osdSaved,
                       osdLeft>>
    BY <1>1 DEF Placement!BeginMove, Placement!Running
  <2>2. Placement!Wide \in Nat \ {0}
    BY Widths DEF Placement!Wide, PlacementTypes
  <2>3. osdGrab' \in Int /\ osdCursor' \in Int
    BY <2>1, <2>2 DEF PlacementTypes
  <2>4. PlacementTypes'
    BY <2>1, <2>3 DEF PlacementTypes
  <2> QED BY <1>0, <2>1, <2>4 DEF LeftBehind
<1>2. ASSUME NEW c \in Placement!Cursors, Placement!Moving(c) PROVE PlacementInv'
  <2>1. /\ osdLeft = Nothing /\ osdGrab # Nothing /\ osdCursor' = c
        /\ UNCHANGED <<osdScreens, osdSize, osdCollapsed, osdPositions, osdGrab, osdSaved, osdLeft>>
    BY <1>2 DEF Placement!Moving, Placement!Running
  <2>2. c \in Int /\ Placement!FromCursor(c) \in Int
    BY <2>1, CursorsAreNumbers DEF Placement!FromCursor, PlacementTypes
  <2>3. PICK x \in Placement!Snap(Placement!FromCursor(c), Placement!Wide)
                      \cup {Placement!FromCursor(c)} :
          Placement!Goes(Placement!Placed(osdScreens, osdSize, osdCollapsed, osdScale, x))
    BY <1>2 DEF Placement!Moving
  <2>4. x \in Int
    BY <2>2, PulledNear
  <2>5. osdAt' \in Int /\ osdScale' \in Nat \ {0}
    BY <2>3, <2>4, PlacedSomewhere DEF Placement!Goes, PlacementTypes
  <2>6. PlacementTypes'
    BY <2>1, <2>2, <2>5 DEF PlacementTypes
  <2> QED BY <1>0, <2>1, <2>6 DEF LeftBehind
<1>3. CASE Placement!OnExitSizeMove
  <2>1. /\ osdGrab' = Nothing /\ osdCursor' = 0 /\ osdLeft = Nothing
        /\ UNCHANGED <<osdScreens, osdAt, osdScale, osdSize, osdCollapsed, osdPositions, osdSaved,
                       osdLeft>>
    BY <1>3 DEF Placement!OnExitSizeMove, Placement!Running
  <2>2. PlacementTypes'
    BY <2>1 DEF PlacementTypes
  <2> QED BY <1>0, <2>1, <2>2 DEF LeftBehind
<1>4. ASSUME osdLeft = Nothing, osdGrab = Nothing, osdAt' \in Int, osdScale' \in Nat \ {0},
             osdScreens' \in Arrangements,
             osdSize' \in DOMAIN WidthOf, osdCollapsed' \in BOOLEAN, osdPositions' \in Pairs,
             UNCHANGED <<osdGrab, osdCursor, osdSaved, osdLeft>>
      PROVE  PlacementInv'
  <2>1. PlacementTypes'
    BY <1>4 DEF PlacementTypes
  <2> QED BY <1>0, <1>4, <2>1 DEF LeftBehind
<1>5. CASE Placement!ToggleCollapsed
  <2> DEFINE after == Placement!Width(osdSize, ~ osdCollapsed, osdScale)
             next == Placement!Fit(osdScreens, osdAt + Placement!Wide - after, after)
  <2>1. /\ osdLeft = Nothing /\ osdGrab = Nothing /\ osdCollapsed' = ~ osdCollapsed
        /\ Placement!Goes(Placement!Placed(osdScreens, osdSize, ~ osdCollapsed, osdScale, next))
        /\ osdPositions' = Placement!Put(Placement!Positions, ~ osdCollapsed, next)
        /\ UNCHANGED <<osdScreens, osdSize, osdGrab, osdCursor, osdSaved, osdLeft>>
    BY <1>5 DEF Placement!ToggleCollapsed, Placement!Running
  <2>2. after \in Nat \ {0} /\ Placement!Wide \in Nat \ {0} /\ osdAt \in Int
    BY Widths DEF Placement!Wide, PlacementTypes
  <2>3. osdAt + Placement!Wide - after \in Int
    BY <2>2
  <2>4. next \in Int
    BY <2>2, <2>3, FitsSomewhere DEF PlacementTypes
  <2> HIDE DEF next, after
  <2>5. osdAt' \in Int /\ osdScale' \in Nat \ {0}
    <3>1. PICK p \in Placement!Placed(osdScreens, osdSize, ~ osdCollapsed, osdScale, next) :
            osdAt' = p.at /\ osdScale' = p.scale
      BY <2>1 DEF Placement!Goes
    <3>2. osdScreens \in Arrangements /\ (~ osdCollapsed) \in BOOLEAN /\ osdSize \in DOMAIN WidthOf
          /\ osdScale \in Nat \ {0}
      BY DEF PlacementTypes
    <3>3. p.at \in Int /\ p.scale \in Nat \ {0}
      BY <2>4, <3>1, <3>2, PlacedSomewhere
    <3> QED BY <3>1, <3>3
  <2>6. Placement!Positions \in Pairs
    BY DEF Placement!Positions, Placement!Put, Pairs, PlacementTypes
  <2>7. Placement!Put(Placement!Positions, ~ osdCollapsed, next) \in Pairs
    BY <2>4, <2>6 DEF Placement!Put, Pairs
  <2> QED BY <1>4, <2>1, <2>5, <2>7 DEF PlacementTypes
<1>6. ASSUME NEW s \in DOMAIN WidthOf, Placement!Resize(s) PROVE PlacementInv'
  <2>1. /\ Placement!Goes(Placement!Fitted(osdScreens, s, osdCollapsed, osdScale, osdAt))
        /\ osdLeft = Nothing /\ osdGrab = Nothing /\ osdSize' = s
        /\ UNCHANGED <<osdScreens, osdCollapsed, osdPositions, osdGrab, osdCursor, osdSaved,
                       osdLeft>>
    BY <1>6 DEF Placement!Resize, Placement!Running
  <2>2. osdAt' \in Int /\ osdScale' \in Nat \ {0}
    BY <2>1, FittedSomewhere DEF Placement!Goes, PlacementTypes
  <2> QED BY <1>4, <2>1, <2>2 DEF PlacementTypes
<1>7. ASSUME NEW all \in Arrangements, Placement!OnDisplayChanged(all) PROVE PlacementInv'
  <2>1. /\ Placement!Goes(Placement!Fitted(all, osdSize, osdCollapsed, osdScale, osdAt))
        /\ osdLeft = Nothing /\ osdGrab = Nothing /\ osdScreens' = all
        /\ UNCHANGED <<osdSize, osdCollapsed, osdPositions, osdGrab, osdCursor, osdSaved, osdLeft>>
    BY <1>7 DEF Placement!OnDisplayChanged, Placement!Running
  <2>2. osdAt' \in Int /\ osdScale' \in Nat \ {0}
    BY <2>1, FittedSomewhere DEF Placement!Goes, PlacementTypes
  <2> QED BY <1>4, <2>1, <2>2 DEF PlacementTypes
<1>8. CASE Placement!Show
  <2>1. /\ Placement!Goes(Placement!Fitted(osdScreens, osdSize, osdCollapsed, osdScale, osdAt))
        /\ osdLeft = Nothing /\ osdGrab = Nothing
        /\ UNCHANGED <<osdScreens, osdSize, osdCollapsed, osdPositions, osdGrab, osdCursor,
                       osdSaved, osdLeft>>
    BY <1>8 DEF Placement!Show, Placement!Running
  <2>2. osdAt' \in Int /\ osdScale' \in Nat \ {0}
    BY <2>1, FittedSomewhere DEF Placement!Goes, PlacementTypes
  <2> QED BY <1>4, <2>1, <2>2 DEF PlacementTypes
<1>9. CASE Placement!Exit
  <2>1. /\ osdSaved' = [positions |-> Placement!Positions, collapsed |-> osdCollapsed]
        /\ osdLeft' = "exited" /\ osdGrab' = Nothing /\ osdCursor' = 0
        /\ osdPositions' = [expanded |-> Nothing, collapsed |-> Nothing]
        /\ UNCHANGED <<osdScreens, osdAt, osdScale, osdSize, osdCollapsed>>
    BY <1>9 DEF Placement!Exit
  <2>2. /\ Placement!Positions \in Pairs
        /\ Placement!For(Placement!Positions, osdCollapsed) = osdAt
    BY DEF Placement!Positions, Placement!Put, Placement!For, Pairs, PlacementTypes
  <2>3. osdPositions' \in Pairs /\ osdSaved' \in [positions : Pairs, collapsed : BOOLEAN]
    BY <2>1, <2>2 DEF Pairs, PlacementTypes
  <2>4. PlacementTypes'
    BY <2>1, <2>3 DEF PlacementTypes
  <2>5. LeftBehind'
    BY <2>1, <2>2 DEF LeftBehind, Placement!For
  <2> QED BY <2>1, <2>4, <2>5
<1>10. CASE Placement!Die
  <2>1. /\ osdLeft' = "crashed" /\ osdGrab' = Nothing /\ osdCursor' = 0 /\ osdAt' = 0
        /\ osdScale' = 1
        /\ osdCollapsed' = FALSE /\ osdPositions' = [expanded |-> Nothing, collapsed |-> Nothing]
        /\ UNCHANGED <<osdScreens, osdSize, osdSaved>>
    BY <1>10 DEF Placement!Die
  <2>2. osdPositions' \in Pairs
    BY <2>1 DEF Pairs
  <2>3. /\ osdAt' \in Int /\ osdGrab' \in Int \cup {Nothing} /\ osdCursor' \in Int
        /\ osdScale' \in Nat \ {0}
    <3>1. 0 \in Int /\ 1 \in Nat \ {0}
      OBVIOUS
    <3> QED BY <2>1, <3>1
  <2>4. PlacementTypes'
    BY <2>1, <2>2, <2>3 DEF PlacementTypes
  <2> QED BY <2>1, <2>4 DEF LeftBehind
<1>11. ASSUME NEW all \in Arrangements, Placement!Restart(all) PROVE PlacementInv'
  <2>1. /\ osdLeft # Nothing /\ osdScreens' = all /\ osdCollapsed' = osdSaved.collapsed
        /\ osdPositions' = Placement!FromStored(osdSaved.positions)
        /\ Placement!Goes(Placement!Opened(all, osdCollapsed', osdSize))
        /\ osdLeft' = Nothing
        /\ UNCHANGED <<osdSize, osdGrab, osdCursor, osdSaved>>
    BY <1>11 DEF Placement!Restart, Placement!Running
  <2>2. osdCollapsed' \in BOOLEAN /\ osdSaved.positions \in Pairs
    BY <2>1 DEF PlacementTypes
  <2>3. osdAt' \in Int /\ osdScale' \in Nat \ {0}
    BY <2>1, <2>2, OpensSomewhere DEF Placement!Goes, PlacementTypes
  <2>4. osdPositions' \in Pairs
    BY <2>1, <2>2 DEF Placement!FromStored, Pairs
  <2>5. PlacementTypes'
    BY <2>1, <2>2, <2>3, <2>4 DEF PlacementTypes
  <2> QED BY <1>0, <2>1, <2>5 DEF LeftBehind
<1>12. CASE UNCHANGED Placement!vars
  BY <1>12 DEF Placement!vars, PlacementTypes, LeftBehind
<1> QED
  BY <1>1, <1>2, <1>3, <1>5, <1>6, <1>7, <1>8, <1>9, <1>10, <1>11, <1>12 DEF Placement!Next

(* Every move follows the hand.                                            *)
LEMMA FollowsTheHand ==
  ASSUME PlacementAssumption, PlacementInv, Placement!Next PROVE Placement!NeverStuck
<1> SUFFICES ASSUME osdGrab # Nothing, osdGrab' # Nothing, osdScale' = osdScale
             PROVE  Placement!Abs(osdAt' - (osdCursor' - osdGrab)) <= Threshold * osdScale
  BY DEF Placement!NeverStuck
<1>0. Placement!Running
  BY DEF PlacementInv, Placement!Running
<1> PICK c \in Placement!Cursors : Placement!Moving(c) /\ c = osdCursor'
  BY <1>0 DEF Placement!Next, Placement!BeginMove, Placement!Moving, Placement!OnExitSizeMove,
       Placement!ToggleCollapsed, Placement!Resize, Placement!OnDisplayChanged,
       Placement!Restart, Placement!Show, Placement!Exit, Placement!Die
<1>1. Placement!FromCursor(c) = c - osdGrab /\ Placement!FromCursor(c) \in Int
  <2>1. osdGrab # Nothing
    BY DEF Placement!Moving
  <2> QED BY <2>1, CursorsAreNumbers DEF Placement!FromCursor, PlacementInv, PlacementTypes
<1>2. PICK x \in Placement!Snap(Placement!FromCursor(c), Placement!Wide)
                    \cup {Placement!FromCursor(c)} :
        Placement!Goes(Placement!Placed(osdScreens, osdSize, osdCollapsed, osdScale, x))
  BY DEF Placement!Moving
<1>3. x \in Int /\ Placement!Abs(x - Placement!FromCursor(c)) <= Threshold * osdScale
  BY <1>1, PulledNear
<1>4. PICK p \in Placement!Placed(osdScreens, osdSize, osdCollapsed, osdScale, x) :
        osdAt' = p.at /\ osdScale' = p.scale
  BY <1>2 DEF Placement!Goes
<1>5. /\ x \in Int
      /\ osdScreens \in Arrangements /\ osdCollapsed \in BOOLEAN /\ osdSize \in DOMAIN WidthOf
      /\ osdScale \in Nat \ {0}
  BY <1>3 DEF PlacementInv, PlacementTypes
<1>6. p.at \in Int /\ p.scale \in Nat \ {0} /\ (p.scale = osdScale => p.at = x)
  BY ONLY PlacementAssumption, <1>5, PlacedSomewhere,
          p \in Placement!Placed(osdScreens, osdSize, osdCollapsed, osdScale, x)
<1> QED BY <1>1, <1>3, <1>4, <1>6

LEMMA ReopensThere ==
  ASSUME PlacementAssumption, PlacementInv
  PROVE  Placement!Reopens
<1> SUFFICES ASSUME NEW all \in Arrangements, Placement!Restart(all), osdLeft = "exited",
                    all = osdScreens,
                    NEW s \in all, s.scale = Placement!Primary(all).scale, s.left <= osdAt,
                    osdAt + Placement!Width(osdSize, osdCollapsed, s.scale) <= s.right
             PROVE  osdAt' = osdAt /\ osdCollapsed' = osdCollapsed
  BY DEF Placement!Reopens
<1> DEFINE w == Placement!Width(osdSize, osdCollapsed, s.scale)
<1>1. /\ osdCollapsed' = osdSaved.collapsed
      /\ Placement!Goes(Placement!Opened(all, osdCollapsed', osdSize))
  BY DEF Placement!Restart
<1>2. /\ osdSaved.collapsed = osdCollapsed
      /\ Placement!For(osdSaved.positions, osdCollapsed) = osdAt
      /\ osdAt \in Int /\ Nothing \notin Int
  BY DEF PlacementInv, LeftBehind, PlacementTypes, PlacementAssumption
<1>3. Placement!For(Placement!FromStored(osdSaved.positions), osdCollapsed) = osdAt
  BY <1>2 DEF Placement!For, Placement!FromStored
<1>4. Placement!Opened(all, osdCollapsed, osdSize)
        = Placement!Placed(all, osdSize, osdCollapsed, s.scale, Placement!Fit(all, osdAt, w))
  BY <1>2, <1>3 DEF Placement!Opened, Placement!Fitted
<1>5. w \in Nat \ {0}
  <2>1. s.scale \in Nat \ {0}
    BY PrimaryIsAScreen
  <2> QED BY <2>1, Widths DEF PlacementInv, PlacementTypes
<1>6. Placement!Fit(all, osdAt, w) = osdAt /\ Placement!MostlyOn(all, osdAt, w) = s
  BY <1>2, <1>5, FitsThere, MostlyThere
<1>7. Placement!Placed(all, osdSize, osdCollapsed, s.scale, osdAt)
        = {[at |-> osdAt, scale |-> s.scale]}
  BY <1>6 DEF Placement!Placed
<1> QED BY <1>1, <1>2, <1>4, <1>6, <1>7 DEF Placement!Goes

-----------------------------------------------------------------------------
(* The time played.                                                        *)

PlayAssumption ==
  Nothing \notin Programs /\ Handover \in Nat /\ MaxTick \in Nat /\ Steps \subseteq Nat

PlayStates == [current : Programs \cup {Nothing}, elapsed : Nat, seen : Nat,
           waiting : Programs \cup {Nothing}, ms : Nat, waitingSeen : Nat]

(* Whoever had the last reading waits, or is counted when nobody waits.    *)
PlayInv ==
  /\ playNow \in Nat
  /\ Play!State \in PlayStates
  /\ playEarned \in [Programs -> Nat]
  /\ playCurrent # Nothing =>
       playLatest = IF playWaiting = Nothing THEN playCurrent ELSE playWaiting
  /\ Play!PlayTimeIsEarned

LEMMA PlayInitially ==
  ASSUME PlayAssumption, Play!Init PROVE PlayInv
BY DEF PlayAssumption, Play!Init, PlayInv, Play!State, PlayStates, Play!NoTime,
  Play!PlayTimeIsEarned

(* A step of the clock, from the step of the time and the program.         *)
LEMMA PlayTick ==
  ASSUME PlayAssumption, PlayInv, Play!Tick
  PROVE  PlayInv'
<1> DEFINE s0 == Play!State
<1>1. PICK step \in Steps, p \in Programs \cup {Nothing} :
        LET t       == playNow + step
            counted == Play!CountedStep(step)
            s       == Play!HandedOver(Play!Noted(s0, p, t, counted), t)
        IN /\ t <= PlayHorizon /\ playNow' = t
           /\ playCurrent' = s.current /\ playElapsed' = s.elapsed /\ playLastSeen' = s.seen
           /\ playWaiting' = s.waiting /\ playWaitingMs' = s.ms
           /\ playWaitingSeen' = s.waitingSeen
           /\ playEarned' = [q \in Programs |->
                               IF q # p THEN playEarned[q]
                               ELSE counted + (IF Play!GoesOn(p) THEN playEarned[p] ELSE 0)]
           /\ playLatest' = IF p = Nothing THEN playLatest ELSE p
  BY DEF Play!Tick
<1> DEFINE t == playNow + step
           c == Play!CountedStep(step)
           noted == Play!Noted(s0, p, t, c)
           s == Play!HandedOver(noted, t)
<1>2. /\ s0 = [current |-> playCurrent, elapsed |-> playElapsed, seen |-> playLastSeen,
               waiting |-> playWaiting, ms |-> playWaitingMs, waitingSeen |-> playWaitingSeen]
      /\ playCurrent \in Programs \cup {Nothing} /\ playElapsed \in Nat /\ playLastSeen \in Nat
      /\ playWaiting \in Programs \cup {Nothing} /\ playWaitingMs \in Nat
      /\ playWaitingSeen \in Nat
  BY DEF PlayInv, Play!State, PlayStates
<1>3. t \in Nat /\ c \in Nat /\ playNow \in Nat
  BY DEF PlayInv, PlayAssumption, Play!CountedStep
<1> HIDE DEF t, c, s0
<1> DEFINE cu == noted.current
           el == noted.elapsed
           se == noted.seen
           wa == noted.waiting
           ms == noted.ms
           ws == noted.waitingSeen
<1>5. \/ /\ p = Nothing
         /\ cu = playCurrent /\ el = playElapsed /\ se = playLastSeen
         /\ wa = playWaiting /\ ms = playWaitingMs /\ ws = playWaitingSeen
      \/ /\ p # Nothing /\ playCurrent = Nothing
         /\ cu = p /\ el = c /\ se = t /\ wa = Nothing /\ ms = 0 /\ ws = playWaitingSeen
      \/ /\ p # Nothing /\ playCurrent # Nothing /\ p = playCurrent
         /\ cu = p /\ el = playElapsed + c /\ se = t /\ wa = Nothing /\ ms = 0
         /\ ws = playWaitingSeen
      \/ /\ p # Nothing /\ playCurrent # Nothing /\ p # playCurrent
         /\ cu = playCurrent /\ el = playElapsed /\ se = playLastSeen /\ wa = p
         /\ ms = c + (IF playWaiting = p THEN playWaitingMs ELSE 0) /\ ws = t
  <2>1. CASE p = Nothing
    BY <1>2, <2>1 DEF Play!Noted
  <2>2. CASE p # Nothing /\ playCurrent = Nothing
    BY <1>2, <2>2 DEF Play!Noted, Play!Start, Play!NobodyWaits
  <2>3. CASE p # Nothing /\ playCurrent # Nothing /\ p = playCurrent
    BY <1>2, <2>3 DEF Play!Noted, Play!Plays, Play!NobodyWaits
  <2>4. CASE p # Nothing /\ playCurrent # Nothing /\ p # playCurrent
    BY <1>2, <2>4 DEF Play!Noted, Play!Waits
  <2> QED BY <2>1, <2>2, <2>3, <2>4
<1> HIDE DEF noted
<1>6. /\ cu \in Programs \cup {Nothing} /\ el \in Nat /\ se \in Nat
      /\ wa \in Programs \cup {Nothing} /\ ms \in Nat /\ ws \in Nat
  BY <1>2, <1>3, <1>5
<1>7. /\ playCurrent' = s.current /\ playElapsed' = s.elapsed /\ playLastSeen' = s.seen
      /\ playWaiting' = s.waiting /\ playWaitingMs' = s.ms
      /\ playWaitingSeen' = s.waitingSeen /\ playNow' = t
      /\ playEarned' = [q \in Programs |->
                          IF q # p THEN playEarned[q]
                          ELSE c + (IF Play!GoesOn(p) THEN playEarned[p] ELSE 0)]
      /\ playLatest' = IF p = Nothing THEN playLatest ELSE p
  BY <1>1 DEF t, c, noted, s0
<1> HIDE DEF s
<1>8. /\ Nothing \notin Programs
      /\ playEarned \in [Programs -> Nat]
      /\ playCurrent # Nothing =>
           playLatest = IF playWaiting = Nothing THEN playCurrent ELSE playWaiting
      /\ (playCurrent = Nothing => playElapsed = 0 /\ playWaiting = Nothing)
      /\ (playCurrent # Nothing => playElapsed = playEarned[playCurrent])
      /\ (playWaiting # Nothing =>
            playWaiting # playCurrent /\ playWaitingMs = playEarned[playWaiting])
  BY DEF PlayInv, PlayAssumption, Play!PlayTimeIsEarned
<1>9. /\ playEarned' \in [Programs -> Nat]
      /\ \A q \in Programs : q # p => playEarned'[q] = playEarned[q]
      /\ p # Nothing => playEarned'[p] = c + (IF Play!GoesOn(p) THEN playEarned[p] ELSE 0)
  <2>1. \A q \in Programs : playEarned[q] \in Nat
    BY <1>8
  <2> QED BY <1>3, <1>7, <2>1
(* What has been counted so far is what was earned.                        *)
<1>10. /\ (cu = Nothing => el = 0 /\ wa = Nothing)
       /\ (cu # Nothing => el = playEarned'[cu])
       /\ (wa # Nothing => wa # cu /\ ms = playEarned'[wa])
       /\ (cu # Nothing => playLatest' = IF wa = Nothing THEN cu ELSE wa)
  <2> HIDE DEF cu, el, se, wa, ms, ws
  <2>1. CASE p = Nothing
    <3>1. \A q \in Programs : playEarned'[q] = playEarned[q]
      BY <1>8, <1>9, <2>1
    <3> QED BY <1>2, <1>5, <1>7, <1>8, <2>1, <3>1
  <2>2. CASE p # Nothing /\ playCurrent = Nothing
    <3>1. ~ Play!GoesOn(p)
      BY <2>2 DEF Play!GoesOn
    <3>2. playEarned'[p] = c
      BY <1>3, <1>9, <2>2, <3>1
    <3> QED BY <1>5, <1>7, <2>2, <3>2
  <2>3. CASE p # Nothing /\ p = playCurrent
    <3>1. Play!GoesOn(p)
      BY <2>3 DEF Play!GoesOn
    <3>2. playEarned'[p] = c + playEarned[p]
      BY <1>9, <2>3, <3>1, Zenon
    <3>3. playElapsed = playEarned[p]
      BY <1>8, <2>3
    <3> QED BY <1>2, <1>3, <1>5, <1>7, <2>3, <3>2, <3>3
  <2>4. CASE p # Nothing /\ playCurrent # Nothing /\ p # playCurrent
    <3>1. /\ cu = playCurrent /\ el = playElapsed /\ wa = p
          /\ ms = c + (IF playWaiting = p THEN playWaitingMs ELSE 0)
      BY <1>5, <2>4
    <3>2. Play!GoesOn(p) <=> playWaiting = p
      BY <1>8, <2>4 DEF Play!GoesOn
    <3>3. ms = playEarned'[p]
      <4>1. CASE playWaiting = p
        BY <1>8, <1>9, <2>4, <3>1, <3>2, <4>1
      <4>2. CASE playWaiting # p
        BY <1>9, <2>4, <3>1, <3>2, <4>2
      <4> QED BY <4>1, <4>2
    <3>4. playEarned'[playCurrent] = playEarned[playCurrent]
      BY <1>2, <1>9, <2>4
    <3> QED BY <1>7, <1>8, <2>4, <3>1, <3>3, <3>4
  <2> QED BY <2>1, <2>2, <2>3, <2>4
<1>11. ASSUME playCurrent' \in Programs \cup {Nothing}, playElapsed' \in Nat,
              playLastSeen' \in Nat, playWaiting' \in Programs \cup {Nothing},
              playWaitingMs' \in Nat, playWaitingSeen' \in Nat,
              playCurrent' # Nothing =>
                playLatest' = IF playWaiting' = Nothing THEN playCurrent' ELSE playWaiting',
              playCurrent' = Nothing => playElapsed' = 0 /\ playWaiting' = Nothing,
              playCurrent' # Nothing => playElapsed' = playEarned'[playCurrent'],
              playWaiting' # Nothing =>
                playWaiting' # playCurrent' /\ playWaitingMs' = playEarned'[playWaiting']
       PROVE  PlayInv'
  <2>1. Play!State' \in PlayStates
    BY <1>11 DEF Play!State, PlayStates
  <2> QED BY <1>3, <1>7, <1>9, <1>11, <2>1 DEF PlayInv, Play!PlayTimeIsEarned
(* The count goes on.                                                      *)
<1>12. CASE cu = Nothing \/ t - se < Handover
  <2>1. s = noted
    BY <1>12 DEF s, Play!HandedOver
  <2>2. /\ playCurrent' = cu /\ playElapsed' = el /\ playLastSeen' = se
        /\ playWaiting' = wa /\ playWaitingMs' = ms /\ playWaitingSeen' = ws
    BY <1>7, <2>1
  <2> HIDE DEF cu, el, se, wa, ms, ws
  <2> QED BY <1>6, <1>10, <1>11, <2>2
(* The count ends.                                                         *)
<1>13. CASE cu # Nothing /\ ~ (t - se < Handover)
  <2>1. /\ s.waiting = Nothing /\ s.ms = 0 /\ s.waitingSeen = ws
        /\ wa # Nothing => s.current = wa /\ s.elapsed = ms /\ s.seen = ws
        /\ wa = Nothing => s.current = Nothing /\ s.elapsed = 0 /\ s.seen = se
    <3>1. noted = [current |-> cu, elapsed |-> el, seen |-> se, waiting |-> wa, ms |-> ms,
                   waitingSeen |-> ws]
      BY <1>2 DEF noted, Play!Noted, Play!Start, Play!Plays, Play!Waits, Play!NobodyWaits
    <3>2. CASE wa # Nothing
      BY <1>13, <3>1, <3>2 DEF s, Play!HandedOver, Play!NobodyWaits
    <3>3. CASE wa = Nothing
      BY <1>13, <3>1, <3>3 DEF s, Play!HandedOver, Play!NobodyWaits
    <3> QED BY <3>2, <3>3
  <2>2. CASE wa # Nothing
    <3>1. /\ playCurrent' = wa /\ playElapsed' = ms /\ playLastSeen' = ws
          /\ playWaiting' = Nothing /\ playWaitingMs' = 0 /\ playWaitingSeen' = ws
      BY <1>7, <2>1, <2>2
    <3> HIDE DEF cu, el, se, wa, ms, ws
    <3> QED BY <1>6, <1>10, <1>11, <1>13, <2>2, <3>1
  <2>3. CASE wa = Nothing
    <3>1. /\ playCurrent' = Nothing /\ playElapsed' = 0 /\ playLastSeen' = se
          /\ playWaiting' = Nothing /\ playWaitingMs' = 0 /\ playWaitingSeen' = ws
      BY <1>7, <2>1, <2>3
    <3> HIDE DEF cu, el, se, wa, ms, ws
    <3> QED BY <1>6, <1>11, <3>1
  <2> QED BY <2>2, <2>3
<1> QED BY <1>12, <1>13

LEMMA PlayStep ==
  ASSUME PlayAssumption, PlayInv, [Play!Next]_(Play!vars)
  PROVE  PlayInv'
<1>1. CASE Play!Tick
  BY <1>1, PlayTick
<1>2. CASE Play!Clear
  <2>1. Play!State' \in PlayStates
    BY <1>2 DEF Play!Clear, Play!State, PlayStates
  <2> QED
    BY <1>2, <2>1 DEF PlayAssumption, Play!Clear, PlayInv, Play!NoTime, Play!PlayTimeIsEarned
<1>3. CASE UNCHANGED Play!vars
  <2>1. UNCHANGED <<playNow, playCurrent, playElapsed, playLastSeen, playWaiting, playWaitingMs,
                    playWaitingSeen, playEarned, playLatest, playClears>>
    BY <1>3 DEF Play!vars, Play!clock
  <2>2. Play!State' = Play!State
    BY <2>1 DEF Play!State
  <2> QED BY <2>1, <2>2 DEF PlayInv, Play!PlayTimeIsEarned
<1> QED BY <1>1, <1>2, <1>3 DEF Play!Next

-----------------------------------------------------------------------------
(* The rate of the network.                                                *)

NetworkAssumption ==
  /\ Nothing \notin Adapters /\ Before \in [Adapters -> Nat] /\ Link \in Nat
  /\ RouteRecheck \in Nat \ {0} /\ NetRetained \in Nat /\ NetCapacity \in Nat \ {0}

Readings == [adapter : Adapters, octets : Nat, at : Nat]
Rated == [at : Nat, rate : Int \cup {Nothing}]

NetworkTypes ==
  /\ netNow \in Nat /\ netPresent \subseteq Adapters /\ netRoute \in Adapters \cup {Nothing}
  /\ netOctets \in [Adapters -> Nat] /\ netCarried \in [Adapters -> Nat]
  /\ netEnabled \in BOOLEAN /\ netWatched \in Adapters \cup {Nothing}
  /\ netChecked \in 0 .. netNow /\ netRouted \in 0 .. netNow
  /\ netLast \in -1 .. netNow
  /\ netSamples \in Seq(Rated)

(* The adapter has counted no more since the reading than it carried.      *)
CountedIsCarried ==
  netPrevious # Nothing =>
    /\ netPrevious.adapter \in Adapters /\ netPrevious.octets \in Nat
    /\ netOctets[netPrevious.adapter] <= netPrevious.octets + netCarried[netPrevious.adapter]

(* Samples are no younger than the last one; a lookup that came after the  *)
(* route moved found the route.                                            *)
NetworkInv ==
  /\ NetworkTypes
  /\ CountedIsCarried
  /\ netSamples # <<>> => netSamples[Len(netSamples)].at <= netLast
  /\ netEnabled /\ netWatched # Nothing /\ netRoute # Nothing /\ netRouted < netChecked
       => netWatched = netRoute
  /\ Network!NetworkHolds

InOrder(s) == \A i, j \in 1 .. Len(s) : i < j => s[i].at < s[j].at

(* What is kept ends with what was added.                                  *)
LEMMA KeptSound ==
  ASSUME NetworkAssumption, netNow \in Nat, NEW s \in Seq(Rated), InOrder(s),
         s # <<>> => s[Len(s)].at < netNow,
         NEW one \in Rated, one.at = netNow, NEW kept, kept = Network!Kept(Append(s, one))
  PROVE  /\ kept \in Seq(Rated) /\ Len(kept) \in 1 .. NetCapacity
         /\ kept[Len(kept)].at = netNow
         /\ InOrder(kept)
<1> DEFINE a == Append(s, one)
           n == Len(s)
           staying == {i \in DOMAIN a : netNow - a[i].at <= NetRetained /\ Len(a) - i < NetCapacity}
<1>0. NetRetained \in Nat /\ NetCapacity \in Nat \ {0}
  BY DEF NetworkAssumption
<1>1. /\ a \in Seq(Rated) /\ Len(a) = n + 1 /\ n \in Nat /\ a[n + 1] = one
      /\ \A i \in 1 .. n : a[i] = s[i]
      /\ DOMAIN a = 1 .. n + 1
      /\ \A i \in 1 .. n : s[i] \in Rated
  BY AppendProperties
<1>2. \A r \in Rated : r.at \in Nat
  BY DEF Rated
<1> HIDE DEF a, n
<1>3. InOrder(a)
  <2> SUFFICES ASSUME NEW i \in 1 .. n + 1, NEW j \in 1 .. n + 1, i < j
               PROVE  a[i].at < a[j].at
    BY <1>1 DEF InOrder
  <2>1. i \in 1 .. n /\ a[i] = s[i] /\ s[i].at \in Nat
    BY <1>1, <1>2
  <2>2. CASE j \in 1 .. n
    BY <1>1, <2>1, <2>2 DEF InOrder, n
  <2>3. CASE j = n + 1
    <3>1. s # <<>> /\ n \in 1 .. n /\ s[n].at < netNow /\ s[n].at \in Nat
      BY <1>1, <1>2, <2>1 DEF n
    <3>2. i = n \/ s[i].at < s[n].at
      BY <2>1, <3>1 DEF InOrder, n
    <3>3. a[j].at = netNow
      BY <1>1, <2>3
    <3> QED BY <2>1, <3>1, <3>2, <3>3
  <2> QED BY <1>1, <2>2, <2>3
<1>4. n + 1 \in staying /\ staying \in SUBSET Nat
  BY <1>0, <1>1
<1> HIDE DEF staying
<1>5. PICK first \in staying : Network!Min(staying) = first /\ \A i \in staying : first <= i
  <2>1. \E i \in staying : \A j \in staying : i <= j
    BY <1>4, SmallestOf
  <2> QED BY <2>1 DEF Network!Min
<1>6. /\ first \in 1 .. n + 1 /\ (n + 1) - first < NetCapacity
  BY <1>1, <1>5 DEF staying
<1>7. kept = SubSeq(a, first, n + 1)
  BY <1>1, <1>4, <1>5 DEF Network!Kept, staying, a
<1>8. /\ kept \in Seq(Rated) /\ Len(kept) = (n + 1) - first + 1
      /\ \A i \in 1 .. (n + 1) - first + 1 : kept[i] = a[first + i - 1]
  <2>1. \A i \in first .. n + 1 : a[i] \in Rated
    BY <1>1, <1>6
  <2>2. first \in Int /\ n + 1 \in Int /\ first <= n + 1
    BY <1>1, <1>6
  <2>3. /\ SubSeq(a, first, n + 1) \in Seq(Rated)
        /\ Len(SubSeq(a, first, n + 1)) = IF first <= n + 1 THEN (n + 1) - first + 1 ELSE 0
        /\ \A i \in 1 .. (n + 1) - first + 1 : SubSeq(a, first, n + 1)[i] = a[first + i - 1]
    BY <2>1, <2>2, SubSeqProperties
  <2> QED BY <1>7, <2>2, <2>3
<1>9. kept[Len(kept)] = a[n + 1]
  <2>1. Len(kept) \in 1 .. (n + 1) - first + 1 /\ first + Len(kept) - 1 = n + 1
    BY <1>1, <1>6, <1>8
  <2>2. kept[Len(kept)] = a[first + Len(kept) - 1]
    BY <1>8, <2>1
  <2> QED BY <2>1, <2>2
<1>10. InOrder(kept)
  <2> SUFFICES ASSUME NEW i \in 1 .. Len(kept), NEW j \in 1 .. Len(kept), i < j
               PROVE  kept[i].at < kept[j].at
    BY DEF InOrder
  <2>1. /\ first + i - 1 \in 1 .. Len(a) /\ first + j - 1 \in 1 .. Len(a)
        /\ first + i - 1 < first + j - 1
    BY <1>1, <1>6, <1>8
  <2>2. a[first + i - 1].at < a[first + j - 1].at
    BY <1>3, <2>1 DEF InOrder
  <2> QED BY <1>8, <2>2
<1> QED BY <1>0, <1>1, <1>6, <1>8, <1>9, <1>10

-----------------------------------------------------------------------------
LEMMA NetworkInitially ==
  ASSUME NetworkAssumption, Network!Init PROVE NetworkInv
<1>1. NetworkTypes
  <2>1. netCarried \in [Adapters -> Nat] /\ netSamples \in Seq(Rated)
    BY DEF Network!Init
  <2>2. netNow \in Nat /\ netChecked \in 0 .. netNow /\ netRouted \in 0 .. netNow
        /\ netLast \in -1 .. netNow
    BY DEF Network!Init
  <2> QED BY <2>1, <2>2 DEF Network!Init, NetworkTypes, NetworkAssumption
<1>2. Network!NetworkHolds
  <2>1. netSamples = <<>> /\ Len(netSamples) = 0 /\ DOMAIN netSamples = {}
    BY DEF Network!Init
  <2>2. netLast # netNow /\ netPrevious = Nothing /\ netTrue = TRUE
    BY DEF Network!Init
  <2>3. 0 <= NetCapacity
    BY DEF NetworkAssumption
  <2> QED BY <2>1, <2>2, <2>3
      DEF Network!NetworkHolds, Network!RatesWereCarried, Network!RouteIsFollowed
<1> QED BY <1>1, <1>2 DEF Network!Init, NetworkInv, CountedIsCarried

(* What the machine does leaves the samples alone.                         *)
LEMMA MachineMoves ==
  ASSUME NetworkAssumption, NetworkInv, NetworkTypes', CountedIsCarried',
         netNow <= netNow',
         netNow = netNow' \/ netNow < netNow',
         netRoute' = Nothing \/ netRoute' = netRoute \/ netRouted' = netNow',
         netRoute' = netRoute => netRouted' = netRouted \/ netRouted' = netNow',
         netNow' = netNow \/ netRoute' = netRoute,
         UNCHANGED <<netEnabled, netWatched, netChecked, netLast, netPrevious, netSamples, netTrue>>
  PROVE  NetworkInv'
<1>0. /\ netNow \in Nat /\ netNow' \in Nat /\ netLast \in -1 .. netNow
      /\ netChecked \in 0 .. netNow /\ netRouted \in 0 .. netNow /\ RouteRecheck \in Nat \ {0}
      /\ netChecked' = netChecked /\ netLast' = netLast
      /\ netRouted' \in 0 .. netNow'
  BY DEF NetworkInv, NetworkTypes, NetworkAssumption
<1>4. netRouted' < netChecked => netRouted' # netNow'
  BY <1>0
<1>1. Network!RatesWereCarried'
  BY DEF NetworkInv, Network!NetworkHolds, Network!RatesWereCarried
<1>2. netEnabled' /\ netWatched' # Nothing /\ netRoute' # Nothing /\ netRouted' < netChecked'
        => netWatched' = netRoute'
  <2> SUFFICES ASSUME netEnabled, netWatched # Nothing, netRoute' # Nothing, netRouted' < netChecked
               PROVE  netWatched = netRoute'
    OBVIOUS
  <2>1. netRouted' # netNow'
    BY <1>4
  <2>2. netRoute' = netRoute /\ netRouted' = netRouted
    BY <2>1
  <2> QED BY <2>2 DEF NetworkInv
<1>5. netNow' - netRouted' >= RouteRecheck => netRouted' # netNow'
  <2>1. \A n \in Nat, m \in Nat, r \in Nat \ {0} : n - m >= r => m # n
    OBVIOUS
  <2>2. netNow' \in Nat /\ netRouted' \in Nat /\ RouteRecheck \in Nat \ {0}
    <3>1. \A n \in Nat : \A m \in 0 .. n : m \in Nat
      OBVIOUS
    <3> QED BY <1>0, <3>1
  <2> QED BY <2>1, <2>2
<1>3. Network!RouteIsFollowed'
  <2> SUFFICES ASSUME netEnabled, netLast = netNow', netRoute' # Nothing,
                      netNow' - netRouted' >= RouteRecheck
               PROVE  netWatched \in {netRoute', Nothing}
    BY DEF Network!RouteIsFollowed
  <2>1. netNow' = netNow
    BY <1>0
  <2>2. netRouted' # netNow'
    BY <1>5
  <2>3. netRoute' = netRoute /\ netRouted' = netRouted
    BY <2>2
  <2> QED BY <2>1, <2>3 DEF NetworkInv, Network!NetworkHolds, Network!RouteIsFollowed
<1> QED BY <1>1, <1>2, <1>3 DEF NetworkInv, Network!NetworkHolds

LEMMA SampleKeeps ==
  ASSUME NetworkAssumption, NetworkInv, Network!Sample
  PROVE  NetworkInv'
<1> DEFINE to == Network!Resolved
<1>1. /\ netEnabled /\ netNow # netLast /\ netLast' = netNow
      /\ netChecked' = IF Network!RouteIsDue THEN netNow ELSE netChecked
      /\ UNCHANGED <<netNow, netPresent, netRoute, netOctets, netChanges, netEnabled, netRouted>>
  BY DEF Network!Sample, Network!machine
<1>2. NetworkTypes /\ Nothing \notin Adapters /\ RouteRecheck \in Nat \ {0}
  BY DEF NetworkInv, NetworkAssumption
<1>3. /\ netNow \in Nat /\ netLast \in -1 .. netNow /\ netChecked \in 0 .. netNow
      /\ netRouted \in 0 .. netNow
  BY <1>2 DEF NetworkTypes
<1>4. netLast < netNow
  BY <1>1, <1>3
<1>5. netChecked' \in 0 .. netNow' /\ netLast' \in -1 .. netNow' /\ netRouted' \in 0 .. netNow'
  BY <1>1, <1>3
<1>6. Network!RouteIsDue <=> netWatched = Nothing \/ netNow - netChecked >= RouteRecheck
  BY DEF Network!RouteIsDue
<1>7. ~ Network!RouteIsDue /\ netNow - netRouted >= RouteRecheck => netRouted < netChecked
  BY <1>2, <1>3, <1>6
(* A route that was found by a lookup, now or since it moved.              *)
<1>8. netWatched' # Nothing /\ netRoute # Nothing /\ netRouted < netChecked' => netWatched' = netRoute
  <2> SUFFICES ASSUME netWatched' # Nothing, netRoute # Nothing, netRouted < netChecked'
               PROVE  netWatched' = netRoute
    OBVIOUS
  <2>1. netWatched' = to
    BY DEF Network!Sample
  <2>2. CASE Network!RouteIsDue
    BY <2>1, <2>2 DEF Network!Resolved
  <2>3. CASE ~ Network!RouteIsDue
    BY <1>1, <1>6, <2>1, <2>3 DEF Network!Resolved, NetworkInv
  <2> QED BY <2>2, <2>3
<1>9. netRoute # Nothing /\ netNow - netRouted >= RouteRecheck => netWatched' \in {netRoute, Nothing}
  <2>1. CASE Network!RouteIsDue
    BY <2>1 DEF Network!Sample, Network!Resolved
  <2>2. CASE ~ Network!RouteIsDue
    BY <1>1, <1>6, <1>7, <1>8, <2>2
  <2> QED BY <2>1, <2>2
<1>10. Network!RouteIsFollowed'
  BY <1>1, <1>9 DEF Network!RouteIsFollowed
<1>11. netEnabled' /\ netWatched' # Nothing /\ netRoute' # Nothing /\ netRouted' < netChecked'
         => netWatched' = netRoute'
  BY <1>1, <1>8
(* A reading.                                                              *)
<1>12. CASE to \in netPresent
  <2> DEFINE reading == [adapter |-> to, octets |-> netOctets[to], at |-> netNow]
             rate == IF netPrevious = Nothing THEN Nothing
                     ELSE Network!RateBetween(netPrevious, reading)
             one == [at |-> netNow, rate |-> rate]
             n == Len(netSamples)
  <2>1. /\ netWatched' = to /\ netPrevious' = reading
        /\ netSamples' = Network!Kept(Append(netSamples, one))
        /\ netCarried' = [a \in Adapters |-> 0]
        /\ netTrue' = (netTrue /\ (rate # Nothing => rate <= netCarried[reading.adapter]))
    BY <1>12 DEF Network!Sample, Network!Record
  <2>2. /\ to \in Adapters /\ netOctets[to] \in Nat /\ netCarried[to] \in Nat
        /\ reading.adapter = to /\ reading.octets = netOctets[to] /\ reading.at = netNow
    BY <1>2, <1>12 DEF NetworkTypes
  <2> HIDE DEF reading, to
  <2>3. /\ rate # Nothing => rate <= netCarried[to]
        /\ rate \in Int \cup {Nothing}
    <3> SUFFICES ASSUME rate # Nothing PROVE rate \in Int /\ rate <= netCarried[to]
      OBVIOUS
    <3>1. netPrevious # Nothing /\ rate = Network!RateBetween(netPrevious, reading)
      OBVIOUS
    <3>2. rate = reading.octets - netPrevious.octets /\ netPrevious.adapter = reading.adapter
      BY <3>1 DEF Network!RateBetween
    <3>3. /\ netPrevious.octets \in Nat /\ netOctets[to] <= netPrevious.octets + netCarried[to]
      BY <2>2, <3>1, <3>2 DEF NetworkInv, CountedIsCarried
    <3> HIDE DEF rate
    <3> QED BY <2>2, <3>2, <3>3
  <2> HIDE DEF rate
  <2>4. one \in Rated /\ one.at = netNow
    BY <1>3, <2>3 DEF Rated
  <2> HIDE DEF one
  <2>5. /\ netSamples \in Seq(Rated) /\ InOrder(netSamples)
        /\ netSamples # <<>> => netSamples[Len(netSamples)].at < netNow
    <3>1. netSamples \in Seq(Rated) /\ InOrder(netSamples)
      BY <1>2 DEF NetworkTypes, NetworkInv, Network!NetworkHolds, Network!RatesWereCarried, InOrder
    <3>2. netSamples # <<>> => netSamples[Len(netSamples)] \in Rated
      BY <3>1
    <3>3. netSamples # <<>> => netSamples[Len(netSamples)].at \in Nat
      BY <3>2 DEF Rated
    <3>4. netSamples # <<>> => netSamples[Len(netSamples)].at <= netLast
      BY DEF NetworkInv
    <3> QED BY <1>3, <1>4, <3>1, <3>3, <3>4
  <2>6. /\ netSamples' \in Seq(Rated) /\ Len(netSamples') \in 1 .. NetCapacity
        /\ netSamples'[Len(netSamples')].at = netNow
        /\ InOrder(netSamples')
    BY <1>3, <2>1, <2>4, <2>5, KeptSound
  <2>7. netTrue' /\ netSamples' # <<>> /\ Len(netSamples') <= NetCapacity
    <3>1. netTrue
      BY DEF NetworkInv, Network!NetworkHolds, Network!RatesWereCarried
    <3>2. rate # Nothing => rate <= netCarried[reading.adapter]
      BY <2>2, <2>3
    <3>3. netTrue'
      BY <2>1, <3>1, <3>2, Zenon
    <3>4. NetCapacity \in Nat
      BY DEF NetworkAssumption
    <3>5. Len(netSamples') <= NetCapacity /\ netSamples' # <<>>
      BY <2>6, <3>4
    <3> QED BY <3>3, <3>5
  <2>8. Network!RatesWereCarried'
    <3>1. \A i, j \in DOMAIN netSamples' : i < j => netSamples'[i].at < netSamples'[j].at
      BY <2>6 DEF InOrder
    <3> QED BY <1>1, <2>1, <2>2, <2>6, <2>7, <3>1 DEF Network!RatesWereCarried
  <2>9. CountedIsCarried'
    <3>1. netCarried'[to] = 0 /\ netOctets' = netOctets /\ netPrevious' = reading
      BY <1>1, <2>1, <2>2
    <3>2. netOctets[to] <= netOctets[to] + 0
      BY <2>2
    <3> QED BY <2>2, <3>1, <3>2 DEF CountedIsCarried
  <2>10. NetworkTypes'
    <3>1. netCarried' \in [Adapters -> Nat]
      BY <2>1
    <3> QED BY <1>1, <1>2, <1>5, <2>1, <2>2, <2>6, <3>1 DEF NetworkTypes
  <2>11. netSamples' # <<>> => netSamples'[Len(netSamples')].at <= netLast'
    BY <1>1, <1>3, <2>6
  <2> QED BY <1>10, <1>11, <2>8, <2>9, <2>10, <2>11 DEF NetworkInv, Network!NetworkHolds
(* None: the adapter has gone.                                             *)
<1>13. CASE to \notin netPresent
  <2>1. /\ netWatched' = Nothing /\ netPrevious' = Nothing
        /\ UNCHANGED <<netSamples, netCarried, netTrue>>
    BY <1>13 DEF Network!Sample, Network!Interrupt
  <2>2. NetworkTypes'
    BY <1>1, <1>2, <1>5, <2>1 DEF NetworkTypes
  <2>3. Network!RatesWereCarried'
    BY <2>1 DEF NetworkInv, Network!NetworkHolds, Network!RatesWereCarried
  <2>4. netSamples' # <<>> => netSamples'[Len(netSamples')].at <= netLast'
    <3>1. netSamples # <<>> => netSamples[Len(netSamples)] \in Rated
      BY <1>2 DEF NetworkTypes
    <3>2. netSamples # <<>> => /\ netSamples[Len(netSamples)].at \in Nat
                              /\ netSamples[Len(netSamples)].at <= netLast
      BY <3>1 DEF Rated, NetworkInv
    <3> QED BY <1>1, <1>3, <1>4, <2>1, <3>2
  <2>5. CountedIsCarried'
    BY <2>1 DEF CountedIsCarried
  <2> QED BY <1>10, <1>11, <2>2, <2>3, <2>4, <2>5 DEF NetworkInv, Network!NetworkHolds
<1> QED BY <1>12, <1>13

LEMMA NetworkStep ==
  ASSUME NetworkAssumption, NetworkInv, [Network!Next]_(Network!vars)
  PROVE  NetworkInv'
<1>0. /\ NetworkTypes /\ CountedIsCarried /\ Nothing \notin Adapters
      /\ netNow \in Nat /\ netChecked \in 0 .. netNow /\ netRouted \in 0 .. netNow
      /\ netLast \in -1 .. netNow
  BY DEF NetworkInv, NetworkTypes, NetworkAssumption
<1>1. CASE Network!Sample
  BY <1>1, SampleKeeps
<1>2. CASE Network!TurnOff
  <2>1. /\ netEnabled' = FALSE /\ netWatched' = Nothing /\ netChecked' = 0
        /\ netPrevious' = Nothing /\ netSamples' = <<>>
        /\ UNCHANGED <<netNow, netPresent, netRoute, netOctets, netChanges, netLast, netCarried,
                       netRouted, netTrue>>
    BY <1>2 DEF Network!TurnOff, Network!machine
  <2>2. netChecked' \in 0 .. netNow' /\ netSamples' \in Seq(Rated) /\ netEnabled' \in BOOLEAN
    <3>1. \A n \in Nat : 0 \in 0 .. n
      OBVIOUS
    <3>2. netChecked' = 0 /\ netNow' \in Nat
      BY <1>0, <2>1
    <3>3. netChecked' \in 0 .. netNow'
      BY <3>1, <3>2
    <3>4. netSamples' = <<>> /\ netEnabled' = FALSE
      BY <2>1
    <3>5. <<>> \in Seq(Rated) /\ FALSE \in BOOLEAN
      OBVIOUS
    <3>6. netSamples' \in Seq(Rated) /\ netEnabled' \in BOOLEAN
      BY <3>4, <3>5, Zenon
    <3> QED BY <3>3, <3>6
  <2>3. NetworkTypes'
    BY <1>0, <2>1, <2>2 DEF NetworkTypes
  <2>4. Len(netSamples') = 0 /\ DOMAIN netSamples' = {} /\ 0 <= NetCapacity
    BY <2>1 DEF NetworkAssumption
  <2>5. Network!NetworkHolds'
    BY <2>1, <2>4 DEF NetworkInv, Network!NetworkHolds, Network!RatesWereCarried,
      Network!RouteIsFollowed
  <2> QED BY <2>1, <2>3, <2>5 DEF NetworkInv, CountedIsCarried
<1>3. CASE Network!TurnOn
  <2>1. /\ netEnabled = FALSE /\ netEnabled' = TRUE /\ netWatched' = netRoute /\ netChecked' = 0
        /\ UNCHANGED <<netNow, netPresent, netRoute, netOctets, netChanges, netLast, netPrevious,
                       netSamples, netCarried, netRouted, netTrue>>
    BY <1>0, <1>3 DEF Network!TurnOn, Network!machine, Network!history, NetworkTypes
  <2>2. netChecked' \in 0 .. netNow' /\ netEnabled' \in BOOLEAN
    BY <1>0, <2>1
  <2>3. NetworkTypes'
    BY <1>0, <2>1, <2>2 DEF NetworkTypes
  <2>4. netPrevious = Nothing
    BY <2>1 DEF NetworkInv, Network!NetworkHolds, Network!RatesWereCarried
  <2>5. Network!NetworkHolds'
    BY <2>1, <2>4 DEF NetworkInv, Network!NetworkHolds, Network!RatesWereCarried,
      Network!RouteIsFollowed
  <2> QED BY <2>1, <2>3, <2>4, <2>5 DEF NetworkInv, CountedIsCarried
<1>4. CASE Network!TimePasses
  <2>1. PICK more \in [Adapters -> 0 .. Link] :
          /\ \A a \in Adapters \ netPresent : more[a] = 0
          /\ netOctets' = [a \in Adapters |-> netOctets[a] + more[a]]
          /\ netCarried' = [a \in Adapters |-> netCarried[a] + more[a]]
    BY <1>4 DEF Network!TimePasses
  <2>2. /\ netNow' = netNow + 1
        /\ UNCHANGED <<netPresent, netRoute, netChanges, netEnabled, netWatched, netChecked, netLast,
                       netPrevious, netSamples, netRouted, netTrue>>
    BY <1>4 DEF Network!TimePasses, Network!sampler, Network!history
  <2>3. \A a \in Adapters : netOctets[a] \in Nat /\ netCarried[a] \in Nat /\ more[a] \in Nat
    BY <1>0 DEF NetworkTypes, NetworkAssumption
  <2>4. netOctets' \in [Adapters -> Nat] /\ netCarried' \in [Adapters -> Nat]
    BY <2>1, <2>3
  <2>5. /\ netNow' \in Nat /\ netChecked' \in 0 .. netNow' /\ netRouted' \in 0 .. netNow'
        /\ netLast' \in -1 .. netNow' /\ netNow < netNow' /\ netNow <= netNow'
    <3>1. /\ netNow' = netNow + 1 /\ netChecked' = netChecked /\ netRouted' = netRouted
          /\ netLast' = netLast
      BY <2>2
    <3>2. \A k \in Int : k \in 0 .. netNow => k \in 0 .. netNow + 1
      BY <1>0
    <3>3. \A k \in Int : k \in -1 .. netNow => k \in -1 .. netNow + 1
      BY <1>0
    <3> QED BY <1>0, <3>1, <3>2, <3>3
  <2>6. NetworkTypes'
    BY <1>0, <2>2, <2>4, <2>5 DEF NetworkTypes
  <2>7. CountedIsCarried'
    <3> SUFFICES ASSUME netPrevious # Nothing
                 PROVE  /\ netPrevious.adapter \in Adapters /\ netPrevious.octets \in Nat
                        /\ netOctets'[netPrevious.adapter]
                              <= netPrevious.octets + netCarried'[netPrevious.adapter]
      BY <2>2 DEF CountedIsCarried
    <3>1. /\ netPrevious.adapter \in Adapters /\ netPrevious.octets \in Nat
          /\ netOctets[netPrevious.adapter] <= netPrevious.octets + netCarried[netPrevious.adapter]
      BY <1>0 DEF CountedIsCarried
    <3> DEFINE a == netPrevious.adapter
    <3>2. netOctets'[a] = netOctets[a] + more[a] /\ netCarried'[a] = netCarried[a] + more[a]
      BY <2>1, <3>1
    <3> QED BY <2>3, <3>1, <3>2
  <2> QED BY <2>2, <2>5, <2>6, <2>7, MachineMoves
<1>5. ASSUME NEW a \in Adapters \cup {Nothing}, Network!RouteMoves(a) PROVE NetworkInv'
  <2>1. /\ netRoute' = a /\ netRouted' = netNow /\ netNow' = netNow
        /\ UNCHANGED <<netNow, netPresent, netOctets, netEnabled, netWatched, netChecked, netLast,
                       netPrevious, netSamples, netCarried, netTrue>>
    BY <1>5 DEF Network!RouteMoves, Network!sampler, Network!history
  <2>2. netNow <= netNow' /\ netRouted' \in 0 .. netNow'
    BY <1>0, <2>1
  <2>3. NetworkTypes'
    BY <1>0, <2>1, <2>2 DEF NetworkTypes
  <2>4. CountedIsCarried'
    BY <1>0, <2>1 DEF CountedIsCarried
  <2> QED BY <2>1, <2>2, <2>3, <2>4, MachineMoves
<1>6. ASSUME NEW a \in Adapters, Network!AdapterGoes(a) PROVE NetworkInv'
  <2>1. /\ netPresent' = netPresent \ {a} /\ netNow' = netNow
        /\ \/ netRoute = a /\ netRoute' = Nothing /\ netRouted' = netNow
           \/ netRoute # a /\ netRoute' = netRoute /\ netRouted' = netRouted
        /\ UNCHANGED <<netNow, netOctets, netEnabled, netWatched, netChecked, netLast,
                       netPrevious, netSamples, netCarried, netTrue>>
    BY <1>6 DEF Network!AdapterGoes, Network!sampler, Network!history
  <2>2. netNow <= netNow' /\ netRouted' \in 0 .. netNow'
    BY <1>0, <2>1
  <2>3. NetworkTypes'
    BY <1>0, <2>1, <2>2 DEF NetworkTypes
  <2>4. CountedIsCarried'
    BY <1>0, <2>1 DEF CountedIsCarried
  <2> QED BY <2>1, <2>2, <2>3, <2>4, MachineMoves
<1>7. ASSUME NEW a \in Adapters, Network!AdapterComes(a) PROVE NetworkInv'
  <2>1. /\ netPresent' = netPresent \cup {a} /\ netOctets' = [netOctets EXCEPT ![a] = 0]
        /\ UNCHANGED <<netNow, netRoute, netEnabled, netWatched, netChecked, netLast,
                       netPrevious, netSamples, netCarried, netRouted, netTrue>>
    BY <1>7 DEF Network!AdapterComes, Network!sampler, Network!history
  <2>2. netNow <= netNow' /\ netOctets' \in [Adapters -> Nat]
    BY <1>0, <2>1 DEF NetworkTypes
  <2>3. NetworkTypes'
    BY <1>0, <2>1, <2>2 DEF NetworkTypes
  <2>4. CountedIsCarried'
    <3> SUFFICES ASSUME netPrevious # Nothing
                 PROVE  /\ netPrevious.adapter \in Adapters /\ netPrevious.octets \in Nat
                        /\ netOctets'[netPrevious.adapter]
                              <= netPrevious.octets + netCarried[netPrevious.adapter]
      BY <2>1 DEF CountedIsCarried
    <3> DEFINE b == netPrevious.adapter
    <3>1. /\ b \in Adapters /\ netPrevious.octets \in Nat
          /\ netOctets[b] <= netPrevious.octets + netCarried[b]
      BY <1>0 DEF CountedIsCarried
    <3>2. netOctets'[b] = 0 \/ netOctets'[b] = netOctets[b]
      BY <1>0, <2>1, <3>1 DEF NetworkTypes
    <3>3. netCarried[b] \in Nat
      BY <1>0, <3>1 DEF NetworkTypes
    <3> QED BY <3>1, <3>2, <3>3
  <2> QED BY <2>1, <2>2, <2>3, <2>4, MachineMoves
<1>8. CASE UNCHANGED Network!vars
  <2>1. UNCHANGED <<netNow, netPresent, netRoute, netOctets, netEnabled, netWatched, netChecked,
                    netLast, netPrevious, netSamples, netCarried, netRouted, netTrue>>
    BY <1>8 DEF Network!vars, Network!machine, Network!sampler, Network!history
  <2>2. NetworkTypes' /\ CountedIsCarried'
    BY <1>0, <2>1 DEF NetworkTypes, CountedIsCarried
  <2>3. netNow <= netNow'
    BY <1>0, <2>1
  <2> QED BY <2>1, <2>2, <2>3, MachineMoves
<1> QED BY <1>1, <1>2, <1>3, <1>4, <1>5, <1>6, <1>7, <1>8 DEF Network!Next

-----------------------------------------------------------------------------
(* The verdict on a path.                                                  *)

PathAssumption ==
  /\ RoundTrips \subseteq Nat /\ RoundTrips # {}
  /\ GoodRtt \in Nat /\ FairRtt \in Nat

Counters == [sampled : Nat, lost : Nat, timeouts : Nat]
CountedThings == {"sampled", "lost", "timeouts"}
Grades == 0 .. 3

PathTypes ==
  /\ pathOpen \subseteq Connections /\ pathCollecting \subseteq pathOpen
  /\ pathCounters \in [Connections -> Counters]
  /\ pathRtt \in [Connections -> RoundTrips]
  /\ pathRows \subseteq Connections /\ pathLeft \subseteq pathRows
  /\ DOMAIN pathBaseline \subseteq Connections
  /\ \A k \in DOMAIN pathBaseline : pathBaseline[k] \in Counters
  /\ pathWindow \in [Connections -> Counters]
  /\ IsFiniteSet(pathJudged)
  /\ \A j \in pathJudged : j.grade \in Grades

(* What is counted since the baseline happened in the window.              *)
HappenedInWindow(k) ==
  \A c \in CountedThings :
    pathCounters[k][c] <=
      (IF k \in DOMAIN pathBaseline THEN pathBaseline[k][c] ELSE 0) + pathWindow[k][c]

(* Who has been given a baseline.                                          *)
Based(k) ==
  pathAt \in {"watch", "finish"} \/ (pathAt = "baseline" /\ k \notin pathLeft)

PathInv ==
  /\ PathTypes
  /\ \A k \in Connections \ pathCollecting : pathCounters[k] = Path!NoCounts
  /\ pathAt \in {"idle", "enable"} => DOMAIN pathBaseline = {}
  /\ pathAt = "baseline" => DOMAIN pathBaseline \cap pathLeft = {}
  /\ \A k \in pathRows : Based(k) => HappenedInWindow(k)
  /\ pathAt \notin {"finish", "said"} => pathJudged = {}
  /\ pathAt = "finish" => \A j \in pathJudged : j.key \notin pathLeft
  /\ Path!VerdictHolds

(* The worse of two.                                                       *)
LEMMA WorseOf ==
  ASSUME NEW m \in Int, NEW n \in Int
  PROVE  Path!Max({m, n}) = IF m >= n THEN m ELSE n
BY DEF Path!Max

(* Whoever counted more is judged no better.                               *)
LEMMA JudgedByWindow ==
  ASSUME PathAssumption, NEW d \in Counters, NEW w \in Counters, NEW ms \in Nat,
         \A c \in CountedThings : d[c] <= w[c]
  PROVE  /\ Path!Judge(d, ms) \in Grades
         /\ Path!Judge(d, ms) <= Path!Judge(w, ms)
<1>1. /\ d.sampled \in Nat /\ d.lost \in Nat /\ d.timeouts \in Nat
      /\ w.sampled \in Nat /\ w.lost \in Nat /\ w.timeouts \in Nat
      /\ d.sampled <= w.sampled /\ d.lost <= w.lost /\ d.timeouts <= w.timeouts
  BY DEF Counters, CountedThings
<1>2. /\ Path!GradeLatency(ms) \in 1 .. 3
      /\ Path!GradeLoss(d) \in 1 .. 3 /\ Path!GradeLoss(w) \in 1 .. 3
      /\ Path!GradeLoss(d) <= Path!GradeLoss(w)
  BY <1>1 DEF Path!GradeLatency, Path!GradeLoss, Path!Good, Path!Fair, Path!Poor
<1> QED
  BY <1>1, <1>2, WorseOf DEF Path!Judge, Path!Unknown, Grades

LEMMA CountsOf ==
  ASSUME NEW r \in Counters
  PROVE  DOMAIN r = CountedThings /\ \A c \in CountedThings : r[c] \in Nat
BY DEF Counters, CountedThings

LEMMA NothingCounted ==
  Path!NoCounts \in Counters /\ \A c \in CountedThings : Path!NoCounts[c] = 0
BY DEF Path!NoCounts, Counters, CountedThings

LEMMA DifferenceCounts ==
  ASSUME NEW now \in Counters, NEW before \in Counters, NEW w \in Counters,
         \A c \in CountedThings : now[c] <= before[c] + w[c]
  PROVE  /\ Path!Since(now, before) \in Counters
         /\ \A c \in CountedThings : Path!Since(now, before)[c] <= w[c]
<1>1. /\ DOMAIN now = CountedThings
      /\ \A c \in CountedThings : now[c] \in Nat /\ before[c] \in Nat /\ w[c] \in Nat
  BY CountsOf
<1>2. \A c \in CountedThings :
        /\ (IF now[c] >= before[c] THEN now[c] - before[c] ELSE 0) \in Nat
        /\ (IF now[c] >= before[c] THEN now[c] - before[c] ELSE 0) <= w[c]
  BY <1>1
<1>3. /\ Path!Since(now, before) \in [CountedThings -> Nat]
      /\ \A c \in CountedThings : Path!Since(now, before)[c] =
           IF now[c] >= before[c] THEN now[c] - before[c] ELSE 0
  BY <1>1, <1>2 DEF Path!Since
<1> QED BY <1>2, <1>3 DEF Counters, CountedThings

LEMMA PathCardinality ==
  ASSUME NEW S PROVE Path!Cardinality(S) = Cardinality(S)
BY DEF Path!Cardinality, Cardinality

-----------------------------------------------------------------------------
LEMMA PathInitially ==
  ASSUME PathAssumption, Path!Init PROVE PathInv
<1>1. Path!Min(RoundTrips) \in RoundTrips
  <2>1. \E n \in RoundTrips : \A m \in RoundTrips : n <= m
    BY SmallestOf DEF PathAssumption
  <2> QED BY <2>1 DEF Path!Min
<1>2. PICK old \in {Path!NoCounts, [sampled |-> 1, lost |-> 0, timeouts |-> 1]} :
        pathCounters = [k \in Connections |-> IF k \in pathCollecting THEN old ELSE Path!NoCounts]
  BY DEF Path!Init
<1>3. old \in Counters
  BY NothingCounted DEF Counters
<1>4. PathTypes
  <2>1. pathCounters \in [Connections -> Counters] /\ pathWindow \in [Connections -> Counters]
    BY <1>2, <1>3, NothingCounted DEF Path!Init
  <2>2. pathRtt \in [Connections -> RoundTrips]
    BY <1>1 DEF Path!Init
  <2>3. IsFiniteSet(pathJudged) /\ pathJudged = {} /\ DOMAIN pathBaseline = {}
    BY FS_EmptySet DEF Path!Init
  <2> QED BY <2>1, <2>2, <2>3 DEF Path!Init, PathTypes
<1>5. Path!VerdictHolds
  <2>1. pathJudged = {} /\ pathVerdict = [grade |-> 0, rtt |-> 0, connections |-> 0]
    BY DEF Path!Init, Path!Unknown
  <2>2. {j \in pathJudged : j.grade # Path!Unknown} = {}
    BY <2>1
  <2>3. Path!Cardinality({}) = 0
    BY FS_EmptySet, PathCardinality
  <2>4. Path!Max({0}) = 0
    BY DEF Path!Max
  <2>5. {Path!Unknown} \cup {j.grade : j \in {}} = {0}
    BY DEF Path!Unknown
  <2> QED BY <2>1, <2>2, <2>3, <2>4, <2>5 DEF Path!VerdictHolds
<1> QED BY <1>2, <1>4, <1>5 DEF Path!Init, PathInv, Based

(* Another reading: a connection that was not judged before.               *)
LEMMA VerdictGrows ==
  ASSUME Path!VerdictHolds, IsFiniteSet(pathJudged),
         \A j \in pathJudged : j.grade \in Grades,
         NEW one, one \notin pathJudged, one.grade \in Grades, one.grade <= one.bound,
         pathJudged' = pathJudged \cup {one},
         pathVerdict' = Path!Add(one.grade, one.rtt)
  PROVE  Path!VerdictHolds'
<1> DEFINE measured == {j \in pathJudged : j.grade # Path!Unknown}
           grades == {Path!Unknown} \cup {j.grade : j \in measured}
<1>1. /\ \A j \in pathJudged : j.grade <= j.bound
      /\ pathVerdict.connections = Path!Cardinality(measured)
      /\ pathVerdict.grade = Path!Max(grades)
      /\ measured # {} => \E j \in measured : j.grade = pathVerdict.grade /\ j.rtt = pathVerdict.rtt
  BY DEF Path!VerdictHolds
<1>2. IsFiniteSet(measured) /\ measured \subseteq pathJudged
  BY FS_Subset
<1>3. {j \in pathJudged' : j.grade # Path!Unknown} =
        IF one.grade = Path!Unknown THEN measured ELSE measured \cup {one}
  OBVIOUS
<1>4. \A j \in pathJudged' : j.grade <= j.bound
  BY <1>1
<1> HIDE DEF measured
<1>5. CASE one.grade = Path!Unknown
  <2>1. pathVerdict' = pathVerdict
    BY <1>5 DEF Path!Add
  <2> QED BY <1>1, <1>3, <1>4, <1>5, <2>1 DEF Path!VerdictHolds
<1>6. CASE one.grade # Path!Unknown
  <2>0. one.grade \in 1 .. 3
    BY <1>6 DEF Grades, Path!Unknown
  <2>1. /\ pathVerdict'.grade = Path!Max({one.grade, pathVerdict.grade})
        /\ pathVerdict'.rtt = IF one.grade > pathVerdict.grade THEN one.rtt ELSE pathVerdict.rtt
        /\ pathVerdict'.connections = pathVerdict.connections + 1
    BY <1>6 DEF Path!Add
  <2>2. pathVerdict.grade \in Grades /\ pathVerdict.grade \in grades
        /\ \A n \in grades : n \in Grades /\ n <= pathVerdict.grade
    <3>1. grades \subseteq Grades /\ 0 \in grades
      BY <1>2 DEF Grades, Path!Unknown
    <3>2. \E n \in grades : \A m \in grades : n >= m
      <4>1. CASE 3 \in grades
        BY <3>1, <4>1 DEF Grades
      <4>2. CASE 3 \notin grades /\ 2 \in grades
        BY <3>1, <4>2 DEF Grades
      <4>3. CASE 3 \notin grades /\ 2 \notin grades /\ 1 \in grades
        BY <3>1, <4>3 DEF Grades
      <4>4. CASE 3 \notin grades /\ 2 \notin grades /\ 1 \notin grades
        BY <3>1, <4>4 DEF Grades
      <4> QED BY <4>1, <4>2, <4>3, <4>4
    <3> HIDE DEF grades
    <3>3. Path!Max(grades) \in grades /\ \A m \in grades : Path!Max(grades) >= m
      BY <3>2 DEF Path!Max
    <3> QED BY <1>1, <3>1, <3>3 DEF Grades
  <2>3. pathVerdict'.grade = IF one.grade >= pathVerdict.grade THEN one.grade ELSE pathVerdict.grade
    BY <2>0, <2>1, <2>2, WorseOf DEF Grades
  <2>4. {Path!Unknown} \cup {j.grade : j \in measured \cup {one}} = grades \cup {one.grade}
    OBVIOUS
  <2> HIDE DEF grades
  <2>5. pathVerdict'.grade = Path!Max(grades \cup {one.grade})
    <3>1. /\ pathVerdict'.grade \in grades \cup {one.grade}
          /\ \A n \in grades \cup {one.grade} : pathVerdict'.grade >= n /\ n \in Grades
      BY <2>0, <2>2, <2>3 DEF Grades
    <3>2. \A n \in grades \cup {one.grade} :
            (\A m \in grades \cup {one.grade} : n >= m) => n = pathVerdict'.grade
      BY <3>1 DEF Grades
    <3> QED BY <3>1, <3>2 DEF Path!Max
  <2>6. pathVerdict'.connections = Path!Cardinality(measured \cup {one})
    <3>1. one \notin measured
      BY <1>2
    <3>2. Cardinality(measured \cup {one}) = Cardinality(measured) + 1
      BY <1>2, <3>1, FS_AddElement
    <3> QED BY <1>1, <2>1, <3>2, PathCardinality
  <2>7. \E j \in measured \cup {one} : j.grade = pathVerdict'.grade /\ j.rtt = pathVerdict'.rtt
    <3>1. CASE one.grade > pathVerdict.grade
      BY <2>0, <2>1, <2>2, <2>3, <3>1 DEF Grades
    <3>2. CASE ~ (one.grade > pathVerdict.grade)
      <4>1. pathVerdict.grade # 0
        BY <2>0, <2>2, <3>2 DEF Grades
      <4>2. measured # {}
        BY <2>2, <4>1 DEF grades, Path!Unknown
      <4>3. PICK j \in measured : j.grade = pathVerdict.grade /\ j.rtt = pathVerdict.rtt
        BY <1>1, <4>2
      <4>4. pathVerdict'.grade = pathVerdict.grade /\ pathVerdict'.rtt = pathVerdict.rtt
        BY <2>0, <2>1, <2>2, <2>3, <3>2 DEF Grades
      <4> QED BY <4>3, <4>4
    <3> QED BY <3>1, <3>2
  <2> QED BY <1>3, <1>4, <1>6, <2>4, <2>5, <2>6, <2>7 DEF Path!VerdictHolds
<1> QED BY <1>5, <1>6

(* What the stack does leaves the probe alone.                             *)
LEMMA StackMoves ==
  ASSUME PathInv,
         pathOpen' \subseteq Connections, pathCollecting' \subseteq pathOpen',
         pathCounters' \in [Connections -> Counters],
         pathRtt' \in [Connections -> RoundTrips],
         pathWindow' \in [Connections -> Counters],
         \A k \in Connections \ pathCollecting' : pathCounters'[k] = Path!NoCounts,
         \A k \in Connections : HappenedInWindow(k) => HappenedInWindow(k)',
         UNCHANGED <<pathAt, pathRows, pathLeft, pathPermitted, pathBaseline, pathVerdict,
                     pathJudged>>
  PROVE  PathInv'
<1>1. PathTypes'
  BY DEF PathInv, PathTypes
<1>2. Path!VerdictHolds'
  BY DEF PathInv, Path!VerdictHolds
<1>3. \A k \in pathRows' : Based(k)' => HappenedInWindow(k)'
  BY DEF PathInv, PathTypes, Based
<1> QED BY <1>1, <1>2, <1>3 DEF PathInv

(* What the probe does between its readings.                               *)
LEMMA ProbeMoves ==
  ASSUME PathInv,
         UNCHANGED <<pathOpen, pathCollecting, pathCounters, pathRtt, pathBaseline, pathVerdict,
                     pathWindow, pathJudged>>,
         pathRows' \subseteq Connections, pathLeft' \subseteq pathRows',
         pathAt' \in {"idle", "enable"} => DOMAIN pathBaseline = {},
         pathAt' = "baseline" => DOMAIN pathBaseline \cap pathLeft' = {},
         \A k \in pathRows' : Based(k)' => HappenedInWindow(k),
         pathAt' \notin {"finish", "said"} => pathJudged = {},
         pathAt' = "finish" => \A j \in pathJudged : j.key \notin pathLeft'
  PROVE  PathInv'
<1>1. PathTypes'
  BY DEF PathInv, PathTypes
<1>2. Path!VerdictHolds'
  BY DEF PathInv, Path!VerdictHolds
<1>3. \A k \in pathRows' : Based(k)' => HappenedInWindow(k)'
  BY DEF HappenedInWindow
<1> QED BY <1>1, <1>2, <1>3 DEF PathInv

LEMMA PathStep ==
  ASSUME PathAssumption, PathInv, [Path!Next]_(Path!vars)
  PROVE  PathInv'
<1>1. CASE Path!Begin
  <2>1. /\ pathAt = "idle" /\ pathAt' = "enable" /\ pathRows' = pathOpen /\ pathLeft' = pathOpen
        /\ UNCHANGED <<pathOpen, pathCollecting, pathCounters, pathRtt, pathPermitted,
                       pathBaseline, pathVerdict, pathWindow, pathJudged, pathEvents>>
    BY <1>1 DEF Path!Begin, Path!stack
  <2> QED BY <2>1, ProbeMoves DEF PathInv, PathTypes, Based
<1>2. CASE Path!Enabled
  <2>1. /\ pathAt = "enable" /\ pathAt' \in {"said", "baseline"} /\ pathLeft' = pathRows
        /\ UNCHANGED <<pathOpen, pathCollecting, pathCounters, pathRtt, pathRows, pathPermitted,
                       pathBaseline, pathVerdict, pathWindow, pathJudged, pathEvents>>
    BY <1>2 DEF Path!Enabled, Path!stack
  <2> QED BY <2>1, ProbeMoves DEF PathInv, PathTypes, Based
<1>3. CASE Path!Watch
  <2>1. /\ pathAt = "baseline" /\ pathLeft = {} /\ pathAt' = "watch"
        /\ UNCHANGED <<pathOpen, pathCollecting, pathCounters, pathRtt, pathRows, pathLeft,
                       pathPermitted, pathBaseline, pathVerdict, pathWindow, pathJudged, pathEvents>>
    BY <1>3 DEF Path!Watch, Path!stack
  <2> QED BY <2>1, ProbeMoves DEF PathInv, PathTypes, Based
<1>4. CASE Path!Finish
  <2>1. /\ pathAt = "watch" /\ pathAt' = "finish" /\ pathLeft' = pathRows
        /\ UNCHANGED <<pathOpen, pathCollecting, pathCounters, pathRtt, pathRows, pathPermitted,
                       pathBaseline, pathVerdict, pathWindow, pathJudged, pathEvents>>
    BY <1>4 DEF Path!Finish, Path!stack
  <2> QED BY <2>1, ProbeMoves DEF PathInv, PathTypes, Based
<1>5. CASE Path!Result
  <2>1. /\ pathAt = "finish" /\ pathAt' = "said"
        /\ UNCHANGED <<pathOpen, pathCollecting, pathCounters, pathRtt, pathRows, pathLeft,
                       pathPermitted, pathBaseline, pathVerdict, pathWindow, pathJudged, pathEvents>>
    BY <1>5 DEF Path!Result, Path!stack
  <2> QED BY <2>1, ProbeMoves DEF PathInv, PathTypes, Based
<1>6. ASSUME NEW k \in Connections, Path!Enable(k) PROVE PathInv'
  <2>1. /\ pathAt = "enable" /\ pathAt' = pathAt /\ pathLeft' = pathLeft \ {k}
        /\ \/ k \in pathOpen /\ pathCollecting' = pathCollecting \cup {k}
           \/ pathCollecting' = pathCollecting
        /\ UNCHANGED <<pathOpen, pathCounters, pathRtt, pathRows, pathBaseline, pathVerdict,
                       pathWindow, pathJudged>>
    BY <1>6 DEF Path!Enable
  <2>2. PathTypes'
    BY <2>1 DEF PathInv, PathTypes
  <2>3. Path!VerdictHolds'
    BY <2>1 DEF PathInv, Path!VerdictHolds
  <2> QED BY <2>1, <2>2, <2>3 DEF PathInv, Based
<1>7. ASSUME NEW k \in Connections, Path!TakeBaseline(k) PROVE PathInv'
  <2>1. /\ pathAt = "baseline" /\ k \in pathLeft /\ pathLeft' = pathLeft \ {k}
        /\ \/ /\ pathBaseline' = [x \in DOMAIN pathBaseline \cup {k} |->
                                    IF x = k THEN pathCounters[k] ELSE pathBaseline[x]]
              /\ pathWindow' = [pathWindow EXCEPT ![k] = Path!NoCounts]
           \/ /\ pathBaseline' = pathBaseline
              /\ pathWindow' = [pathWindow EXCEPT ![k] = pathCounters[k]]
        /\ UNCHANGED <<pathOpen, pathCollecting, pathCounters, pathRtt, pathAt, pathRows,
                       pathPermitted, pathVerdict, pathJudged>>
    BY <1>7 DEF Path!TakeBaseline, Path!stack, Path!BaselineWith
  <2>2. /\ PathTypes /\ pathWindow \in [Connections -> Counters]
        /\ pathCounters \in [Connections -> Counters]
        /\ \A x \in Connections \ {k} : pathWindow'[x] = pathWindow[x]
    BY <2>1 DEF PathInv, PathTypes
  <2>3. k \notin DOMAIN pathBaseline
    BY <2>1 DEF PathInv
  <2>4. pathWindow' \in [Connections -> Counters]
    BY <2>1, <2>2, NothingCounted
  <2>5. /\ DOMAIN pathBaseline' \subseteq Connections
        /\ \A x \in DOMAIN pathBaseline' : pathBaseline'[x] \in Counters
        /\ \A x \in Connections \ {k} :
             /\ x \in DOMAIN pathBaseline' <=> x \in DOMAIN pathBaseline
             /\ x \in DOMAIN pathBaseline => pathBaseline'[x] = pathBaseline[x]
        /\ \/ /\ k \in DOMAIN pathBaseline' /\ pathBaseline'[k] = pathCounters[k]
              /\ pathWindow'[k] = Path!NoCounts
           \/ k \notin DOMAIN pathBaseline' /\ pathWindow'[k] = pathCounters[k]
    BY <2>1, <2>2, <2>3 DEF PathTypes
  <2>6. PathTypes'
    BY <2>1, <2>2, <2>4, <2>5 DEF PathTypes
  <2>7. Path!VerdictHolds'
    BY <2>1 DEF PathInv, Path!VerdictHolds
  <2>8. HappenedInWindow(k)'
    <3>1. \A c \in CountedThings : pathCounters[k][c] \in Nat /\ Path!NoCounts[c] = 0
      BY <2>2, CountsOf, NothingCounted
    <3> QED BY <2>1, <2>5, <3>1 DEF HappenedInWindow
  <2>9. ASSUME NEW x \in pathRows, x # k, Based(x)' PROVE HappenedInWindow(x)'
    <3>1. x \in Connections /\ Based(x)
      BY <2>1, <2>2, <2>9 DEF PathTypes, Based
    <3>2. HappenedInWindow(x)
      BY <3>1 DEF PathInv
    <3> QED BY <2>1, <2>2, <2>5, <2>9, <3>1, <3>2 DEF HappenedInWindow
  <2> QED BY <2>1, <2>3, <2>5, <2>6, <2>7, <2>8, <2>9 DEF PathInv
<1>8. ASSUME NEW k \in Connections, Path!ReadAgain(k) PROVE PathInv'
  <2> DEFINE before == IF k \in DOMAIN pathBaseline THEN pathBaseline[k] ELSE Path!NoCounts
             grade  == Path!Judge(Path!Since(pathCounters[k], before), pathRtt[k])
             one == [key |-> k, grade |-> grade, rtt |-> pathRtt[k],
                     bound |-> Path!Judge(pathWindow[k], pathRtt[k])]
  <2>1. /\ pathAt = "finish" /\ k \in pathLeft /\ pathLeft' = pathLeft \ {k}
        /\ \/ pathVerdict' = Path!Add(grade, pathRtt[k]) /\ pathJudged' = pathJudged \cup {one}
           \/ UNCHANGED <<pathVerdict, pathJudged>>
        /\ UNCHANGED <<pathOpen, pathCollecting, pathCounters, pathRtt, pathAt, pathRows,
                       pathPermitted, pathBaseline, pathWindow>>
    BY <1>8 DEF Path!ReadAgain, Path!stack
  <2>2. PathTypes /\ k \in pathRows
    BY <2>1 DEF PathInv, PathTypes
  <2>3. before \in Counters /\ pathCounters[k] \in Counters /\ pathWindow[k] \in Counters
        /\ pathRtt[k] \in Nat
    BY <2>2, NothingCounted DEF PathTypes, PathAssumption
  <2>4. \A c \in CountedThings : pathCounters[k][c] <= before[c] + pathWindow[k][c]
    <3>1. HappenedInWindow(k)
      BY <2>1, <2>2 DEF PathInv, Based
    <3> QED BY <3>1, NothingCounted DEF HappenedInWindow
  <2>5. grade \in Grades /\ grade <= Path!Judge(pathWindow[k], pathRtt[k])
    BY <2>3, <2>4, DifferenceCounts, JudgedByWindow
  <2> HIDE DEF grade
  <2>6. /\ one.key = k /\ one.grade = grade /\ one.rtt = pathRtt[k]
        /\ one.bound = Path!Judge(pathWindow[k], pathRtt[k])
    OBVIOUS
  <2>7. one \notin pathJudged
    BY <2>1, <2>6 DEF PathInv
  <2> HIDE DEF one
  <2>8. Path!VerdictHolds'
    <3>1. CASE pathVerdict' = Path!Add(grade, pathRtt[k]) /\ pathJudged' = pathJudged \cup {one}
      BY <2>1, <2>2, <2>5, <2>6, <2>7, <3>1, VerdictGrows DEF PathInv, PathTypes
    <3>2. CASE UNCHANGED <<pathVerdict, pathJudged>>
      BY <3>2 DEF PathInv, Path!VerdictHolds
    <3> QED BY <2>1, <3>1, <3>2
  <2>9. /\ IsFiniteSet(pathJudged')
        /\ \A j \in pathJudged' : j.grade \in Grades /\ j.key \notin pathLeft'
    BY <2>1, <2>2, <2>5, <2>6, FS_AddElement DEF PathInv, PathTypes
  <2>10. PathTypes'
    BY <2>1, <2>2, <2>9 DEF PathTypes
  <2>11. \A x \in pathRows' : Based(x)' => HappenedInWindow(x)'
    BY <2>1 DEF PathInv, Based, HappenedInWindow
  <2> QED BY <2>1, <2>8, <2>9, <2>10, <2>11 DEF PathInv
<1>9. ASSUME NEW k \in Connections, Path!Measures(k) PROVE PathInv'
  <2>1. PICK lost \in 0 .. 1, timeout \in 0 .. 1 :
          LET more(c) == [sampled |-> c.sampled + 1, lost |-> c.lost + lost,
                          timeouts |-> c.timeouts + timeout]
          IN /\ pathCounters' = [pathCounters EXCEPT ![k] = more(@)]
             /\ pathWindow' = [pathWindow EXCEPT ![k] = more(@)]
    BY <1>9 DEF Path!Measures
  <2> DEFINE more(c) == [sampled |-> c.sampled + 1, lost |-> c.lost + lost,
                         timeouts |-> c.timeouts + timeout]
  <2>2. /\ k \in pathOpen \cap pathCollecting
        /\ pathRtt' \in {[pathRtt EXCEPT ![k] = ms] : ms \in RoundTrips}
        /\ pathCounters' = [pathCounters EXCEPT ![k] = more(pathCounters[k])]
        /\ pathWindow' = [pathWindow EXCEPT ![k] = more(pathWindow[k])]
        /\ UNCHANGED <<pathOpen, pathCollecting, pathAt, pathRows, pathLeft, pathPermitted,
                       pathBaseline, pathVerdict, pathJudged>>
    BY <1>9, <2>1 DEF Path!Measures, Path!probe
  <2>3. PathTypes
    BY DEF PathInv
  <2>4. ASSUME NEW r \in Counters
        PROVE  /\ more(r) \in Counters
               /\ more(r)["sampled"] = r["sampled"] + 1 /\ more(r)["lost"] = r["lost"] + lost
               /\ more(r)["timeouts"] = r["timeouts"] + timeout
    BY DEF Counters
  <2> HIDE DEF more
  <2>5. /\ pathCounters' \in [Connections -> Counters]
        /\ pathWindow' \in [Connections -> Counters]
        /\ pathRtt' \in [Connections -> RoundTrips]
    BY <2>2, <2>3, <2>4 DEF PathTypes
  <2>6. ASSUME NEW x \in Connections, HappenedInWindow(x) PROVE HappenedInWindow(x)'
    <3>1. CASE x # k
      <4>1. pathCounters'[x] = pathCounters[x] /\ pathWindow'[x] = pathWindow[x]
        BY <2>2, <2>3, <3>1 DEF PathTypes
      <4> QED BY <2>2, <2>6, <4>1 DEF HappenedInWindow
    <3>2. CASE x = k
      <4>1. /\ pathCounters[k] \in Counters /\ pathWindow[k] \in Counters
            /\ k \in DOMAIN pathBaseline => pathBaseline[k] \in Counters
            /\ pathCounters'[k] = more(pathCounters[k]) /\ pathWindow'[k] = more(pathWindow[k])
        BY <2>2, <2>3 DEF PathTypes
      <4> DEFINE b(c) == IF k \in DOMAIN pathBaseline THEN pathBaseline[k][c] ELSE 0
      <4>2. \A c \in CountedThings : /\ b(c) \in Nat /\ pathCounters[k][c] \in Nat /\ pathWindow[k][c] \in Nat
                             /\ pathCounters[k][c] <= b(c) + pathWindow[k][c]
        BY <2>6, <3>2, <4>1, CountsOf DEF HappenedInWindow
      <4>3. \A c \in CountedThings : \E n \in Nat : /\ pathCounters'[k][c] = pathCounters[k][c] + n
                                            /\ pathWindow'[k][c] = pathWindow[k][c] + n
        <5>1. /\ pathCounters'[k]["sampled"] = pathCounters[k]["sampled"] + 1
              /\ pathWindow'[k]["sampled"] = pathWindow[k]["sampled"] + 1
              /\ pathCounters'[k]["lost"] = pathCounters[k]["lost"] + lost
              /\ pathWindow'[k]["lost"] = pathWindow[k]["lost"] + lost
              /\ pathCounters'[k]["timeouts"] = pathCounters[k]["timeouts"] + timeout
              /\ pathWindow'[k]["timeouts"] = pathWindow[k]["timeouts"] + timeout
          BY <2>4, <4>1
        <5>2. 1 \in Nat /\ lost \in Nat /\ timeout \in Nat
          OBVIOUS
        <5> QED BY <5>1, <5>2 DEF CountedThings
      <4> HIDE DEF b
      <4>4. \A c \in CountedThings : pathCounters'[k][c] <= b(c) + pathWindow'[k][c]
        BY <4>2, <4>3
      <4> QED BY <2>2, <3>2, <4>4 DEF HappenedInWindow, b
    <3> QED BY <3>1, <3>2
  <2>7. \A x \in Connections \ pathCollecting' : pathCounters'[x] = Path!NoCounts
    BY <2>2, <2>3 DEF PathInv, PathTypes
  <2> QED BY <2>2, <2>3, <2>5, <2>6, <2>7, StackMoves DEF PathTypes
(* Counters that start again count less.                                   *)
<1>10. ASSUME NEW k \in Connections, pathOpen' \subseteq Connections,
              pathCollecting' \subseteq pathOpen',
              \A x \in Connections \ {k} : x \in pathCollecting' <=> x \in pathCollecting,
              pathCounters' = [pathCounters EXCEPT ![k] = Path!NoCounts],
              UNCHANGED <<pathRtt, pathWindow, pathAt, pathRows, pathLeft, pathPermitted,
                          pathBaseline, pathVerdict, pathJudged>>
       PROVE  PathInv'
  <2>1. PathTypes
    BY DEF PathInv
  <2>2. /\ pathCounters' \in [Connections -> Counters] /\ pathCounters'[k] = Path!NoCounts
        /\ \A x \in Connections \ {k} : pathCounters'[x] = pathCounters[x]
    BY <1>10, <2>1, NothingCounted DEF PathTypes
  <2>3. ASSUME NEW x \in Connections, HappenedInWindow(x) PROVE HappenedInWindow(x)'
    <3>1. CASE x # k
      BY <1>10, <2>2, <2>3, <3>1 DEF HappenedInWindow
    <3>2. CASE x = k
      <4> DEFINE b(c) == IF k \in DOMAIN pathBaseline THEN pathBaseline[k][c] ELSE 0
      <4>1. /\ pathWindow[k] \in Counters
            /\ k \in DOMAIN pathBaseline => pathBaseline[k] \in Counters
        BY <2>1 DEF PathTypes
      <4>2. \A c \in CountedThings : pathWindow[k][c] \in Nat /\ b(c) \in Nat /\ Path!NoCounts[c] = 0
        BY <4>1, CountsOf, NothingCounted
      <4> HIDE DEF b
      <4>3. \A c \in CountedThings : Path!NoCounts[c] <= b(c) + pathWindow[k][c]
        BY <4>2
      <4>4. \A c \in CountedThings : pathCounters'[k][c] <= b(c) + pathWindow'[k][c]
        BY <1>10, <2>2, <4>3
      <4> QED BY <1>10, <3>2, <4>4 DEF HappenedInWindow, b
    <3> QED BY <3>1, <3>2
  <2>4. \A x \in Connections \ pathCollecting' : pathCounters'[x] = Path!NoCounts
    BY <1>10, <2>2 DEF PathInv
  <2> QED BY <1>10, <2>1, <2>2, <2>3, <2>4, StackMoves DEF PathTypes
<1>11. ASSUME NEW k \in Connections, Path!Ends(k) PROVE PathInv'
  <2>1. PathTypes
    BY DEF PathInv
  <2> QED BY <1>10, <1>11, <2>1 DEF Path!Ends, Path!probe, PathTypes
<1>12. ASSUME NEW k \in Connections, Path!Reopens(k) PROVE PathInv'
  <2>1. /\ pathOpen' = pathOpen \cup {k}
        /\ UNCHANGED <<pathCollecting, pathCounters, pathRtt, pathAt, pathRows, pathLeft,
                       pathPermitted, pathBaseline, pathVerdict, pathWindow, pathJudged>>
    BY <1>12 DEF Path!Reopens, Path!probe
  <2>2. \A x \in Connections : HappenedInWindow(x) => HappenedInWindow(x)'
    BY <2>1 DEF HappenedInWindow
  <2> QED BY <2>1, <2>2, StackMoves DEF PathInv, PathTypes
<1>13. ASSUME NEW k \in Connections, Path!Toggled(k) PROVE PathInv'
  <2>1. /\ k \in pathOpen /\ pathOpen' = pathOpen
        /\ pathCollecting' = IF k \in pathCollecting THEN pathCollecting \ {k}
                             ELSE pathCollecting \cup {k}
        /\ pathCounters' = [pathCounters EXCEPT ![k] = Path!NoCounts]
        /\ UNCHANGED <<pathRtt, pathAt, pathRows, pathLeft, pathPermitted,
                       pathBaseline, pathVerdict, pathWindow, pathJudged>>
    BY <1>13 DEF Path!Toggled, Path!probe
  <2> QED BY <1>10, <2>1 DEF PathInv, PathTypes
<1>14. CASE UNCHANGED Path!vars
  <2>1. UNCHANGED <<pathOpen, pathCollecting, pathCounters, pathRtt, pathAt, pathRows, pathLeft,
                    pathPermitted, pathBaseline, pathVerdict, pathWindow, pathJudged>>
    BY <1>14 DEF Path!vars, Path!stack, Path!probe
  <2>2. \A x \in Connections : HappenedInWindow(x) => HappenedInWindow(x)'
    BY <2>1 DEF HappenedInWindow
  <2> QED BY <2>1, <2>2, StackMoves DEF PathInv, PathTypes
<1> QED
  BY <1>1, <1>2, <1>3, <1>4, <1>5, <1>6, <1>7, <1>8, <1>9, <1>11, <1>12, <1>13, <1>14
  DEF Path!Next

-----------------------------------------------------------------------------
(* Which presents reached the screen (DisplayedFrames).                    *)
DisplayAssumption == Room \in Nat /\ MaxPresents \in Nat /\ MaxFlips \in Nat

CorrelatorFields == {"healthy", "cands", "tokens", "frames", "calls", "waiting", "dwm"}
CandFields == {"surface", "done", "claimed", "old"}
TokenFields ==
  {"surface", "accepted", "inFrame", "scheduled", "discarded", "displayed", "old"}
FrameFields == {"tokens", "sequence", "old"}

TokenStages == {"none", "made", "framed", "direct", "updated", "taken", "dead"}
RealPresents ==
  [thread : DisplayThreads, surface : DisplaySurfaces, call : {"in", "ok", "failed"},
   token : TokenStages, flip : Nat]
FlipStages == {"flipped", "queued", "shown"}

DisplayTypes ==
  /\ disReal \in Seq(RealPresents) /\ Len(disReal) <= MaxPresents
  /\ disFlips \in Seq(FlipStages) /\ Len(disFlips) <= MaxFlips
  /\ disDwm \in [thread : {1, 2}, scheduled : BOOLEAN]
  /\ disOn \in BOOLEAN /\ disWhole \in BOOLEAN
  /\ DOMAIN disCorrelator = CorrelatorFields

(* A present is in a flip only once DWM took its image, and DWM has one    *)
(* flip at a time that is not queued.                                      *)
ScreenInv ==
  /\ \A p \in DOMAIN disReal :
       /\ disReal[p].flip <= Len(disFlips)
       /\ disReal[p].flip # 0 => disReal[p].token = "taken"
       /\ disReal[p].call = "failed" => disReal[p].token \in {"none", "dead"}
  /\ \A p, q \in DOMAIN disReal :
       disReal[p].call = "in" /\ disReal[q].call = "in" /\ disReal[p].thread = disReal[q].thread
       => p = q
  /\ \A f \in DOMAIN disFlips : disFlips[f] = "flipped" => f = Len(disFlips)
  /\ ~disOn => disFlips = <<>>

(* Without a trace, or with one that failed, the tables are empty.         *)
Empty(c) ==
  /\ DOMAIN c.cands = {} /\ DOMAIN c.tokens = {} /\ DOMAIN c.frames = {}
  /\ c.waiting = <<>> /\ c.calls = [th \in DisplayThreads |-> 0]

Trusted == disWhole /\ disOn /\ disCorrelator.healthy

(* The candidates are presents; in a whole trace, all that await a token.  *)
CandsInv ==
  /\ DOMAIN disCorrelator.cands \subseteq DOMAIN disReal
  /\ Cardinality(DOMAIN disCorrelator.cands) <= Room
  /\ \A p \in DOMAIN disCorrelator.cands :
       /\ DOMAIN disCorrelator.cands[p] = CandFields
       /\ disCorrelator.cands[p].surface = disReal[p].surface
       /\ disCorrelator.cands[p].old \in BOOLEAN
  /\ disCorrelator.calls \in [DisplayThreads -> Nat]
  /\ \A th \in DisplayThreads : disCorrelator.calls[th] # 0 =>
       /\ disCorrelator.calls[th] \in DOMAIN disReal
       /\ disReal[disCorrelator.calls[th]].thread = th
       /\ disReal[disCorrelator.calls[th]].call = "in"
  /\ Trusted => \A p \in DOMAIN disReal : Display!Pending(p) =>
       /\ p \in DOMAIN disCorrelator.cands
       /\ disCorrelator.cands[p].claimed = 0 /\ ~disCorrelator.cands[p].old

(* A token is of a present that has one, on that present's surface.        *)
TokensInv ==
  /\ DOMAIN disCorrelator.tokens \subseteq DOMAIN disReal
  /\ Cardinality(DOMAIN disCorrelator.tokens) <= Room
  /\ \A k \in DOMAIN disCorrelator.tokens :
       /\ DOMAIN disCorrelator.tokens[k] = TokenFields
       /\ disCorrelator.tokens[k].surface \in DisplaySurfaces \cup {0}
       /\ disReal[k].token # "none"
       /\ disCorrelator.tokens[k].inFrame => disReal[k].token \notin {"none", "made", "direct"}
       /\ disWhole => disCorrelator.tokens[k].surface \in {0, disReal[k].surface}

(* DWM took up every update that waits for its flip.                       *)
Awaits(k) ==
  /\ k \in DOMAIN disReal
  /\ disReal[k].token \in {"updated", "taken"}
  /\ disReal[k].token = "taken" => disReal[k].flip # 0 /\ ~disWhole

WaitingInv ==
  /\ disCorrelator.waiting \in Seq(Nat) /\ Len(disCorrelator.waiting) <= Room
  /\ \A i \in DOMAIN disCorrelator.waiting : Awaits(disCorrelator.waiting[i])

(* The tokens of a frame were flipped by then, and in a whole trace with   *)
(* this flip.                                                              *)
Flipped(k, g) ==
  /\ k \in DOMAIN disReal
  /\ disReal[k].token = "taken" /\ disReal[k].flip \in 1 .. g
  /\ disWhole => disReal[k].flip = g

FlipsInv ==
  /\ DOMAIN disCorrelator.frames \subseteq DOMAIN disFlips
  /\ Cardinality(DOMAIN disCorrelator.frames) <= Room
  /\ \A g \in DOMAIN disCorrelator.frames :
       /\ DOMAIN disCorrelator.frames[g] = FrameFields
       /\ disCorrelator.frames[g].tokens \in Seq(Nat)
       /\ \A i \in DOMAIN disCorrelator.frames[g].tokens :
            Flipped(disCorrelator.frames[g].tokens[i], g)
       /\ disCorrelator.frames[g].sequence # 0 =>
            /\ disCorrelator.frames[g].sequence \in g .. Len(disFlips)
            /\ disFlips[disCorrelator.frames[g].sequence] # "flipped"
            /\ disWhole => disCorrelator.frames[g].sequence = g
       /\ disWhole /\ disCorrelator.frames[g].sequence = 0 => disFlips[g] = "flipped"

(* In a whole trace the correlator knows DWM's thread by the flip.         *)
DwmInv ==
  Trusted =>
    /\ disDwm.scheduled => disCorrelator.dwm = disDwm.thread
    /\ \A f \in DOMAIN disFlips :
         disFlips[f] = "flipped" => disCorrelator.dwm = disDwm.thread

CountedInv ==
  /\ ~disOn => disCounted = {}
  /\ disCounted \subseteq [present : 1 .. MaxPresents, flip : 1 .. MaxFlips,
                           surface : DisplaySurfaces]
  /\ \A x \in disCounted :
       /\ Flipped(x.present, x.flip)
       /\ disWhole => disReal[x.present].surface = x.surface
       /\ x.flip \in DOMAIN disFlips /\ disFlips[x.flip] = "shown"
       /\ x.present \in DOMAIN disCorrelator.tokens
          => disCorrelator.tokens[x.present].displayed = TRUE
  /\ \A x, y \in disCounted :
       x # y => x.present # y.present /\ <<x.flip, x.surface>> # <<y.flip, y.surface>>

DisplayInv ==
  /\ DisplayTypes /\ ScreenInv /\ (~Display!Hears => Empty(disCorrelator))
  /\ CandsInv /\ TokensInv /\ WaitingInv /\ FlipsInv /\ DwmInv /\ CountedInv

LEMMA DisplayCardinality ==
  ASSUME NEW S PROVE Display!Cardinality(S) = Cardinality(S)
BY DEF Display!Cardinality, Cardinality

(* What the operators on tables return.                                    *)
LEMMA Removals ==
  ASSUME NEW table, NEW x
  PROVE  /\ DOMAIN Display!Without(table, x) = DOMAIN table \ {x}
         /\ \A y \in DOMAIN table : y # x => Display!Without(table, x)[y] = table[y]
BY DEF Display!Without, Display!Restrict

LEMMA Youngest ==
  ASSUME NEW table
  PROVE  /\ DOMAIN Display!Young(table) = {y \in DOMAIN table : ~table[y].old}
         /\ \A y \in DOMAIN Display!Young(table) : Display!Young(table)[y] = table[y]
BY DEF Display!Young, Display!Restrict

LEMMA LostIsEmpty ==
  /\ Empty(Display!Lost) /\ ~Display!Lost.healthy
  /\ DOMAIN Display!Lost = CorrelatorFields
BY DEF Empty, Display!Lost, Display!Fresh, CorrelatorFields

LEMMA FreshIsEmpty ==
  /\ Empty(Display!Fresh) /\ Display!Fresh.healthy = TRUE
  /\ DOMAIN Display!Fresh = CorrelatorFields
BY DEF Empty, Display!Fresh, CorrelatorFields

LEMMA Expired ==
  ASSUME NEW c, DOMAIN c = CorrelatorFields
  PROVE  /\ DOMAIN Display!Expire(c) = CorrelatorFields
         /\ Display!Expire(c).healthy = c.healthy
         /\ Display!Expire(c).cands = Display!Young(c.cands)
         /\ Display!Expire(c).tokens = Display!Young(c.tokens)
         /\ Display!Expire(c).frames = Display!Young(c.frames)
         /\ Display!Expire(c).calls = c.calls
         /\ Display!Expire(c).waiting = c.waiting
         /\ Display!Expire(c).dwm = c.dwm
BY DEF Display!Expire, CorrelatorFields

Calling(calls, th, p) == [calls EXCEPT ![th] = p]
Candidate(surface) == [surface |-> surface, done |-> FALSE, claimed |-> 0, old |-> FALSE]

LEMMA Begun ==
  ASSUME NEW c, DOMAIN c = CorrelatorFields, NEW th, NEW p, NEW surface,
         NEW d, d = Display!PresentStart(c, th, p, surface)
  PROVE  \/ d = Display!Lost
         \/ /\ DOMAIN d = CorrelatorFields /\ d.healthy = c.healthy
            /\ Display!Cardinality(DOMAIN Display!Young(c.cands)) # Room
            /\ d.cands = Display!Put(Display!Young(c.cands), p, Candidate(surface))
            /\ d.tokens = Display!Young(c.tokens) /\ d.frames = Display!Young(c.frames)
            /\ d.calls = Calling(c.calls, th, p)
            /\ d.waiting = c.waiting /\ d.dwm = c.dwm
<1> DEFINE e == Display!Expire(c)
           full == Display!Put(e.cands, p, Candidate(surface))
<1>1. \/ d = Display!Lost
      \/ /\ Display!Cardinality(DOMAIN e.cands) # Room
         /\ d = [e EXCEPT !.cands = full, !.calls = [e.calls EXCEPT ![th] = p]]
  BY DEF Display!PresentStart, Display!Full, Candidate
<1>2. DOMAIN e = CorrelatorFields
  BY Expired
<1> HIDE DEF e, full
<1>3. ASSUME d = [e EXCEPT !.cands = full, !.calls = [e.calls EXCEPT ![th] = p]]
      PROVE  /\ DOMAIN d = CorrelatorFields /\ d.healthy = e.healthy
             /\ d.cands = full /\ d.tokens = e.tokens /\ d.frames = e.frames
             /\ d.calls = [e.calls EXCEPT ![th] = p]
             /\ d.waiting = e.waiting /\ d.dwm = e.dwm
  BY <1>2, <1>3 DEF CorrelatorFields
<1>4. c.calls = e.calls
  BY Expired DEF e
<1> QED BY <1>1, <1>3, <1>4, Expired DEF e, full, Calling

(* The outcome of a present: its candidate goes, or is done.               *)
LEMMA Ended ==
  ASSUME NEW c, DOMAIN c = CorrelatorFields, NEW th, NEW ok \in BOOLEAN,
         \A q \in DOMAIN c.cands : DOMAIN c.cands[q] = CandFields,
         \A q \in DOMAIN c.tokens : DOMAIN c.tokens[q] = TokenFields,
         NEW d, d = Display!PresentStop(c, th, ok), NEW p, p = c.calls[th]
  PROVE  \/ d = Display!Lost
         \/ p = 0 /\ d = c
         \/ /\ p # 0 /\ p \in DOMAIN c.cands
            /\ DOMAIN d = CorrelatorFields /\ d.healthy = c.healthy
            /\ d.calls = Calling(c.calls, th, 0)
            /\ d.frames = c.frames /\ d.waiting = c.waiting /\ d.dwm = c.dwm
            /\ DOMAIN d.tokens = DOMAIN c.tokens
            /\ \A k \in DOMAIN c.tokens :
                 /\ DOMAIN d.tokens[k] = TokenFields
                 /\ d.tokens[k].surface = c.tokens[k].surface
                 /\ d.tokens[k].inFrame = c.tokens[k].inFrame
                 /\ d.tokens[k].displayed = c.tokens[k].displayed
            /\ DOMAIN c.cands \ {p} \subseteq DOMAIN d.cands
            /\ DOMAIN d.cands \subseteq DOMAIN c.cands
            /\ \A q \in DOMAIN d.cands :
                 /\ DOMAIN d.cands[q] = CandFields
                 /\ d.cands[q].surface = c.cands[q].surface
                 /\ d.cands[q].old = c.cands[q].old
                 /\ d.cands[q].claimed = c.cands[q].claimed
            /\ ok /\ c.cands[p].claimed = 0 => p \in DOMAIN d.cands
<1> DEFINE token == c.cands[p].claimed
           gone == Display!Without(c.cands, p)
           calls == [c.calls EXCEPT ![th] = 0]
           marked == IF token \in DOMAIN c.tokens
                     THEN [c.tokens EXCEPT ![token] = [c.tokens[token] EXCEPT !.accepted = ok]]
                     ELSE c.tokens
           done == [c.cands EXCEPT ![p] = [c.cands[p] EXCEPT !.done = TRUE]]
<1>1. \/ d = Display!Lost
      \/ p = 0 /\ d = c
      \/ /\ p # 0 /\ p \in DOMAIN c.cands
         /\ \/ token # 0 /\ d = [c EXCEPT !.calls = calls, !.cands = gone, !.tokens = marked]
            \/ token = 0 /\ ok /\ d = [c EXCEPT !.calls = calls, !.cands = done]
            \/ token = 0 /\ ~ok /\ d = [c EXCEPT !.calls = calls, !.cands = gone]
  BY DEF Display!PresentStop, CorrelatorFields
<1>2. /\ DOMAIN marked = DOMAIN c.tokens
      /\ \A k \in DOMAIN c.tokens :
           /\ DOMAIN marked[k] = TokenFields
           /\ marked[k].surface = c.tokens[k].surface
           /\ marked[k].inFrame = c.tokens[k].inFrame
           /\ marked[k].displayed = c.tokens[k].displayed
  BY DEF TokenFields
<1>3. /\ DOMAIN done = DOMAIN c.cands
      /\ \A q \in DOMAIN c.cands :
           /\ DOMAIN done[q] = CandFields
           /\ done[q].surface = c.cands[q].surface
           /\ done[q].old = c.cands[q].old
           /\ done[q].claimed = c.cands[q].claimed
  BY DEF CandFields
<1>4. /\ DOMAIN gone = DOMAIN c.cands \ {p}
      /\ \A q \in DOMAIN gone : gone[q] = c.cands[q]
  <2> HIDE DEF marked, done, calls
  <2>1. DOMAIN gone = DOMAIN c.cands \ {p}
    BY Removals
  <2>2. \A q \in DOMAIN c.cands : q # p => gone[q] = c.cands[q]
    BY Removals
  <2> QED BY <2>1, <2>2
<1> HIDE DEF gone, calls, marked, done
<1>5. ASSUME p # 0, p \in DOMAIN c.cands, token # 0,
             d = [c EXCEPT !.calls = calls, !.cands = gone, !.tokens = marked]
      PROVE  /\ DOMAIN d = CorrelatorFields /\ d.healthy = c.healthy
             /\ d.cands = gone /\ d.tokens = marked /\ d.frames = c.frames
             /\ d.calls = calls /\ d.waiting = c.waiting /\ d.dwm = c.dwm
  BY <1>5 DEF CorrelatorFields
<1>6. ASSUME d = [c EXCEPT !.calls = calls, !.cands = done]
      PROVE  /\ DOMAIN d = CorrelatorFields /\ d.healthy = c.healthy
             /\ d.cands = done /\ d.tokens = c.tokens /\ d.frames = c.frames
             /\ d.calls = calls /\ d.waiting = c.waiting /\ d.dwm = c.dwm
  BY <1>6 DEF CorrelatorFields
<1>10. ASSUME d = [c EXCEPT !.calls = calls, !.cands = gone]
      PROVE  /\ DOMAIN d = CorrelatorFields /\ d.healthy = c.healthy
             /\ d.cands = gone /\ d.tokens = c.tokens /\ d.frames = c.frames
             /\ d.calls = calls /\ d.waiting = c.waiting /\ d.dwm = c.dwm
  BY <1>10 DEF CorrelatorFields
<1>7. CASE p # 0 /\ p \in DOMAIN c.cands /\ token # 0
           /\ d = [c EXCEPT !.calls = calls, !.cands = gone, !.tokens = marked]
  BY <1>2, <1>4, <1>5, <1>7 DEF calls, Calling
<1>8. CASE p # 0 /\ p \in DOMAIN c.cands /\ token = 0 /\ ok
           /\ d = [c EXCEPT !.calls = calls, !.cands = done]
  <2>1. /\ DOMAIN d = CorrelatorFields /\ d.healthy = c.healthy
        /\ d.cands = done /\ d.tokens = c.tokens /\ d.frames = c.frames
        /\ d.calls = calls /\ d.waiting = c.waiting /\ d.dwm = c.dwm
    BY <1>6, <1>8
  <2> QED BY <1>3, <1>8, <2>1 DEF calls, Calling
<1>9. CASE p # 0 /\ p \in DOMAIN c.cands /\ token = 0 /\ ~ok
           /\ d = [c EXCEPT !.calls = calls, !.cands = gone]
  BY <1>4, <1>9, <1>10 DEF calls, Calling
<1> QED BY <1>1, <1>7, <1>8, <1>9

LEMMA Smallest ==
  ASSUME NEW S \in SUBSET Nat, S # {}
  PROVE  Display!Min(S) \in S /\ \A n \in S : Display!Min(S) <= n
<1>1. \E n \in S : \A m \in S : n <= m
  BY SmallestOf
<1> QED BY <1>1 DEF Display!Min

LEMMA OneOnly ==
  ASSUME NEW S, IsFiniteSet(S), ~(Display!Cardinality(S) > 1), NEW x \in S, NEW y \in S
  PROVE  x = y
<1> SUFFICES ASSUME x # y PROVE FALSE
  OBVIOUS
<1>1. Cardinality(S) \in Nat /\ Cardinality(S) <= 1
  BY FS_CardinalityType, DisplayCardinality
<1>2. Cardinality({x, y}) = 2
  <2>1. IsFiniteSet({x}) /\ Cardinality({x}) = 1
    BY FS_Singleton
  <2>2. Cardinality({x} \cup {y}) = Cardinality({x}) + 1
    BY <2>1, FS_AddElement
  <2>3. {x} \cup {y} = {x, y}
    OBVIOUS
  <2> QED BY <2>1, <2>2, <2>3
<1>3. Cardinality({x, y}) <= Cardinality(S)
  BY FS_Subset
<1> QED BY <1>1, <1>2, <1>3

NewToken(surface, accepted) ==
  [surface |-> surface, accepted |-> accepted, inFrame |-> FALSE, scheduled |-> FALSE,
   discarded |-> FALSE, displayed |-> FALSE, old |-> FALSE]

(* The token of the driver goes to the first present that has none.        *)
SurfacesOf(table, S) == {table[x].surface : x \in S}

Open(c) == {q \in DOMAIN c.cands : ~c.cands[q].old /\ c.cands[q].claimed = 0}

(* Token k was made for the first of the open candidates, if there is one. *)
ForOldest(c, d, k, open) ==
  \E surface, accepted :
    /\ d.tokens = Display!Put(Display!Young(c.tokens), k, NewToken(surface, accepted))
    /\ \/ open = {} /\ surface = 0 /\ d.cands = Display!Young(c.cands)
       \/ \E p \in open :
            /\ \A q \in open : p <= q
            /\ surface = c.cands[p].surface
            /\ DOMAIN d.cands \subseteq DOMAIN Display!Young(c.cands)
            /\ \A q \in DOMAIN Display!Young(c.cands) :
                 q # p => q \in DOMAIN d.cands /\ d.cands[q] = c.cands[q]
            /\ \A q \in DOMAIN d.cands :
                 /\ DOMAIN d.cands[q] = CandFields
                 /\ d.cands[q].surface = c.cands[q].surface
                 /\ d.cands[q].old = c.cands[q].old

LEMMA Named ==
  ASSUME NEW c, DOMAIN c = CorrelatorFields, NEW k, DOMAIN c.cands \subseteq Nat,
         \A q \in DOMAIN c.cands : DOMAIN c.cands[q] = CandFields,
         NEW d, d = Display!Token(c, k)
  PROVE  \/ d = Display!Lost
         \/ /\ DOMAIN d = CorrelatorFields /\ d.healthy = c.healthy
            /\ d.frames = Display!Young(c.frames)
            /\ d.calls = c.calls /\ d.waiting = c.waiting /\ d.dwm = c.dwm
            /\ Display!Cardinality(DOMAIN Display!Young(c.tokens)) # Room
            /\ ~(Display!Cardinality(SurfacesOf(c.cands, Open(c))) > 1)
            /\ ForOldest(c, d, k, Open(c))
<1> DEFINE e == Display!Expire(c)
           named(surface, accepted) == Display!Put(e.tokens, k, NewToken(surface, accepted))
           unclaimed == {q \in DOMAIN e.cands : e.cands[q].claimed = 0}
           p == Display!Min(unclaimed)
           gone == Display!Without(e.cands, p)
           claimed == [e.cands EXCEPT ![p] = [e.cands[p] EXCEPT !.claimed = k]]
<1> SUFFICES ASSUME d # Display!Lost PROVE
      /\ DOMAIN d = CorrelatorFields /\ d.healthy = c.healthy
      /\ d.frames = Display!Young(c.frames)
      /\ d.calls = c.calls /\ d.waiting = c.waiting /\ d.dwm = c.dwm
      /\ Display!Cardinality(DOMAIN Display!Young(c.tokens)) # Room
      /\ ~(Display!Cardinality(SurfacesOf(c.cands, Open(c))) > 1)
      /\ ForOldest(c, d, k, Open(c))
  OBVIOUS
<1>1. /\ Display!Cardinality(DOMAIN e.tokens) # Room
      /\ ~(Display!Cardinality({e.cands[q].surface : q \in unclaimed}) > 1)
      /\ \/ unclaimed = {} /\ d = [e EXCEPT !.tokens = named(0, FALSE)]
         \/ /\ unclaimed # {}
            /\ \/ d = [e EXCEPT !.tokens = named(e.cands[p].surface, e.cands[p].done),
                               !.cands = gone]
               \/ d = [e EXCEPT !.tokens = named(e.cands[p].surface, e.cands[p].done),
                               !.cands = claimed]
  BY DEF Display!Token, Display!Full, Display!NoSurface, NewToken
<1>2. /\ DOMAIN e = CorrelatorFields /\ e.healthy = c.healthy
      /\ e.cands = Display!Young(c.cands) /\ e.tokens = Display!Young(c.tokens)
      /\ e.frames = Display!Young(c.frames)
      /\ e.calls = c.calls /\ e.waiting = c.waiting /\ e.dwm = c.dwm
  BY Expired
<1> HIDE DEF e
<1>3. /\ DOMAIN e.cands = {q \in DOMAIN c.cands : ~c.cands[q].old}
      /\ \A q \in DOMAIN e.cands : e.cands[q] = c.cands[q]
  BY <1>2, Youngest
<1>4. unclaimed = Open(c)
  BY <1>3 DEF Open
<1>5. {e.cands[q].surface : q \in unclaimed} = SurfacesOf(c.cands, Open(c))
  BY <1>3, <1>4 DEF SurfacesOf
<1>6. unclaimed # {} => p \in Open(c) /\ \A q \in Open(c) : p <= q
  <2> HIDE DEF unclaimed
  <2>1. unclaimed \in SUBSET Nat
    BY <1>4 DEF Open
  <2> QED BY <1>4, <2>1, Smallest
<1> HIDE DEF unclaimed, p
<1>7. unclaimed # {} => p \in DOMAIN e.cands /\ e.cands[p] = c.cands[p]
  BY <1>3, <1>6 DEF Open
<1>8. /\ DOMAIN gone = DOMAIN e.cands \ {p}
      /\ \A q \in DOMAIN e.cands : q # p => gone[q] = e.cands[q]
  BY Removals
<1>9. /\ DOMAIN claimed = DOMAIN e.cands
      /\ \A q \in DOMAIN e.cands :
           /\ q # p => claimed[q] = e.cands[q]
           /\ DOMAIN claimed[q] = CandFields
           /\ claimed[q].surface = e.cands[q].surface
           /\ claimed[q].old = e.cands[q].old
  BY <1>3 DEF CandFields
<1> HIDE DEF gone, claimed, named
<1>10. CASE unclaimed = {}
  <2>1. /\ DOMAIN d = CorrelatorFields /\ d.healthy = e.healthy /\ d.frames = e.frames
        /\ d.calls = e.calls /\ d.waiting = e.waiting /\ d.dwm = e.dwm
        /\ d.cands = e.cands /\ d.tokens = named(0, FALSE)
    BY <1>1, <1>2, <1>10 DEF CorrelatorFields
  <2>2. d.tokens = Display!Put(Display!Young(c.tokens), k, NewToken(0, FALSE))
    BY <1>2, <2>1 DEF named
  <2>3. Open(c) = {} /\ 0 = 0 /\ d.cands = Display!Young(c.cands)
    BY <1>2, <1>4, <1>10, <2>1
  <2>4. ~(Display!Cardinality(SurfacesOf(c.cands, Open(c))) > 1)
    BY <1>1, <1>5
  <2> QED BY <1>1, <1>2, <2>1, <2>2, <2>3, <2>4 DEF ForOldest
<1>11. ASSUME NEW table, unclaimed # {}, table \in {gone, claimed},
              d = [e EXCEPT !.tokens = named(e.cands[p].surface, e.cands[p].done),
                            !.cands = table]
       PROVE  /\ DOMAIN d = CorrelatorFields /\ d.healthy = e.healthy /\ d.frames = e.frames
              /\ d.calls = e.calls /\ d.waiting = e.waiting /\ d.dwm = e.dwm
              /\ d.cands = table /\ d.tokens = named(e.cands[p].surface, e.cands[p].done)
  BY <1>2, <1>11 DEF CorrelatorFields
<1>12. CASE unclaimed # {}
  <2>1. PICK table \in {gone, claimed} :
          d = [e EXCEPT !.tokens = named(e.cands[p].surface, e.cands[p].done),
                        !.cands = table]
    BY <1>1, <1>12
  <2>2. /\ DOMAIN d = CorrelatorFields /\ d.healthy = e.healthy /\ d.frames = e.frames
        /\ d.calls = e.calls /\ d.waiting = e.waiting /\ d.dwm = e.dwm
        /\ d.cands = table /\ d.tokens = named(e.cands[p].surface, e.cands[p].done)
    BY <1>11, <1>12, <2>1
  <2>3. /\ DOMAIN table \subseteq DOMAIN e.cands
        /\ \A q \in DOMAIN e.cands : q # p => q \in DOMAIN table /\ table[q] = e.cands[q]
        /\ \A q \in DOMAIN table :
             /\ DOMAIN table[q] = CandFields
             /\ table[q].surface = e.cands[q].surface
             /\ table[q].old = e.cands[q].old
    BY <1>3, <1>8, <1>9, <2>1
  <2>4. /\ DOMAIN d.cands \subseteq DOMAIN e.cands
        /\ \A q \in DOMAIN e.cands :
             q # p => q \in DOMAIN d.cands /\ d.cands[q] = c.cands[q]
        /\ \A q \in DOMAIN d.cands :
             /\ DOMAIN d.cands[q] = CandFields
             /\ d.cands[q].surface = c.cands[q].surface
             /\ d.cands[q].old = c.cands[q].old
    BY <1>3, <2>2, <2>3
  <2>5. d.tokens = Display!Put(Display!Young(c.tokens), k,
                     NewToken(c.cands[p].surface, e.cands[p].done))
    BY <1>2, <1>7, <1>12, <2>2 DEF named
  <2> QED BY <1>1, <1>2, <1>4, <1>5, <1>6, <1>12, <2>2, <2>4, <2>5 DEF ForOldest
<1> QED BY <1>10, <1>12

LEMMA Framed ==
  ASSUME NEW c, DOMAIN c = CorrelatorFields, NEW k,
         \A q \in DOMAIN c.tokens : DOMAIN c.tokens[q] = TokenFields,
         NEW d, d \in {Display!InFrame(c, k), Display!Discard(c, k)}
  PROVE  /\ DOMAIN d = CorrelatorFields /\ d.healthy = c.healthy
         /\ d.cands = c.cands /\ d.frames = c.frames
         /\ d.calls = c.calls /\ d.waiting = c.waiting /\ d.dwm = c.dwm
         /\ DOMAIN d.tokens = DOMAIN c.tokens
         /\ \A q \in DOMAIN c.tokens :
              /\ DOMAIN d.tokens[q] = TokenFields
              /\ d.tokens[q].surface = c.tokens[q].surface
              /\ d.tokens[q].displayed = c.tokens[q].displayed
              /\ q # k \/ d = Display!Discard(c, k) => d.tokens[q].inFrame = c.tokens[q].inFrame
<1> DEFINE framed == [c.tokens EXCEPT ![k] = [c.tokens[k] EXCEPT !.inFrame = TRUE]]
           discarded == [c.tokens EXCEPT ![k] = [c.tokens[k] EXCEPT !.discarded = TRUE]]
<1>1. CASE k \notin DOMAIN c.tokens
  BY <1>1 DEF Display!InFrame, Display!Discard
<1>2. CASE k \in DOMAIN c.tokens
  <2>1. \/ d = [c EXCEPT !.tokens = framed] /\ d = Display!InFrame(c, k)
        \/ d = [c EXCEPT !.tokens = discarded] /\ d = Display!Discard(c, k)
    BY <1>2 DEF Display!InFrame, Display!Discard
  <2>2. /\ DOMAIN framed = DOMAIN c.tokens
        /\ \A q \in DOMAIN c.tokens :
             /\ DOMAIN framed[q] = TokenFields
             /\ framed[q].surface = c.tokens[q].surface
             /\ framed[q].displayed = c.tokens[q].displayed
             /\ q # k => framed[q].inFrame = c.tokens[q].inFrame
    BY DEF TokenFields
  <2>3. /\ DOMAIN discarded = DOMAIN c.tokens
        /\ \A q \in DOMAIN c.tokens :
             /\ DOMAIN discarded[q] = TokenFields
             /\ discarded[q].surface = c.tokens[q].surface
             /\ discarded[q].displayed = c.tokens[q].displayed
             /\ discarded[q].inFrame = c.tokens[q].inFrame
    BY DEF TokenFields
  <2> HIDE DEF framed, discarded
  <2>4. ASSUME d = [c EXCEPT !.tokens = framed]
        PROVE  /\ DOMAIN d = CorrelatorFields /\ d.healthy = c.healthy
               /\ d.cands = c.cands /\ d.frames = c.frames /\ d.tokens = framed
               /\ d.calls = c.calls /\ d.waiting = c.waiting /\ d.dwm = c.dwm
    BY <2>4 DEF CorrelatorFields
  <2>5. ASSUME d = [c EXCEPT !.tokens = discarded]
        PROVE  /\ DOMAIN d = CorrelatorFields /\ d.healthy = c.healthy
               /\ d.cands = c.cands /\ d.frames = c.frames /\ d.tokens = discarded
               /\ d.calls = c.calls /\ d.waiting = c.waiting /\ d.dwm = c.dwm
    BY <2>5 DEF CorrelatorFields
  <2>6. CASE d = [c EXCEPT !.tokens = framed] /\ d = Display!InFrame(c, k)
    <3>1. d = Display!Discard(c, k) => d = [c EXCEPT !.tokens = discarded]
      BY <1>2 DEF Display!Discard, discarded
    <3> QED BY <2>2, <2>3, <2>4, <2>5, <2>6, <3>1
  <2>7. CASE d = [c EXCEPT !.tokens = discarded]
    BY <2>3, <2>5, <2>7
  <2> QED BY <2>1, <2>6, <2>7
<1> QED BY <1>1, <1>2

LEMMA Updated ==
  ASSUME NEW c, DOMAIN c = CorrelatorFields, NEW k,
         \A q \in DOMAIN c.tokens : DOMAIN c.tokens[q] = TokenFields,
         NEW d, d = Display!SurfaceUpdate(c, k)
  PROVE  \/ d = Display!Lost
         \/ d = c
         \/ /\ k \in DOMAIN c.tokens /\ c.tokens[k].inFrame /\ Len(c.waiting) # Room
            /\ DOMAIN d = CorrelatorFields /\ d.healthy = c.healthy
            /\ d.cands = c.cands /\ d.frames = c.frames
            /\ d.calls = c.calls /\ d.waiting = Append(c.waiting, k) /\ d.dwm = c.dwm
            /\ DOMAIN d.tokens = DOMAIN c.tokens
            /\ \A q \in DOMAIN c.tokens :
                 /\ DOMAIN d.tokens[q] = TokenFields
                 /\ d.tokens[q].surface = c.tokens[q].surface
                 /\ d.tokens[q].inFrame = c.tokens[q].inFrame
                 /\ d.tokens[q].displayed = c.tokens[q].displayed
<1> DEFINE scheduled == [c.tokens EXCEPT ![k] = [c.tokens[k] EXCEPT !.scheduled = TRUE]]
<1>1. \/ d = Display!Lost
      \/ d = c
      \/ /\ k \in DOMAIN c.tokens /\ c.tokens[k].inFrame /\ Len(c.waiting) # Room
         /\ d = [c EXCEPT !.tokens = scheduled, !.waiting = Append(c.waiting, k)]
  BY DEF Display!SurfaceUpdate, CorrelatorFields
<1>2. /\ DOMAIN scheduled = DOMAIN c.tokens
      /\ \A q \in DOMAIN c.tokens :
           /\ DOMAIN scheduled[q] = TokenFields
           /\ scheduled[q].surface = c.tokens[q].surface
           /\ scheduled[q].inFrame = c.tokens[q].inFrame
           /\ scheduled[q].displayed = c.tokens[q].displayed
  BY DEF TokenFields
<1> HIDE DEF scheduled
<1>3. ASSUME d = [c EXCEPT !.tokens = scheduled, !.waiting = Append(c.waiting, k)]
      PROVE  /\ DOMAIN d = CorrelatorFields /\ d.healthy = c.healthy
             /\ d.cands = c.cands /\ d.frames = c.frames /\ d.tokens = scheduled
             /\ d.calls = c.calls /\ d.waiting = Append(c.waiting, k) /\ d.dwm = c.dwm
  BY <1>3 DEF CorrelatorFields
<1> QED BY <1>1, <1>2, <1>3

LEMMA Scheduled ==
  ASSUME NEW c, DOMAIN c = CorrelatorFields, NEW th, NEW d, d = Display!SetDwmThread(c, th)
  PROVE  \/ d = Display!Lost
         \/ /\ DOMAIN d = CorrelatorFields /\ d.healthy = c.healthy
            /\ d.cands = c.cands /\ d.tokens = c.tokens /\ d.frames = c.frames
            /\ d.calls = c.calls /\ d.waiting = c.waiting /\ d.dwm = th
BY DEF Display!SetDwmThread, CorrelatorFields

NewFrame(tokens) == [tokens |-> tokens, sequence |-> 0, old |-> FALSE]

LEMMA FlippedByDwm ==
  ASSUME NEW c, DOMAIN c = CorrelatorFields, NEW th, NEW f, NEW d, d = Display!DwmFlip(c, th, f)
  PROVE  \/ d = Display!Lost
         \/ th # c.dwm /\ d = c
         \/ /\ th = c.dwm /\ DOMAIN d = CorrelatorFields /\ d.healthy = c.healthy
            /\ Display!Cardinality(DOMAIN Display!Young(c.frames)) # Room
            /\ d.cands = Display!Young(c.cands) /\ d.tokens = Display!Young(c.tokens)
            /\ d.frames = Display!Put(Display!Young(c.frames), f, NewFrame(c.waiting))
            /\ d.calls = c.calls /\ d.waiting = <<>> /\ d.dwm = c.dwm
<1> DEFINE e == Display!Expire(c)
           table == Display!Put(e.frames, f, NewFrame(c.waiting))
<1>1. \/ d = Display!Lost
      \/ th # c.dwm /\ d = c
      \/ /\ th = c.dwm /\ Display!Cardinality(DOMAIN e.frames) # Room
         /\ d = [e EXCEPT !.frames = table, !.waiting = <<>>]
  BY DEF Display!DwmFlip, Display!Full, NewFrame
<1>2. DOMAIN e = CorrelatorFields
  BY Expired
<1> HIDE DEF e, table
<1>3. ASSUME d = [e EXCEPT !.frames = table, !.waiting = <<>>]
      PROVE  /\ DOMAIN d = CorrelatorFields /\ d.healthy = e.healthy
             /\ d.cands = e.cands /\ d.tokens = e.tokens /\ d.frames = table
             /\ d.calls = e.calls /\ d.waiting = <<>> /\ d.dwm = e.dwm
  BY <1>2, <1>3 DEF CorrelatorFields
<1> QED BY <1>1, <1>3, Expired DEF e, table

LEMMA QueuedByDwm ==
  ASSUME NEW c, DOMAIN c = CorrelatorFields, DOMAIN c.frames \subseteq Nat, NEW th, NEW s,
         \A g \in DOMAIN c.frames : DOMAIN c.frames[g] = FrameFields,
         NEW d, d = Display!DwmQueue(c, th, s)
  PROVE  \/ th # c.dwm /\ d = c
         \/ (\A g \in DOMAIN c.frames : c.frames[g].sequence # 0) /\ d = c
         \/ /\ th = c.dwm /\ DOMAIN d = CorrelatorFields /\ d.healthy = c.healthy
            /\ d.cands = c.cands /\ d.tokens = c.tokens
            /\ d.calls = c.calls /\ d.waiting = c.waiting /\ d.dwm = c.dwm
            /\ DOMAIN d.frames = DOMAIN c.frames
            /\ \E g \in DOMAIN c.frames :
                 /\ c.frames[g].sequence = 0
                 /\ DOMAIN d.frames[g] = FrameFields /\ d.frames[g].sequence = s
                 /\ d.frames[g].tokens = c.frames[g].tokens
                 /\ \A h \in DOMAIN c.frames : h # g => d.frames[h] = c.frames[h]
<1> DEFINE unqueued == {g \in DOMAIN c.frames : c.frames[g].sequence = 0}
           g == Display!Min(unqueued)
           table == [c.frames EXCEPT ![g] = [c.frames[g] EXCEPT !.sequence = s]]
<1>1. \/ th # c.dwm /\ d = c
      \/ unqueued = {} /\ d = c
      \/ th = c.dwm /\ unqueued # {} /\ d = [c EXCEPT !.frames = table]
  BY DEF Display!DwmQueue, CorrelatorFields
<1>2. unqueued # {} => g \in unqueued
  <2> HIDE DEF unqueued
  <2>1. unqueued \in SUBSET Nat
    BY DEF unqueued
  <2> QED BY <2>1, Smallest
<1> HIDE DEF g
<1>3. /\ DOMAIN table = DOMAIN c.frames
      /\ \A h \in DOMAIN c.frames : h # g => table[h] = c.frames[h]
      /\ g \in DOMAIN c.frames => /\ DOMAIN table[g] = FrameFields /\ table[g].sequence = s
                                  /\ table[g].tokens = c.frames[g].tokens
  BY DEF FrameFields
<1> HIDE DEF table
<1>4. ASSUME d = [c EXCEPT !.frames = table]
      PROVE  /\ DOMAIN d = CorrelatorFields /\ d.healthy = c.healthy
             /\ d.cands = c.cands /\ d.tokens = c.tokens /\ d.frames = table
             /\ d.calls = c.calls /\ d.waiting = c.waiting /\ d.dwm = c.dwm
  BY <1>4 DEF CorrelatorFields
<1>5. CASE th = c.dwm /\ unqueued # {} /\ d = [c EXCEPT !.frames = table]
  <2>1. g \in DOMAIN c.frames /\ c.frames[g].sequence = 0
    BY <1>2, <1>5
  <2> QED BY <1>3, <1>4, <1>5, <2>1
<1>6. CASE unqueued = {} /\ d = c
  BY <1>6
<1> QED BY <1>1, <1>5, <1>6

(* Frame f of c was shown: d is what is left.                              *)
ShownFrom(c, d, s, f) ==
  /\ DOMAIN d = CorrelatorFields /\ d.healthy = c.healthy
  /\ d.cands = c.cands /\ d.calls = c.calls /\ d.waiting = c.waiting
  /\ d.dwm = c.dwm /\ d.frames = Display!Without(c.frames, f)
  /\ DOMAIN d.tokens = DOMAIN c.tokens
  /\ \A k \in DOMAIN c.tokens :
       /\ DOMAIN d.tokens[k] = TokenFields
       /\ d.tokens[k].surface = c.tokens[k].surface
       /\ d.tokens[k].inFrame = c.tokens[k].inFrame
       /\ c.tokens[k].displayed = TRUE => d.tokens[k].displayed = TRUE
       /\ k \in Display!Displayed(c, s) => d.tokens[k].displayed = TRUE
  /\ \A k \in Display!Displayed(c, s) :
       \E i \in DOMAIN c.frames[f].tokens :
         /\ k = c.frames[f].tokens[i] /\ Display!Visible(c, k)
         /\ c.tokens[k].displayed # TRUE
         /\ ~Display!Superseded(c, c.frames[f].tokens, i)

LEMMA ShownByDisplay ==
  ASSUME NEW c, DOMAIN c = CorrelatorFields, NEW s,
         \A k \in DOMAIN c.tokens : DOMAIN c.tokens[k] = TokenFields,
         NEW d, d = Display!VSync(c, s)
  PROVE  \/ Display!Queued(c, s) = {} /\ d = c /\ Display!Displayed(c, s) = {}
         \/ \E f \in Display!Queued(c, s) : ShownFrom(c, d, s, f)
<1> DEFINE f == CHOOSE g \in Display!Queued(c, s) : TRUE
           tokens == c.frames[f].tokens
           shown == {k \in Display!Range(tokens) : Display!Visible(c, k)}
           gone == Display!Without(c.frames, f)
           marked == [k \in DOMAIN c.tokens |->
                       [c.tokens[k] EXCEPT !.displayed = c.tokens[k].displayed \/ k \in shown]]
           counted == {tokens[i] : i \in {j \in DOMAIN tokens :
                         /\ Display!Visible(c, tokens[j]) /\ ~c.tokens[tokens[j]].displayed
                         /\ ~Display!Superseded(c, tokens, j)}}
<1>1. CASE Display!Queued(c, s) = {}
  BY <1>1 DEF Display!VSync, Display!Displayed
<1>2. CASE Display!Queued(c, s) # {}
  <2>1. f \in Display!Queued(c, s)
    BY <1>2
  <2>2. d = [c EXCEPT !.frames = gone, !.tokens = marked]
    BY <1>2 DEF Display!VSync, Display!MarkDisplayed
  <2>3. Display!Displayed(c, s) = counted
    BY <1>2 DEF Display!Displayed
  <2> HIDE DEF f
  <2>4. \A k \in counted : \E i \in DOMAIN tokens :
          /\ k = tokens[i] /\ Display!Visible(c, k) /\ c.tokens[k].displayed # TRUE
          /\ ~Display!Superseded(c, tokens, i)
    OBVIOUS
  <2>5. counted \subseteq shown
    BY DEF Display!Range
  <2> HIDE DEF counted, shown
  <2>6. /\ DOMAIN marked = DOMAIN c.tokens
        /\ \A k \in DOMAIN c.tokens :
             /\ DOMAIN marked[k] = TokenFields
             /\ marked[k].surface = c.tokens[k].surface
             /\ marked[k].inFrame = c.tokens[k].inFrame
             /\ marked[k].displayed = (c.tokens[k].displayed \/ k \in shown)
    BY DEF TokenFields
  <2>7. \A k \in DOMAIN c.tokens :
          /\ c.tokens[k].displayed = TRUE => marked[k].displayed = TRUE
          /\ k \in counted => marked[k].displayed = TRUE
    BY <2>5, <2>6
  <2> HIDE DEF marked, gone
  <2>8. /\ DOMAIN d = CorrelatorFields /\ d.healthy = c.healthy
        /\ d.cands = c.cands /\ d.tokens = marked /\ d.frames = gone
        /\ d.calls = c.calls /\ d.waiting = c.waiting /\ d.dwm = c.dwm
    BY <2>2 DEF CorrelatorFields
  <2>9. d.frames = Display!Without(c.frames, f)
    BY <2>8 DEF gone
  <2>10. /\ DOMAIN d.tokens = DOMAIN c.tokens
         /\ \A k \in DOMAIN c.tokens :
              /\ DOMAIN d.tokens[k] = TokenFields
              /\ d.tokens[k].surface = c.tokens[k].surface
              /\ d.tokens[k].inFrame = c.tokens[k].inFrame
              /\ c.tokens[k].displayed = TRUE => d.tokens[k].displayed = TRUE
              /\ k \in Display!Displayed(c, s) => d.tokens[k].displayed = TRUE
    BY <2>3, <2>6, <2>7, <2>8
  <2>11. \A k \in Display!Displayed(c, s) :
           \E i \in DOMAIN c.frames[f].tokens :
             /\ k = c.frames[f].tokens[i] /\ Display!Visible(c, k)
             /\ c.tokens[k].displayed # TRUE
             /\ ~Display!Superseded(c, c.frames[f].tokens, i)
    BY <2>3, <2>4
  <2>12. ShownFrom(c, d, s, f)
    BY <2>8, <2>9, <2>10, <2>11 DEF ShownFrom
  <2> QED BY <2>1, <2>12
<1> QED BY <1>1, <1>2

-----------------------------------------------------------------------------
CorrelatorInv ==
  /\ ~Display!Hears => Empty(disCorrelator)
  /\ CandsInv /\ TokensInv /\ WaitingInv /\ FlipsInv /\ DwmInv

(* What every action does to the screen: nothing that was taken, flipped   *)
(* or shown is ever otherwise.                                             *)
WorldMoves ==
  /\ DOMAIN disReal \subseteq DOMAIN disReal'
  /\ \A p \in DOMAIN disReal :
       /\ disReal'[p].thread = disReal[p].thread
       /\ disReal'[p].surface = disReal[p].surface
       /\ disReal[p].token # "none" => disReal'[p].token # "none"
       /\ disReal[p].token \notin {"none", "made", "direct"} =>
            disReal'[p].token \notin {"none", "made", "direct"}
       /\ disReal[p].token = "taken" =>
            disReal'[p].token = "taken" /\ disReal'[p].flip = disReal[p].flip
  /\ Len(disFlips) <= Len(disFlips')
  /\ \A f \in DOMAIN disFlips :
       /\ disFlips[f] # "flipped" => disFlips'[f] # "flipped"
       /\ disFlips[f] = "shown" => disFlips'[f] = "shown"
  /\ disOn' = disOn /\ (disWhole' => disWhole)

LEMMA Lengths ==
  ASSUME DisplayTypes
  PROVE  /\ DOMAIN disReal = 1 .. Len(disReal) /\ Len(disReal) \in Nat
         /\ DOMAIN disFlips = 1 .. Len(disFlips) /\ Len(disFlips) \in Nat
         /\ IsFiniteSet(DOMAIN disReal) /\ IsFiniteSet(DOMAIN disFlips)
         /\ DOMAIN disReal \subseteq Nat /\ DOMAIN disFlips \subseteq Nat
         /\ \A p \in DOMAIN disReal : disReal[p] \in RealPresents
         /\ \A f \in DOMAIN disFlips : disFlips[f] \in FlipStages
<1>1. /\ DOMAIN disReal = 1 .. Len(disReal) /\ Len(disReal) \in Nat
      /\ DOMAIN disFlips = 1 .. Len(disFlips) /\ Len(disFlips) \in Nat
      /\ \A p \in DOMAIN disReal : disReal[p] \in RealPresents
      /\ \A f \in DOMAIN disFlips : disFlips[f] \in FlipStages
  BY DEF DisplayTypes
<1>2. IsFiniteSet(1 .. Len(disReal)) /\ IsFiniteSet(1 .. Len(disFlips))
  BY <1>1, FS_Interval
<1> QED BY <1>1, <1>2

LEMMA StillFits ==
  ASSUME DisplayAssumption, NEW T, IsFiniteSet(T), Cardinality(T) <= Room, NEW S \in SUBSET T
  PROVE  Cardinality(S) <= Room /\ IsFiniteSet(S)
<1>1. IsFiniteSet(S) /\ Cardinality(S) <= Cardinality(T)
  BY FS_Subset
<1>2. Cardinality(S) \in Nat /\ Cardinality(T) \in Nat
  BY <1>1, FS_CardinalityType
<1> QED BY <1>1, <1>2 DEF DisplayAssumption

LEMMA FitsOneMore ==
  ASSUME DisplayAssumption, NEW T, IsFiniteSet(T), Cardinality(T) <= Room, NEW S \in SUBSET T,
         Display!Cardinality(S) # Room, NEW x
  PROVE  Cardinality(S \cup {x}) <= Room
<1>1. Cardinality(S) <= Room /\ IsFiniteSet(S) /\ Cardinality(S) # Room
  BY StillFits, DisplayCardinality
<1>2. Cardinality(S) \in Nat
  BY <1>1, FS_CardinalityType
<1>3. Cardinality(S \cup {x}) = IF x \in S THEN Cardinality(S) ELSE Cardinality(S) + 1
  BY <1>1, FS_AddElement
<1> QED BY <1>1, <1>2, <1>3 DEF DisplayAssumption

Unpaired ==
  /\ Empty(disCorrelator)
  /\ Trusted => /\ \A p \in DOMAIN disReal : ~Display!Pending(p)
                /\ ~disDwm.scheduled
                /\ \A f \in DOMAIN disFlips : disFlips[f] # "flipped"

LEMMA EmptyHolds == DisplayAssumption /\ Unpaired => CorrelatorInv
<1> SUFFICES ASSUME DisplayAssumption, Empty(disCorrelator), Unpaired PROVE CorrelatorInv
  BY DEF Unpaired
<1>1. Cardinality({}) = 0 /\ 0 <= Room
  BY FS_EmptySet DEF DisplayAssumption
<1>2. CandsInv
  BY <1>1 DEF Empty, CandsInv, Unpaired
<1>3. TokensInv
  BY <1>1 DEF Empty, TokensInv
<1>4. WaitingInv
  <2>1. disCorrelator.waiting = <<>>
    BY DEF Empty
  <2>2. disCorrelator.waiting \in Seq(Nat) /\ Len(disCorrelator.waiting) = 0
        /\ DOMAIN disCorrelator.waiting = {}
    BY <2>1
  <2> QED BY <1>1, <2>2 DEF WaitingInv
<1>5. FlipsInv
  BY <1>1 DEF Empty, FlipsInv
<1>6. DwmInv
  BY DEF DwmInv, Unpaired
<1> QED BY <1>2, <1>3, <1>4, <1>5, <1>6 DEF CorrelatorInv

LEMMA TokensKept ==
  ASSUME DisplayAssumption, DisplayInv, WorldMoves,
         DOMAIN disCorrelator'.tokens \subseteq DOMAIN disCorrelator.tokens,
         \A k \in DOMAIN disCorrelator'.tokens :
           /\ DOMAIN disCorrelator'.tokens[k] = TokenFields
           /\ disCorrelator'.tokens[k].surface = disCorrelator.tokens[k].surface
           /\ disCorrelator'.tokens[k].inFrame = disCorrelator.tokens[k].inFrame
  PROVE  TokensInv'
<1>1. IsFiniteSet(DOMAIN disCorrelator.tokens)
  BY Lengths, FS_Subset DEF DisplayInv, TokensInv
<1>2. Cardinality(DOMAIN disCorrelator'.tokens) <= Room
  BY <1>1, StillFits DEF DisplayInv, TokensInv
<1> QED BY <1>2 DEF DisplayInv, TokensInv, WorldMoves

LEMMA CandsKept ==
  ASSUME DisplayAssumption, DisplayInv, WorldMoves,
         DOMAIN disCorrelator'.cands \subseteq DOMAIN disCorrelator.cands,
         \A p \in DOMAIN disCorrelator'.cands :
           /\ DOMAIN disCorrelator'.cands[p] = CandFields
           /\ disCorrelator'.cands[p].surface = disCorrelator.cands[p].surface
           /\ disCorrelator'.cands[p].old \in BOOLEAN,
         disCorrelator'.calls \in [DisplayThreads -> Nat],
         \A th \in DisplayThreads : disCorrelator'.calls[th] # 0 =>
           /\ disCorrelator'.calls[th] = disCorrelator.calls[th]
           /\ disReal'[disCorrelator.calls[th]].call = "in",
         Trusted' => \A p \in DOMAIN disReal' : Display!Pending(p)' =>
           /\ p \in DOMAIN disCorrelator'.cands
           /\ disCorrelator'.cands[p].claimed = 0 /\ ~disCorrelator'.cands[p].old
  PROVE  CandsInv'
<1>1. IsFiniteSet(DOMAIN disCorrelator.cands)
  BY Lengths, FS_Subset DEF DisplayInv, CandsInv
<1>2. Cardinality(DOMAIN disCorrelator'.cands) <= Room
  BY <1>1, StillFits DEF DisplayInv, CandsInv
<1>3. \A th \in DisplayThreads : disCorrelator'.calls[th] # 0 =>
        /\ disCorrelator'.calls[th] \in DOMAIN disReal'
        /\ disReal'[disCorrelator'.calls[th]].thread = th
        /\ disReal'[disCorrelator'.calls[th]].call = "in"
  BY DEF DisplayInv, CandsInv, WorldMoves
<1>4. /\ DOMAIN disCorrelator'.cands \subseteq DOMAIN disReal'
      /\ \A p \in DOMAIN disCorrelator'.cands :
           disCorrelator'.cands[p].surface = disReal'[p].surface
  BY DEF DisplayInv, CandsInv, WorldMoves
<1> QED BY <1>2, <1>3, <1>4 DEF CandsInv

LEMMA WaitingKept ==
  ASSUME DisplayInv, WorldMoves, disCorrelator'.waiting = disCorrelator.waiting,
         \A p \in DOMAIN disReal : disReal[p].token = "updated" =>
           \/ disReal'[p].token = "updated"
           \/ disReal'[p].token = "taken" /\ disReal'[p].flip # 0 /\ ~disWhole'
  PROVE  WaitingInv'
<1>1. \A k : Awaits(k) => Awaits(k)'
  BY DEF Awaits, WorldMoves
<1> QED BY <1>1 DEF DisplayInv, WaitingInv

LEMMA FlippedStays ==
  ASSUME WorldMoves, NEW k, NEW g, Flipped(k, g) PROVE Flipped(k, g)'
BY DEF WorldMoves, Flipped

LEMMA FlipsKept ==
  ASSUME DisplayAssumption, DisplayInv, DisplayTypes', WorldMoves,
         DOMAIN disCorrelator'.frames \subseteq DOMAIN disCorrelator.frames,
         \A g \in DOMAIN disCorrelator'.frames :
           /\ DOMAIN disCorrelator'.frames[g] = FrameFields
           /\ disCorrelator'.frames[g].tokens = disCorrelator.frames[g].tokens
           /\ disCorrelator'.frames[g].sequence = disCorrelator.frames[g].sequence,
         \A g \in DOMAIN disCorrelator'.frames :
           disWhole' /\ disCorrelator'.frames[g].sequence = 0 /\ disFlips[g] = "flipped" =>
             disFlips'[g] = "flipped"
  PROVE  FlipsInv'
<1>1. IsFiniteSet(DOMAIN disCorrelator.frames)
  BY Lengths, FS_Subset DEF DisplayInv, FlipsInv
<1>2. Cardinality(DOMAIN disCorrelator'.frames) <= Room
  BY <1>1, StillFits DEF DisplayInv, FlipsInv
<1>3. /\ DOMAIN disFlips = 1 .. Len(disFlips) /\ Len(disFlips) \in Nat
      /\ DOMAIN disFlips' = 1 .. Len(disFlips') /\ Len(disFlips') \in Nat
      /\ DOMAIN disFlips \subseteq DOMAIN disFlips'
  <2>1. /\ DOMAIN disFlips = 1 .. Len(disFlips) /\ Len(disFlips) \in Nat
    BY Lengths DEF DisplayInv
  <2>2. DOMAIN disFlips' = 1 .. Len(disFlips') /\ Len(disFlips') \in Nat
    BY DEF DisplayTypes
  <2> QED BY <2>1, <2>2 DEF WorldMoves
<1> SUFFICES ASSUME NEW g \in DOMAIN disCorrelator'.frames
             PROVE  /\ g \in DOMAIN disFlips'
                    /\ DOMAIN disCorrelator'.frames[g] = FrameFields
                    /\ disCorrelator'.frames[g].tokens \in Seq(Nat)
                    /\ \A i \in DOMAIN disCorrelator'.frames[g].tokens :
                         Flipped(disCorrelator.frames[g].tokens[i], g)'
                    /\ disCorrelator'.frames[g].sequence # 0 =>
                         /\ disCorrelator'.frames[g].sequence \in g .. Len(disFlips')
                         /\ disFlips'[disCorrelator'.frames[g].sequence] # "flipped"
                         /\ disWhole' => disCorrelator'.frames[g].sequence = g
                    /\ disWhole' /\ disCorrelator'.frames[g].sequence = 0 =>
                         disFlips'[g] = "flipped"
  BY <1>2 DEF FlipsInv
<1>4. /\ g \in DOMAIN disCorrelator.frames /\ g \in DOMAIN disFlips
      /\ disCorrelator.frames[g].tokens \in Seq(Nat)
      /\ \A i \in DOMAIN disCorrelator.frames[g].tokens :
           Flipped(disCorrelator.frames[g].tokens[i], g)
      /\ disCorrelator.frames[g].sequence # 0 =>
           /\ disCorrelator.frames[g].sequence \in g .. Len(disFlips)
           /\ disFlips[disCorrelator.frames[g].sequence] # "flipped"
           /\ disWhole => disCorrelator.frames[g].sequence = g
      /\ disWhole /\ disCorrelator.frames[g].sequence = 0 => disFlips[g] = "flipped"
  BY DEF DisplayInv, FlipsInv
<1>5. \A i \in DOMAIN disCorrelator'.frames[g].tokens :
        Flipped(disCorrelator.frames[g].tokens[i], g)'
  <2>1. disCorrelator'.frames[g].tokens = disCorrelator.frames[g].tokens
    OBVIOUS
  <2>2. ASSUME NEW i \in DOMAIN disCorrelator.frames[g].tokens,
               NEW k, k = disCorrelator.frames[g].tokens[i]
        PROVE  /\ k \in DOMAIN disReal'
               /\ disReal'[k].token = "taken" /\ disReal'[k].flip \in 1 .. g
               /\ disWhole' => disReal'[k].flip = g
    BY <1>4, <2>2 DEF Flipped, WorldMoves
  <2> QED BY <2>1, <2>2 DEF Flipped
<1>6. disCorrelator'.frames[g].sequence # 0 =>
        /\ disCorrelator'.frames[g].sequence \in g .. Len(disFlips')
        /\ disFlips'[disCorrelator'.frames[g].sequence] # "flipped"
        /\ disWhole' => disCorrelator'.frames[g].sequence = g
  BY <1>3, <1>4 DEF WorldMoves
<1> QED BY <1>3, <1>4, <1>5, <1>6 DEF WorldMoves

LEMMA CountedKept ==
  ASSUME DisplayInv, DisplayTypes', WorldMoves, disCounted' = disCounted,
         \A k \in DOMAIN disCorrelator'.tokens :
           \/ /\ k \in DOMAIN disCorrelator.tokens
              /\ disCorrelator.tokens[k].displayed = TRUE =>
                   disCorrelator'.tokens[k].displayed = TRUE
           \/ k \in DOMAIN disReal /\ disReal[k].token = "none"
           \/ k \notin DOMAIN disReal
  PROVE  CountedInv'
<1>1. ASSUME NEW x \in disCounted
      PROVE  /\ Flipped(x.present, x.flip)'
             /\ disWhole' => disReal'[x.present].surface = x.surface
             /\ x.flip \in DOMAIN disFlips' /\ disFlips'[x.flip] = "shown"
             /\ x.present \in DOMAIN disCorrelator'.tokens
                => disCorrelator'.tokens[x.present].displayed = TRUE
  <2>1. /\ Flipped(x.present, x.flip)
        /\ disWhole => disReal[x.present].surface = x.surface
        /\ x.flip \in DOMAIN disFlips /\ disFlips[x.flip] = "shown"
        /\ x.present \in DOMAIN disCorrelator.tokens
           => disCorrelator.tokens[x.present].displayed = TRUE
    BY DEF DisplayInv, CountedInv
  <2>2. x.present \in DOMAIN disReal /\ disReal[x.present].token = "taken"
    BY <2>1 DEF Flipped
  <2>3. DOMAIN disFlips \subseteq DOMAIN disFlips'
    <3>1. /\ DOMAIN disFlips = 1 .. Len(disFlips) /\ Len(disFlips) \in Nat
      BY Lengths DEF DisplayInv
    <3>2. DOMAIN disFlips' = 1 .. Len(disFlips') /\ Len(disFlips') \in Nat
      BY DEF DisplayTypes
    <3> QED BY <3>1, <3>2 DEF WorldMoves
  <2>4. Flipped(x.present, x.flip)'
    BY <2>1, FlippedStays
  <2> QED BY <2>1, <2>2, <2>3, <2>4 DEF WorldMoves
<1> QED BY <1>1 DEF DisplayInv, CountedInv, WorldMoves

LEMMA DwmKept ==
  ASSUME DisplayInv, WorldMoves, disDwm' = disDwm, disCorrelator'.dwm = disCorrelator.dwm,
         disCorrelator'.healthy = disCorrelator.healthy,
         \A f \in DOMAIN disFlips' : disFlips'[f] = "flipped" =>
           f \in DOMAIN disFlips /\ disFlips[f] = "flipped"
  PROVE  DwmInv'
BY DEF DisplayInv, DwmInv, WorldMoves, Trusted

(* An event that nobody hears, or that ends the correlation.               *)
LEMMA Unheard ==
  ASSUME DisplayAssumption, DisplayInv, DisplayTypes', WorldMoves, disCounted' = disCounted,
         \/ ~Display!Hears /\ disCorrelator' = disCorrelator
         \/ disCorrelator' = Display!Lost
  PROVE  CorrelatorInv' /\ CountedInv'
<1>1. Empty(disCorrelator') /\ ~Trusted'
  BY LostIsEmpty DEF DisplayInv, Display!Hears, Trusted, WorldMoves
<1>2. Unpaired'
  BY <1>1 DEF Unpaired
<1>4. CorrelatorInv'
  <2>1. (DisplayAssumption /\ Unpaired => CorrelatorInv)'
    BY EmptyHolds, PTL
  <2> QED BY <1>2, <2>1
<1>3. CountedInv'
  BY <1>1, CountedKept DEF Empty
<1> QED BY <1>3, <1>4

LEMMA Assembled ==
  ASSUME DisplayTypes', ScreenInv', CorrelatorInv', CountedInv' PROVE DisplayInv'
BY DEF DisplayInv, CorrelatorInv

(* The image of a present goes one stage on.                               *)
Staged(p, token) == disReal' = [disReal EXCEPT ![p].token = token]

LEMMA StageMoves ==
  ASSUME DisplayInv, NEW p \in DOMAIN disReal, NEW token \in TokenStages \ {"none"},
         disReal[p].token # "taken", disReal[p].call # "failed",
         disReal[p].token \notin {"none", "made", "direct"} =>
           token \notin {"none", "made", "direct"},
         Staged(p, token),
         UNCHANGED <<disFlips, disDwm, disOn, disWhole>>,
         DOMAIN disCorrelator' = CorrelatorFields
  PROVE  /\ DisplayTypes' /\ ScreenInv' /\ WorldMoves
         /\ DOMAIN disReal' = DOMAIN disReal /\ disReal'[p].token = token
         /\ \A q \in DOMAIN disReal :
              /\ disReal'[q].call = disReal[q].call
              /\ q # p => disReal'[q] = disReal[q]
              /\ Display!Pending(q)' => q # p /\ Display!Pending(q)
<1> DEFINE r == [disReal[p] EXCEPT !.token = token]
<1>1. /\ DOMAIN disReal = 1 .. Len(disReal) /\ disReal \in Seq(RealPresents)
      /\ \A q \in DOMAIN disReal : disReal[q] \in RealPresents
  BY Lengths DEF DisplayInv, DisplayTypes
<1>2. /\ r \in RealPresents /\ r.thread = disReal[p].thread /\ r.surface = disReal[p].surface
      /\ r.call = disReal[p].call /\ r.token = token /\ r.flip = disReal[p].flip
  BY <1>1 DEF RealPresents
<1>3. disReal' = [disReal EXCEPT ![p] = r]
  BY DEF Staged
<1> HIDE DEF r
<1>4. /\ disReal' \in Seq(RealPresents) /\ Len(disReal') = Len(disReal)
      /\ DOMAIN disReal' = DOMAIN disReal /\ disReal'[p] = r
      /\ \A q \in DOMAIN disReal : q # p => disReal'[q] = disReal[q]
  BY <1>1, <1>2, <1>3, ExceptSeq
<1>5. DisplayTypes'
  BY <1>4 DEF DisplayInv, DisplayTypes
<1>6. ScreenInv'
  <2>1. \A q \in DOMAIN disReal :
          /\ disReal'[q].flip <= Len(disFlips)
          /\ disReal'[q].flip # 0 => disReal'[q].token = "taken"
          /\ disReal'[q].call = "failed" => disReal'[q].token \in {"none", "dead"}
          /\ disReal'[q].call = disReal[q].call /\ disReal'[q].thread = disReal[q].thread
    BY <1>2, <1>4 DEF DisplayInv, ScreenInv
  <2> QED BY <1>4, <2>1 DEF DisplayInv, ScreenInv
<1>7. WorldMoves
  <2>1. Len(disFlips) <= Len(disFlips')
    BY Lengths DEF DisplayInv
  <2> QED BY <1>2, <1>4, <2>1 DEF WorldMoves
<1> QED BY <1>2, <1>4, <1>5, <1>6, <1>7 DEF Display!Pending

LEMMA PresentDisplayed ==
  ASSUME DisplayAssumption, DisplayInv, NEW th \in DisplayThreads, NEW s \in DisplaySurfaces,
         Display!Present(th, s)
  PROVE  DisplayInv'
<1> DEFINE p == Len(disReal) + 1
           r == [thread |-> th, surface |-> s, call |-> "in", token |-> "none", flip |-> 0]
<1>1. /\ DOMAIN disReal = 1 .. Len(disReal) /\ Len(disReal) \in Nat
      /\ disReal \in Seq(RealPresents) /\ r \in RealPresents
      /\ \A q \in DOMAIN disReal : disReal[q] \in RealPresents
      /\ DOMAIN disCorrelator = CorrelatorFields
  BY Lengths DEF DisplayInv, DisplayTypes, RealPresents, TokenStages
<1>2. /\ p \in 1 .. MaxPresents
      /\ ~\E q \in DOMAIN disReal : disReal[q].thread = th /\ disReal[q].call = "in"
      /\ disReal' = Append(disReal, r)
      /\ disCorrelator' = IF Display!Hears THEN Display!PresentStart(disCorrelator, th, p, s)
                                           ELSE disCorrelator
      /\ UNCHANGED <<disFlips, disDwm, disOn, disWhole, disCounted>>
  BY DEF Display!Present, Display!Presents, Display!Heard
<1> HIDE DEF r
<1>3. /\ disReal' \in Seq(RealPresents) /\ Len(disReal') = p
      /\ DOMAIN disReal' = DOMAIN disReal \cup {p} /\ p \notin DOMAIN disReal
      /\ disReal'[p] = r /\ \A q \in DOMAIN disReal : disReal'[q] = disReal[q]
  BY <1>1, <1>2
<1> HIDE DEF p
<1>4. /\ r.thread = th /\ r.surface = s /\ r.call = "in" /\ r.token = "none" /\ r.flip = 0
  BY DEF r
<1>5. DOMAIN disCorrelator' = CorrelatorFields
  BY <1>1, <1>2, Begun, LostIsEmpty
<1>6. DisplayTypes'
  <2>1. p <= MaxPresents
    BY <1>2
  <2> QED BY <1>2, <1>3, <1>5, <2>1 DEF DisplayInv, DisplayTypes
<1>7. ScreenInv'
  <2>1. Len(disFlips) \in Nat
    BY Lengths DEF DisplayInv
  <2>2. \A q \in DOMAIN disReal' :
          /\ disReal'[q].flip <= Len(disFlips')
          /\ disReal'[q].flip # 0 => disReal'[q].token = "taken"
          /\ disReal'[q].call = "failed" => disReal'[q].token \in {"none", "dead"}
    BY <1>2, <1>3, <1>4, <2>1 DEF DisplayInv, ScreenInv
  <2>3. \A q, u \in DOMAIN disReal' :
          disReal'[q].call = "in" /\ disReal'[u].call = "in"
          /\ disReal'[q].thread = disReal'[u].thread => q = u
    BY <1>2, <1>3, <1>4 DEF DisplayInv, ScreenInv
  <2> QED BY <1>2, <2>2, <2>3 DEF DisplayInv, ScreenInv
<1>8. WorldMoves
  <2>1. Len(disFlips) <= Len(disFlips')
    BY <1>2, Lengths DEF DisplayInv
  <2> QED BY <1>2, <1>3, <2>1 DEF WorldMoves
<1>9. CASE ~Display!Hears \/ disCorrelator' = Display!Lost
  <2>1. CorrelatorInv' /\ CountedInv'
    BY <1>2, <1>6, <1>8, <1>9, Unheard
  <2> QED BY <1>6, <1>7, <2>1, Assembled
<1>10. CASE Display!Hears /\ disCorrelator' # Display!Lost
  <2>1. /\ disCorrelator'.healthy = disCorrelator.healthy
        /\ Display!Cardinality(DOMAIN Display!Young(disCorrelator.cands)) # Room
        /\ disCorrelator'.cands = Display!Put(Display!Young(disCorrelator.cands), p, Candidate(s))
        /\ disCorrelator'.tokens = Display!Young(disCorrelator.tokens)
        /\ disCorrelator'.frames = Display!Young(disCorrelator.frames)
        /\ disCorrelator'.calls = Calling(disCorrelator.calls, th, p)
        /\ disCorrelator'.waiting = disCorrelator.waiting
        /\ disCorrelator'.dwm = disCorrelator.dwm
    <3>1. disCorrelator' = Display!PresentStart(disCorrelator, th, p, s)
      BY <1>2, <1>10
    <3> QED BY <1>1, <1>10, <3>1, Begun
  <2>2. CandsInv'
    <3> DEFINE young == Display!Young(disCorrelator.cands)
               entry == Candidate(s)
    <3>1. /\ DOMAIN young \subseteq DOMAIN disCorrelator.cands
          /\ \A q \in DOMAIN disCorrelator.cands :
               ~disCorrelator.cands[q].old => q \in DOMAIN young
          /\ \A q \in DOMAIN young : young[q] = disCorrelator.cands[q]
      BY Youngest
    <3>2. IsFiniteSet(DOMAIN disCorrelator.cands)
      BY Lengths, FS_Subset DEF DisplayInv, CandsInv
    <3> HIDE DEF young
    <3>3. /\ DOMAIN disCorrelator'.cands = DOMAIN young \cup {p}
          /\ disCorrelator'.cands[p] = entry
          /\ \A q \in DOMAIN young : q # p => disCorrelator'.cands[q] = young[q]
      <4>1. disCorrelator'.cands = Display!Put(young, p, entry)
        BY <2>1 DEF young
      <4> HIDE DEF entry
      <4> QED BY <4>1 DEF Display!Put
    <3>4. Cardinality(DOMAIN disCorrelator'.cands) <= Room
      <4>1. Display!Cardinality(DOMAIN young) # Room
        BY <2>1 DEF young
      <4>2. Cardinality(DOMAIN disCorrelator.cands) <= Room
        BY DEF DisplayInv, CandsInv
      <4>3. Cardinality(DOMAIN young \cup {p}) <= Room
        BY <3>1, <3>2, <4>1, <4>2, FitsOneMore
      <4> QED BY <3>3, <4>3
    <3>5. /\ DOMAIN entry = CandFields /\ entry.surface = s /\ entry.claimed = 0
          /\ entry.old = FALSE
      BY DEF CandFields, Candidate
    <3> HIDE DEF entry
    <3>6. p \notin DOMAIN disCorrelator.cands
      BY <1>3 DEF DisplayInv, CandsInv
    <3>7. \A q \in DOMAIN disCorrelator'.cands :
            /\ DOMAIN disCorrelator'.cands[q] = CandFields
            /\ disCorrelator'.cands[q].surface = disReal'[q].surface
            /\ disCorrelator'.cands[q].old \in BOOLEAN
      <4>1. \A q \in DOMAIN young :
              /\ q # p /\ disCorrelator'.cands[q] = disCorrelator.cands[q]
              /\ DOMAIN disCorrelator.cands[q] = CandFields
              /\ disCorrelator.cands[q].surface = disReal[q].surface
              /\ disCorrelator.cands[q].old \in BOOLEAN
              /\ disReal'[q] = disReal[q]
        BY <1>3, <3>1, <3>3, <3>6 DEF DisplayInv, CandsInv
      <4>2. /\ DOMAIN disCorrelator'.cands[p] = CandFields
            /\ disCorrelator'.cands[p].surface = disReal'[p].surface
            /\ disCorrelator'.cands[p].old \in BOOLEAN
        BY <1>3, <1>4, <3>3, <3>5
      <4> QED BY <3>3, <4>1, <4>2
    <3>8. /\ disCorrelator'.calls \in [DisplayThreads -> Nat]
          /\ \A t \in DisplayThreads : disCorrelator'.calls[t] # 0 =>
               /\ disCorrelator'.calls[t] \in DOMAIN disReal'
               /\ disReal'[disCorrelator'.calls[t]].thread = t
               /\ disReal'[disCorrelator'.calls[t]].call = "in"
      <4>1. p \in Nat
        BY <1>1 DEF p
      <4> QED BY <1>3, <1>4, <2>1, <4>1 DEF DisplayInv, CandsInv, Calling
    <3>9. Trusted' => \A q \in DOMAIN disReal' : Display!Pending(q)' =>
            /\ q \in DOMAIN disCorrelator'.cands
            /\ disCorrelator'.cands[q].claimed = 0 /\ ~disCorrelator'.cands[q].old
      <4> SUFFICES ASSUME Trusted', NEW q \in DOMAIN disReal', Display!Pending(q)'
                   PROVE  /\ q \in DOMAIN disCorrelator'.cands
                          /\ disCorrelator'.cands[q].claimed = 0
                          /\ disCorrelator'.cands[q].old = FALSE
        OBVIOUS
      <4>1. CASE q = p
        BY <3>3, <3>5, <4>1
      <4>2. CASE q # p
        <5>1. q \in DOMAIN disReal /\ Display!Pending(q) /\ Trusted
          BY <1>2, <1>3, <2>1, <4>2 DEF Display!Pending, Trusted
        <5>2. /\ q \in DOMAIN disCorrelator.cands
              /\ disCorrelator.cands[q].claimed = 0 /\ ~disCorrelator.cands[q].old
              /\ disCorrelator.cands[q].old \in BOOLEAN
          BY <5>1 DEF DisplayInv, CandsInv
        <5> QED BY <3>1, <3>3, <4>2, <5>2
      <4> QED BY <4>1, <4>2
    <3>10. DOMAIN disCorrelator'.cands \subseteq DOMAIN disReal'
      BY <1>3, <3>1, <3>3 DEF DisplayInv, CandsInv
    <3> QED BY <3>4, <3>7, <3>8, <3>9, <3>10 DEF CandsInv
  <2>3. /\ DOMAIN disCorrelator'.tokens \subseteq DOMAIN disCorrelator.tokens
        /\ \A k \in DOMAIN disCorrelator'.tokens :
             disCorrelator'.tokens[k] = disCorrelator.tokens[k]
        /\ DOMAIN disCorrelator'.frames \subseteq DOMAIN disCorrelator.frames
        /\ \A g \in DOMAIN disCorrelator'.frames :
             disCorrelator'.frames[g] = disCorrelator.frames[g]
    <3>1. /\ DOMAIN disCorrelator'.tokens \subseteq DOMAIN disCorrelator.tokens
          /\ \A k \in DOMAIN disCorrelator'.tokens :
               disCorrelator'.tokens[k] = disCorrelator.tokens[k]
      <4>1. disCorrelator'.tokens = Display!Young(disCorrelator.tokens)
        BY <2>1
      <4> QED BY <4>1, Youngest
    <3>2. /\ DOMAIN disCorrelator'.frames \subseteq DOMAIN disCorrelator.frames
          /\ \A g \in DOMAIN disCorrelator'.frames :
               disCorrelator'.frames[g] = disCorrelator.frames[g]
      <4>1. disCorrelator'.frames = Display!Young(disCorrelator.frames)
        BY <2>1
      <4> QED BY <4>1, Youngest
    <3> QED BY <3>1, <3>2
  <2>4. TokensInv'
    <3>1. \A k \in DOMAIN disCorrelator'.tokens : DOMAIN disCorrelator'.tokens[k] = TokenFields
      BY <2>3 DEF DisplayInv, TokensInv
    <3> QED BY <1>8, <2>3, <3>1, TokensKept
  <2>5. WaitingInv'
    BY <1>3, <1>8, <2>1, WaitingKept
  <2>6. FlipsInv'
    <3>1. \A g \in DOMAIN disCorrelator'.frames : DOMAIN disCorrelator'.frames[g] = FrameFields
      BY <2>3 DEF DisplayInv, FlipsInv
    <3> QED BY <1>2, <1>6, <1>8, <2>3, <3>1, FlipsKept
  <2>7. DwmInv'
    BY <1>2, <1>8, <2>1, DwmKept
  <2>8. CountedInv'
    BY <1>2, <1>6, <1>8, <2>3, CountedKept
  <2>9. Display!Hears'
    BY <1>2, <1>10, <2>1 DEF Display!Hears
  <2>10. CorrelatorInv'
    BY <2>2, <2>4, <2>5, <2>6, <2>7, <2>9 DEF CorrelatorInv
  <2> QED BY <1>6, <1>7, <2>8, <2>10, Assembled
<1> QED BY <1>9, <1>10

(* An event that changes what is known of a token and nothing else.        *)
LEMMA OnlyTokens ==
  ASSUME DisplayAssumption, DisplayInv, Display!Hears, DisplayTypes', ScreenInv', WorldMoves,
         UNCHANGED <<disFlips, disDwm, disWhole, disCounted>>,
         DOMAIN disReal' = DOMAIN disReal,
         \A q \in DOMAIN disReal :
           /\ disReal'[q].call = disReal[q].call
           /\ Display!Pending(q)' => Display!Pending(q),
         disCorrelator'.healthy = disCorrelator.healthy,
         disCorrelator'.cands = disCorrelator.cands, disCorrelator'.frames = disCorrelator.frames,
         disCorrelator'.calls = disCorrelator.calls, disCorrelator'.dwm = disCorrelator.dwm,
         DOMAIN disCorrelator'.tokens = DOMAIN disCorrelator.tokens,
         \A k \in DOMAIN disCorrelator.tokens :
           disCorrelator'.tokens[k].displayed = disCorrelator.tokens[k].displayed,
         TokensInv', WaitingInv'
  PROVE  DisplayInv'
<1>1. CandsInv'
  <2>1. \A q \in DOMAIN disCorrelator.cands :
          /\ DOMAIN disCorrelator.cands[q] = CandFields
          /\ disCorrelator.cands[q].old \in BOOLEAN
    BY DEF DisplayInv, CandsInv
  <2>2. \A th \in DisplayThreads : disCorrelator.calls[th] # 0 =>
          disReal'[disCorrelator.calls[th]].call = "in"
    BY DEF DisplayInv, CandsInv
  <2>3. disCorrelator.calls \in [DisplayThreads -> Nat]
    BY DEF DisplayInv, CandsInv
  <2>4. Trusted' => Trusted
    BY DEF Trusted, WorldMoves
  <2>5. Trusted => \A p \in DOMAIN disReal : Display!Pending(p) =>
          /\ p \in DOMAIN disCorrelator.cands
          /\ disCorrelator.cands[p].claimed = 0 /\ ~disCorrelator.cands[p].old
    BY DEF DisplayInv, CandsInv
  <2> QED BY <2>1, <2>2, <2>3, <2>4, <2>5, CandsKept
<1>2. FlipsInv'
  <2>1. \A g \in DOMAIN disCorrelator.frames : DOMAIN disCorrelator.frames[g] = FrameFields
    BY DEF DisplayInv, FlipsInv
  <2> QED BY <2>1, FlipsKept
<1>3. DwmInv'
  BY DwmKept
<1>4. CountedInv'
  BY CountedKept
<1>5. Display!Hears'
  BY DEF Display!Hears, WorldMoves
<1>6. CorrelatorInv'
  BY <1>1, <1>2, <1>3, <1>5 DEF CorrelatorInv
<1> QED BY <1>4, <1>6, Assembled

LEMMA DiscardDisplayed ==
  ASSUME DisplayAssumption, DisplayInv, NEW p \in DOMAIN disReal, Display!DiscardToken(p)
  PROVE  DisplayInv'
<1>1. /\ disReal[p].token \in {"made", "framed", "direct"}
      /\ Staged(p, "dead")
      /\ disCorrelator' = IF Display!Hears THEN Display!Discard(disCorrelator, p) ELSE disCorrelator
      /\ UNCHANGED <<disFlips, disDwm, disOn, disWhole, disCounted>>
  BY DEF Display!DiscardToken, Display!Heard, Staged
<1>2. /\ DOMAIN disCorrelator = CorrelatorFields
      /\ \A q \in DOMAIN disCorrelator.tokens : DOMAIN disCorrelator.tokens[q] = TokenFields
  BY DEF DisplayInv, DisplayTypes, TokensInv
<1>3. CASE Display!Hears
  <2>1. disCorrelator' = Display!Discard(disCorrelator, p)
    BY <1>1, <1>3
  <2>2. /\ DOMAIN disCorrelator' = CorrelatorFields
        /\ disCorrelator'.healthy = disCorrelator.healthy
        /\ disCorrelator'.cands = disCorrelator.cands
        /\ disCorrelator'.frames = disCorrelator.frames
        /\ disCorrelator'.calls = disCorrelator.calls
        /\ disCorrelator'.waiting = disCorrelator.waiting
        /\ disCorrelator'.dwm = disCorrelator.dwm
        /\ DOMAIN disCorrelator'.tokens = DOMAIN disCorrelator.tokens
        /\ \A q \in DOMAIN disCorrelator.tokens :
             /\ DOMAIN disCorrelator'.tokens[q] = TokenFields
             /\ disCorrelator'.tokens[q].surface = disCorrelator.tokens[q].surface
             /\ disCorrelator'.tokens[q].displayed = disCorrelator.tokens[q].displayed
             /\ disCorrelator'.tokens[q].inFrame = disCorrelator.tokens[q].inFrame
    BY <1>2, <2>1, Framed
  <2>3. disReal[p].call # "failed" /\ "dead" \in TokenStages
    BY <1>1 DEF DisplayInv, ScreenInv, TokenStages
  <2>4. /\ DisplayTypes' /\ ScreenInv' /\ WorldMoves
        /\ DOMAIN disReal' = DOMAIN disReal /\ disReal'[p].token = "dead"
        /\ \A q \in DOMAIN disReal :
             /\ disReal'[q].call = disReal[q].call
             /\ q # p => disReal'[q] = disReal[q]
             /\ Display!Pending(q)' => Display!Pending(q)
    BY <1>1, <2>2, <2>3, StageMoves
  <2>5. TokensInv'
    BY <2>2, <2>4, TokensKept
  <2>6. WaitingInv'
    BY <1>1, <2>2, <2>4, WaitingKept
  <2> QED BY <1>1, <1>3, <2>2, <2>4, <2>5, <2>6, OnlyTokens
<1>4. CASE ~Display!Hears
  <2>1. disReal[p].call # "failed" /\ "dead" \in TokenStages
    BY <1>1 DEF DisplayInv, ScreenInv, TokenStages
  <2>2. DisplayTypes' /\ ScreenInv' /\ WorldMoves
    BY <1>1, <1>2, <1>4, <2>1, StageMoves
  <2> QED BY <1>1, <1>4, <2>2, Unheard, Assembled
<1> QED BY <1>3, <1>4

LEMMA EnterFrameDisplayed ==
  ASSUME DisplayAssumption, DisplayInv, NEW p \in DOMAIN disReal, NEW independent \in BOOLEAN,
         Display!EnterFrame(p, independent)
  PROVE  DisplayInv'
<1> DEFINE token == IF independent THEN "direct" ELSE "framed"
<1>1. /\ disReal[p].token = "made" /\ Staged(p, token)
      /\ UNCHANGED <<disFlips, disDwm, disOn, disWhole, disCounted>>
      /\ ~Display!Hears => disCorrelator' = disCorrelator
      /\ Display!Hears =>
           disCorrelator' = IF Display!Forwards(p, independent)
                            THEN Display!InFrame(disCorrelator, p) ELSE disCorrelator
  BY DEF Display!EnterFrame, Staged
<1>2. /\ DOMAIN disCorrelator = CorrelatorFields
      /\ \A q \in DOMAIN disCorrelator.tokens : DOMAIN disCorrelator.tokens[q] = TokenFields
  BY DEF DisplayInv, DisplayTypes, TokensInv
<1>3. disReal[p].call # "failed" /\ token \in TokenStages \ {"none"}
  BY <1>1 DEF DisplayInv, ScreenInv, TokenStages
<1>4. token = "direct" \/ (token = "framed" /\ ~independent)
  OBVIOUS
<1> HIDE DEF token
<1>5. /\ DOMAIN disCorrelator' = CorrelatorFields
      /\ Display!Hears =>
           /\ disCorrelator'.healthy = disCorrelator.healthy
           /\ disCorrelator'.cands = disCorrelator.cands
           /\ disCorrelator'.frames = disCorrelator.frames
           /\ disCorrelator'.calls = disCorrelator.calls
           /\ disCorrelator'.waiting = disCorrelator.waiting
           /\ disCorrelator'.dwm = disCorrelator.dwm
           /\ DOMAIN disCorrelator'.tokens = DOMAIN disCorrelator.tokens
           /\ \A q \in DOMAIN disCorrelator.tokens :
                /\ DOMAIN disCorrelator'.tokens[q] = TokenFields
                /\ disCorrelator'.tokens[q].surface = disCorrelator.tokens[q].surface
                /\ disCorrelator'.tokens[q].displayed = disCorrelator.tokens[q].displayed
                /\ q # p => disCorrelator'.tokens[q].inFrame = disCorrelator.tokens[q].inFrame
  <2>1. CASE disCorrelator' = Display!InFrame(disCorrelator, p)
    BY <1>2, <2>1, Framed
  <2>2. CASE disCorrelator' = disCorrelator
    BY <1>2, <2>2
  <2> QED BY <1>1, <2>1, <2>2
<1>6. /\ DisplayTypes' /\ ScreenInv' /\ WorldMoves
      /\ DOMAIN disReal' = DOMAIN disReal /\ disReal'[p].token = token
      /\ \A q \in DOMAIN disReal :
           /\ disReal'[q].call = disReal[q].call
           /\ q # p => disReal'[q] = disReal[q]
           /\ Display!Pending(q)' => Display!Pending(q)
  BY <1>1, <1>3, <1>5, StageMoves
<1>7. CASE Display!Hears
  <2>1. ASSUME NEW k \in DOMAIN disCorrelator.tokens
        PROVE  disCorrelator'.tokens[k].inFrame =>
                 disReal'[k].token \notin {"none", "made", "direct"}
    <3>1. disCorrelator.tokens[k].inFrame => disReal[k].token \notin {"none", "made", "direct"}
      BY DEF DisplayInv, TokensInv
    <3>2. CASE k # p
      <4>1. disCorrelator'.tokens[k].inFrame => disCorrelator.tokens[k].inFrame
        BY <1>5, <1>7, <3>2
      <4>2. disReal'[k] = disReal[k]
        BY <1>6, <3>2 DEF DisplayInv, TokensInv
      <4> QED BY <3>1, <4>1, <4>2
    <3>3. CASE k = p /\ token = "framed"
      BY <1>6, <3>3
    <3>4. CASE k = p /\ token # "framed"
      <4>1. independent /\ disCorrelator' = disCorrelator
        BY <1>1, <1>7, <3>4 DEF Display!Forwards, token
      <4> QED BY <1>1, <3>1, <3>4, <4>1
    <3> QED BY <3>2, <3>3, <3>4
  <2>2. TokensInv'
    BY <1>5, <1>6, <1>7, <2>1 DEF DisplayInv, TokensInv, WorldMoves
  <2>3. WaitingInv'
    BY <1>1, <1>5, <1>6, <1>7, WaitingKept
  <2> QED BY <1>1, <1>5, <1>6, <1>7, <2>2, <2>3, OnlyTokens
<1>8. CASE ~Display!Hears
  BY <1>1, <1>6, <1>8, Unheard, Assembled
<1> QED BY <1>7, <1>8

LEMMA UpdateDisplayed ==
  ASSUME DisplayAssumption, DisplayInv, NEW p \in DOMAIN disReal, Display!Update(p)
  PROVE  DisplayInv'
<1> DEFINE token == IF disReal[p].token = "framed" THEN "updated" ELSE "taken"
<1>1. /\ disReal[p].token \in {"framed", "direct"} /\ Staged(p, token)
      /\ UNCHANGED <<disFlips, disDwm, disOn, disWhole, disCounted>>
      /\ disCorrelator' = IF Display!Hears THEN Display!SurfaceUpdate(disCorrelator, p)
                                           ELSE disCorrelator
  BY DEF Display!Update, Display!Heard, Staged
<1>2. /\ DOMAIN disCorrelator = CorrelatorFields
      /\ \A q \in DOMAIN disCorrelator.tokens : DOMAIN disCorrelator.tokens[q] = TokenFields
  BY DEF DisplayInv, DisplayTypes, TokensInv
<1>3. /\ disReal[p].call # "failed" /\ token \in TokenStages \ {"none"}
      /\ token \in {"updated", "taken"} /\ (disReal[p].token = "framed" => token = "updated")
  BY <1>1 DEF DisplayInv, ScreenInv, TokenStages
<1> HIDE DEF token
<1>4. DOMAIN disCorrelator' = CorrelatorFields
  <2>1. CASE disCorrelator' = Display!SurfaceUpdate(disCorrelator, p)
    BY <1>2, <2>1, Updated, LostIsEmpty
  <2> QED BY <1>1, <1>2, <2>1
<1>5. /\ DisplayTypes' /\ ScreenInv' /\ WorldMoves
      /\ DOMAIN disReal' = DOMAIN disReal /\ disReal'[p].token = token
      /\ \A q \in DOMAIN disReal :
           /\ disReal'[q].call = disReal[q].call
           /\ q # p => disReal'[q] = disReal[q]
           /\ Display!Pending(q)' => Display!Pending(q)
  BY <1>1, <1>3, <1>4, StageMoves
<1>6. CASE ~Display!Hears \/ disCorrelator' = Display!Lost
  BY <1>1, <1>5, <1>6, Unheard, Assembled
<1>7. CASE Display!Hears /\ disCorrelator' # Display!Lost
  <2>1. disCorrelator' = Display!SurfaceUpdate(disCorrelator, p)
    BY <1>1, <1>7
  <2>2. \A q \in DOMAIN disReal : disReal[q].token = "updated" => disReal'[q].token = "updated"
    BY <1>1, <1>5
  <2>3. CASE disCorrelator' = disCorrelator
    <3>1. TokensInv'
      BY <1>2, <1>5, <2>3, TokensKept
    <3>2. WaitingInv'
      BY <1>5, <2>2, <2>3, WaitingKept
    <3> QED BY <1>1, <1>5, <1>7, <2>3, <3>1, <3>2, OnlyTokens
  <2>4. CASE disCorrelator' # disCorrelator
    <3>1. /\ p \in DOMAIN disCorrelator.tokens /\ disCorrelator.tokens[p].inFrame
          /\ Len(disCorrelator.waiting) # Room
          /\ disCorrelator'.healthy = disCorrelator.healthy
          /\ disCorrelator'.cands = disCorrelator.cands
          /\ disCorrelator'.frames = disCorrelator.frames
          /\ disCorrelator'.calls = disCorrelator.calls
          /\ disCorrelator'.waiting = Append(disCorrelator.waiting, p)
          /\ disCorrelator'.dwm = disCorrelator.dwm
          /\ DOMAIN disCorrelator'.tokens = DOMAIN disCorrelator.tokens
          /\ \A q \in DOMAIN disCorrelator.tokens :
               /\ DOMAIN disCorrelator'.tokens[q] = TokenFields
               /\ disCorrelator'.tokens[q].surface = disCorrelator.tokens[q].surface
               /\ disCorrelator'.tokens[q].inFrame = disCorrelator.tokens[q].inFrame
               /\ disCorrelator'.tokens[q].displayed = disCorrelator.tokens[q].displayed
      BY <1>2, <1>7, <2>1, <2>4, Updated
    <3>2. disReal[p].token = "framed"
      BY <1>1, <3>1 DEF DisplayInv, TokensInv
    <3>3. TokensInv'
      BY <1>5, <3>1, TokensKept
    <3>4. WaitingInv'
      <4>1. disCorrelator.waiting \in Seq(Nat) /\ Len(disCorrelator.waiting) <= Room
            /\ p \in Nat
        BY Lengths DEF DisplayInv, WaitingInv
      <4>2. /\ disCorrelator'.waiting \in Seq(Nat)
            /\ Len(disCorrelator'.waiting) = Len(disCorrelator.waiting) + 1
            /\ \A i \in DOMAIN disCorrelator'.waiting :
                 \/ disCorrelator'.waiting[i] = p
                 \/ i \in DOMAIN disCorrelator.waiting
                    /\ disCorrelator'.waiting[i] = disCorrelator.waiting[i]
        BY <3>1, <4>1
      <4>3. Len(disCorrelator'.waiting) <= Room
        BY <3>1, <4>1, <4>2 DEF DisplayAssumption
      <4>4. Awaits(p)'
        BY <1>3, <1>5, <3>2 DEF Awaits
      <4>5. \A k : Awaits(k) => Awaits(k)'
        BY <1>5, <2>2 DEF Awaits, WorldMoves
      <4> QED BY <4>2, <4>3, <4>4, <4>5 DEF DisplayInv, WaitingInv
    <3> QED BY <1>1, <1>5, <1>7, <3>1, <3>3, <3>4, OnlyTokens
  <2> QED BY <2>3, <2>4
<1> QED BY <1>6, <1>7

LEMMA ReturnDisplayed ==
  ASSUME DisplayAssumption, DisplayInv, NEW p \in DOMAIN disReal, NEW outcome \in {"ok", "failed"},
         Display!Return(p, outcome)
  PROVE  DisplayInv'
<1> DEFINE token == IF outcome = "failed" /\ disReal[p].token # "none" THEN "dead"
                    ELSE disReal[p].token
           r == [disReal[p] EXCEPT !.call = outcome, !.token = token]
           th == disReal[p].thread
           succeeded == outcome = "ok"
           stop == Display!PresentStop(disCorrelator, th, succeeded)
<1>1. /\ disReal[p].call = "in"
      /\ outcome = "failed" => disReal[p].token \in {"none", "made"}
      /\ disReal' = [disReal EXCEPT ![p] = r]
      /\ disCorrelator' = IF Display!Hears THEN stop ELSE disCorrelator
      /\ UNCHANGED <<disFlips, disDwm, disOn, disWhole, disCounted>>
  BY DEF Display!Return, Display!Heard
<1>2. /\ DOMAIN disReal = 1 .. Len(disReal) /\ disReal \in Seq(RealPresents)
      /\ disReal[p] \in RealPresents /\ th \in DisplayThreads
      /\ DOMAIN disCorrelator = CorrelatorFields
      /\ \A q \in DOMAIN disCorrelator.tokens : DOMAIN disCorrelator.tokens[q] = TokenFields
      /\ \A q \in DOMAIN disCorrelator.cands : DOMAIN disCorrelator.cands[q] = CandFields
      /\ disCorrelator.calls \in [DisplayThreads -> Nat]
  BY Lengths DEF DisplayInv, DisplayTypes, TokensInv, CandsInv, RealPresents
<1>3. /\ r \in RealPresents /\ r.thread = th /\ r.surface = disReal[p].surface
      /\ r.call = outcome /\ r.token = token /\ r.flip = disReal[p].flip
  BY <1>2 DEF RealPresents, TokenStages
<1>4. /\ outcome = "failed" => token \in {"none", "dead"}
      /\ disReal[p].token # "none" => token # "none"
      /\ disReal[p].token = "none" => token = "none"
      /\ disReal[p].token \notin {"none", "made"} => token = disReal[p].token
      /\ token # "made" => token = disReal[p].token \/ disReal[p].token = "made"
  BY <1>1
<1> HIDE DEF r, token
<1>5. /\ disReal' \in Seq(RealPresents) /\ Len(disReal') = Len(disReal)
      /\ DOMAIN disReal' = DOMAIN disReal /\ disReal'[p] = r
      /\ \A q \in DOMAIN disReal : q # p => disReal'[q] = disReal[q]
  BY <1>1, <1>2, <1>3, ExceptSeq
<1>12. succeeded \in BOOLEAN
  OBVIOUS
<1> HIDE DEF th, stop, succeeded
<1>6. DOMAIN disCorrelator' = CorrelatorFields
  <2>1. CASE disCorrelator' = stop
    BY <1>2, <1>12, <2>1, Ended, LostIsEmpty DEF stop
  <2> QED BY <1>1, <1>2, <2>1
<1>7. DisplayTypes'
  BY <1>1, <1>5, <1>6 DEF DisplayInv, DisplayTypes
<1>8. ScreenInv'
  <2>1. \A q \in DOMAIN disReal :
          /\ disReal'[q].flip <= Len(disFlips)
          /\ disReal'[q].flip # 0 => disReal'[q].token = "taken"
          /\ disReal'[q].call = "failed" => disReal'[q].token \in {"none", "dead"}
          /\ disReal'[q].call = "in" => disReal[q].call = "in"
          /\ disReal'[q].thread = disReal[q].thread
    BY <1>1, <1>3, <1>4, <1>5 DEF DisplayInv, ScreenInv, th
  <2> QED BY <1>1, <1>5, <2>1 DEF DisplayInv, ScreenInv
<1>9. WorldMoves
  <2>1. Len(disFlips) <= Len(disFlips')
    BY <1>1, Lengths DEF DisplayInv
  <2>2. /\ r.thread = disReal[p].thread
        /\ disReal[p].token \notin {"none", "made", "direct"} =>
             token \notin {"none", "made", "direct"}
    BY <1>3, <1>4 DEF th
  <2> QED BY <1>1, <1>3, <1>4, <1>5, <2>1, <2>2 DEF WorldMoves
<1>10. CASE ~Display!Hears \/ disCorrelator' = Display!Lost
  BY <1>1, <1>7, <1>8, <1>9, <1>10, Unheard, Assembled
<1>11. CASE Display!Hears /\ disCorrelator' # Display!Lost
  <2> DEFINE called == disCorrelator.calls[th]
  <2>1. \/ called = 0 /\ disCorrelator' = disCorrelator
        \/ /\ called # 0 /\ called \in DOMAIN disCorrelator.cands
           /\ disCorrelator'.healthy = disCorrelator.healthy
           /\ disCorrelator'.calls = Calling(disCorrelator.calls, th, 0)
           /\ disCorrelator'.frames = disCorrelator.frames
           /\ disCorrelator'.waiting = disCorrelator.waiting
           /\ disCorrelator'.dwm = disCorrelator.dwm
           /\ DOMAIN disCorrelator'.tokens = DOMAIN disCorrelator.tokens
           /\ \A k \in DOMAIN disCorrelator.tokens :
                /\ DOMAIN disCorrelator'.tokens[k] = TokenFields
                /\ disCorrelator'.tokens[k].surface = disCorrelator.tokens[k].surface
                /\ disCorrelator'.tokens[k].inFrame = disCorrelator.tokens[k].inFrame
                /\ disCorrelator'.tokens[k].displayed = disCorrelator.tokens[k].displayed
           /\ DOMAIN disCorrelator.cands \ {called} \subseteq DOMAIN disCorrelator'.cands
           /\ DOMAIN disCorrelator'.cands \subseteq DOMAIN disCorrelator.cands
           /\ \A q \in DOMAIN disCorrelator'.cands :
                /\ DOMAIN disCorrelator'.cands[q] = CandFields
                /\ disCorrelator'.cands[q].surface = disCorrelator.cands[q].surface
                /\ disCorrelator'.cands[q].old = disCorrelator.cands[q].old
                /\ disCorrelator'.cands[q].claimed = disCorrelator.cands[q].claimed
           /\ succeeded /\ disCorrelator.cands[called].claimed = 0 =>
                called \in DOMAIN disCorrelator'.cands
    <3>1. disCorrelator' = stop
      BY <1>1, <1>11
    <3> QED BY <1>2, <1>11, <1>12, <3>1, Ended DEF stop
  <2>2. called # 0 => called = p
    BY <1>1, <1>2 DEF DisplayInv, CandsInv, ScreenInv, th
  <2>3. \A q \in DOMAIN disReal : Display!Pending(q)' =>
          Display!Pending(q) /\ (q = p => outcome = "ok")
    BY <1>1, <1>3, <1>4, <1>5 DEF Display!Pending
  <2>4. Trusted' => Trusted
    BY <1>1, <2>1 DEF Trusted
  <2> HIDE DEF called
  <2>5. /\ DOMAIN disCorrelator'.cands \subseteq DOMAIN disCorrelator.cands
        /\ \A q \in DOMAIN disCorrelator'.cands :
             /\ DOMAIN disCorrelator'.cands[q] = CandFields
             /\ disCorrelator'.cands[q].surface = disCorrelator.cands[q].surface
             /\ disCorrelator'.cands[q].old = disCorrelator.cands[q].old
             /\ disCorrelator'.cands[q].old \in BOOLEAN
    BY <1>2, <2>1 DEF DisplayInv, CandsInv
  <2>6. /\ disCorrelator'.calls \in [DisplayThreads -> Nat]
        /\ \A t \in DisplayThreads : disCorrelator'.calls[t] # 0 =>
             t # th /\ disCorrelator'.calls[t] = disCorrelator.calls[t]
    BY <1>2, <2>1 DEF Calling, called
  <2>7. \A t \in DisplayThreads : disCorrelator'.calls[t] # 0 =>
          disReal'[disCorrelator.calls[t]].call = "in"
    <3> SUFFICES ASSUME NEW t \in DisplayThreads, disCorrelator'.calls[t] # 0
                 PROVE  disReal'[disCorrelator.calls[t]].call = "in"
      OBVIOUS
    <3>1. /\ disCorrelator.calls[t] \in DOMAIN disReal
          /\ disReal[disCorrelator.calls[t]].thread = t
          /\ disReal[disCorrelator.calls[t]].call = "in" /\ t # th
      BY <2>6 DEF DisplayInv, CandsInv
    <3>2. disCorrelator.calls[t] # p
      BY <3>1 DEF th
    <3> QED BY <1>5, <3>1, <3>2
  <2>8. Trusted' => \A q \in DOMAIN disReal' : Display!Pending(q)' =>
          /\ q \in DOMAIN disCorrelator'.cands
          /\ disCorrelator'.cands[q].claimed = 0 /\ ~disCorrelator'.cands[q].old
    <3> SUFFICES ASSUME Trusted', NEW q \in DOMAIN disReal', Display!Pending(q)'
                 PROVE  /\ q \in DOMAIN disCorrelator'.cands
                        /\ disCorrelator'.cands[q].claimed = 0
                        /\ ~disCorrelator'.cands[q].old
      OBVIOUS
    <3>1. /\ Trusted /\ q \in DOMAIN disReal /\ Display!Pending(q)
          /\ q = p => outcome = "ok"
      BY <1>5, <2>3, <2>4
    <3>2. /\ q \in DOMAIN disCorrelator.cands
          /\ disCorrelator.cands[q].claimed = 0 /\ ~disCorrelator.cands[q].old
      BY <3>1 DEF DisplayInv, CandsInv
    <3>3. q \in DOMAIN disCorrelator'.cands
      BY <2>1, <2>2, <3>1, <3>2 DEF succeeded
    <3>4. disCorrelator'.cands[q].claimed = disCorrelator.cands[q].claimed
      BY <2>1, <3>3
    <3> QED BY <2>5, <3>2, <3>3, <3>4
  <2>9. CandsInv'
    BY <1>9, <2>5, <2>6, <2>7, <2>8, CandsKept
  <2>10. /\ disCorrelator'.healthy = disCorrelator.healthy
         /\ disCorrelator'.frames = disCorrelator.frames
         /\ disCorrelator'.waiting = disCorrelator.waiting
         /\ disCorrelator'.dwm = disCorrelator.dwm
         /\ DOMAIN disCorrelator'.tokens = DOMAIN disCorrelator.tokens
         /\ \A k \in DOMAIN disCorrelator.tokens :
              /\ DOMAIN disCorrelator'.tokens[k] = TokenFields
              /\ disCorrelator'.tokens[k].surface = disCorrelator.tokens[k].surface
              /\ disCorrelator'.tokens[k].inFrame = disCorrelator.tokens[k].inFrame
              /\ disCorrelator'.tokens[k].displayed = disCorrelator.tokens[k].displayed
    BY <1>2, <2>1
  <2>11. TokensInv'
    BY <1>9, <2>10, TokensKept
  <2>12. WaitingInv'
    <3>1. \A q \in DOMAIN disReal : disReal[q].token = "updated" => disReal'[q].token = "updated"
      BY <1>3, <1>4, <1>5
    <3> QED BY <1>9, <2>10, <3>1, WaitingKept
  <2>13. FlipsInv'
    <3>1. \A g \in DOMAIN disCorrelator.frames : DOMAIN disCorrelator.frames[g] = FrameFields
      BY DEF DisplayInv, FlipsInv
    <3> QED BY <1>1, <1>7, <1>9, <2>10, <3>1, FlipsKept
  <2>14. DwmInv'
    BY <1>1, <1>9, <2>10, DwmKept
  <2>15. CountedInv'
    BY <1>1, <1>7, <1>9, <2>10, CountedKept
  <2>16. Display!Hears'
    BY <1>1, <1>11, <2>10 DEF Display!Hears
  <2>17. CorrelatorInv'
    BY <2>9, <2>11, <2>12, <2>13, <2>14, <2>16 DEF CorrelatorInv
  <2> QED BY <1>7, <1>8, <2>15, <2>17, Assembled
<1> QED BY <1>10, <1>11

LEMMA FiniteSurfaces ==
  ASSUME NEW S, IsFiniteSet(S), NEW table
  PROVE  IsFiniteSet({table[x].surface : x \in S})
<1> DEFINE T == {table[x].surface : x \in S}
           f == [x \in S |-> table[x].surface]
<1>1. f \in Surjection(S, T)
  BY DEF Surjection
<1> HIDE DEF f, T
<1>2. IsFiniteSet(T)
  BY <1>1, FS_Surjection
<1> QED BY <1>2 DEF T

LEMMA MakeTokenDisplayed ==
  ASSUME DisplayAssumption, DisplayInv, NEW p \in DOMAIN disReal, Display!MakeToken(p)
  PROVE  DisplayInv'
<1>1. /\ Display!Pending(p) /\ Staged(p, "made")
      /\ \A q \in 1 .. p - 1 :
           disReal[q].surface = disReal[p].surface => ~Display!Pending(q)
      /\ disCorrelator' = IF Display!Hears THEN Display!Token(disCorrelator, p) ELSE disCorrelator
      /\ UNCHANGED <<disFlips, disDwm, disOn, disWhole, disCounted>>
  BY DEF Display!MakeToken, Display!Heard, Staged
<1>2. /\ DOMAIN disReal = 1 .. Len(disReal) /\ DOMAIN disReal \subseteq Nat
      /\ DOMAIN disCorrelator = CorrelatorFields
      /\ \A q \in DOMAIN disCorrelator.tokens : DOMAIN disCorrelator.tokens[q] = TokenFields
      /\ \A q \in DOMAIN disCorrelator.cands : DOMAIN disCorrelator.cands[q] = CandFields
      /\ DOMAIN disCorrelator.cands \subseteq Nat
      /\ IsFiniteSet(DOMAIN disCorrelator.cands) /\ IsFiniteSet(DOMAIN disCorrelator.tokens)
  BY Lengths, FS_Subset DEF DisplayInv, DisplayTypes, TokensInv, CandsInv
<1>3. disReal[p].token = "none" /\ disReal[p].call # "failed" /\ "made" \in TokenStages \ {"none"}
  BY <1>1 DEF Display!Pending, TokenStages
<1>4. DOMAIN disCorrelator' = CorrelatorFields
  <2>1. CASE disCorrelator' = Display!Token(disCorrelator, p)
    BY <1>2, <2>1, Named, LostIsEmpty
  <2> QED BY <1>1, <1>2, <2>1
<1>5. /\ DisplayTypes' /\ ScreenInv' /\ WorldMoves
      /\ DOMAIN disReal' = DOMAIN disReal /\ disReal'[p].token = "made"
      /\ \A q \in DOMAIN disReal :
           /\ disReal'[q].call = disReal[q].call
           /\ q # p => disReal'[q] = disReal[q]
           /\ Display!Pending(q)' => q # p /\ Display!Pending(q)
  BY <1>1, <1>3, <1>4, StageMoves
<1>6. CASE ~Display!Hears \/ disCorrelator' = Display!Lost
  BY <1>1, <1>5, <1>6, Unheard, Assembled
<1>7. CASE Display!Hears /\ disCorrelator' # Display!Lost
  <2> DEFINE open == Open(disCorrelator)
             youngCands == Display!Young(disCorrelator.cands)
             youngTokens == Display!Young(disCorrelator.tokens)
  <2>1. /\ disCorrelator'.healthy = disCorrelator.healthy
        /\ disCorrelator'.frames = Display!Young(disCorrelator.frames)
        /\ disCorrelator'.calls = disCorrelator.calls
        /\ disCorrelator'.waiting = disCorrelator.waiting
        /\ disCorrelator'.dwm = disCorrelator.dwm
        /\ Display!Cardinality(DOMAIN youngTokens) # Room
        /\ ~(Display!Cardinality(SurfacesOf(disCorrelator.cands, open)) > 1)
        /\ ForOldest(disCorrelator, disCorrelator', p, open)
    <3>1. disCorrelator' = Display!Token(disCorrelator, p)
      BY <1>1, <1>7
    <3> HIDE DEF open
    <3>2. \A q \in DOMAIN disCorrelator.cands : DOMAIN disCorrelator.cands[q] = CandFields
      BY DEF DisplayInv, CandsInv
    <3>3. DOMAIN disCorrelator.cands \subseteq Nat
      BY Lengths DEF DisplayInv, CandsInv
    <3>4. disCorrelator' # Display!Lost
      BY <1>7
    <3>5. DOMAIN disCorrelator = CorrelatorFields
      BY <1>2
    <3> HIDE DEF open, youngCands, youngTokens
    <3> QED BY <3>1, <3>2, <3>3, <3>4, <3>5, Named DEF open, youngTokens
  <2>2. PICK surface, accepted :
          /\ disCorrelator'.tokens = Display!Put(youngTokens, p, NewToken(surface, accepted))
          /\ \/ open = {} /\ surface = 0 /\ disCorrelator'.cands = youngCands
             \/ \E r \in open :
                  /\ \A q \in open : r <= q
                  /\ surface = disCorrelator.cands[r].surface
                  /\ DOMAIN disCorrelator'.cands \subseteq DOMAIN youngCands
                  /\ \A q \in DOMAIN youngCands : q # r =>
                       /\ q \in DOMAIN disCorrelator'.cands
                       /\ disCorrelator'.cands[q] = disCorrelator.cands[q]
                  /\ \A q \in DOMAIN disCorrelator'.cands :
                       /\ DOMAIN disCorrelator'.cands[q] = CandFields
                       /\ disCorrelator'.cands[q].surface = disCorrelator.cands[q].surface
                       /\ disCorrelator'.cands[q].old = disCorrelator.cands[q].old
    BY <2>1 DEF ForOldest
  <2>3. ~(Display!Cardinality({disCorrelator.cands[q].surface : q \in open}) > 1)
    BY <2>1 DEF SurfacesOf
  <2>4. /\ DOMAIN youngCands = {q \in DOMAIN disCorrelator.cands : ~disCorrelator.cands[q].old}
        /\ \A q \in DOMAIN youngCands : youngCands[q] = disCorrelator.cands[q]
    BY Youngest
  <2>5. /\ DOMAIN youngTokens \subseteq DOMAIN disCorrelator.tokens
        /\ \A q \in DOMAIN youngTokens : youngTokens[q] = disCorrelator.tokens[q]
    BY Youngest
  <2>6. open \subseteq DOMAIN youngCands /\ open \subseteq DOMAIN disCorrelator.cands
    BY <2>4 DEF Open
  <2>7. \A q, r \in open : disCorrelator.cands[q].surface = disCorrelator.cands[r].surface
    <3> DEFINE S == {disCorrelator.cands[q].surface : q \in open}
    <3>1. IsFiniteSet(open)
      BY <1>2, <2>6, FS_Subset
    <3> HIDE DEF open
    <3>2. IsFiniteSet(S)
      BY <3>1, FiniteSurfaces
    <3>3. \A q \in open : disCorrelator.cands[q].surface \in S
      OBVIOUS
    <3>4. ~(Display!Cardinality(S) > 1)
      BY <2>3
    <3> HIDE DEF S
    <3> QED BY <3>2, <3>3, <3>4, OneOnly
  <2>8. Trusted => p \in open
    BY <1>1 DEF Open, DisplayInv, CandsInv
  <2>9. \A q \in open : /\ q \in DOMAIN disReal
                        /\ disCorrelator.cands[q].surface = disReal[q].surface
    BY <2>6 DEF DisplayInv, CandsInv
  <2>10. Trusted' => Trusted
    BY <1>1, <2>1 DEF Trusted
  <2>11. disWhole => Trusted
    BY <1>7 DEF Trusted, Display!Hears
  <2> HIDE DEF open, youngCands, youngTokens
  <2>12. /\ surface \in DisplaySurfaces \cup {0}
         /\ disWhole => surface = disReal[p].surface
    <3>1. CASE open = {} /\ surface = 0
      BY <2>8, <2>11, <3>1
    <3>2. CASE \E r \in open : surface = disCorrelator.cands[r].surface
      <4>1. PICK r \in open : surface = disCorrelator.cands[r].surface
        BY <3>2
      <4>2. surface = disReal[r].surface /\ r \in DOMAIN disReal
        BY <2>9, <4>1
      <4>3. disReal[r] \in RealPresents
        BY <4>2, Lengths DEF DisplayInv
      <4> QED BY <2>7, <2>8, <2>9, <2>11, <4>1, <4>2, <4>3 DEF RealPresents
    <3> QED BY <2>2, <3>1, <3>2
  <2>13. /\ DOMAIN disCorrelator'.tokens = DOMAIN youngTokens \cup {p}
         /\ disCorrelator'.tokens[p] = NewToken(surface, accepted)
         /\ \A q \in DOMAIN youngTokens : q # p => disCorrelator'.tokens[q] = youngTokens[q]
    BY <2>2 DEF Display!Put
  <2>14. p \notin DOMAIN disCorrelator.tokens
    BY <1>3 DEF DisplayInv, TokensInv
  <2>15. /\ DOMAIN NewToken(surface, accepted) = TokenFields
         /\ NewToken(surface, accepted).surface = surface
         /\ NewToken(surface, accepted).inFrame = FALSE
    BY DEF NewToken, TokenFields
  <2>16. TokensInv'
    <3>1. Cardinality(DOMAIN disCorrelator'.tokens) <= Room
      <4>1. Display!Cardinality(DOMAIN youngTokens) # Room
        BY <2>1
      <4>2. Cardinality(DOMAIN disCorrelator.tokens) <= Room
        BY DEF DisplayInv, TokensInv
      <4>3. Cardinality(DOMAIN youngTokens \cup {p}) <= Room
        BY <1>2, <2>5, <4>1, <4>2, FitsOneMore
      <4> QED BY <2>13, <4>3
    <3>2. ASSUME NEW k \in DOMAIN youngTokens
          PROVE  /\ k \in DOMAIN disReal' /\ DOMAIN disCorrelator'.tokens[k] = TokenFields
                 /\ disCorrelator'.tokens[k].surface \in DisplaySurfaces \cup {0}
                 /\ disReal'[k].token # "none"
                 /\ disCorrelator'.tokens[k].inFrame =>
                      disReal'[k].token \notin {"none", "made", "direct"}
                 /\ disWhole' => disCorrelator'.tokens[k].surface \in {0, disReal'[k].surface}
      <4>1. k # p /\ k \in DOMAIN disCorrelator.tokens
        BY <2>5, <2>14
      <4>2. disCorrelator'.tokens[k] = disCorrelator.tokens[k]
        BY <2>5, <2>13, <4>1
      <4>3. /\ k \in DOMAIN disReal /\ DOMAIN disCorrelator.tokens[k] = TokenFields
            /\ disCorrelator.tokens[k].surface \in DisplaySurfaces \cup {0}
            /\ disReal[k].token # "none"
            /\ disCorrelator.tokens[k].inFrame =>
                 disReal[k].token \notin {"none", "made", "direct"}
            /\ disWhole => disCorrelator.tokens[k].surface \in {0, disReal[k].surface}
        BY <4>1 DEF DisplayInv, TokensInv
      <4> QED BY <1>1, <1>5, <4>1, <4>2, <4>3
    <3>3. /\ p \in DOMAIN disReal' /\ DOMAIN disCorrelator'.tokens[p] = TokenFields
          /\ disCorrelator'.tokens[p].surface \in DisplaySurfaces \cup {0}
          /\ disReal'[p].token # "none" /\ ~disCorrelator'.tokens[p].inFrame
          /\ disWhole' => disCorrelator'.tokens[p].surface \in {0, disReal'[p].surface}
      <4>1. disReal'[p].surface = disReal[p].surface /\ (disWhole' => disWhole)
        BY <1>5 DEF WorldMoves
      <4> QED BY <1>5, <2>12, <2>13, <2>15, <4>1
    <3> QED BY <2>13, <3>1, <3>2, <3>3 DEF TokensInv
  <2>17. CandsInv'
    <3>1. /\ DOMAIN disCorrelator'.cands \subseteq DOMAIN disCorrelator.cands
          /\ \A q \in DOMAIN disCorrelator'.cands :
               /\ DOMAIN disCorrelator'.cands[q] = CandFields
               /\ disCorrelator'.cands[q].surface = disCorrelator.cands[q].surface
               /\ disCorrelator'.cands[q].old = disCorrelator.cands[q].old
      BY <1>2, <2>2, <2>4
    <3>2. \A q \in DOMAIN disCorrelator'.cands : disCorrelator'.cands[q].old \in BOOLEAN
      BY <3>1 DEF DisplayInv, CandsInv
    <3>3. /\ disCorrelator'.calls \in [DisplayThreads -> Nat]
          /\ \A t \in DisplayThreads : disCorrelator'.calls[t] # 0 =>
               /\ disCorrelator'.calls[t] = disCorrelator.calls[t]
               /\ disReal'[disCorrelator.calls[t]].call = "in"
      BY <1>5, <2>1 DEF DisplayInv, CandsInv
    <3>4. Trusted' => \A q \in DOMAIN disReal' : Display!Pending(q)' =>
            /\ q \in DOMAIN disCorrelator'.cands
            /\ disCorrelator'.cands[q].claimed = 0 /\ ~disCorrelator'.cands[q].old
      <4> SUFFICES ASSUME Trusted', NEW q \in DOMAIN disReal', Display!Pending(q)'
                   PROVE  /\ q \in DOMAIN disCorrelator'.cands
                          /\ disCorrelator'.cands[q] = disCorrelator.cands[q]
                          /\ disCorrelator.cands[q].claimed = 0
                          /\ ~disCorrelator.cands[q].old
        OBVIOUS
      <4>1. Trusted /\ q \in DOMAIN disReal /\ q # p /\ Display!Pending(q)
        BY <1>5, <2>10
      <4>2. /\ q \in DOMAIN disCorrelator.cands
            /\ disCorrelator.cands[q].claimed = 0 /\ ~disCorrelator.cands[q].old
        BY <4>1 DEF DisplayInv, CandsInv
      <4>3. q \in open /\ q \in DOMAIN youngCands
        BY <2>4, <4>2 DEF open, Open
      <4>4. PICK r \in open :
              /\ \A u \in open : r <= u
              /\ \A u \in DOMAIN youngCands : u # r =>
                   /\ u \in DOMAIN disCorrelator'.cands
                   /\ disCorrelator'.cands[u] = disCorrelator.cands[u]
        BY <2>2, <4>3
      <4>5. q # r
        <5>1. r \in DOMAIN disReal /\ disReal[r].surface = disReal[p].surface /\ r <= p
          BY <2>7, <2>8, <2>9, <4>1, <4>4
        <5>2. r = p \/ r \in 1 .. p - 1
          BY <1>2, <5>1
        <5> QED BY <1>1, <4>1, <5>1, <5>2
      <4> QED BY <4>2, <4>3, <4>4, <4>5
    <3> QED BY <1>5, <3>1, <3>2, <3>3, <3>4, CandsKept
  <2>18. WaitingInv'
    <3>1. \A q \in DOMAIN disReal : disReal[q].token = "updated" => disReal'[q].token = "updated"
      BY <1>3, <1>5
    <3> QED BY <1>5, <2>1, <3>1, WaitingKept
  <2>19. FlipsInv'
    <3>1. disCorrelator'.frames = Display!Young(disCorrelator.frames)
      BY <2>1
    <3>2. /\ DOMAIN disCorrelator'.frames \subseteq DOMAIN disCorrelator.frames
          /\ \A g \in DOMAIN disCorrelator'.frames :
               disCorrelator'.frames[g] = disCorrelator.frames[g]
      BY <3>1, Youngest
    <3>3. \A g \in DOMAIN disCorrelator'.frames : DOMAIN disCorrelator'.frames[g] = FrameFields
      BY <3>2 DEF DisplayInv, FlipsInv
    <3> QED BY <1>1, <1>5, <3>2, <3>3, FlipsKept
  <2>20. DwmInv'
    BY <1>1, <1>5, <2>1, DwmKept
  <2>21. CountedInv'
    <3>1. \A k \in DOMAIN disCorrelator'.tokens :
            \/ k = p
            \/ /\ k \in DOMAIN disCorrelator.tokens
               /\ disCorrelator'.tokens[k] = disCorrelator.tokens[k]
      BY <2>5, <2>13
    <3> QED BY <1>1, <1>3, <1>5, <3>1, CountedKept
  <2>22. Display!Hears'
    BY <1>1, <1>7, <2>1 DEF Display!Hears
  <2>23. CorrelatorInv'
    BY <2>16, <2>17, <2>18, <2>19, <2>20, <2>22 DEF CorrelatorInv
  <2> QED BY <1>5, <2>21, <2>23, Assembled
<1> QED BY <1>6, <1>7

(* The screen and its tables are as before; at most a flip has moved on.   *)
LEMMA TablesKept ==
  ASSUME DisplayAssumption, DisplayInv, DisplayTypes', WorldMoves,
         UNCHANGED <<disReal, disCounted>>,
         disCorrelator'.healthy = disCorrelator.healthy,
         disCorrelator'.cands = disCorrelator.cands, disCorrelator'.tokens = disCorrelator.tokens,
         disCorrelator'.calls = disCorrelator.calls,
         disCorrelator'.waiting = disCorrelator.waiting
  PROVE  CandsInv' /\ TokensInv' /\ WaitingInv' /\ CountedInv'
<1>1. CandsInv'
  <2>1. \A q \in DOMAIN disCorrelator.cands :
          /\ DOMAIN disCorrelator.cands[q] = CandFields
          /\ disCorrelator.cands[q].old \in BOOLEAN
    BY DEF DisplayInv, CandsInv
  <2>2. \A th \in DisplayThreads : disCorrelator.calls[th] # 0 =>
          disReal'[disCorrelator.calls[th]].call = "in"
    BY DEF DisplayInv, CandsInv
  <2>3. disCorrelator.calls \in [DisplayThreads -> Nat]
    BY DEF DisplayInv, CandsInv
  <2>4. Trusted' => Trusted
    BY DEF Trusted, WorldMoves
  <2>5. Trusted' => \A p \in DOMAIN disReal : Display!Pending(p)' =>
          /\ p \in DOMAIN disCorrelator.cands
          /\ disCorrelator.cands[p].claimed = 0 /\ ~disCorrelator.cands[p].old
    BY <2>4 DEF DisplayInv, CandsInv, Display!Pending
  <2> QED BY <2>1, <2>2, <2>3, <2>5, CandsKept
<1>2. TokensInv'
  <2>1. \A k \in DOMAIN disCorrelator.tokens : DOMAIN disCorrelator.tokens[k] = TokenFields
    BY DEF DisplayInv, TokensInv
  <2> QED BY <2>1, TokensKept
<1>3. WaitingInv'
  BY WaitingKept
<1>4. CountedInv'
  BY CountedKept
<1> QED BY <1>1, <1>2, <1>3, <1>4

LEMMA ScheduleDisplayed ==
  ASSUME DisplayAssumption, DisplayInv, Display!Schedule PROVE DisplayInv'
<1> DEFINE th == disDwm.thread
<1>1. /\ disDwm' = [disDwm EXCEPT !.scheduled = TRUE]
      /\ UNCHANGED <<disReal, disFlips, disOn, disWhole, disCounted>>
      /\ disCorrelator' = IF Display!Hears THEN Display!SetDwmThread(disCorrelator, th)
                                           ELSE disCorrelator
  BY DEF Display!Schedule, Display!Heard
<1>2. /\ DOMAIN disCorrelator = CorrelatorFields
      /\ disDwm \in [thread : {1, 2}, scheduled : BOOLEAN]
  BY DEF DisplayInv, DisplayTypes
<1>3. disDwm' \in [thread : {1, 2}, scheduled : BOOLEAN] /\ disDwm'.thread = th
  BY <1>1, <1>2
<1> HIDE DEF th
<1>4. DOMAIN disCorrelator' = CorrelatorFields
  BY <1>1, <1>2, Scheduled, LostIsEmpty
<1>5. DisplayTypes' /\ ScreenInv' /\ WorldMoves
  <2>1. Len(disFlips) <= Len(disFlips)
    BY Lengths DEF DisplayInv
  <2>2. DisplayTypes'
    BY <1>1, <1>3, <1>4 DEF DisplayInv, DisplayTypes
  <2> QED BY <1>1, <2>1, <2>2 DEF DisplayInv, ScreenInv, WorldMoves
<1>6. CASE ~Display!Hears \/ disCorrelator' = Display!Lost
  BY <1>1, <1>5, <1>6, Unheard, Assembled
<1>7. CASE Display!Hears /\ disCorrelator' # Display!Lost
  <2>1. disCorrelator' = Display!SetDwmThread(disCorrelator, th)
    BY <1>1, <1>7
  <2>2. /\ disCorrelator'.healthy = disCorrelator.healthy
        /\ disCorrelator'.cands = disCorrelator.cands
        /\ disCorrelator'.tokens = disCorrelator.tokens
        /\ disCorrelator'.frames = disCorrelator.frames
        /\ disCorrelator'.calls = disCorrelator.calls
        /\ disCorrelator'.waiting = disCorrelator.waiting /\ disCorrelator'.dwm = th
    BY <1>2, <1>7, <2>1, Scheduled
  <2>3. CandsInv' /\ TokensInv' /\ WaitingInv' /\ CountedInv'
    BY <1>1, <1>5, <2>2, TablesKept
  <2>4. FlipsInv'
    <3>1. \A g \in DOMAIN disCorrelator.frames : DOMAIN disCorrelator.frames[g] = FrameFields
      BY DEF DisplayInv, FlipsInv
    <3> QED BY <1>1, <1>5, <2>2, <3>1, FlipsKept
  <2>5. DwmInv'
    BY <1>3, <2>2 DEF DwmInv
  <2>6. Display!Hears'
    BY <1>1, <1>7, <2>2 DEF Display!Hears
  <2>7. CorrelatorInv'
    BY <2>3, <2>4, <2>5, <2>6 DEF CorrelatorInv
  <2> QED BY <1>5, <2>3, <2>7, Assembled
<1> QED BY <1>6, <1>7

LEMMA DwmRestartsDisplayed ==
  ASSUME DisplayAssumption, DisplayInv, Display!DwmRestarts PROVE DisplayInv'
<1>1. /\ disDwm' = [thread |-> 2, scheduled |-> FALSE]
      /\ \A f \in DOMAIN disFlips : disFlips[f] # "flipped"
      /\ UNCHANGED <<disReal, disFlips, disOn, disWhole, disCorrelator, disCounted>>
  BY DEF Display!DwmRestarts, Display!session
<1>2. disDwm' \in [thread : {1, 2}, scheduled : BOOLEAN] /\ ~disDwm'.scheduled
  BY <1>1
<1>3. DisplayTypes' /\ ScreenInv' /\ WorldMoves
  <2>1. Len(disFlips) <= Len(disFlips)
    BY Lengths DEF DisplayInv
  <2>2. DisplayTypes'
    BY <1>1, <1>2 DEF DisplayInv, DisplayTypes
  <2> QED BY <1>1, <2>1, <2>2 DEF DisplayInv, ScreenInv, WorldMoves
<1>4. CandsInv' /\ TokensInv' /\ WaitingInv' /\ CountedInv'
  BY <1>1, <1>3, TablesKept
<1>5. FlipsInv'
  <2>1. \A g \in DOMAIN disCorrelator.frames : DOMAIN disCorrelator.frames[g] = FrameFields
    BY DEF DisplayInv, FlipsInv
  <2> QED BY <1>1, <1>3, <2>1, FlipsKept
<1>6. DwmInv'
  BY <1>1, <1>2 DEF DwmInv
<1>7. ~Display!Hears' => Empty(disCorrelator')
  BY <1>1 DEF DisplayInv, Display!Hears
<1>8. CorrelatorInv'
  BY <1>4, <1>5, <1>6, <1>7 DEF CorrelatorInv
<1> QED BY <1>3, <1>4, <1>8, Assembled

(* Two seconds make every entry old and nothing else.                      *)
LEMMA Grown ==
  ASSUME NEW c, DOMAIN c = CorrelatorFields, NEW d, d = Display!Older(c)
  PROVE  /\ DOMAIN d = CorrelatorFields /\ d.healthy = c.healthy
         /\ d.cands = Display!Aged(c.cands) /\ d.tokens = Display!Aged(c.tokens)
         /\ d.frames = Display!Aged(c.frames)
         /\ d.calls = c.calls /\ d.waiting = c.waiting /\ d.dwm = c.dwm
<1> DEFINE cands == Display!Aged(c.cands)
           tokens == Display!Aged(c.tokens)
           frames == Display!Aged(c.frames)
<1>1. d = [c EXCEPT !.cands = cands, !.tokens = tokens, !.frames = frames]
  BY DEF Display!Older
<1> HIDE DEF cands, tokens, frames
<1>2. /\ DOMAIN d = CorrelatorFields /\ d.healthy = c.healthy
      /\ d.cands = cands /\ d.tokens = tokens /\ d.frames = frames
      /\ d.calls = c.calls /\ d.waiting = c.waiting /\ d.dwm = c.dwm
  BY <1>1 DEF CorrelatorFields
<1> QED BY <1>2 DEF cands, tokens, frames

LEMMA AgedCands ==
  ASSUME NEW table, \A x \in DOMAIN table : DOMAIN table[x] = CandFields
  PROVE  /\ DOMAIN Display!Aged(table) = DOMAIN table
         /\ \A x \in DOMAIN table :
              /\ DOMAIN Display!Aged(table)[x] = CandFields
              /\ Display!Aged(table)[x].surface = table[x].surface
              /\ Display!Aged(table)[x].old \in BOOLEAN
BY DEF Display!Aged, CandFields

LEMMA AgedTokens ==
  ASSUME NEW table, \A x \in DOMAIN table : DOMAIN table[x] = TokenFields
  PROVE  /\ DOMAIN Display!Aged(table) = DOMAIN table
         /\ \A x \in DOMAIN table :
              /\ DOMAIN Display!Aged(table)[x] = TokenFields
              /\ Display!Aged(table)[x].surface = table[x].surface
              /\ Display!Aged(table)[x].inFrame = table[x].inFrame
              /\ Display!Aged(table)[x].displayed = table[x].displayed
BY DEF Display!Aged, TokenFields

LEMMA AgedFrames ==
  ASSUME NEW table, \A x \in DOMAIN table : DOMAIN table[x] = FrameFields
  PROVE  /\ DOMAIN Display!Aged(table) = DOMAIN table
         /\ \A x \in DOMAIN table :
              /\ DOMAIN Display!Aged(table)[x] = FrameFields
              /\ Display!Aged(table)[x].tokens = table[x].tokens
              /\ Display!Aged(table)[x].sequence = table[x].sequence
BY DEF Display!Aged, FrameFields

LEMMA GapDisplayed ==
  ASSUME DisplayAssumption, DisplayInv, Display!Gap PROVE DisplayInv'
<1>1. /\ disCorrelator' = Display!Older(disCorrelator)
      /\ disWhole' = (disWhole /\ ~\E p \in DOMAIN disReal : Display!Pending(p))
      /\ UNCHANGED <<disReal, disFlips, disDwm, disOn, disCounted>>
  BY DEF Display!Gap
<1>2. /\ DOMAIN disCorrelator = CorrelatorFields
      /\ \A q \in DOMAIN disCorrelator.cands : DOMAIN disCorrelator.cands[q] = CandFields
      /\ \A q \in DOMAIN disCorrelator.tokens : DOMAIN disCorrelator.tokens[q] = TokenFields
      /\ \A g \in DOMAIN disCorrelator.frames : DOMAIN disCorrelator.frames[g] = FrameFields
  BY DEF DisplayInv, DisplayTypes, CandsInv, TokensInv, FlipsInv
<1>3. /\ DOMAIN disCorrelator' = CorrelatorFields
      /\ disCorrelator'.healthy = disCorrelator.healthy
      /\ disCorrelator'.cands = Display!Aged(disCorrelator.cands)
      /\ disCorrelator'.tokens = Display!Aged(disCorrelator.tokens)
      /\ disCorrelator'.frames = Display!Aged(disCorrelator.frames)
      /\ disCorrelator'.calls = disCorrelator.calls
      /\ disCorrelator'.waiting = disCorrelator.waiting
      /\ disCorrelator'.dwm = disCorrelator.dwm
  BY <1>1, <1>2, Grown
<1>4. /\ disWhole' \in BOOLEAN /\ (disWhole' => disWhole)
      /\ disWhole' => \A p \in DOMAIN disReal : ~Display!Pending(p)
  BY <1>1
<1>5. DisplayTypes' /\ ScreenInv' /\ WorldMoves
  <2>1. Len(disFlips) <= Len(disFlips)
    BY Lengths DEF DisplayInv
  <2>2. DisplayTypes'
    BY <1>1, <1>3, <1>4 DEF DisplayInv, DisplayTypes
  <2> QED BY <1>1, <1>4, <2>1, <2>2 DEF DisplayInv, ScreenInv, WorldMoves
<1>6. CandsInv'
  <2>1. /\ DOMAIN disCorrelator'.cands = DOMAIN disCorrelator.cands
        /\ \A x \in DOMAIN disCorrelator.cands :
             /\ DOMAIN disCorrelator'.cands[x] = CandFields
             /\ disCorrelator'.cands[x].surface = disCorrelator.cands[x].surface
             /\ disCorrelator'.cands[x].old \in BOOLEAN
    BY <1>2, <1>3, AgedCands
  <2>2. /\ disCorrelator'.calls \in [DisplayThreads -> Nat]
        /\ \A th \in DisplayThreads : disCorrelator'.calls[th] # 0 =>
             disReal'[disCorrelator.calls[th]].call = "in"
    BY <1>1, <1>3 DEF DisplayInv, CandsInv
  <2>3. Trusted' => \A p \in DOMAIN disReal' : ~Display!Pending(p)'
    BY <1>1, <1>4 DEF Trusted, Display!Pending
  <2> QED BY <1>3, <1>5, <2>1, <2>2, <2>3, CandsKept
<1>7. /\ DOMAIN disCorrelator'.tokens = DOMAIN disCorrelator.tokens
      /\ \A x \in DOMAIN disCorrelator.tokens :
           /\ DOMAIN disCorrelator'.tokens[x] = TokenFields
           /\ disCorrelator'.tokens[x].surface = disCorrelator.tokens[x].surface
           /\ disCorrelator'.tokens[x].inFrame = disCorrelator.tokens[x].inFrame
           /\ disCorrelator'.tokens[x].displayed = disCorrelator.tokens[x].displayed
  BY <1>2, <1>3, AgedTokens
<1>8. TokensInv'
  BY <1>5, <1>7, TokensKept
<1>9. /\ DOMAIN disCorrelator'.frames = DOMAIN disCorrelator.frames
      /\ \A x \in DOMAIN disCorrelator.frames :
           /\ DOMAIN disCorrelator'.frames[x] = FrameFields
           /\ disCorrelator'.frames[x].tokens = disCorrelator.frames[x].tokens
           /\ disCorrelator'.frames[x].sequence = disCorrelator.frames[x].sequence
  BY <1>2, <1>3, AgedFrames
<1>10. FlipsInv'
  BY <1>1, <1>5, <1>9, FlipsKept
<1>11. WaitingInv' /\ DwmInv' /\ CountedInv'
  BY <1>1, <1>3, <1>5, <1>7, WaitingKept, DwmKept, CountedKept
<1>12. ~Display!Hears' => Empty(disCorrelator')
  BY <1>1, <1>3, <1>7, <1>9, AgedCands, <1>2 DEF DisplayInv, Display!Hears, Empty
<1>13. CorrelatorInv'
  BY <1>6, <1>8, <1>10, <1>11, <1>12 DEF CorrelatorInv
<1> QED BY <1>5, <1>11, <1>13, Assembled

LEMMA TraceBeginsDisplayed ==
  ASSUME DisplayAssumption, DisplayInv, Display!TraceBegins PROVE DisplayInv'
<1>1. /\ ~disOn /\ disOn' = TRUE
      /\ disWhole' = ~(disDwm.scheduled \/ \E p \in DOMAIN disReal : Display!Pending(p))
      /\ UNCHANGED <<disReal, disFlips, disDwm, disCorrelator, disCounted>>
  BY DEF Display!TraceBegins, Display!screen
<1>2. /\ disWhole' \in BOOLEAN
      /\ disWhole' => ~disDwm.scheduled /\ \A p \in DOMAIN disReal : ~Display!Pending(p)
  BY <1>1
<1>3. Empty(disCorrelator) /\ disFlips = <<>> /\ disCounted = {}
  BY <1>1 DEF DisplayInv, Display!Hears, ScreenInv, CountedInv
<1>4. DisplayTypes' /\ ScreenInv'
  <2>1. DisplayTypes'
    BY <1>1, <1>2 DEF DisplayInv, DisplayTypes
  <2> QED BY <1>1, <2>1 DEF DisplayInv, ScreenInv
<1>5. Unpaired'
  <2>1. Empty(disCorrelator')
    BY <1>1, <1>3
  <2>2. DOMAIN disFlips' = {}
    BY <1>1, <1>3
  <2> QED BY <1>1, <1>2, <2>1, <2>2 DEF Unpaired, Trusted, Display!Pending
<1>6. CorrelatorInv'
  <2>1. (DisplayAssumption /\ Unpaired => CorrelatorInv)'
    BY EmptyHolds, PTL
  <2> QED BY <1>5, <2>1
<1>7. CountedInv'
  BY <1>1, <1>3 DEF CountedInv
<1> QED BY <1>4, <1>6, <1>7, Assembled

(* The one flip that is not queued is queued.                              *)
LEMMA QueueDisplayed ==
  ASSUME DisplayAssumption, DisplayInv, NEW f \in DOMAIN disFlips, Display!Queue(f)
  PROVE  DisplayInv'
<1> DEFINE th == disDwm.thread
<1>1. /\ disFlips[f] = "flipped" /\ disFlips' = [disFlips EXCEPT ![f] = "queued"]
      /\ disCorrelator' = IF Display!Hears THEN Display!DwmQueue(disCorrelator, th, f)
                                           ELSE disCorrelator
      /\ UNCHANGED <<disReal, disDwm, disOn, disWhole, disCounted>>
  BY DEF Display!Queue, Display!Heard
<1>2. /\ DOMAIN disFlips = 1 .. Len(disFlips) /\ Len(disFlips) \in Nat
      /\ disFlips \in Seq(FlipStages) /\ f \in Nat /\ f # 0 /\ f = Len(disFlips)
      /\ DOMAIN disCorrelator = CorrelatorFields
      /\ DOMAIN disCorrelator.frames \subseteq Nat
      /\ \A g \in DOMAIN disCorrelator.frames : DOMAIN disCorrelator.frames[g] = FrameFields
  BY <1>1, Lengths DEF DisplayInv, DisplayTypes, ScreenInv, FlipsInv
<1> HIDE DEF th
<1>3. /\ disFlips' \in Seq(FlipStages) /\ Len(disFlips') = Len(disFlips)
      /\ DOMAIN disFlips' = DOMAIN disFlips /\ disFlips'[f] = "queued"
      /\ \A g \in DOMAIN disFlips : g # f => disFlips'[g] = disFlips[g]
  BY <1>1, <1>2, ExceptSeq DEF FlipStages
<1>4. \A g \in DOMAIN disFlips' : disFlips'[g] # "flipped"
  BY <1>1, <1>2, <1>3 DEF DisplayInv, ScreenInv
<1>5. DOMAIN disCorrelator' = CorrelatorFields
  <2>1. CASE disCorrelator' = Display!DwmQueue(disCorrelator, th, f)
    BY <1>2, <2>1, QueuedByDwm
  <2> QED BY <1>1, <1>2, <2>1
<1>6. DisplayTypes' /\ ScreenInv' /\ WorldMoves
  <2>1. Len(disFlips) <= Len(disFlips')
    BY <1>2, <1>3
  <2>2. DisplayTypes'
    BY <1>1, <1>3, <1>5 DEF DisplayInv, DisplayTypes
  <2>3. ScreenInv'
    BY <1>1, <1>3, <1>4 DEF DisplayInv, ScreenInv
  <2>4. WorldMoves
    BY <1>1, <1>2, <1>3, <2>1 DEF WorldMoves
  <2> QED BY <2>2, <2>3, <2>4
<1>7. CASE ~Display!Hears
  BY <1>1, <1>6, <1>7, Unheard, Assembled
<1>8. CASE Display!Hears
  <2>1. disCorrelator' = Display!DwmQueue(disCorrelator, th, f)
    BY <1>1, <1>8
  <2>2. /\ disCorrelator'.healthy = disCorrelator.healthy
        /\ disCorrelator'.cands = disCorrelator.cands
        /\ disCorrelator'.tokens = disCorrelator.tokens
        /\ disCorrelator'.calls = disCorrelator.calls
        /\ disCorrelator'.waiting = disCorrelator.waiting
        /\ disCorrelator'.dwm = disCorrelator.dwm
    BY <1>2, <2>1, QueuedByDwm
  <2>3. disWhole => disCorrelator.dwm = th
    BY <1>1, <1>8 DEF DisplayInv, DwmInv, Trusted, Display!Hears, th
  <2>4. FlipsInv'
    <3>1. CASE disCorrelator' = disCorrelator
                 /\ (disWhole' => \A g \in DOMAIN disCorrelator.frames :
                                    disCorrelator.frames[g].sequence # 0)
      BY <1>2, <1>6, <3>1, FlipsKept
    <3>2. CASE \E g \in DOMAIN disCorrelator.frames :
                 /\ disCorrelator.frames[g].sequence = 0
                 /\ DOMAIN disCorrelator'.frames[g] = FrameFields
                 /\ disCorrelator'.frames[g].sequence = f
                 /\ disCorrelator'.frames[g].tokens = disCorrelator.frames[g].tokens
                 /\ DOMAIN disCorrelator'.frames = DOMAIN disCorrelator.frames
                 /\ \A h \in DOMAIN disCorrelator.frames :
                      h # g => disCorrelator'.frames[h] = disCorrelator.frames[h]
      <4>1. PICK g \in DOMAIN disCorrelator.frames :
              /\ disCorrelator.frames[g].sequence = 0
              /\ DOMAIN disCorrelator'.frames[g] = FrameFields
              /\ disCorrelator'.frames[g].sequence = f
              /\ disCorrelator'.frames[g].tokens = disCorrelator.frames[g].tokens
              /\ DOMAIN disCorrelator'.frames = DOMAIN disCorrelator.frames
              /\ \A h \in DOMAIN disCorrelator.frames :
                   h # g => disCorrelator'.frames[h] = disCorrelator.frames[h]
        BY <3>2
      <4>2. ASSUME NEW h \in DOMAIN disCorrelator.frames
            PROVE  /\ h \in DOMAIN disFlips
                   /\ disCorrelator.frames[h].tokens \in Seq(Nat)
                   /\ \A i \in DOMAIN disCorrelator.frames[h].tokens :
                        Flipped(disCorrelator.frames[h].tokens[i], h)
                   /\ disCorrelator.frames[h].sequence # 0 =>
                        /\ disCorrelator.frames[h].sequence \in h .. Len(disFlips)
                        /\ disFlips[disCorrelator.frames[h].sequence] # "flipped"
                        /\ disWhole => disCorrelator.frames[h].sequence = h
                   /\ disWhole /\ disCorrelator.frames[h].sequence = 0 => h = f
        BY <1>2 DEF DisplayInv, FlipsInv, ScreenInv
      <4>3. ASSUME NEW h \in DOMAIN disCorrelator.frames
            PROVE  /\ h \in DOMAIN disFlips'
                   /\ DOMAIN disCorrelator'.frames[h] = FrameFields
                   /\ disCorrelator'.frames[h].tokens = disCorrelator.frames[h].tokens
                   /\ disCorrelator'.frames[h].tokens \in Seq(Nat)
                   /\ disCorrelator'.frames[h].sequence # 0 =>
                        /\ disCorrelator'.frames[h].sequence \in h .. Len(disFlips')
                        /\ disFlips'[disCorrelator'.frames[h].sequence] # "flipped"
                        /\ disWhole' => disCorrelator'.frames[h].sequence = h
                   /\ disWhole' /\ disCorrelator'.frames[h].sequence = 0 =>
                        disFlips'[h] = "flipped"
        <5>1. CASE h = g
          BY <1>1, <1>2, <1>3, <4>1, <4>2, <5>1
        <5>2. CASE h # g
          <6>1. disWhole => disCorrelator.frames[h].sequence # 0
            BY <4>1, <4>2, <5>2
          <6> QED BY <1>1, <1>2, <1>3, <1>4, <4>1, <4>2, <5>2, <6>1
        <5> QED BY <5>1, <5>2
      <4>4. ASSUME NEW h \in DOMAIN disCorrelator.frames,
                   NEW i \in DOMAIN disCorrelator'.frames[h].tokens
            PROVE  Flipped(disCorrelator.frames[h].tokens[i], h)'
        <5>1. Flipped(disCorrelator.frames[h].tokens[i], h)
          BY <4>2, <4>3
        <5>2. disCorrelator'.frames[h].tokens[i] = disCorrelator.frames[h].tokens[i]
          BY <4>3
        <5>3. ASSUME NEW k, k = disCorrelator.frames[h].tokens[i]
              PROVE  /\ k \in DOMAIN disReal'
                     /\ disReal'[k].token = "taken" /\ disReal'[k].flip \in 1 .. h
                     /\ disWhole' => disReal'[k].flip = h
          BY <1>1, <5>1, <5>3 DEF Flipped
        <5> QED BY <5>2, <5>3 DEF Flipped
      <4>5. Cardinality(DOMAIN disCorrelator'.frames) <= Room
        BY <4>1 DEF DisplayInv, FlipsInv
      <4> QED BY <4>1, <4>3, <4>4, <4>5 DEF FlipsInv
    <3> QED BY <1>1, <1>2, <2>1, <2>3, <3>1, <3>2, QueuedByDwm
  <2>5. CandsInv' /\ TokensInv' /\ WaitingInv' /\ CountedInv'
    BY <1>1, <1>6, <2>2, TablesKept
  <2>6. DwmInv'
    BY <1>1, <1>4, <1>6, <2>2, DwmKept
  <2>7. Display!Hears'
    BY <1>1, <1>8, <2>2 DEF Display!Hears
  <2>8. CorrelatorInv'
    BY <2>4, <2>5, <2>6, <2>7 DEF CorrelatorInv
  <2> QED BY <1>6, <2>5, <2>8, Assembled
<1> QED BY <1>7, <1>8

(* DWM takes every image that waits for its flip.                          *)
Taken(r, f) == [r EXCEPT !.token = "taken", !.flip = f]

LEMMA FlipDisplayed ==
  ASSUME DisplayAssumption, DisplayInv, Display!Flip PROVE DisplayInv'
<1> DEFINE th == disDwm.thread
           f == Len(disFlips) + 1
           next(p) == IF disReal[p].token = "updated" THEN Taken(disReal[p], f) ELSE disReal[p]
<1>1. /\ disDwm.scheduled /\ Len(disFlips) < MaxFlips
      /\ \A g \in DOMAIN disFlips : disFlips[g] # "flipped"
      /\ disFlips' = Append(disFlips, "flipped")
      /\ disReal' = [p \in DOMAIN disReal |-> next(p)]
      /\ disDwm' = [disDwm EXCEPT !.scheduled = FALSE]
      /\ disCorrelator' = IF Display!Hears THEN Display!DwmFlip(disCorrelator, th, f)
                                           ELSE disCorrelator
      /\ disOn = TRUE
      /\ UNCHANGED <<disOn, disWhole, disCounted>>
  BY DEF Display!Flip, Display!Heard, Taken, DisplayInv, DisplayTypes
<1>2. /\ DOMAIN disFlips = 1 .. Len(disFlips) /\ Len(disFlips) \in Nat
      /\ disFlips \in Seq(FlipStages)
      /\ DOMAIN disReal = 1 .. Len(disReal) /\ Len(disReal) \in Nat
      /\ \A p \in DOMAIN disReal : disReal[p] \in RealPresents
      /\ disDwm \in [thread : {1, 2}, scheduled : BOOLEAN]
      /\ DOMAIN disCorrelator = CorrelatorFields
  BY Lengths DEF DisplayInv, DisplayTypes
<1>3. f \in Nat /\ f # 0 /\ f = Len(disFlips) + 1 /\ f \notin DOMAIN disFlips
  BY <1>2
<1>4. /\ disDwm' \in [thread : {1, 2}, scheduled : BOOLEAN]
      /\ disDwm'.thread = th /\ ~disDwm'.scheduled
  BY <1>1, <1>2
<1>5. /\ disFlips' \in Seq(FlipStages) /\ Len(disFlips') = f
      /\ DOMAIN disFlips' = 1 .. f /\ disFlips'[f] = "flipped"
      /\ \A g \in DOMAIN disFlips : g \in 1 .. f /\ disFlips'[g] = disFlips[g]
  BY <1>1, <1>2 DEF FlipStages
<1>15. \A g \in DOMAIN disFlips' : g = f \/ g \in DOMAIN disFlips
  BY <1>2, <1>3, <1>5
<1> HIDE DEF th, f
<1>6. \A r \in RealPresents :
        /\ Taken(r, f) \in RealPresents
        /\ Taken(r, f).thread = r.thread /\ Taken(r, f).surface = r.surface
        /\ Taken(r, f).call = r.call /\ Taken(r, f).token = "taken" /\ Taken(r, f).flip = f
  BY <1>3 DEF Taken, RealPresents, TokenStages
<1>7. /\ DOMAIN disReal' = DOMAIN disReal
      /\ \A p \in DOMAIN disReal :
           /\ disReal'[p] \in RealPresents
           /\ disReal'[p].thread = disReal[p].thread /\ disReal'[p].surface = disReal[p].surface
           /\ disReal'[p].call = disReal[p].call
           /\ disReal[p].token = "updated" => disReal'[p].token = "taken" /\ disReal'[p].flip = f
           /\ disReal[p].token # "updated" => disReal'[p] = disReal[p]
  BY <1>1, <1>2, <1>6
<1> HIDE DEF next
<1>8. disReal' \in Seq(RealPresents) /\ Len(disReal') = Len(disReal)
  <2>1. disReal' \in [1 .. Len(disReal) -> RealPresents]
    <3>1. disReal' = [p \in DOMAIN disReal' |-> disReal'[p]]
      BY <1>1
    <3> QED BY <1>2, <1>7, <3>1
  <2>2. disReal' \in Seq(RealPresents)
    BY <1>2, <2>1, SeqDef
  <2> QED BY <1>2, <2>1, <2>2
<1>9. DOMAIN disCorrelator' = CorrelatorFields
  <2>1. CASE disCorrelator' = Display!DwmFlip(disCorrelator, th, f)
    BY <1>2, <2>1, FlippedByDwm, LostIsEmpty
  <2> QED BY <1>1, <1>2, <2>1
<1>10. DisplayTypes'
  <2>1. Len(disReal') <= MaxPresents
    BY <1>8 DEF DisplayInv, DisplayTypes
  <2>2. Len(disFlips') <= MaxFlips
    BY <1>1, <1>2, <1>3, <1>5 DEF DisplayAssumption
  <2>3. disOn' \in BOOLEAN /\ disWhole' \in BOOLEAN
    BY <1>1 DEF DisplayInv, DisplayTypes
  <2> QED BY <1>4, <1>5, <1>8, <1>9, <2>1, <2>2, <2>3 DEF DisplayTypes
<1>11. ScreenInv'
  <2>1. ASSUME NEW p \in DOMAIN disReal
        PROVE  /\ disReal'[p].flip <= Len(disFlips')
               /\ disReal'[p].flip # 0 => disReal'[p].token = "taken"
               /\ disReal'[p].call = "failed" => disReal'[p].token \in {"none", "dead"}
    <3>1. /\ disReal[p].flip <= Len(disFlips) /\ disReal[p].flip \in Nat
          /\ disReal[p].flip # 0 => disReal[p].token = "taken"
          /\ disReal[p].call = "failed" => disReal[p].token \in {"none", "dead"}
      BY <1>2 DEF DisplayInv, ScreenInv, RealPresents
    <3>2. CASE disReal[p].token = "updated"
      BY <1>3, <1>5, <1>7, <3>1, <3>2
    <3>3. CASE disReal[p].token # "updated"
      BY <1>2, <1>3, <1>5, <1>7, <3>1, <3>3
    <3> QED BY <3>2, <3>3
  <2>2. \A g \in DOMAIN disFlips' : disFlips'[g] = "flipped" => g = Len(disFlips')
    BY <1>1, <1>5, <1>15
  <2>3. \A p, q \in DOMAIN disReal' :
          disReal'[p].call = "in" /\ disReal'[q].call = "in"
          /\ disReal'[p].thread = disReal'[q].thread => p = q
    BY <1>7 DEF DisplayInv, ScreenInv
  <2>4. disOn' = TRUE
    BY <1>1
  <2> QED BY <1>7, <2>1, <2>2, <2>3, <2>4 DEF ScreenInv
<1>12. WorldMoves
  <2>1. Len(disFlips) <= Len(disFlips')
    BY <1>2, <1>3, <1>5
  <2>2. \A p \in DOMAIN disReal :
          /\ disReal'[p].thread = disReal[p].thread
          /\ disReal'[p].surface = disReal[p].surface
          /\ disReal[p].token # "none" => disReal'[p].token # "none"
          /\ disReal[p].token \notin {"none", "made", "direct"} =>
               disReal'[p].token \notin {"none", "made", "direct"}
          /\ disReal[p].token = "taken" =>
               disReal'[p].token = "taken" /\ disReal'[p].flip = disReal[p].flip
    BY <1>7
  <2> QED BY <1>1, <1>5, <1>7, <2>1, <2>2 DEF WorldMoves
<1>20. \A p \in DOMAIN disReal : Display!Pending(p)' => Display!Pending(p)
  BY <1>7 DEF Display!Pending
<1>13. CASE ~Display!Hears \/ disCorrelator' = Display!Lost
  BY <1>1, <1>10, <1>11, <1>12, <1>13, Unheard, Assembled
<1>14. CASE Display!Hears /\ disCorrelator' # Display!Lost
  <2>1. disCorrelator' = Display!DwmFlip(disCorrelator, th, f)
    BY <1>1, <1>14
  <2>2. disWhole => Trusted /\ disCorrelator.dwm = th
    BY <1>1, <1>14 DEF DisplayInv, DwmInv, Trusted, Display!Hears, th
  <2>3. CASE th # disCorrelator.dwm /\ disCorrelator' = disCorrelator
    <3>1. ~disWhole' /\ ~Trusted'
      BY <1>1, <2>2, <2>3 DEF Trusted
    <3>2. CandsInv'
      <4>1. \A q \in DOMAIN disCorrelator.cands :
              /\ DOMAIN disCorrelator.cands[q] = CandFields
              /\ disCorrelator.cands[q].old \in BOOLEAN
        BY DEF DisplayInv, CandsInv
      <4>2. \A t \in DisplayThreads : disCorrelator.calls[t] # 0 =>
              disReal'[disCorrelator.calls[t]].call = "in"
        BY <1>7 DEF DisplayInv, CandsInv
      <4>3. disCorrelator.calls \in [DisplayThreads -> Nat]
        BY DEF DisplayInv, CandsInv
      <4> QED BY <1>12, <2>3, <3>1, <4>1, <4>2, <4>3, CandsKept
    <3>3. TokensInv'
      <4>1. \A k \in DOMAIN disCorrelator.tokens : DOMAIN disCorrelator.tokens[k] = TokenFields
        BY DEF DisplayInv, TokensInv
      <4> QED BY <1>12, <2>3, <4>1, TokensKept
    <3>4. WaitingInv'
      BY <1>3, <1>7, <1>12, <2>3, <3>1, WaitingKept
    <3>5. FlipsInv'
      <4>1. \A g \in DOMAIN disCorrelator.frames : DOMAIN disCorrelator.frames[g] = FrameFields
        BY DEF DisplayInv, FlipsInv
      <4> QED BY <1>10, <1>12, <2>3, <3>1, <4>1, FlipsKept
    <3>6. DwmInv'
      BY <3>1 DEF DwmInv
    <3>7. CountedInv'
      BY <1>1, <1>10, <1>12, <2>3, CountedKept
    <3>8. Display!Hears'
      BY <1>1, <1>14, <2>3 DEF Display!Hears
    <3>9. CorrelatorInv'
      BY <3>2, <3>3, <3>4, <3>5, <3>6, <3>8 DEF CorrelatorInv
    <3> QED BY <1>10, <1>11, <3>7, <3>9, Assembled
  <2>4. CASE th = disCorrelator.dwm
             /\ ~(th # disCorrelator.dwm /\ disCorrelator' = disCorrelator)
    <3>1. /\ disCorrelator'.healthy = disCorrelator.healthy
          /\ Display!Cardinality(DOMAIN Display!Young(disCorrelator.frames)) # Room
          /\ disCorrelator'.cands = Display!Young(disCorrelator.cands)
          /\ disCorrelator'.tokens = Display!Young(disCorrelator.tokens)
          /\ disCorrelator'.frames = Display!Put(Display!Young(disCorrelator.frames), f,
                                                 NewFrame(disCorrelator.waiting))
          /\ disCorrelator'.calls = disCorrelator.calls /\ disCorrelator'.waiting = <<>>
          /\ disCorrelator'.dwm = disCorrelator.dwm
      BY <1>2, <1>14, <2>1, <2>4, FlippedByDwm
    <3>2. CandsInv'
      <4>1. /\ DOMAIN disCorrelator'.cands =
                 {q \in DOMAIN disCorrelator.cands : ~disCorrelator.cands[q].old}
            /\ \A q \in DOMAIN disCorrelator'.cands :
                 disCorrelator'.cands[q] = disCorrelator.cands[q]
        BY <3>1, Youngest
      <4>2. \A q \in DOMAIN disCorrelator'.cands :
              /\ DOMAIN disCorrelator'.cands[q] = CandFields
              /\ disCorrelator'.cands[q].surface = disCorrelator.cands[q].surface
              /\ disCorrelator'.cands[q].old \in BOOLEAN
        BY <4>1 DEF DisplayInv, CandsInv
      <4>3. /\ disCorrelator'.calls \in [DisplayThreads -> Nat]
            /\ \A t \in DisplayThreads : disCorrelator'.calls[t] # 0 =>
                 /\ disCorrelator'.calls[t] = disCorrelator.calls[t]
                 /\ disReal'[disCorrelator.calls[t]].call = "in"
        BY <1>7, <3>1 DEF DisplayInv, CandsInv
      <4>4. Trusted' => Trusted
        BY <1>1, <3>1 DEF Trusted
      <4>5. Trusted' => \A p \in DOMAIN disReal' : Display!Pending(p)' =>
              /\ p \in DOMAIN disCorrelator'.cands
              /\ disCorrelator'.cands[p].claimed = 0 /\ ~disCorrelator'.cands[p].old
        BY <1>7, <1>20, <4>1, <4>4 DEF DisplayInv, CandsInv
      <4>6. DOMAIN disCorrelator'.cands \subseteq DOMAIN disCorrelator.cands
        BY <4>1
      <4> QED BY <1>12, <4>2, <4>3, <4>5, <4>6, CandsKept
    <3>3. /\ DOMAIN disCorrelator'.tokens \subseteq DOMAIN disCorrelator.tokens
          /\ \A q \in DOMAIN disCorrelator'.tokens :
               disCorrelator'.tokens[q] = disCorrelator.tokens[q]
      BY <3>1, Youngest
    <3>4. TokensInv'
      <4>1. \A k \in DOMAIN disCorrelator'.tokens : DOMAIN disCorrelator'.tokens[k] = TokenFields
        BY <3>3 DEF DisplayInv, TokensInv
      <4> QED BY <1>12, <3>3, <4>1, TokensKept
    <3>5. WaitingInv'
      <4>1. disCorrelator'.waiting = <<>> /\ Len(<<>>) = 0 /\ 0 <= Room
        BY <3>1 DEF DisplayAssumption
      <4>2. disCorrelator'.waiting \in Seq(Nat) /\ DOMAIN disCorrelator'.waiting = {}
        BY <4>1
      <4> QED BY <4>1, <4>2 DEF WaitingInv
    <3>6. FlipsInv'
      <4> DEFINE young == Display!Young(disCorrelator.frames)
                 entry == NewFrame(disCorrelator.waiting)
      <4>1. /\ DOMAIN young \subseteq DOMAIN disCorrelator.frames
            /\ \A g \in DOMAIN young : young[g] = disCorrelator.frames[g]
        BY Youngest
      <4>2. IsFiniteSet(DOMAIN disCorrelator.frames)
        BY Lengths, FS_Subset DEF DisplayInv, FlipsInv
      <4>3. /\ DOMAIN entry = FrameFields /\ entry.tokens = disCorrelator.waiting
            /\ entry.sequence = 0
        BY DEF NewFrame, FrameFields
      <4> HIDE DEF young, entry
      <4>4. /\ DOMAIN disCorrelator'.frames = DOMAIN young \cup {f}
            /\ disCorrelator'.frames[f] = entry
            /\ \A g \in DOMAIN young : g # f => disCorrelator'.frames[g] = young[g]
        <5>1. disCorrelator'.frames = Display!Put(young, f, entry)
          BY <3>1 DEF young, entry
        <5> QED BY <5>1 DEF Display!Put
      <4>5. Cardinality(DOMAIN disCorrelator'.frames) <= Room
        <5>1. Display!Cardinality(DOMAIN young) # Room
          BY <3>1 DEF young
        <5>2. Cardinality(DOMAIN disCorrelator.frames) <= Room
          BY DEF DisplayInv, FlipsInv
        <5>3. Cardinality(DOMAIN young \cup {f}) <= Room
          BY <4>1, <4>2, <5>1, <5>2, FitsOneMore
        <5> QED BY <4>4, <5>3
      <4>6. ASSUME NEW g \in DOMAIN young
            PROVE  /\ disCorrelator'.frames[g] = disCorrelator.frames[g]
                   /\ g \in DOMAIN disFlips'
                   /\ DOMAIN disCorrelator'.frames[g] = FrameFields
                   /\ disCorrelator'.frames[g].tokens \in Seq(Nat)
                   /\ disCorrelator'.frames[g].sequence # 0 =>
                        /\ disCorrelator'.frames[g].sequence \in g .. Len(disFlips')
                        /\ disFlips'[disCorrelator'.frames[g].sequence] # "flipped"
                        /\ disWhole' => disCorrelator'.frames[g].sequence = g
                   /\ disWhole' /\ disCorrelator'.frames[g].sequence = 0 =>
                        disFlips'[g] = "flipped"
        <5>1. /\ g \in DOMAIN disCorrelator.frames /\ g \in DOMAIN disFlips
              /\ DOMAIN disCorrelator.frames[g] = FrameFields
              /\ disCorrelator.frames[g].tokens \in Seq(Nat)
              /\ disCorrelator.frames[g].sequence # 0 =>
                   /\ disCorrelator.frames[g].sequence \in g .. Len(disFlips)
                   /\ disFlips[disCorrelator.frames[g].sequence] # "flipped"
                   /\ disWhole => disCorrelator.frames[g].sequence = g
              /\ disWhole => disCorrelator.frames[g].sequence # 0
          BY <1>1, <4>1 DEF DisplayInv, FlipsInv
        <5>2. disCorrelator'.frames[g] = disCorrelator.frames[g]
          BY <1>3, <4>1, <4>4, <5>1
        <5>3. disCorrelator.frames[g].sequence # 0 =>
                /\ disCorrelator.frames[g].sequence \in DOMAIN disFlips
                /\ disCorrelator.frames[g].sequence \in g .. Len(disFlips')
          BY <1>2, <1>3, <1>5, <5>1
        <5> QED BY <1>1, <1>5, <5>1, <5>2, <5>3
      <4>7. /\ f \in DOMAIN disFlips' /\ DOMAIN disCorrelator'.frames[f] = FrameFields
            /\ disCorrelator'.frames[f].tokens = disCorrelator.waiting
            /\ disCorrelator'.frames[f].tokens \in Seq(Nat)
            /\ disCorrelator'.frames[f].sequence = 0 /\ disFlips'[f] = "flipped"
        BY <1>3, <1>5, <4>3, <4>4 DEF DisplayInv, WaitingInv
      <4>8. ASSUME NEW k, NEW g \in DOMAIN young, Flipped(k, g)
            PROVE  /\ k \in DOMAIN disReal'
                   /\ disReal'[k].token = "taken" /\ disReal'[k].flip \in 1 .. g
                   /\ disWhole' => disReal'[k].flip = g
        BY <1>12, <4>8 DEF Flipped, WorldMoves
      <4>9. ASSUME NEW k, Awaits(k)
            PROVE  /\ k \in DOMAIN disReal'
                   /\ disReal'[k].token = "taken" /\ disReal'[k].flip \in 1 .. f
                   /\ disWhole' => disReal'[k].flip = f
        <5>1. CASE disReal[k].token = "updated"
          BY <1>3, <1>7, <4>9, <5>1 DEF Awaits
        <5>2. CASE disReal[k].token = "taken"
          <6>1. /\ k \in DOMAIN disReal /\ disReal[k].flip # 0 /\ ~disWhole
            BY <4>9, <5>2 DEF Awaits
          <6>2. disReal[k].flip \in Nat /\ disReal[k].flip <= Len(disFlips)
            BY <1>2, <6>1 DEF RealPresents, DisplayInv, ScreenInv
          <6>3. disReal[k].flip \in 1 .. f
            BY <1>2, <1>3, <6>1, <6>2
          <6> QED BY <1>1, <1>7, <5>2, <6>1, <6>3
        <5> QED BY <4>9, <5>1, <5>2 DEF Awaits
      <4>10. ASSUME NEW g \in DOMAIN disCorrelator'.frames,
                    NEW i \in DOMAIN disCorrelator'.frames[g].tokens
             PROVE  Flipped(disCorrelator.frames[g].tokens[i], g)'
        <5>1. CASE g = f
          <6>1. i \in DOMAIN disCorrelator.waiting
                /\ disCorrelator'.frames[g].tokens[i] = disCorrelator.waiting[i]
            BY <4>7, <5>1
          <6>2. Awaits(disCorrelator.waiting[i])
            BY <6>1 DEF DisplayInv, WaitingInv
          <6> QED BY <4>9, <5>1, <6>1, <6>2 DEF Flipped
        <5>2. CASE g \in DOMAIN young
          <6>1. i \in DOMAIN disCorrelator.frames[g].tokens
                /\ disCorrelator'.frames[g].tokens[i] = disCorrelator.frames[g].tokens[i]
            BY <4>6, <5>2
          <6>2. Flipped(disCorrelator.frames[g].tokens[i], g)
            BY <4>1, <5>2, <6>1 DEF DisplayInv, FlipsInv
          <6> QED BY <4>8, <5>2, <6>1, <6>2 DEF Flipped
        <5> QED BY <4>4, <5>1, <5>2
      <4>11. DOMAIN disCorrelator'.frames \subseteq DOMAIN disFlips'
        BY <4>4, <4>6, <4>7
      <4> QED BY <4>4, <4>5, <4>6, <4>7, <4>10, <4>11 DEF FlipsInv
    <3>7. DwmInv'
      BY <1>1, <1>4, <2>4, <3>1 DEF DwmInv
    <3>8. CountedInv'
      BY <1>1, <1>10, <1>12, <3>3, CountedKept
    <3>9. Display!Hears'
      BY <1>1, <1>14, <3>1 DEF Display!Hears
    <3>10. CorrelatorInv'
      BY <3>2, <3>4, <3>5, <3>6, <3>7, <3>9 DEF CorrelatorInv
    <3> QED BY <1>10, <1>11, <3>8, <3>10, Assembled
  <2> QED BY <1>2, <1>14, <2>1, <2>3, <2>4, FlippedByDwm
<1> QED BY <1>13, <1>14

(* What the display shows is counted once, with the flip that held it.     *)
LEMMA ShowDisplayed ==
  ASSUME DisplayAssumption, DisplayInv, NEW f \in DOMAIN disFlips, Display!Show(f)
  PROVE  DisplayInv'
<1> DEFINE shown == IF Display!Hears /\ ~disDirect THEN Display!Displayed(disCorrelator, f) ELSE {}
           new == {[present |-> k, flip |-> f, surface |-> disCorrelator.tokens[k].surface] :
                     k \in shown}
<1>1. /\ disFlips[f] = "queued" /\ disFlips' = [disFlips EXCEPT ![f] = "shown"]
      /\ disCorrelator' = IF Display!Hears THEN Display!VSync(disCorrelator, f)
                                           ELSE disCorrelator
      /\ disCounted' = disCounted \cup new
      /\ UNCHANGED <<disReal, disDwm, disOn, disWhole>>
  BY DEF Display!Show
<1>2. /\ DOMAIN disFlips = 1 .. Len(disFlips) /\ Len(disFlips) \in Nat
      /\ disFlips \in Seq(FlipStages) /\ f \in Nat /\ f # 0
      /\ Len(disFlips) <= MaxFlips
      /\ DOMAIN disReal = 1 .. Len(disReal) /\ Len(disReal) \in Nat /\ Len(disReal) <= MaxPresents
      /\ DOMAIN disCorrelator = CorrelatorFields
      /\ \A g \in DOMAIN disCorrelator.frames : DOMAIN disCorrelator.frames[g] = FrameFields
      /\ \A k \in DOMAIN disCorrelator.tokens : DOMAIN disCorrelator.tokens[k] = TokenFields
  BY Lengths DEF DisplayInv, DisplayTypes, FlipsInv, TokensInv
<1>3. /\ shown \subseteq Display!Displayed(disCorrelator, f)
      /\ ~Display!Hears \/ Display!Displayed(disCorrelator, f) = {} => shown = {}
      /\ \A x \in new : \E k \in shown :
           /\ x = [present |-> k, flip |-> f, surface |-> disCorrelator.tokens[k].surface]
           /\ x.present = k /\ x.flip = f /\ x.surface = disCorrelator.tokens[k].surface
      /\ shown = {} => new = {}
  OBVIOUS
<1> HIDE DEF shown, new
<1>4. /\ disFlips' \in Seq(FlipStages) /\ Len(disFlips') = Len(disFlips)
      /\ DOMAIN disFlips' = DOMAIN disFlips /\ disFlips'[f] = "shown"
      /\ \A g \in DOMAIN disFlips : g # f => disFlips'[g] = disFlips[g]
  BY <1>1, <1>2, ExceptSeq DEF FlipStages
<1>5. \A g \in DOMAIN disFlips :
        /\ disFlips'[g] = "flipped" <=> disFlips[g] = "flipped"
        /\ disFlips[g] = "shown" => disFlips'[g] = "shown"
  BY <1>1, <1>4
<1>6. DOMAIN disCorrelator' = CorrelatorFields
  <2>1. CASE disCorrelator' = Display!VSync(disCorrelator, f)
    <3>1. \A k \in DOMAIN disCorrelator.tokens : DOMAIN disCorrelator.tokens[k] = TokenFields
      BY <1>2
    <3>2. DOMAIN disCorrelator = CorrelatorFields
      BY <1>2
    <3>3. disCorrelator' = disCorrelator
          \/ \E g : ShownFrom(disCorrelator, disCorrelator', f, g)
      BY <2>1, <3>1, <3>2, ShownByDisplay
    <3> QED BY <3>2, <3>3 DEF ShownFrom
  <2> QED BY <1>1, <1>2, <2>1
<1>7. DisplayTypes' /\ ScreenInv' /\ WorldMoves
  <2>1. Len(disFlips) <= Len(disFlips')
    BY <1>2, <1>4
  <2>2. DisplayTypes'
    BY <1>1, <1>4, <1>6 DEF DisplayInv, DisplayTypes
  <2>3. ScreenInv'
    <3>1. disOn
      BY <1>2 DEF DisplayInv, ScreenInv
    <3> QED BY <1>1, <1>4, <1>5, <3>1 DEF DisplayInv, ScreenInv
  <2>4. WorldMoves
    BY <1>1, <1>4, <1>5, <2>1 DEF WorldMoves
  <2> QED BY <2>2, <2>3, <2>4
<1>8. CASE ~Display!Hears
  <2>1. disCounted' = disCounted /\ disCorrelator' = disCorrelator
    BY <1>1, <1>3, <1>8
  <2> QED BY <1>7, <1>8, <2>1, Unheard, Assembled
<1>9. CASE Display!Hears
  <2>1. disCorrelator' = Display!VSync(disCorrelator, f)
    BY <1>1, <1>9
  <2>2. CASE disCorrelator' = disCorrelator /\ Display!Displayed(disCorrelator, f) = {}
    <3>1. disCounted' = disCounted
      BY <1>1, <1>3, <2>2
    <3>2. CandsInv' /\ TokensInv' /\ WaitingInv' /\ CountedInv'
      BY <1>1, <1>7, <2>2, <3>1, TablesKept
    <3>3. FlipsInv'
      <4>1. \A g \in DOMAIN disCorrelator.frames :
              /\ DOMAIN disCorrelator.frames[g] = FrameFields
              /\ disFlips[g] = "flipped" => disFlips'[g] = "flipped"
        BY <1>5 DEF DisplayInv, FlipsInv
      <4> QED BY <1>7, <2>2, <4>1, FlipsKept
    <3>4. DwmInv'
      BY <1>1, <1>4, <1>5, <1>7, <2>2, DwmKept
    <3>5. Display!Hears'
      BY <1>1, <1>9, <2>2 DEF Display!Hears
    <3>6. CorrelatorInv'
      BY <3>2, <3>3, <3>4, <3>5 DEF CorrelatorInv
    <3> QED BY <1>7, <3>2, <3>6, Assembled
  <2>3. CASE ~(disCorrelator' = disCorrelator /\ Display!Displayed(disCorrelator, f) = {})
    <3> DEFINE displayed == Display!Displayed(disCorrelator, f)
    <3>1. PICK g \in Display!Queued(disCorrelator, f) :
            /\ disCorrelator'.healthy = disCorrelator.healthy
            /\ disCorrelator'.cands = disCorrelator.cands
            /\ disCorrelator'.calls = disCorrelator.calls
            /\ disCorrelator'.waiting = disCorrelator.waiting
            /\ disCorrelator'.dwm = disCorrelator.dwm
            /\ disCorrelator'.frames = Display!Without(disCorrelator.frames, g)
            /\ DOMAIN disCorrelator'.tokens = DOMAIN disCorrelator.tokens
            /\ \A k \in DOMAIN disCorrelator.tokens :
                 /\ DOMAIN disCorrelator'.tokens[k] = TokenFields
                 /\ disCorrelator'.tokens[k].surface = disCorrelator.tokens[k].surface
                 /\ disCorrelator'.tokens[k].inFrame = disCorrelator.tokens[k].inFrame
                 /\ disCorrelator.tokens[k].displayed = TRUE =>
                      disCorrelator'.tokens[k].displayed = TRUE
                 /\ k \in displayed => disCorrelator'.tokens[k].displayed = TRUE
            /\ \A k \in displayed :
                 \E i \in DOMAIN disCorrelator.frames[g].tokens :
                   /\ k = disCorrelator.frames[g].tokens[i]
                   /\ Display!Visible(disCorrelator, k)
                   /\ disCorrelator.tokens[k].displayed # TRUE
                   /\ ~Display!Superseded(disCorrelator, disCorrelator.frames[g].tokens, i)
      <4>1. \A k \in DOMAIN disCorrelator.tokens :
              DOMAIN disCorrelator.tokens[k] = TokenFields
        BY <1>2
      <4>2. DOMAIN disCorrelator = CorrelatorFields
        BY <1>2
      <4>3. PICK g \in Display!Queued(disCorrelator, f) :
              ShownFrom(disCorrelator, disCorrelator', f, g)
        BY <2>1, <2>3, <4>1, <4>2, ShownByDisplay
      <4> QED BY <4>3 DEF ShownFrom
    <3> HIDE DEF displayed
    <3>2. /\ g \in DOMAIN disCorrelator.frames /\ disCorrelator.frames[g].sequence = f
      BY DEF Display!Queued
    <3>3. /\ disCorrelator.frames[g].tokens \in Seq(Nat)
          /\ \A i \in DOMAIN disCorrelator.frames[g].tokens :
               Flipped(disCorrelator.frames[g].tokens[i], g)
          /\ f \in g .. Len(disFlips) /\ (disWhole => f = g) /\ g \in Nat
      BY <1>2, <3>2 DEF DisplayInv, FlipsInv
    <3>4. CandsInv' /\ WaitingInv'
      <4>1. \A q \in DOMAIN disCorrelator.cands :
              /\ DOMAIN disCorrelator.cands[q] = CandFields
              /\ disCorrelator.cands[q].old \in BOOLEAN
        BY DEF DisplayInv, CandsInv
      <4>2. \A t \in DisplayThreads : disCorrelator.calls[t] # 0 =>
              disReal'[disCorrelator.calls[t]].call = "in"
        BY <1>1 DEF DisplayInv, CandsInv
      <4>3. disCorrelator.calls \in [DisplayThreads -> Nat]
        BY DEF DisplayInv, CandsInv
      <4>4. Trusted' => Trusted
        BY <1>1, <3>1 DEF Trusted
      <4>5. Trusted' => \A p \in DOMAIN disReal : Display!Pending(p)' =>
              /\ p \in DOMAIN disCorrelator.cands
              /\ disCorrelator.cands[p].claimed = 0 /\ ~disCorrelator.cands[p].old
        BY <1>1, <4>4 DEF DisplayInv, CandsInv, Display!Pending
      <4>6. CandsInv'
        BY <1>1, <1>7, <3>1, <4>1, <4>2, <4>3, <4>5, CandsKept
      <4>7. WaitingInv'
        BY <1>1, <1>7, <3>1, WaitingKept
      <4> QED BY <4>6, <4>7
    <3>5. TokensInv'
      BY <1>7, <3>1, TokensKept
    <3>6. FlipsInv'
      <4>1. /\ DOMAIN disCorrelator'.frames \subseteq DOMAIN disCorrelator.frames
            /\ \A h \in DOMAIN disCorrelator'.frames :
                 disCorrelator'.frames[h] = disCorrelator.frames[h]
        <5>1. disCorrelator'.frames = Display!Without(disCorrelator.frames, g)
          BY <3>1
        <5>2. DOMAIN disCorrelator'.frames = DOMAIN disCorrelator.frames \ {g}
          BY <5>1, Removals
        <5>3. \A h \in DOMAIN disCorrelator.frames :
                h # g => disCorrelator'.frames[h] = disCorrelator.frames[h]
          <6>1. \A h \in DOMAIN disCorrelator.frames :
                  h # g => Display!Without(disCorrelator.frames, g)[h] = disCorrelator.frames[h]
            BY Removals
          <6> QED BY <5>1, <6>1
        <5> QED BY <5>2, <5>3
      <4>2. \A h \in DOMAIN disCorrelator'.frames :
              DOMAIN disCorrelator'.frames[h] = FrameFields
        BY <1>2, <4>1
      <4>3. \A h \in DOMAIN disCorrelator'.frames :
              disFlips[h] = "flipped" => disFlips'[h] = "flipped"
        BY <1>5, <4>1 DEF DisplayInv, FlipsInv
      <4> QED BY <1>7, <4>1, <4>2, <4>3, FlipsKept
    <3>7. DwmInv'
      BY <1>1, <1>4, <1>5, <1>7, <3>1, DwmKept
    <3>8. CountedInv'
      <4>1. ASSUME NEW k \in shown
            PROVE  /\ k \in displayed /\ Flipped(k, f)' /\ k \in 1 .. MaxPresents
                   /\ k \in DOMAIN disCorrelator.tokens
                   /\ disCorrelator.tokens[k].displayed # TRUE
                   /\ disCorrelator.tokens[k].surface \in DisplaySurfaces
                   /\ disWhole' => disReal'[k].surface = disCorrelator.tokens[k].surface
        <5>1. k \in displayed
          BY <1>3 DEF displayed
        <5>2. PICK i \in DOMAIN disCorrelator.frames[g].tokens :
                /\ k = disCorrelator.frames[g].tokens[i] /\ Display!Visible(disCorrelator, k)
                /\ disCorrelator.tokens[k].displayed # TRUE
          BY <3>1, <5>1
        <5>3. Flipped(k, g)
          BY <3>3, <5>2
        <5>4. Flipped(k, f)
          <6>1. disReal[k].flip \in 1 .. g
            BY <5>3 DEF Flipped
          <6>2. disReal[k].flip \in 1 .. f
            BY <1>2, <3>3, <6>1
          <6> QED BY <3>3, <5>3, <6>2 DEF Flipped
        <5>5. Flipped(k, f)'
          BY <1>1, <5>4 DEF Flipped
        <5>6. /\ k \in DOMAIN disCorrelator.tokens /\ disCorrelator.tokens[k].surface # 0
          BY <5>2 DEF Display!Visible, Display!NoSurface
        <5>7. /\ disCorrelator.tokens[k].surface \in DisplaySurfaces
              /\ disWhole => disReal[k].surface = disCorrelator.tokens[k].surface
          BY <5>6 DEF DisplayInv, TokensInv
        <5>8. k \in 1 .. MaxPresents
          BY <1>2, <5>4 DEF Flipped, DisplayAssumption
        <5> QED BY <1>1, <5>1, <5>2, <5>5, <5>6, <5>7, <5>8
      <4>2. ASSUME NEW x \in new
            PROVE  /\ x \in [present : 1 .. MaxPresents, flip : 1 .. MaxFlips,
                             surface : DisplaySurfaces]
                   /\ x.present \in shown /\ x.flip = f
                   /\ x.surface = disCorrelator.tokens[x.present].surface
        <5>1. PICK k \in shown :
                /\ x = [present |-> k, flip |-> f,
                        surface |-> disCorrelator.tokens[k].surface]
                /\ x.present = k /\ x.flip = f /\ x.surface = disCorrelator.tokens[k].surface
          BY <1>3
        <5>2. k \in 1 .. MaxPresents /\ disCorrelator.tokens[k].surface \in DisplaySurfaces
          BY <4>1
        <5>3. f \in 1 .. MaxFlips
          BY <1>2 DEF DisplayAssumption
        <5> QED BY <5>1, <5>2, <5>3
      <4>3. ASSUME NEW x \in disCounted
            PROVE  /\ Flipped(x.present, x.flip)'
                   /\ disWhole' => disReal'[x.present].surface = x.surface
                   /\ x.flip \in DOMAIN disFlips' /\ disFlips'[x.flip] = "shown"
                   /\ x.present \in DOMAIN disCorrelator'.tokens
                      => disCorrelator'.tokens[x.present].displayed = TRUE
        <5>1. /\ Flipped(x.present, x.flip)
              /\ disWhole => disReal[x.present].surface = x.surface
              /\ x.flip \in DOMAIN disFlips /\ disFlips[x.flip] = "shown"
              /\ x.present \in DOMAIN disCorrelator.tokens
                 => disCorrelator.tokens[x.present].displayed = TRUE
          BY DEF DisplayInv, CountedInv
        <5>2. Flipped(x.present, x.flip)'
          BY <1>1, <5>1 DEF Flipped
        <5> QED BY <1>1, <1>4, <1>5, <3>1, <5>1, <5>2
      <4>4. ASSUME NEW x \in new
            PROVE  /\ Flipped(x.present, x.flip)'
                   /\ disWhole' => disReal'[x.present].surface = x.surface
                   /\ x.flip \in DOMAIN disFlips' /\ disFlips'[x.flip] = "shown"
                   /\ disCorrelator'.tokens[x.present].displayed = TRUE
        <5>1. x.present \in shown /\ x.flip = f
              /\ x.surface = disCorrelator.tokens[x.present].surface
          BY <4>2
        <5> QED BY <1>4, <3>1, <4>1, <5>1
      <4>5. ASSUME NEW x \in disCounted, NEW y \in new
            PROVE  x.present # y.present /\ x.flip # y.flip
        <5>1. /\ disFlips[x.flip] = "shown"
              /\ x.present \in DOMAIN disCorrelator.tokens
                 => disCorrelator.tokens[x.present].displayed = TRUE
          BY DEF DisplayInv, CountedInv
        <5>2. y.present \in shown /\ y.flip = f
          BY <4>2
        <5> QED BY <1>1, <4>1, <5>1, <5>2
      <4>6. ASSUME NEW x \in new, NEW y \in new, x # y
            PROVE  x.present # y.present /\ x.surface # y.surface
        <5>1. x.present # y.present
          BY <1>3, <4>6
        <5>2. x.surface # y.surface
          <6> DEFINE tokens == disCorrelator.frames[g].tokens
          <6>1. x.present \in displayed /\ y.present \in displayed
            BY <4>1, <4>2
          <6>2. PICK i \in DOMAIN tokens :
                  /\ x.present = tokens[i] /\ Display!Visible(disCorrelator, x.present)
                  /\ ~Display!Superseded(disCorrelator, tokens, i)
            BY <3>1, <6>1
          <6>3. PICK j \in DOMAIN tokens :
                  /\ y.present = tokens[j] /\ Display!Visible(disCorrelator, y.present)
                  /\ ~Display!Superseded(disCorrelator, tokens, j)
            BY <3>1, <6>1
          <6>4. /\ x.surface = disCorrelator.tokens[tokens[i]].surface
                /\ y.surface = disCorrelator.tokens[tokens[j]].surface
            BY <4>2, <6>2, <6>3
          <6>5. /\ tokens[i] \in DOMAIN disCorrelator.tokens
                /\ disCorrelator.tokens[tokens[i]].accepted
                /\ ~disCorrelator.tokens[tokens[i]].discarded
                /\ tokens[j] \in DOMAIN disCorrelator.tokens
                /\ disCorrelator.tokens[tokens[j]].accepted
                /\ ~disCorrelator.tokens[tokens[j]].discarded
            BY <6>2, <6>3 DEF Display!Visible
          <6>6. DOMAIN tokens = 1 .. Len(tokens) /\ Len(tokens) \in Nat
            BY <3>3
          <6> HIDE DEF tokens
          <6>7. i # j
            BY <5>1, <6>2, <6>3
          <6>8. i \in j + 1 .. Len(tokens) \/ j \in i + 1 .. Len(tokens)
            BY <6>6, <6>7
          <6>9. CASE j \in i + 1 .. Len(tokens)
            BY <6>2, <6>4, <6>5, <6>9 DEF Display!Superseded
          <6>10. CASE i \in j + 1 .. Len(tokens)
            BY <6>3, <6>4, <6>5, <6>10 DEF Display!Superseded
          <6> QED BY <6>8, <6>9, <6>10
        <5> QED BY <5>1, <5>2
      <4>7. disCounted' = disCounted \cup new
        BY <1>1
      <4>8. \A x, y \in disCounted' :
              x # y => x.present # y.present /\ <<x.flip, x.surface>> # <<y.flip, y.surface>>
        <5>1. \A x, y \in disCounted :
                x # y => x.present # y.present /\ <<x.flip, x.surface>> # <<y.flip, y.surface>>
          BY DEF DisplayInv, CountedInv
        <5>2. \A x \in disCounted, y \in new :
                x.present # y.present /\ <<x.flip, x.surface>> # <<y.flip, y.surface>>
          BY <4>5
        <5>3. \A x, y \in new :
                x # y => x.present # y.present /\ <<x.flip, x.surface>> # <<y.flip, y.surface>>
          BY <4>6
        <5> QED BY <4>7, <5>1, <5>2, <5>3
      <4>9. disOn'
        BY <1>1, <1>9 DEF Display!Hears
      <4>10. disCounted' \subseteq [present : 1 .. MaxPresents, flip : 1 .. MaxFlips,
                                    surface : DisplaySurfaces]
        BY <4>2, <4>7 DEF DisplayInv, CountedInv
      <4> QED BY <4>3, <4>4, <4>7, <4>8, <4>9, <4>10 DEF CountedInv
    <3>9. Display!Hears'
      BY <1>1, <1>9, <3>1 DEF Display!Hears
    <3>10. CorrelatorInv'
      BY <3>4, <3>5, <3>6, <3>7, <3>9 DEF CorrelatorInv
    <3> QED BY <1>7, <3>8, <3>10, Assembled
  <2> QED BY <2>2, <2>3
<1> QED BY <1>8, <1>9

LEMMA DisplayStarts == DisplayAssumption /\ Display!Init => DisplayInv
<1> SUFFICES ASSUME DisplayAssumption, Display!Init PROVE DisplayInv
  OBVIOUS
<1>1. /\ disReal = <<>> /\ disFlips = <<>> /\ disOn = FALSE /\ disWhole = TRUE
      /\ disCorrelator = Display!Fresh /\ disCounted = {}
      /\ disDwm \in [thread : {1}, scheduled : BOOLEAN]
  BY DEF Display!Init
<1>2. disDwm \in [thread : {1, 2}, scheduled : BOOLEAN]
  BY <1>1
<1>3. /\ disReal \in Seq(RealPresents) /\ Len(disReal) = 0 /\ DOMAIN disReal = {}
      /\ disFlips \in Seq(FlipStages) /\ Len(disFlips) = 0 /\ DOMAIN disFlips = {}
  BY <1>1
<1>4. DisplayTypes /\ ScreenInv
  <2>1. DOMAIN disCorrelator = CorrelatorFields
    BY <1>1, FreshIsEmpty
  <2>2. 0 <= MaxPresents /\ 0 <= MaxFlips
    BY DEF DisplayAssumption
  <2>3. disOn \in BOOLEAN /\ disWhole \in BOOLEAN
    BY <1>1
  <2> QED BY <1>1, <1>2, <1>3, <2>1, <2>2, <2>3 DEF DisplayTypes, ScreenInv
<1>5. CorrelatorInv
  <2>1. Unpaired
    BY <1>1, FreshIsEmpty DEF Unpaired, Trusted
  <2> QED BY <2>1, EmptyHolds
<1>6. CountedInv
  BY <1>1 DEF CountedInv
<1> QED BY <1>4, <1>5, <1>6 DEF DisplayInv, CorrelatorInv

LEMMA DisplayStutters ==
  ASSUME DisplayInv, UNCHANGED Display!vars PROVE DisplayInv'
BY DEF DisplayInv, DisplayTypes, ScreenInv, Empty, Trusted, CandsInv, TokensInv, Awaits,
       WaitingInv, Flipped, FlipsInv, DwmInv, CountedInv, Display!Hears, Display!Pending,
       Display!vars, Display!screen, Display!session

LEMMA DisplayStep ==
  ASSUME DisplayAssumption, DisplayInv, Display!Next PROVE DisplayInv'
<1>1. ASSUME NEW th \in DisplayThreads, NEW s \in DisplaySurfaces, Display!Present(th, s)
      PROVE  DisplayInv'
  BY <1>1, PresentDisplayed
<1>2. ASSUME NEW p \in DOMAIN disReal,
             \/ \E outcome \in {"ok", "failed"} : Display!Return(p, outcome)
             \/ Display!MakeToken(p)
             \/ \E independent \in BOOLEAN : Display!EnterFrame(p, independent)
             \/ Display!DiscardToken(p)
             \/ Display!Update(p)
      PROVE  DisplayInv'
  BY <1>2, ReturnDisplayed, MakeTokenDisplayed, EnterFrameDisplayed, DiscardDisplayed,
     UpdateDisplayed
<1>3. ASSUME NEW f \in DOMAIN disFlips, Display!Queue(f) \/ Display!Show(f)
      PROVE  DisplayInv'
  BY <1>3, QueueDisplayed, ShowDisplayed
<1> QED BY <1>1, <1>2, <1>3, TraceBeginsDisplayed, ScheduleDisplayed, FlipDisplayed,
           DwmRestartsDisplayed, GapDisplayed DEF Display!Next

(* The pairing that is promised, and the types.                            *)
LEMMA DisplayFollows ==
  ASSUME DisplayAssumption, DisplayInv PROVE Display!TypeOK /\ Display!FlipsPaired
<1>1. Display!FlipsPaired
  BY DEF DisplayInv, CountedInv, ScreenInv, Flipped, Display!FlipsPaired
<1>2. /\ DOMAIN disReal \subseteq 1 .. MaxPresents /\ Len(disFlips) <= MaxFlips
      /\ Len(disFlips) \in Nat
  BY Lengths DEF DisplayInv, DisplayTypes, DisplayAssumption
<1>3. \A p \in DOMAIN disReal :
        /\ disReal[p].call \in {"in", "ok", "failed"}
        /\ disReal[p].token \in {"none", "made", "framed", "direct", "updated", "taken", "dead"}
        /\ disReal[p].flip \in 0 .. Len(disFlips)
  <2>1. \A p \in DOMAIN disReal : disReal[p] \in RealPresents
    BY Lengths DEF DisplayInv
  <2>2. \A p \in DOMAIN disReal : disReal[p].flip <= Len(disFlips)
    BY DEF DisplayInv, ScreenInv
  <2> QED BY <1>2, <2>1, <2>2 DEF RealPresents, TokenStages
<1>4. /\ Display!Cardinality(DOMAIN disCorrelator.cands) <= Room
      /\ Display!Cardinality(DOMAIN disCorrelator.tokens) <= Room
      /\ Display!Cardinality(DOMAIN disCorrelator.frames) <= Room
      /\ Len(disCorrelator.waiting) <= Room
  BY DisplayCardinality DEF DisplayInv, CandsInv, TokensInv, FlipsInv, WaitingInv
<1>5. disCounted \subseteq [present : 1 .. MaxPresents, flip : 1 .. MaxFlips,
                            surface : DisplaySurfaces]
  BY DEF DisplayInv, CountedInv
<1> QED BY <1>1, <1>2, <1>3, <1>4, <1>5 DEF Display!TypeOK, Display!Presents

(* For every program, compositor and display, and whatever the providers   *)
(* lose or deliver late: every frame that is counted was on the screen in  *)
(* that flip, on that surface, and no present is counted twice             *)
(* (display_correlator.hpp).                                               *)
THEOREM PairedAlways == ASSUME DisplayAssumption PROVE Display!Spec => []Display!FlipsPaired
<1>1. Display!Init => DisplayInv
  BY DisplayStarts
<1>2. DisplayInv /\ [Display!Next]_Display!vars => DisplayInv'
  BY DisplayStep, DisplayStutters
<1>3. DisplayInv => Display!FlipsPaired
  BY DisplayFollows
<1> QED BY <1>1, <1>2, <1>3, PTL DEF Display!Spec

-----------------------------------------------------------------------------
(* The parts together, under the assumptions made for each.                *)
ASSUME CoreAssumption ==
  /\ DrawAssumption /\ CardAssumption /\ CadenceAssumption /\ Limits!LimitsAssumption
  /\ PlacementAssumption /\ PlayAssumption /\ NetworkAssumption /\ PathAssumption
  /\ DisplayAssumption

(* A step of the composition is one of the part chosen, or none.           *)
LEMMA OfOnePart ==
  ASSUME [CoreNext]_core
  PROVE  /\ part' = part
         /\ part = "draw" => [Draw!Next]_(Draw!draw)
         /\ part = "card" => [Card!Next]_(Card!vars)
         /\ part = "cadence" => [Cadence!Next]_(Cadence!vars)
         /\ part = "limits" => [Limits!Next]_(Limits!vars)
         /\ part = "placement" => [Placement!Next]_(Placement!vars)
         /\ part = "play" => [Play!Next]_(Play!vars)
         /\ part = "network" => [Network!Next]_(Network!vars)
         /\ part = "path" => [Path!Next]_(Path!vars)
         /\ part = "display" => [Display!Next]_(Display!vars)
<1>1. CASE CoreNext
  BY <1>1 DEF CoreNext
<1>2. CASE UNCHANGED core
  <2>1. UNCHANGED <<part, draw, card, cadence, limits, placement, play, network, path, display>>
    BY <1>2 DEF core, guard, desktop
  <2>2. UNCHANGED Draw!draw
    BY <2>1 DEF draw, Draw!draw, Draw!hook, Draw!renderer, Draw!gpu
  <2>3. UNCHANGED Card!vars
    BY <2>1 DEF card, Card!vars, Card!binding, Card!writing
  <2>4. UNCHANGED Cadence!vars
    BY <2>1 DEF cadence, Cadence!vars
  <2>5. UNCHANGED Limits!vars
    BY <2>1 DEF limits, Limits!vars
  <2>6. UNCHANGED Placement!vars
    BY <2>1 DEF placement, Placement!vars
  <2>7. UNCHANGED Play!vars
    BY <2>1 DEF play, Play!vars, Play!clock
  <2>8. UNCHANGED Network!vars
    BY <2>1 DEF network, Network!vars, Network!machine, Network!sampler, Network!history
  <2>9. UNCHANGED Path!vars
    BY <2>1 DEF path, Path!vars, Path!stack, Path!probe
  <2>10. UNCHANGED Display!vars
    BY <2>1 DEF display, Display!vars, Display!screen, Display!session
  <2> QED BY <2>1, <2>2, <2>3, <2>4, <2>5, <2>6, <2>7, <2>8, <2>9, <2>10
<1> QED BY <1>1, <1>2

(* Whatever threads of the game call Present, ResizeBuffers and            *)
(* SetColorSpace1, and however their calls interleave: when the game       *)
(* resizes the chain the overlay draws on, the overlay holds none of its   *)
(* buffers, or the resize was not let through the gate; and SDR is drawn   *)
(* only on a chain that is SDR, or that was told nothing since the hooks   *)
(* came to it, be it PQ or not, if it is not a 10-bit one under the strict *)
(* policy (product_overlay_hook.cpp, d3d12_color_transition.hpp).          *)
THEOREM DrawingGoesUnnoticed == CoreSpec => []DrawsUnnoticed
<1> DEFINE Inv == part = "draw" => DrawInv
<1>1. CoreInit => Inv
  BY CoreAssumption, DrawInitially DEF CoreInit
<1>2. Inv /\ [CoreNext]_core => Inv'
  BY CoreAssumption, OfOnePart, DrawStep
<1>3. Inv => DrawsUnnoticed
  BY DrawFollows DEF DrawsUnnoticed
<1> QED BY <1>1, <1>2, <1>3, PTL DEF CoreSpec

(* For every list of cards, every clamp and every write of another tool,   *)
(* every lateness of the thread and of the driver, and every card nobody   *)
(* configured: a write reported as verified was in force on the protected  *)
(* card and no other card was written; every slot of the sensor was        *)
(* answered or counted as missed exactly once; and a limit is raised only  *)
(* as far as the user, another tool or the built-in fallback of the        *)
(* program goes.  That fallback is a number nobody asked for, and a guard  *)
(* with proposed limits writes before the user has pressed Save & Apply:   *)
(* neither is excluded here (nvml_loader.cpp, protection_timing.hpp,       *)
(* power_envelope.hpp and main_dialog.cpp; NothingBeforeSave).             *)
THEOREM SensingIsTrue == CoreSpec => []SensedAndWritten
<1> DEFINE Inv == /\ part = "card" => CardInv
                  /\ part = "cadence" => CadenceInv
                  /\ part = "limits" => LimitsInv
<1>1. CoreInit => Inv
  BY CoreAssumption, CardInitially, CadenceInitially, LimitsInitially DEF CoreInit
<1>2. Inv /\ [CoreNext]_core => Inv'
  BY CoreAssumption, OfOnePart, CardStep, CadenceStep, LimitsStep
<1>3. Inv => SensedAndWritten
  BY CoreAssumption, CardFollows, CadenceFollows, LimitsFollow DEF SensedAndWritten
<1> QED BY <1>1, <1>2, <1>3, PTL DEF CoreSpec

(* For all arrangements of screens with a scale each, programs, adapters,  *)
(* connections and displays: the OSD follows the hand that drags it, and   *)
(* is found again where a normal exit left it on a screen of the primary   *)
(* one's scale; a program is credited with the time of its present turn    *)
(* and nobody else's; a rate of the network is of one adapter, and of the  *)
(* one the route goes through; a verdict counts what its connections met   *)
(* while they were watched, unless a read of their counters failed; and a  *)
(* frame that is counted was displayed, once (osd_placement.hpp,           *)
(* play_clock.hpp, throughput_win32.cpp, estats_win32.cpp, verdict.hpp,    *)
(* display_correlator.hpp).                                                *)
THEOREM DesktopIsTrue == CoreSpec => KeptAndCounted
<1> DEFINE Inv == /\ part = "placement" => PlacementInv
                  /\ part = "play" => PlayInv
                  /\ part = "network" => NetworkInv
                  /\ part = "path" => PathInv
                  /\ part = "display" => DisplayInv
<1>1. CoreInit => Inv
  BY CoreAssumption, PlacementInitially, PlayInitially, NetworkInitially, PathInitially,
     DisplayStarts
  DEF CoreInit
<1>2. Inv /\ [CoreNext]_core => Inv'
  BY CoreAssumption, OfOnePart, PlacementStep, PlayStep, NetworkStep, PathStep, DisplayStep,
     DisplayStutters
<1>3. Inv => /\ part = "play" => Play!PlayTimeIsEarned
             /\ part = "network" => Network!NetworkHolds
             /\ part = "path" => Path!VerdictHolds
             /\ part = "display" => Display!TypeOK /\ Display!FlipsPaired
  BY CoreAssumption, DisplayFollows DEF PlayInv, NetworkInv, PathInv
<1>4. Inv /\ [CoreNext]_core
        => [part = "placement" => Placement!NeverStuck /\ Placement!Reopens]_placement
  <2> SUFFICES ASSUME Inv, [CoreNext]_core, part = "placement", ~UNCHANGED placement
               PROVE  Placement!NeverStuck /\ Placement!Reopens
    OBVIOUS
  <2>1. Placement!Next
    BY OfOnePart DEF placement, Placement!vars
  <2> QED BY <2>1, CoreAssumption, FollowsTheHand, ReopensThere
<1> QED BY <1>1, <1>2, <1>3, <1>4, PTL DEF CoreSpec, KeptAndCounted
=============================================================================
