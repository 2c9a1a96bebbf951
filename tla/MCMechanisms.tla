----------------------------- MODULE MCMechanisms -----------------------------
(***************************************************************************)
(* What may never happen in parts that share no state with each other: the *)
(* nine of ProvedMechanisms (the overlay's drawing, the card, the samples  *)
(* of its sensor, the limits proposed for it, the desktop OSD's place, the *)
(* time played, the network's figures and the frames that were displayed)  *)
(* and the seven of OverlayProofs (the overlay's resources, what it draws  *)
(* on, how it gets into the game), which this module extends; the frame    *)
(* rate (FrameRateWindow) and its curve (FrameRateHistory); the            *)
(* arrangement of the desktop OSD (CompactArrangement).  A behaviour is    *)
(* one of the part chosen at its start.                                    *)
(***************************************************************************)
EXTENDS OverlayProofs

CONSTANT Parts   (* the parts to check *)

VARIABLES
  layout, shown, dragged,
  rateTarget, rateNow, rateMeasure, rateLastShown, ratePresents, rateDenseRun,
  rateSparse, rateWindow, rateSeen, rateFrames, rateResets,
  curveEnabled, curveNow, curveSamples

compact == <<layout, shown, dragged>>
rate == <<rateTarget, rateNow, rateMeasure, rateLastShown, ratePresents, rateDenseRun,
          rateSparse, rateWindow, rateSeen, rateFrames, rateResets>>
curve == <<curveEnabled, curveNow, curveSamples>>

(* The frame rate.                                                         *)
fps == <<rate, curve>>
all == <<core, inGame, attach, fps, compact>>

(* Words of the registry: the default, one of another build, one that says *)
(* a record twice, and an order with two rows.                             *)
Word(tag, indices, breaks) == [format |-> tag, indices |-> indices, breaks |-> breaks]

Compact == INSTANCE CompactArrangement WITH
  Records <- <<"T", "P", "R", "F">>, Optional <- {"R", "F"},
  DragX <- {-36, 30, 80}, DragY <- {-30, 0, 26},
  Words <- {Word(1, <<1, 2, 3, 4>>, {}), Word(0, <<1, 2, 3, 4>>, {}),
            Word(1, <<1, 1, 2, 3>>, {}), Word(1, <<4, 1, 2, 3>>, {2})}

Rate == INSTANCE FrameRateWindow WITH
  Programs <- {"game"}, Surfaces <- {"s1", "s2", "s3"}, Windows <- {"w"},
  Span <- 1, Stale <- 1, Hold <- 1, Gap <- 1, SparsePresents <- 1, RecoveryRun <- 1,
  MinSpan <- 1, MinSamples <- 3, FrameCapacity <- 2, SurfaceCapacity <- 2,
  MaxTime <- 3, MaxFrames <- 5, MaxResets <- 1,
  target <- rateTarget, now <- rateNow, measure <- rateMeasure,
  lastShown <- rateLastShown, presents <- ratePresents, denseRun <- rateDenseRun,
  sparse <- rateSparse, window <- rateWindow, seen <- rateSeen, frames <- rateFrames,
  resets <- rateResets

Curve == INSTANCE FrameRateHistory WITH
  Programs <- {"a", "b"}, Surfaces <- {"s"}, None <- Nothing,
  Retained <- 3, MaxSamples <- 3, Near <- 1, MaxTime <- 4,
  enabled <- curveEnabled, now <- curveNow, samples <- curveSamples

-----------------------------------------------------------------------------
(* Values of the constants of ProvedMechanisms.  A limit that no card      *)
(* accepts is among those asked for; a card nobody configured has a stock  *)
(* limit below, at or above the limit in force, and a slowdown point that  *)
(* makes a trigger, one that makes none, or none.                          *)
AllLimits == 1 .. 3
LowLimits == [k \in Cards |-> 1 .. 2]

Limited(from, to, stock, slowdown) ==
  [minimum |-> from, maximum |-> to, default |-> stock, slowdown |-> slowdown]

ThreeCards  == {Limited(1, 3, 2, 90), Limited(1, 2, 2, 30), Limited(2, 3, 3, 0)}
BuiltInPair == [normal |-> 3, safe |-> 2, trigger |-> 85]

(* One screen, or one that is half as wide and a second of twice the       *)
(* scale beside it; the window is 1 or 2 wide.                             *)
Screen(from, to, scale) == [left |-> from, right |-> to, scale |-> scale]

OneOrTwoScreens == {{Screen(0, 2, 1)}, {Screen(0, 1, 1), Screen(1, 3, 2)}}
OneOrTwoWide == [small |-> [folded \in BOOLEAN |-> 1],
                 big |-> [folded \in BOOLEAN |-> IF folded THEN 1 ELSE 2]]

(* The second adapter has counted before.                                  *)
CountedBefore == [a |-> 0, b |-> 1]

(* Values of the constants of OverlayProofs.  What a chain says of each    *)
(* backend: one that could be drawn on with either is among them.          *)
Evidence(eleven, twelve, interop) == [d3d11 |-> eleven, d3d12 |-> twelve, interop |-> interop]

ThreeChains ==
  [main |-> [evidence |-> Evidence("absent", "present", "absent"), device |-> "d"],
   second |-> [evidence |-> Evidence("absent", "present", "absent"), device |-> "e"],
   mixed |-> [evidence |-> Evidence("present", "absent", "present"), device |-> "d"]]
TwoQueues ==
  [q |-> [device |-> "d", direct |-> TRUE], r |-> [device |-> "d", direct |-> TRUE]]
TwoKinds == {<<"d1", "w1">>, <<"d1", "w2">>}

-----------------------------------------------------------------------------
(* A part that was not chosen has no state.                                *)
MechanismsInit ==
  /\ part \in Parts
  /\ CoreInit
  /\ OverlayInit
  /\ IF part = "rate" THEN Rate!Init
     ELSE /\ rateTarget = Absent /\ rateNow = Absent /\ rateMeasure = Absent
          /\ rateLastShown = Absent /\ ratePresents = Absent /\ rateDenseRun = Absent
          /\ rateSparse = Absent /\ rateWindow = Absent /\ rateSeen = Absent /\ rateFrames = Absent
          /\ rateResets = Absent
  /\ IF part = "curve" THEN Curve!Init
     ELSE /\ curveEnabled = Absent /\ curveNow = Absent /\ curveSamples = Absent
  /\ IF part = "compact" THEN Compact!Init
     ELSE /\ layout = Absent /\ shown = Absent /\ dragged = Absent

InRate == part = "rate" /\ UNCHANGED <<core, inGame, attach, curve, compact>>
InCurve == part = "curve" /\ UNCHANGED <<core, inGame, attach, rate, compact>>
InCompact == part = "compact" /\ UNCHANGED <<core, inGame, attach, fps>>

MechanismsNext ==
  \/ UNCHANGED <<inGame, attach, fps, compact>> /\ CoreNext
  \/ UNCHANGED <<core, fps, compact>> /\ OverlayNext
  \/ InRate /\ Rate!Next
  \/ InCurve /\ Curve!Next
  \/ InCompact /\ Compact!Next

MechanismsSpec == MechanismsInit /\ [][MechanismsNext]_all

-----------------------------------------------------------------------------
(* The properties of the parts, stated in their modules.                   *)

(* FrameRateWindow, FrameRateHistory: a rate is that of the frames, and    *)
(* the curve implies nothing that was not measured.                        *)
RatesAreTrue ==
  /\ [](part = "rate" => Rate!RateIsOfTheFrames)
  /\ [](part = "curve" => Curve!CurveIsMeasured /\ Curve!CurveIsKept)

(* FirstRunLimits: what the window says of a proposal nobody saved.        *)
NothingBeforeSave == part = "limits" => Limits!NothingBeforeSave

(* CompactArrangement: no record is ever lost, and a release does to the   *)
(* rows what its place says.                                               *)
ArrangementHolds == part = "compact" => Compact!NoRecordLost /\ Compact!DropsAsPlanned
=============================================================================
