------------------------- MODULE BackgroundProofs -------------------------
(***************************************************************************)
(* Theorems about threads that share memory without locks, or under locks  *)
(* held for one step only: the picture that the tray publishes and the     *)
(* game copies (OverlaySection), for any number of pictures, frames and    *)
(* placements; the ring of the log that must not wait (DeferredLog), for   *)
(* any capacity and any producers; the frame rate of the program in the    *)
(* foreground (FrameRateObserver), for any programs and traces; and the    *)
(* desktop OSD between the user, the games and the other windows           *)
(* (OsdPresence, OsdTopmost), for any other windows; and the gate of four  *)
(* atomics between draws and transitions (LifecycleGate), for any threads. *)
(*                                                                         *)
(* The picture.  A serial in front and one behind bracket what is written, *)
(* and are read in the opposite order.  A reader that saw the one behind,  *)
(* copied, and still finds the same one in front has copied one picture:   *)
(* whoever writes next changes the front first, and to a serial not used   *)
(* before.                                                                 *)
(*                                                                         *)
(* The log.  The ring is a window on the records admitted: what is behind  *)
(* it is written, what is in it is whole, and the one cell a producer      *)
(* fills lies in front of it.                                              *)
(*                                                                         *)
(* The rate.  The tracker is emptied before a trace begins and after one   *)
(* that lost events, so that what it holds is of one trace; a reading      *)
(* carries the name of the program it was taken from on its way through    *)
(* both locks, and the window compares that name with its own.             *)
(*                                                                         *)
(* The OSD.  Whatever ends a gesture or hides the window ends the action,  *)
(* so that an action meets neither an open lock nor a hidden window; what  *)
(* the user wants is in the window, or kept aside while a game is on.      *)
(*                                                                         *)
(* The gate.  The owner flag has one holder, the thread between its        *)
(* successful test_and_set and its clear, whichever operation it is in;    *)
(* the transition flag has one holder too, the thread that won the         *)
(* exchange, or none once the gate is disabled.  Both facts hold step by   *)
(* step; that nobody draws during a change, and that no reservation is     *)
(* orphaned, follow.                                                       *)
(***************************************************************************)
EXTENDS MCBackground, Sequences, FiniteSetTheorems, TLAPS

-----------------------------------------------------------------------------
(* The picture in shared memory.                                           *)

Painting == {"begun", "described", "painting", "painted"}

Complete(b) ==
  b.begun = b.serial /\ b.header = b.serial /\ b.upper = b.serial /\ b.lower = b.serial

(* Only the buffer that is not published is incomplete, and only while the *)
(* tray writes it.                                                         *)
BuffersInOrder ==
  /\ \A b \in {0, 1} : buffer[b].begun <= images /\ buffer[b].serial <= buffer[b].begun
  /\ Complete(buffer[index])
  /\ writer \notin Painting => Complete(buffer[Hidden])
  /\ writer \in Painting =>
       /\ buffer[Hidden].begun = images /\ buffer[Hidden].serial < images
       /\ writer # "begun" => buffer[Hidden].header = images
       /\ writer \in {"painting", "painted"} => buffer[Hidden].upper = images
       /\ writer = "painted" => buffer[Hidden].lower = images

SpotInOrder ==
  /\ spot.begun <= placements /\ spot.serial <= spot.begun
  /\ writer = "placing" => spot.begun = placements /\ spot.serial < placements
  /\ writer # "placing" =>
       spot.begun = spot.serial /\ spot.upper = spot.serial /\ spot.lower = spot.serial

(* What the reader has of a buffer is of the serial it began with, unless  *)
(* that buffer is no longer of that serial in front.                       *)
Copying == {"serial", "header", "place", "where", "fits", "stage", "half", "copied"}

CopyInOrder ==
  /\ reader \in Copying =>
       /\ copy.image.serial <= Source.begun
       /\ Whole => Source.serial = copy.image.serial
  /\ reader \in Copying \ {"serial"} /\ Whole => copy.image.header = copy.image.serial
  /\ reader \in {"half", "copied"} /\ Whole => copy.image.upper = copy.image.serial
  /\ reader = "copied" /\ Whole => copy.image.lower = copy.image.serial

PlaceInOrder ==
  /\ reader \in {"place", "where"} =>
       /\ copy.spot.serial <= spot.begun
       /\ Settled => spot.serial = copy.spot.serial
  /\ reader = "where" /\ Settled => copy.spot.upper = copy.spot.serial

Untorn ==
  /\ texture.header = texture.serial /\ texture.upper = texture.serial
  /\ texture.lower = texture.serial
  /\ held.upper = held.serial /\ held.lower = held.serial

IInv ==
  /\ TypeOK /\ BuffersInOrder /\ SpotInOrder /\ CopyInOrder /\ PlaceInOrder /\ Untorn

-----------------------------------------------------------------------------
LEMMA Initially == Init => IInv
<1> SUFFICES ASSUME Init PROVE IInv
  OBVIOUS
<1>1. 0 \in Image /\ 0 \in Placement /\ 0 \in 0 .. MaxResizes
  BY SectionAssumption DEF Image, Placement
<1>2. Empty \in Pictures /\ Nowhere \in Spots
  BY <1>1 DEF Empty, Nowhere, Pictures, Spots
<1>3. TypeOK
  BY <1>1, <1>2 DEF Init, TypeOK
<1>4. BuffersInOrder /\ SpotInOrder
  BY DEF Init, BuffersInOrder, SpotInOrder, Complete, Hidden, Painting, Empty, Nowhere
<1>5. CopyInOrder /\ PlaceInOrder /\ Untorn
  BY DEF Init, CopyInOrder, PlaceInOrder, Untorn, Copying, Empty, Nowhere
<1> QED  BY <1>3, <1>4, <1>5 DEF IInv

LEMMA Buffers ==
  ASSUME TypeOK
  PROVE  /\ index \in {0, 1} /\ Hidden \in {0, 1} /\ Hidden # index
         /\ \A b \in {0, 1} : b = index \/ b = Hidden
         /\ \A b \in {0, 1} : /\ buffer[b] \in Pictures
                               /\ buffer[b].begun \in Nat /\ buffer[b].serial \in Nat
         /\ images \in Nat /\ copy.from \in {0, 1} /\ copy.image.serial \in Nat
<1>1. \A p \in Pictures : p.begun \in Nat /\ p.serial \in Nat
  BY DEF Pictures, Image
<1>2. index \in {0, 1} /\ buffer \in [{0, 1} -> Pictures] /\ copy.image \in Pictures
  BY DEF TypeOK
<1> QED  BY <1>1, <1>2 DEF TypeOK, Hidden, Image

(* The tray.                                                               *)
LEMMA RefuseSound == ASSUME IInv, Refuse PROVE IInv'
<1>1. TypeOK'  BY DEF IInv, TypeOK, Refuse, local
<1>2. BuffersInOrder' /\ SpotInOrder'
  BY DEF IInv, BuffersInOrder, SpotInOrder, Refuse, Complete, Hidden
<1>3. CopyInOrder' /\ PlaceInOrder' /\ Untorn'
  BY DEF IInv, CopyInOrder, PlaceInOrder, Untorn, Refuse, local, Source, Whole, Settled
<1> QED  BY <1>1, <1>2, <1>3 DEF IInv

LEMMA KeepSound == ASSUME IInv, Keep PROVE IInv'
<1>1. TypeOK'  BY DEF IInv, TypeOK, Keep, local, section
<1>2. BuffersInOrder' /\ SpotInOrder'
  BY DEF IInv, BuffersInOrder, SpotInOrder, Keep, section, Complete, Hidden, Painting
<1>3. CopyInOrder' /\ PlaceInOrder' /\ Untorn'
  BY DEF IInv, CopyInOrder, PlaceInOrder, Untorn, Keep, section, local, Source, Whole, Settled
<1> QED  BY <1>1, <1>2, <1>3 DEF IInv

(* A new serial in front of the hidden buffer: from now on whoever copies  *)
(* from it copies in vain.                                                 *)
LEMMA RenderSound == ASSUME IInv, NEW size \in Sizes, Render(size) PROVE IInv'
<1>0. /\ Hidden \in {0, 1} /\ Hidden # index /\ Hidden' = Hidden /\ images \in Nat
      /\ images + 1 \in Image /\ images + 1 \in 1 .. MaxImages
  BY SectionAssumption DEF IInv, TypeOK, Render, Hidden, Image
<1>1. /\ buffer' \in [{0, 1} -> Pictures] /\ buffer'[index] = buffer[index]
      /\ buffer'[Hidden] = [buffer[Hidden] EXCEPT !.begun = images + 1]
  BY <1>0 DEF IInv, TypeOK, Render, Pictures
<1>2. TypeOK'
  BY <1>0, <1>1 DEF IInv, TypeOK, Render, local
<1>3. /\ buffer[Hidden] \in Pictures /\ buffer[index] \in Pictures
      /\ buffer[Hidden].serial \in Nat /\ buffer[Hidden].begun \in Nat
      /\ buffer[index].begun \in Nat /\ buffer[index].serial \in Nat
      /\ buffer[Hidden].serial <= buffer[Hidden].begun /\ buffer[Hidden].begun <= images
      /\ buffer[index].serial <= buffer[index].begun /\ buffer[index].begun <= images
  BY <1>0, Buffers DEF IInv, BuffersInOrder
<1>a. buffer'[Hidden].begun = images + 1 /\ buffer'[Hidden].serial = buffer[Hidden].serial
  BY <1>1, <1>3 DEF Pictures
<1>b. \A b \in {0, 1} : b = index \/ b = Hidden
  BY Buffers DEF IInv
<1>4. BuffersInOrder'
  <2>1. images' = images + 1 /\ index' = index /\ writer' = "begun" /\ Complete(buffer[index])
    BY DEF IInv, BuffersInOrder, Render
  <2>2. \A b \in {0, 1} : buffer'[b].begun <= images' /\ buffer'[b].serial <= buffer'[b].begun
    <3>1. buffer'[index].begun <= images' /\ buffer'[index].serial <= buffer'[index].begun
      BY <1>0, <1>1, <1>3, <2>1
    <3>2. buffer'[Hidden].begun <= images' /\ buffer'[Hidden].serial <= buffer'[Hidden].begun
      BY <1>0, <1>3, <1>a, <2>1
    <3> QED  BY <1>b, <3>1, <3>2
  <2> QED  BY <1>0, <1>1, <1>3, <1>a, <2>1, <2>2 DEF BuffersInOrder, Complete, Painting
<1>5. SpotInOrder' /\ PlaceInOrder' /\ Untorn'
  BY DEF IInv, SpotInOrder, PlaceInOrder, Untorn, Render, local, Settled
<1>6. CopyInOrder'
  <2>1. copy.from \in {0, 1} /\ copy.image.serial \in Nat
    BY Buffers DEF IInv
  <2>2. copy' = copy /\ reader' = reader
    BY DEF Render, local
  <2>3. CASE copy.from = index
    BY <1>1, <2>2, <2>3 DEF IInv, CopyInOrder, Source, Whole
  <2>4. CASE copy.from = Hidden
    <3>1. Source = buffer[Hidden] /\ Source' = buffer'[Hidden]
      BY <2>2, <2>4, <1>0 DEF Source
    <3>2. reader \in Copying => copy.image.serial <= Source'.begun /\ ~Whole'
      <4>1. reader \in Copying => copy.image.serial <= Source.begun
        BY DEF IInv, CopyInOrder
      <4>2. reader \in Copying => copy.image.serial <= images
        BY <1>0, <1>3, <2>1, <3>1, <4>1
      <4> QED  BY <1>0, <1>a, <2>1, <2>2, <3>1, <4>2 DEF Whole
    <3> QED  BY <2>2, <3>2 DEF CopyInOrder, Copying
  <2> QED  BY <1>b, <2>1, <2>3, <2>4
<1> QED  BY <1>2, <1>4, <1>5, <1>6 DEF IInv

(* One part of the hidden buffer is written.                               *)
LEMMA WriteImageSound == ASSUME IInv, WriteImage PROVE IInv'
<1>0. /\ Hidden \in {0, 1} /\ Hidden # index /\ Hidden' = Hidden /\ images \in Image
      /\ images' = images /\ index' = index /\ writer \in Painting
      /\ \A b \in {0, 1} : b = index \/ b = Hidden
  BY DEF IInv, TypeOK, WriteImage, Write, Hidden, Painting
<1>1. PICK step \in {"header", "upper", "lower", "serial"} :
        /\ buffer' = [buffer EXCEPT ![Hidden][step] = images]
        /\ step = "header" <=> writer = "begun"
        /\ step = "upper" <=> writer = "described"
        /\ step = "lower" <=> writer = "painting"
        /\ step = "serial" <=> writer = "painted"
        /\ writer' = CASE step = "header" -> "described" [] step = "upper" -> "painting"
                       [] step = "lower" -> "painted" [] step = "serial" -> "finished"
  BY DEF WriteImage, Write
<1>2. /\ buffer' \in [{0, 1} -> Pictures] /\ buffer'[index] = buffer[index]
      /\ buffer'[Hidden] = [buffer[Hidden] EXCEPT ![step] = images]
  BY <1>0, <1>1 DEF IInv, TypeOK, Pictures
<1>3. TypeOK'
  BY <1>1, <1>2 DEF IInv, TypeOK, WriteImage, Write, local
<1>4. /\ buffer[Hidden] \in Pictures /\ buffer[index] \in Pictures /\ images \in Nat
      /\ buffer[Hidden].begun = images /\ buffer[Hidden].serial < images
      /\ buffer[Hidden].serial \in Nat /\ Complete(buffer[index])
      /\ buffer[index].serial <= buffer[index].begun /\ buffer[index].begun <= images
  BY <1>0, Buffers DEF IInv, BuffersInOrder
<1>5. /\ buffer'[Hidden].begun = images
      /\ step = "header" \/ buffer'[Hidden].header = buffer[Hidden].header
      /\ step = "upper" \/ buffer'[Hidden].upper = buffer[Hidden].upper
      /\ step = "lower" \/ buffer'[Hidden].lower = buffer[Hidden].lower
      /\ step # "serial" => buffer'[Hidden].serial = buffer[Hidden].serial
      /\ buffer'[Hidden][step] = images
  BY <1>2, <1>4 DEF Pictures
<1>6. BuffersInOrder'
  <2>1. \A b \in {0, 1} : buffer'[b].begun <= images' /\ buffer'[b].serial <= buffer'[b].begun
    <3>1. buffer'[Hidden].serial \in {images, buffer[Hidden].serial}
      BY <1>1, <1>5
    <3>2. buffer'[Hidden].begun <= images' /\ buffer'[Hidden].serial <= buffer'[Hidden].begun
      BY <1>0, <1>4, <1>5, <3>1
    <3>3. buffer'[index].begun <= images' /\ buffer'[index].serial <= buffer'[index].begun
      BY <1>0, <1>2, <1>4
    <3> QED  BY <1>0, <3>2, <3>3
  <2>2. CASE step = "serial"
    <3>1. Complete(buffer'[Hidden])
      BY <1>0, <1>1, <1>5, <2>2 DEF IInv, BuffersInOrder, Complete
    <3> QED  BY <1>0, <1>1, <1>2, <1>4, <2>1, <2>2, <3>1 DEF BuffersInOrder, Painting
  <2>3. CASE step # "serial"
    <3>1. /\ writer' # "begun" => buffer'[Hidden].header = images
          /\ writer' \in {"painting", "painted"} => buffer'[Hidden].upper = images
          /\ writer' = "painted" => buffer'[Hidden].lower = images
          /\ writer' \in Painting
      BY <1>0, <1>1, <1>5, <2>3 DEF IInv, BuffersInOrder, Painting
    <3> QED  BY <1>0, <1>1, <1>2, <1>4, <1>5, <2>1, <2>3, <3>1 DEF BuffersInOrder
  <2> QED  BY <2>2, <2>3
<1>7. SpotInOrder' /\ PlaceInOrder' /\ Untorn'
  <2>1. /\ UNCHANGED <<spot, placements, reader, copy, texture, held>>
        /\ writer # "placing" /\ writer' # "placing"
    BY <1>0, <1>1 DEF WriteImage, Write, local, Painting
  <2> QED  BY <2>1 DEF IInv, SpotInOrder, PlaceInOrder, Untorn, Settled
<1>8. CopyInOrder'
  <2>1. copy' = copy /\ reader' = reader /\ copy.from \in {0, 1} /\ copy.image.serial \in Nat
    BY Buffers DEF IInv, WriteImage, Write, local
  <2>2. CASE copy.from = index
    BY <1>2, <2>1, <2>2 DEF IInv, CopyInOrder, Source, Whole
  <2>3. CASE copy.from = Hidden
    BY <1>4, <1>5, <2>1, <2>3 DEF IInv, CopyInOrder, Source, Whole
  <2> QED  BY <1>0, <2>1, <2>2, <2>3
<1> QED  BY <1>3, <1>6, <1>7, <1>8 DEF IInv

LEMMA PublishSound == ASSUME IInv, Publish PROVE IInv'
<1>1. TypeOK'
  BY DEF IInv, TypeOK, Publish, Hidden, local
<1>2. BuffersInOrder'
  BY DEF IInv, TypeOK, BuffersInOrder, Publish, Hidden, Painting
<1>3. SpotInOrder' /\ CopyInOrder' /\ PlaceInOrder' /\ Untorn'
  BY DEF IInv, SpotInOrder, CopyInOrder, PlaceInOrder, Untorn, Publish, local, Source, Whole,
         Settled
<1> QED  BY <1>1, <1>2, <1>3 DEF IInv

LEMMA BeginPlacementSound == ASSUME IInv, BeginPlacement PROVE IInv'
<1>0. /\ placements \in Nat /\ placements + 1 \in Placement /\ spot \in Spots
      /\ placements + 1 \in 1 .. MaxPlacements
      /\ Fitting \in Image \X (Frames \cup {"none"})
  BY SectionAssumption DEF IInv, TypeOK, BeginPlacement, Placement, Fitting
<1>1. /\ spot' \in Spots /\ spot'.begun = placements + 1 /\ spot'.serial = spot.serial
      /\ spot.serial \in Nat /\ spot.begun \in Nat
  BY <1>0 DEF BeginPlacement, Spots, Placement
<1>2. TypeOK'
  BY <1>0, <1>1 DEF IInv, TypeOK, BeginPlacement, local
<1>3. SpotInOrder'
  BY <1>0, <1>1 DEF IInv, SpotInOrder, BeginPlacement
<1>4. BuffersInOrder' /\ CopyInOrder' /\ Untorn'
  BY DEF IInv, BuffersInOrder, CopyInOrder, Untorn, BeginPlacement, local, Source, Whole, Hidden,
         Painting
<1>5. PlaceInOrder'
  <2>1. copy.spot.serial \in Nat /\ copy' = copy /\ reader' = reader
    BY DEF IInv, TypeOK, Spots, Placement, BeginPlacement, local
  <2>2. spot.begun <= placements
    BY DEF IInv, SpotInOrder
  <2> QED  BY <1>0, <1>1, <2>1, <2>2 DEF IInv, PlaceInOrder, Settled
<1> QED  BY <1>2, <1>3, <1>4, <1>5 DEF IInv

LEMMA WritePlacementSound == ASSUME IInv, WritePlacement PROVE IInv'
<1>0. /\ writer = "placing" /\ spot \in Spots /\ placements \in Placement
      /\ spot.begun = placements /\ spot.serial < placements
      /\ UNCHANGED <<reader, copy, placements>>
  BY DEF IInv, TypeOK, SpotInOrder, WritePlacement, local
<1>1. CASE spot.upper # placements \/ spot.lower # placements
  <2>1. /\ spot' \in Spots /\ spot'.begun = spot.begun /\ spot'.serial = spot.serial
        /\ writer' = writer
    BY <1>0, <1>1 DEF WritePlacement, Spots
  <2>2. TypeOK'
    BY <2>1 DEF IInv, TypeOK, WritePlacement, local
  <2>3. SpotInOrder' /\ PlaceInOrder'
    BY <1>0, <2>1 DEF IInv, SpotInOrder, PlaceInOrder, Settled
  <2>4. BuffersInOrder' /\ CopyInOrder' /\ Untorn'
    BY <2>1 DEF IInv, BuffersInOrder, CopyInOrder, Untorn, WritePlacement, local, Source, Whole,
         Hidden
  <2> QED  BY <2>2, <2>3, <2>4 DEF IInv
<1>2. CASE spot.upper = placements /\ spot.lower = placements
  <2>1. /\ spot' \in Spots /\ spot'.begun = placements /\ spot'.serial = placements
        /\ spot'.upper = placements /\ spot'.lower = placements /\ writer' = "placed"
    BY <1>0, <1>2 DEF WritePlacement, Spots
  <2>2. TypeOK'
    BY <2>1 DEF IInv, TypeOK, WritePlacement, local
  <2>3. SpotInOrder'
    BY <1>0, <2>1 DEF IInv, SpotInOrder, Placement
  <2>4. PlaceInOrder'
    BY <1>0, <2>1 DEF IInv, PlaceInOrder, Settled
  <2>5. BuffersInOrder' /\ CopyInOrder' /\ Untorn'
    BY <1>0, <2>1 DEF IInv, BuffersInOrder, CopyInOrder, Untorn, WritePlacement, local, Source,
         Whole, Hidden, Painting
  <2> QED  BY <2>2, <2>3, <2>4, <2>5 DEF IInv
<1> QED  BY <1>1, <1>2

LEMMA EnableSound == ASSUME IInv, Enable PROVE IInv'
<1>1. TypeOK'
  BY DEF IInv, TypeOK, Enable, local
<1>2. BuffersInOrder' /\ SpotInOrder'
  BY DEF IInv, BuffersInOrder, SpotInOrder, Enable, Hidden, Painting
<1>3. CopyInOrder' /\ PlaceInOrder' /\ Untorn'
  BY DEF IInv, CopyInOrder, PlaceInOrder, Untorn, Enable, local, Source, Whole, Settled
<1> QED  BY <1>1, <1>2, <1>3 DEF IInv

(* The game.                                                               *)

(* Steps that neither copy nor keep what was copied.                       *)
LEMMA GameElsewhere ==
  ASSUME IInv, UNCHANGED <<tray, section, copy, texture, held>>,
         Resize \/ ReportTarget \/ Gates \/ Fits \/ Stage, reader' \in {"out", "stage"},
         reader' = "stage" => reader = "fits"
  PROVE  IInv'
<1>1. TypeOK'
  <2>1. target' \in Frames /\ request' \in Frames \cup {"none"} /\ resizes' \in 0 .. MaxResizes
    BY SectionAssumption DEF IInv, TypeOK, Resize, ReportTarget, Gates, Fits, Stage, Copy
  <2>2. UNCHANGED <<writer, wanted, sizeOf, frameOf, images, valid, placeFor, placements, buffer,
                    index, enabled, spot, copy, texture, held>>
    BY DEF tray, section
  <2> QED  BY <2>1, <2>2 DEF IInv, TypeOK
<1>2. BuffersInOrder' /\ SpotInOrder'
  BY DEF IInv, BuffersInOrder, SpotInOrder, tray, section, Hidden
<1>3. CopyInOrder'
  BY DEF IInv, CopyInOrder, Source, Whole, section, Copying
<1>4. PlaceInOrder' /\ Untorn'
  BY DEF IInv, PlaceInOrder, Untorn
<1> QED  BY <1>1, <1>2, <1>3, <1>4 DEF IInv

LEMMA GatesSound == ASSUME IInv, Gates PROVE IInv'
<1>1. TypeOK'
  <2>1. 0 \in Image /\ 0 \in Placement
    BY SectionAssumption DEF Image, Placement
  <2>2. Empty \in Pictures /\ Nowhere \in Spots
    BY <2>1 DEF Empty, Nowhere, Pictures, Spots
  <2>3. copy' \in [from : {0, 1}, image : Pictures, spot : Spots]
    BY <2>2 DEF IInv, TypeOK, Gates
  <2> QED  BY <2>3 DEF IInv, TypeOK, Gates, Return, tray, section
<1>2. BuffersInOrder' /\ SpotInOrder'
  BY DEF IInv, BuffersInOrder, SpotInOrder, Gates, tray, section, Hidden
<1>3. reader' \in {"out", "index"} /\ UNCHANGED <<texture, held>>
  BY DEF Gates, Return
<1>4. CopyInOrder' /\ PlaceInOrder' /\ Untorn'
  BY <1>3 DEF IInv, CopyInOrder, PlaceInOrder, Untorn, Copying
<1> QED  BY <1>1, <1>2, <1>4 DEF IInv

(* One part of the source is copied.                                       *)
LEMMA CopySound ==
  ASSUME IInv,
         NEW from \in {"index", "serial", "stage", "half"},
         NEW step \in {"serial", "header", "upper", "lower"}, NEW to,
         Copy(from, step, to),
         <<from, step, to>> \in {<<"index", "serial", "serial">>, <<"serial", "header", "header">>,
                                <<"stage", "upper", "half">>, <<"half", "lower", "copied">>}
  PROVE  IInv'
<1>1. /\ reader = from /\ reader' = to /\ Source \in Pictures
      /\ copy' = [copy EXCEPT !.image = [copy.image EXCEPT ![step] = Source[step]]]
      /\ copy.image \in Pictures /\ Source.begun \in Nat
  BY Buffers DEF IInv, TypeOK, Copy, Step, Source
<1>2. Source[step] \in Image
  BY <1>1 DEF Pictures
<1>3. /\ copy'.image \in Pictures /\ copy'.image[step] = Source[step]
      /\ \A other \in {"serial", "header", "upper", "lower"} \ {step} :
           copy'.image[other] = copy.image[other]
      /\ copy'.from = copy.from /\ copy'.spot = copy.spot
      /\ copy' \in [from : {0, 1}, image : Pictures, spot : Spots]
  BY <1>1, <1>2 DEF IInv, TypeOK, Pictures
<1>4. TypeOK'
  BY <1>1, <1>3 DEF IInv, TypeOK, Copy, tray, section
<1>5. BuffersInOrder' /\ SpotInOrder'
  BY DEF IInv, BuffersInOrder, SpotInOrder, Copy, tray, section, Hidden
<1>6. PlaceInOrder' /\ Untorn'
  BY <1>1 DEF IInv, PlaceInOrder, Untorn, Copy
<1>7. Source' = Source
  BY <1>3 DEF Source, Copy, section
<1>8. Source.begun = Source.serial => Complete(Source)
  BY Buffers DEF IInv, BuffersInOrder, Source, Painting
<1>9. Source.serial <= Source.begun
  BY Buffers DEF IInv, BuffersInOrder, Source
<1>10. CopyInOrder'
  <2>1. CASE step = "serial"
    BY <1>1, <1>3, <1>7, <1>9, <2>1 DEF CopyInOrder, Whole
  <2>2. CASE step = "header"
    BY <1>1, <1>3, <1>7, <1>8, <2>2 DEF IInv, CopyInOrder, Whole, Copying, Complete
  <2>3. CASE step = "upper"
    BY <1>1, <1>3, <1>7, <1>8, <2>3 DEF IInv, CopyInOrder, Whole, Copying, Complete
  <2>4. CASE step = "lower"
    BY <1>1, <1>3, <1>7, <1>8, <2>4 DEF IInv, CopyInOrder, Whole, Copying, Complete
  <2> QED  BY <2>1, <2>2, <2>3, <2>4
<1> QED  BY <1>4, <1>5, <1>6, <1>10 DEF IInv

LEMMA LookAtPlacementSound == ASSUME IInv, LookAtPlacement PROVE IInv'
<1>1. UNCHANGED <<tray, section, texture, held>> /\ reader = "header"
  BY DEF LookAtPlacement
<1>2. BuffersInOrder' /\ SpotInOrder' /\ Untorn'
  BY <1>1 DEF IInv, BuffersInOrder, SpotInOrder, Untorn, tray, section, Hidden
<1>3. CASE copy' = copy /\ reader' \in {"out", "fits"}
  <2>1. TypeOK'
    BY <1>1, <1>3 DEF IInv, TypeOK, LookAtPlacement, tray, section
  <2>2. CopyInOrder' /\ PlaceInOrder'
    BY <1>1, <1>3 DEF IInv, CopyInOrder, PlaceInOrder, Source, Whole, section, Copying
  <2> QED  BY <1>2, <2>1, <2>2 DEF IInv
<1>4. CASE /\ copy' = [copy EXCEPT !.spot = [copy.spot EXCEPT !.serial = spot.serial]]
           /\ reader' = "place"
  <2>1. /\ spot \in Spots /\ copy.spot \in Spots
        /\ copy \in [from : {0, 1}, image : Pictures, spot : Spots]
    BY DEF IInv, TypeOK
  <2>2. /\ copy' \in [from : {0, 1}, image : Pictures, spot : Spots]
        /\ copy'.from = copy.from /\ copy'.image = copy.image
        /\ copy'.spot.serial = spot.serial
    BY <1>4, <2>1 DEF Spots
  <2>3. TypeOK'
    BY <1>1, <1>4, <2>2 DEF IInv, TypeOK, LookAtPlacement, tray, section
  <2>4. CopyInOrder'
    BY <1>1, <1>4, <2>2 DEF IInv, CopyInOrder, Source, Whole, section, Copying
  <2>5. PlaceInOrder'
    BY <1>1, <1>4, <2>2 DEF IInv, PlaceInOrder, SpotInOrder, Settled, section
  <2> QED  BY <1>2, <2>3, <2>4, <2>5 DEF IInv
<1> QED  BY <1>3, <1>4 DEF LookAtPlacement, Return

LEMMA CopyPlacementSound == ASSUME IInv, CopyPlacement PROVE IInv'
<1>1. /\ UNCHANGED <<tray, section, texture, held>> /\ reader = "place" /\ reader' = "where"
      /\ copy' = [copy EXCEPT !.spot = [copy.spot EXCEPT !.upper = spot.upper]]
      /\ copy \in [from : {0, 1}, image : Pictures, spot : Spots] /\ spot \in Spots
      /\ copy.spot \in Spots
  BY DEF IInv, TypeOK, CopyPlacement, Step
<1>2. /\ copy' \in [from : {0, 1}, image : Pictures, spot : Spots]
      /\ copy'.from = copy.from /\ copy'.image = copy.image
      /\ copy'.spot.serial = copy.spot.serial /\ copy'.spot.upper = spot.upper
  BY <1>1 DEF Spots
<1>3. TypeOK'
  BY <1>1, <1>2 DEF IInv, TypeOK, CopyPlacement, tray, section
<1>4. BuffersInOrder' /\ SpotInOrder' /\ Untorn'
  BY <1>1 DEF IInv, BuffersInOrder, SpotInOrder, Untorn, tray, section, Hidden
<1>5. CopyInOrder'
  BY <1>1, <1>2 DEF IInv, CopyInOrder, Source, Whole, section, Copying
<1>6. PlaceInOrder'
  <2>1. spot.serial = spot.begun => spot.upper = spot.serial
    BY <1>1 DEF IInv, SpotInOrder, Spots, Placement
  <2> QED  BY <1>1, <1>2, <2>1 DEF IInv, PlaceInOrder, Settled, section
<1> QED  BY <1>3, <1>4, <1>5, <1>6 DEF IInv

LEMMA TakePlacementSound == ASSUME IInv, TakePlacement PROVE IInv'
<1>1. /\ UNCHANGED <<tray, section, copy, texture>> /\ reader = "where" /\ reader' = "fits"
      /\ copy.spot \in Spots /\ spot \in Spots /\ held \in Spots
  BY DEF IInv, TypeOK, TakePlacement, Step
<1>2. /\ held' \in Spots
      /\ ~Settled => held' = held
      /\ Settled => /\ held'.lower = spot.lower /\ held'.upper = copy.spot.upper
                    /\ held'.serial = copy.spot.serial
  BY <1>1 DEF TakePlacement, Spots
<1>3. TypeOK'
  BY <1>1, <1>2 DEF IInv, TypeOK, TakePlacement, tray, section
<1>4. BuffersInOrder' /\ SpotInOrder' /\ CopyInOrder' /\ PlaceInOrder'
  BY <1>1 DEF IInv, BuffersInOrder, SpotInOrder, CopyInOrder, PlaceInOrder, tray, section, Hidden,
              Source, Whole, Copying
<1>5. Untorn'
  <2>1. Settled => spot.serial = copy.spot.serial /\ copy.spot.upper = copy.spot.serial
    BY <1>1 DEF IInv, PlaceInOrder
  <2>2. spot.serial = spot.begun => spot.lower = spot.serial
    BY <1>1 DEF IInv, SpotInOrder, Spots, Placement
  <2> QED  BY <1>1, <1>2, <2>1, <2>2 DEF IInv, Untorn, Settled
<1> QED  BY <1>3, <1>4, <1>5 DEF IInv

LEMMA CheckSound == ASSUME IInv, Check PROVE IInv'
<1>1. /\ UNCHANGED <<tray, section, copy, held>> /\ reader = "copied" /\ reader' = "out"
      /\ 0 \in Image
  BY SectionAssumption DEF Check, Return, Image
<1>2. texture' \in Pictures
  BY <1>1 DEF IInv, TypeOK, Check, Empty, Pictures
<1>3. TypeOK'
  BY <1>1, <1>2 DEF IInv, TypeOK, Check, tray, section
<1>4. BuffersInOrder' /\ SpotInOrder' /\ CopyInOrder' /\ PlaceInOrder'
  BY <1>1 DEF IInv, BuffersInOrder, SpotInOrder, CopyInOrder, PlaceInOrder, tray, section, Hidden,
              Copying
<1>5. Untorn'
  BY <1>1 DEF IInv, Untorn, CopyInOrder, Copying, Check, Empty
<1> QED  BY <1>3, <1>4, <1>5 DEF IInv

LEMMA StepSound == ASSUME IInv, [Next]_vars PROVE IInv'
<1>1. CASE UNCHANGED vars
  <2>1. TypeOK'
    BY <1>1 DEF IInv, TypeOK, vars, tray, section, local
  <2> QED
    BY <1>1, <2>1 DEF IInv, BuffersInOrder, SpotInOrder, CopyInOrder, PlaceInOrder, Untorn, vars,
         tray, section, local, Hidden, Source, Whole, Settled
<1>2. CASE Refuse \/ Keep \/ WriteImage \/ Publish \/ BeginPlacement \/ WritePlacement \/ Enable
           \/ \E size \in Sizes : Render(size)
  BY <1>2, RefuseSound, KeepSound, WriteImageSound, PublishSound, BeginPlacementSound,
     WritePlacementSound, EnableSound, RenderSound
<1>3. CASE Resize \/ ReportTarget
  <2>1. reader' = "out"
    BY <1>3 DEF Resize, ReportTarget
  <2> QED  BY <1>3, <2>1, GameElsewhere DEF Resize, ReportTarget, local
<1>4. CASE CopyHeader
  BY <1>4, CopySound DEF CopyHeader
<1>5. CASE Fits
  BY <1>5, GameElsewhere DEF Fits, Return, local
<1>6. CASE Stage
  <2>1. CASE Return /\ UNCHANGED <<target, resizes, request, tray, section, local>>
    BY <1>6, <2>1, GameElsewhere DEF Return, local
  <2> QED  BY <1>6, <2>1, CopySound DEF Stage
<1> QED
  BY <1>1, <1>2, <1>3, <1>4, <1>5, <1>6, GatesSound, LookAtPlacementSound, CopyPlacementSound,
     TakePlacementSound, CheckSound DEF Next

(* The invariant of the shared picture.                                    *)
THEOREM SectionInvariant == Spec => []IInv
<1>1. Init => IInv
  BY Initially
<1>2. IInv /\ [Next]_vars => IInv'
  BY StepSound
<1> QED  BY <1>1, <1>2, PTL DEF Spec

(* What the game shows is one picture, at one placement.                   *)
THEOREM NeverTorn == Spec => []NoTornFrame
<1>1. IInv => NoTornFrame
  BY DEF IInv, Untorn, NoTornFrame, Uploaded
<1> QED  BY <1>1, SectionInvariant, PTL

-----------------------------------------------------------------------------
(* The log.                                                                *)

(* The ring has a cell, and a process has finitely many threads.           *)
LogAssumption == LogCapacity \in Nat \ {0} /\ LogRecords \in Nat /\ IsFiniteSet(Producers)

Texts == 0 .. LogRecords
Places == {"out", "asked", "in", "half", "full", "pushed", "left"}

(* A record of which both halves are there.                                *)
Twice(r) == <<r, r>>

LogTypes ==
  /\ main \in {"start", "run", "stop", "join", "done"}
  /\ event \in BOOLEAN /\ stopping \in BOOLEAN /\ signalled \in BOOLEAN /\ busy \in BOOLEAN
  /\ logPc \in [Producers -> Places]
  /\ record \in [Producers -> Texts]
  /\ ring \in [Log!Cell -> Texts \X Texts]
  /\ head \in Nat /\ tail \in Nat
  /\ logWriter \in {"none", "wait", "drain", "half", "full", "write", "ask", "ended"}
  /\ taken \in Texts \X Texts
  /\ asked \in Texts
  /\ admitted \in Seq(Texts)
  /\ written \in Seq(Texts \X Texts)
  /\ late \subseteq Producers

(* Inside TryPush: between the exchange of producer_busy_ and its store.   *)
Pushing == {"in", "half", "full", "pushed"}

(* On the way into the ring.                                               *)
Coming == {"asked", "in", "half", "full"}

(* producer_busy_ lets one producer in.                                    *)
OneProducer ==
  /\ \A p \in Producers : logPc[p] \in Pushing => busy
  /\ \A p, q \in Producers : logPc[p] \in Pushing /\ logPc[q] \in Pushing => p = q

(* Out of the ring and not handed to Write yet.                            *)
Popped == IF logWriter = "write" THEN 1 ELSE 0

(* The ring is a window on what was admitted, and what is behind it is     *)
(* written.                                                                *)
RingInOrder ==
  /\ head = Len(admitted) /\ tail = Len(written) + Popped
  /\ tail <= head /\ head <= tail + LogCapacity
  /\ \A p \in Producers : logPc[p] \in {"half", "full"} => head < tail + LogCapacity

(* What is in the window, and in the cell in front of it that a producer   *)
(* fills.                                                                  *)
RingHolds ==
  /\ \A i \in 1 .. head : tail < i => ring[(i - 1) % LogCapacity] = Twice(admitted[i])
  /\ \A p \in Producers : logPc[p] = "half" => ring[head % LogCapacity][1] = record[p]
  /\ \A p \in Producers : logPc[p] = "full" => ring[head % LogCapacity] = Twice(record[p])

(* What the writer has copied, in halves, is the oldest record.            *)
TakenInOrder ==
  /\ logWriter = "half" => tail < head /\ taken[1] = admitted[tail + 1]
  /\ logWriter = "full" => tail < head /\ taken = Twice(admitted[tail + 1])
  /\ logWriter = "write" => tail > 0 /\ taken = Twice(admitted[tail])

WrittenInOrder == \A i \in 1 .. Len(written) : written[i] = Twice(admitted[i])

(* The writer asleep, or about to be, with nobody about to wake it has     *)
(* nothing to do.  About to be: a record may arrive after it found the     *)
(* ring empty and before it waits.                                         *)
WriterAwake ==
  logWriter \in {"wait", "ask"} /\ ~signalled
    /\ (\A p \in Producers : logPc[p] \notin {"pushed", "left"}) => tail = head

(* Nobody starts once the event is taken back, and the writer is joined.   *)
EndInOrder ==
  /\ main = "start" => logWriter = "none" /\ head = tail /\ \A p \in Producers : logPc[p] = "out"
  /\ event => main = "run"
  /\ stopping => main \in {"join", "done"}
  /\ logWriter = "ended" => stopping
  /\ main = "done" => logWriter = "ended"
  /\ main \in {"stop", "join", "done"} => \A p \in Producers : logPc[p] # "out" => p \in late

StillLate == {p \in late : logPc[p] \in Coming}

(* Once the writer has ended, what is left in the ring was brought by late *)
(* producers, and each of them brings no more than one.                    *)
LateCounted ==
  logWriter = "ended" => head + Cardinality(StillLate) <= tail + Cardinality(late)

LogInv ==
  /\ LogTypes /\ OneProducer /\ RingInOrder /\ RingHolds /\ TakenInOrder /\ WrittenInOrder
  /\ WriterAwake /\ EndInOrder /\ LateCounted

-----------------------------------------------------------------------------
(* The cells of the ring.                                                  *)

LEMMA Quotients ==
  ASSUME NEW C \in Nat \ {0}, NEW q \in Int, NEW r \in Int, NEW m \in Nat,
         C * r + m < C * q + m, C * q + m < C * r + m + C
  PROVE FALSE
<1>1. C * (q - r) > 0 /\ C * (q - r) < C OBVIOUS
<1>2. CASE q - r <= 0
  <2>1. C * (q - r) <= 0 BY <1>2
  <2> QED BY <2>1, <1>1
<1>3. CASE q - r >= 1
  <2>1. C * (q - r) >= C BY <1>3
  <2> QED BY <2>1, <1>1
<1> QED BY <1>2, <1>3

(* Numbers closer than the size of the ring have different cells.          *)
LEMMA Cells ==
  ASSUME NEW C \in Nat \ {0}, NEW a \in Nat, NEW b \in Nat, b < a, a < b + C
  PROVE a % C # b % C
<1> SUFFICES ASSUME a % C = b % C PROVE FALSE OBVIOUS
<1> DEFINE q == a \div C
           r == b \div C
           m == a % C
<1>1. a = C * q + m OBVIOUS
<1>2. b = C * r + m OBVIOUS
<1>3. q \in Int /\ r \in Int /\ m \in Nat OBVIOUS
<1> HIDE DEF q, r, m
<1> QED BY <1>1, <1>2, <1>3, Quotients

LEMMA InCell == ASSUME NEW a \in Nat, LogAssumption PROVE a % LogCapacity \in Log!Cell
  BY DEF LogAssumption, Log!Cell

LEMMA FirstHalf ==
  ASSUME NEW S, NEW x \in S \X S, NEW v \in S 
  PROVE  [x EXCEPT ![1] = v] = <<v, x[2]>>
  OBVIOUS

LEMMA SecondHalf ==
  ASSUME NEW S, NEW x \in S \X S, NEW v \in S 
  PROVE  [x EXCEPT ![2] = v] = <<x[1], v>>
  OBVIOUS

(* A cell in the window is not the one a producer writes.                  *)
LEMMA Undisturbed ==
  ASSUME LogAssumption, LogTypes, head < tail + LogCapacity, NEW i \in 1 .. head, tail < i
  PROVE (i - 1) % LogCapacity # head % LogCapacity
<1> USE DEF LogAssumption, LogTypes
<1>1. i - 1 \in Nat /\ i - 1 < head /\ head < (i - 1) + LogCapacity OBVIOUS
<1> QED BY <1>1, Cells

(* The late producers can be counted.                                      *)
LEMMA FewerLate ==
  ASSUME LogAssumption, LogTypes, NEW S, S \subseteq late
  PROVE IsFiniteSet(late) /\ IsFiniteSet(S) /\ Cardinality(S) <= Cardinality(late)
        /\ Cardinality(S) \in Nat /\ Cardinality(late) \in Nat
  BY FS_Subset, FS_CardinalityType DEF LogAssumption, LogTypes

(* Counted again when fewer of them are still to come.                     *)
LEMMA CountKept ==
  ASSUME LogAssumption, LogTypes, LateCounted, StillLate' \subseteq StillLate,
         late' = late, head' = head, tail' = tail, logWriter' = logWriter
  PROVE LateCounted'
<1>1. StillLate \subseteq late BY DEF StillLate
<1>2. IsFiniteSet(StillLate) /\ Cardinality(StillLate) \in Nat /\ Cardinality(late) \in Nat
  BY <1>1, FewerLate
<1>3. Cardinality(StillLate') <= Cardinality(StillLate) /\ Cardinality(StillLate') \in Nat
  BY <1>2, FS_Subset, FS_CardinalityType
<1> HIDE DEF StillLate
<1> QED BY <1>2, <1>3 DEF LateCounted, LogTypes

-----------------------------------------------------------------------------
(* TryDeferred, one step of a producer.                                    *)

LEMMA LogAskSound ==
  ASSUME LogAssumption, LogInv, NEW p \in Producers, Log!Ask(p),
         UNCHANGED <<main, logWriter, taken, written, late>>
  PROVE  LogInv'
<1>1. LogTypes'
  <2>1. logPc' \in [Producers -> Places] BY DEF LogInv, LogTypes, Texts, Places, Log!Ask, Log!Goes
  <2>2. record' \in [Producers -> Texts] /\ asked' \in Texts
    BY DEF LogAssumption, LogInv, LogTypes, Texts, Log!Ask
  <2> QED BY <2>1, <2>2 DEF LogInv, LogTypes, Log!Ask, Log!shared
<1>2. LateCounted'
  <2>1. CASE logWriter = "ended"
    <3>1. ~event BY <2>1 DEF LogInv, LogTypes, EndInOrder
    <3>2. logPc' = logPc BY <3>1 DEF LogInv, LogTypes, Log!Ask, Log!Goes
    <3> QED BY <3>2 DEF LogInv, LateCounted, StillLate, Log!Ask, Log!shared
  <2>2. CASE logWriter # "ended" BY <2>2 DEF LateCounted
  <2> QED BY <2>1, <2>2
<1>3. OneProducer' /\ WriterAwake' /\ EndInOrder'
  BY DEF LogInv, OneProducer, Pushing, WriterAwake, EndInOrder, Log!Ask, Log!Goes, Log!shared
<1>4. RingInOrder' /\ RingHolds' /\ TakenInOrder' /\ WrittenInOrder'
  BY DEF LogInv, RingInOrder, Popped, RingHolds, Twice, TakenInOrder, WrittenInOrder,
         Log!Ask, Log!Goes, Log!shared
<1> QED  BY <1>1, <1>2, <1>3, <1>4 DEF LogInv

LEMMA LogEnterSound ==
  ASSUME LogAssumption, LogInv, NEW p \in Producers, Log!Enter(p),
         UNCHANGED <<main, logWriter, taken, written, late>>
  PROVE  LogInv'
<1>1. LogTypes'
  BY DEF LogAssumption, LogInv, LogTypes, Texts, Places, Log!Enter, Log!Goes, Log!shared
<1>2. LateCounted'
  <2>1. StillLate' \subseteq StillLate
    BY DEF LogInv, LogTypes, Texts, Places, Log!Enter, Log!Goes, StillLate, Coming
  <2> QED BY <2>1, CountKept DEF LogInv, Log!Enter
<1>3. OneProducer' /\ WriterAwake' /\ EndInOrder'
  BY DEF LogInv, OneProducer, Pushing, WriterAwake, EndInOrder, Log!Enter, Log!Goes
<1>4. RingInOrder' /\ RingHolds' /\ TakenInOrder' /\ WrittenInOrder'
  BY DEF LogInv, RingInOrder, Popped, RingHolds, Twice, TakenInOrder, WrittenInOrder,
         Log!Enter, Log!Goes
<1> QED  BY <1>1, <1>2, <1>3, <1>4 DEF LogInv

LEMMA LogCopyHalfSound ==
  ASSUME LogAssumption, LogInv, NEW p \in Producers, Log!CopyHalf(p),
         UNCHANGED <<main, logWriter, taken, written, late>>
  PROVE  LogInv'
<1>1. LogTypes'
  <2>1. logPc' \in [Producers -> Places]
    BY DEF LogInv, LogTypes, Texts, Places, Log!CopyHalf, Log!Goes
  <2>2. CASE Log!HasRoom
    <3>1. head % LogCapacity \in Log!Cell BY InCell DEF LogInv, LogTypes
    <3>2. ring[head % LogCapacity] \in Texts \X Texts /\ record[p] \in Texts
      BY <3>1 DEF LogInv, LogTypes
    <3>3. [ring[head % LogCapacity] EXCEPT ![1] = record[p]]
            = <<record[p], ring[head % LogCapacity][2]>>
      BY <3>2, FirstHalf
    <3>4. [ring[head % LogCapacity] EXCEPT ![1] = record[p]] \in Texts \X Texts BY <3>2, <3>3
    <3>5. ring' \in [Log!Cell -> Texts \X Texts]
      BY <2>2, <3>1, <3>4 DEF LogInv, LogTypes, Log!CopyHalf
    <3> QED BY <2>1, <2>2, <3>5 DEF LogInv, LogTypes, Log!CopyHalf
  <2>3. CASE ~Log!HasRoom BY <2>1, <2>3 DEF LogInv, LogTypes, Log!CopyHalf
  <2> QED BY <2>2, <2>3
<1>2. OneProducer'
  BY DEF LogInv, LogTypes, OneProducer, Pushing, Log!CopyHalf, Log!Goes, Log!shared
<1>3. RingInOrder'
  <2>1. CASE Log!HasRoom
    BY <2>1 DEF LogAssumption, LogInv, LogTypes, RingInOrder, Popped, Log!CopyHalf, Log!HasRoom
  <2>2. CASE ~Log!HasRoom
    BY <2>2 DEF LogInv, LogTypes, RingInOrder, Popped, Log!CopyHalf, Log!Goes
  <2> QED BY <2>1, <2>2
<1>4. RingHolds'
  <2>1. CASE Log!HasRoom
    <3>0. logPc' = [logPc EXCEPT ![p] = "half"] BY <2>1 DEF Log!CopyHalf, Log!Goes
    <3>1. head % LogCapacity \in Log!Cell BY InCell DEF LogInv, LogTypes
    <3>2. head < tail + LogCapacity BY <2>1 DEF LogAssumption, LogInv, LogTypes, Log!HasRoom
    <3>3. ring'
            = [ring EXCEPT ![head % LogCapacity] = [ring[head % LogCapacity] EXCEPT ![1]
              = record[p]]]
      BY <2>1 DEF Log!CopyHalf
    <3>4. ring[head % LogCapacity] \in Texts \X Texts /\ record[p] \in Texts
      BY <3>1 DEF LogInv, LogTypes
    <3>5. ring'[head % LogCapacity][1] = record[p]
      BY <3>1, <3>3, <3>4, FirstHalf DEF LogInv, LogTypes
    <3>6. ASSUME NEW i \in 1 .. head, tail < i
          PROVE ring'[(i - 1) % LogCapacity] = ring[(i - 1) % LogCapacity]
      <4>1. (i - 1) % LogCapacity # head % LogCapacity BY <3>2, <3>6, Undisturbed DEF LogInv
      <4>2. (i - 1) % LogCapacity \in Log!Cell BY InCell DEF LogInv, LogTypes
      <4> QED BY <3>3, <4>1, <4>2 DEF LogInv, LogTypes
    <3>7. \A q \in Producers : logPc[q] \notin {"half", "full"}
      BY DEF LogInv, LogTypes, OneProducer, Pushing, Log!CopyHalf, Log!Goes
    <3> QED BY <3>0, <3>5, <3>6, <3>7 DEF LogInv, LogTypes, RingHolds, Log!CopyHalf
  <2>2. CASE ~Log!HasRoom BY <2>2 DEF LogInv, LogTypes, RingHolds, Log!CopyHalf, Log!Goes
  <2> QED BY <2>1, <2>2
<1>5. LateCounted'
  <2>1. StillLate' \subseteq StillLate
    BY DEF LogInv, LogTypes, Texts, Places, Log!CopyHalf, Log!Goes, StillLate, Coming
  <2> QED BY <2>1, CountKept DEF LogInv, Log!CopyHalf
<1>6. WriterAwake' /\ EndInOrder'
  BY DEF LogInv, WriterAwake, EndInOrder, Log!CopyHalf, Log!Goes
<1>7. TakenInOrder' /\ WrittenInOrder'
  BY DEF LogInv, TakenInOrder, Twice, WrittenInOrder, Log!CopyHalf, Log!Goes
<1> QED  BY <1>1, <1>2, <1>3, <1>4, <1>5, <1>6, <1>7 DEF LogInv

LEMMA LogCopyRestSound ==
  ASSUME LogAssumption, LogInv, NEW p \in Producers, Log!CopyRest(p),
         UNCHANGED <<main, logWriter, taken, written, late>>
  PROVE  LogInv'
<1>1. LogTypes'
  <2>1. logPc' \in [Producers -> Places]
    BY DEF LogInv, LogTypes, Texts, Places, Log!CopyRest, Log!Goes
  <2>2. head % LogCapacity \in Log!Cell BY InCell DEF LogInv, LogTypes
  <2>3. ring[head % LogCapacity] \in Texts \X Texts /\ record[p] \in Texts
    BY <2>2 DEF LogInv, LogTypes
  <2>4. [ring[head % LogCapacity] EXCEPT ![2] = record[p]]
          = <<ring[head % LogCapacity][1], record[p]>>
    BY <2>3, SecondHalf
  <2>5. [ring[head % LogCapacity] EXCEPT ![2] = record[p]] \in Texts \X Texts BY <2>3, <2>4
  <2>6. ring' \in [Log!Cell -> Texts \X Texts] BY <2>2, <2>5 DEF LogInv, LogTypes, Log!CopyRest
  <2> QED BY <2>1, <2>6 DEF LogInv, LogTypes, Log!CopyRest
<1>2. RingHolds'
  <2>1. logPc[p] = "half" /\ logPc' = [logPc EXCEPT ![p] = "full"] BY DEF Log!CopyRest, Log!Goes
  <2>2. head % LogCapacity \in Log!Cell BY InCell DEF LogInv, LogTypes
  <2>3. head < tail + LogCapacity BY <2>1 DEF LogInv, RingInOrder
  <2>4. ring' = [ring EXCEPT ![head % LogCapacity] = [ring[head % LogCapacity] EXCEPT ![2]
          = record[p]]]
    BY DEF Log!CopyRest
  <2>5. ring[head % LogCapacity] \in Texts \X Texts /\ record[p] \in Texts
    BY <2>2 DEF LogInv, LogTypes
  <2>6. ring[head % LogCapacity][1] = record[p] BY <2>1 DEF LogInv, RingHolds
  <2>7. ring'[head % LogCapacity] = Twice(record[p])
    BY <2>2, <2>4, <2>5, <2>6, SecondHalf DEF LogInv, LogTypes, Twice
  <2>8. ASSUME NEW i \in 1 .. head, tail < i
        PROVE ring'[(i - 1) % LogCapacity] = ring[(i - 1) % LogCapacity]
    <3>1. (i - 1) % LogCapacity # head % LogCapacity BY <2>3, <2>8, Undisturbed DEF LogInv
    <3>2. (i - 1) % LogCapacity \in Log!Cell BY InCell DEF LogInv, LogTypes
    <3> QED BY <2>4, <3>1, <3>2 DEF LogInv, LogTypes
  <2>9. \A q \in Producers : logPc[q] \in {"half", "full"} => q = p
    BY <2>1 DEF LogInv, OneProducer, Pushing
  <2> QED BY <2>1, <2>7, <2>8, <2>9 DEF LogInv, LogTypes, RingHolds, Log!CopyRest
<1>3. LateCounted'
  BY DEF LogInv, LogTypes, LateCounted, StillLate, Coming, Log!CopyRest, Log!Goes, Log!shared
<1>4. OneProducer' /\ WriterAwake' /\ EndInOrder'
  BY DEF LogInv, OneProducer, Pushing, WriterAwake, EndInOrder, Log!CopyRest, Log!Goes
<1>5. RingInOrder' /\ TakenInOrder' /\ WrittenInOrder'
  BY DEF LogInv, RingInOrder, Popped, TakenInOrder, Twice, WrittenInOrder, Log!CopyRest, Log!Goes
<1> QED  BY <1>1, <1>2, <1>3, <1>4, <1>5 DEF LogInv

LEMMA LogPushSound ==
  ASSUME LogAssumption, LogInv, NEW p \in Producers, Log!Push(p),
         UNCHANGED <<main, logWriter, taken, written, late>>
  PROVE  LogInv'
<1>1. LogTypes'
  <2>1. logPc' \in [Producers -> Places]
    BY DEF LogInv, LogTypes, Texts, Places, Log!Push, Log!Goes
  <2>2. admitted' \in Seq(Texts) /\ head' \in Nat BY DEF LogInv, LogTypes, Log!Push
  <2> QED BY <2>1, <2>2 DEF LogInv, LogTypes, Log!Push
<1>2. RingInOrder'
  <2>1. head' = Len(admitted') BY DEF LogInv, LogTypes, RingInOrder, Log!Push
  <2>2. logPc[p] = "full" /\ logPc' = [logPc EXCEPT ![p] = "pushed"] BY DEF Log!Push, Log!Goes
  <2>3. \A q \in Producers : logPc[q] \in {"half", "full"} => q = p
    BY <2>2 DEF LogInv, OneProducer, Pushing
  <2>4. head' = head + 1 /\ tail' = tail /\ Popped' = Popped /\ written' = written
    BY DEF Log!Push, Popped
  <2>5. head < tail + LogCapacity BY <2>2 DEF LogInv, RingInOrder
  <2>6. \A q \in Producers : logPc'[q] \notin {"half", "full"} BY <2>2, <2>3 DEF LogInv, LogTypes
  <2> QED BY <2>1, <2>4, <2>5, <2>6 DEF LogAssumption, LogInv, LogTypes, RingInOrder
<1>3. RingHolds'
  <2>1. logPc[p] = "full" /\ logPc' = [logPc EXCEPT ![p] = "pushed"] BY DEF Log!Push, Log!Goes
  <2>2. \A q \in Producers : logPc'[q] \notin {"half", "full"}
    BY <2>1 DEF LogInv, LogTypes, OneProducer, Pushing
  <2>3. head' = head + 1 /\ tail' = tail /\ ring' = ring BY DEF Log!Push
  <2>4. head = Len(admitted) BY DEF LogInv, RingInOrder
  <2>5. admitted'[head + 1] = record[p] /\ \A i \in 1 .. head : admitted'[i] = admitted[i]
    BY <2>4 DEF LogInv, LogTypes, Log!Push
  <2>6. ring[head % LogCapacity] = Twice(record[p]) BY <2>1 DEF LogInv, RingHolds
  <2>7. ASSUME NEW i \in 1 .. head', tail' < i
        PROVE ring'[(i - 1) % LogCapacity] = Twice(admitted'[i])
    <3>1. CASE i = head + 1
      <4>1. i - 1 = head BY <3>1 DEF LogInv, LogTypes
      <4> QED BY <3>1, <4>1, <2>3, <2>5, <2>6
    <3>2. CASE i # head + 1
      <4>1. i \in 1 .. head BY <3>2, <2>3 DEF LogInv, LogTypes
      <4> QED BY <4>1, <2>3, <2>5, <2>7 DEF LogInv, RingHolds
    <3> QED BY <3>1, <3>2
  <2> QED BY <2>2, <2>7 DEF RingHolds
<1>4. TakenInOrder'
  BY DEF LogAssumption, LogInv, LogTypes, Texts, Places, TakenInOrder, Twice, Log!Push,
         Log!Goes, Log!shared, RingInOrder, Popped
<1>5. WrittenInOrder'
  <2>1. Len(written) <= Len(admitted) BY DEF LogInv, LogTypes, RingInOrder, Popped
  <2>2. \A i \in 1 .. Len(admitted) : admitted'[i] = admitted[i] BY DEF LogInv, LogTypes, Log!Push
  <2>3. \A i \in 1 .. Len(written) : admitted'[i] = admitted[i] BY <2>1, <2>2 DEF LogInv, LogTypes
  <2> QED BY <2>3 DEF LogInv, WrittenInOrder, Log!Push
<1>6. WriterAwake'
  BY DEF LogInv, LogTypes, WriterAwake, Log!Push, Log!Goes, Log!shared
<1>7. LateCounted'
  <2>1. CASE logWriter = "ended"
    <3>1. p \in late BY <2>1 DEF LogInv, LogTypes, EndInOrder, Log!Push, Log!Goes
    <3>2. p \in StillLate BY <3>1 DEF StillLate, Coming, Log!Push, Log!Goes
    <3>3. StillLate' = StillLate \ {p}
      BY DEF LogInv, LogTypes, Texts, Places, StillLate, Coming, Log!Push, Log!Goes
    <3>4. StillLate \subseteq late BY DEF StillLate
    <3>5. IsFiniteSet(StillLate) /\ Cardinality(StillLate) \in Nat /\ Cardinality(late) \in Nat
      BY <3>4, FewerLate DEF LogInv
    <3>6. Cardinality(StillLate') = Cardinality(StillLate) - 1
      BY <3>2, <3>3, <3>5, FS_RemoveElement
    <3>7. head + Cardinality(StillLate) <= tail + Cardinality(late)
      BY <2>1 DEF LogInv, LateCounted
    <3>8. late' = late /\ head' = head + 1 /\ tail' = tail BY DEF Log!Push
    <3> HIDE DEF StillLate
    <3> QED BY <3>5, <3>6, <3>7, <3>8 DEF LogInv, LogTypes, LateCounted
  <2>2. CASE logWriter # "ended" BY <2>2 DEF LateCounted
  <2> QED BY <2>1, <2>2
<1>8. OneProducer' /\ EndInOrder'
  BY DEF LogInv, OneProducer, Pushing, EndInOrder, Log!Push, Log!Goes
<1> QED  BY <1>1, <1>2, <1>3, <1>4, <1>5, <1>6, <1>7, <1>8 DEF LogInv

LEMMA LogLeaveSound ==
  ASSUME LogAssumption, LogInv, NEW p \in Producers, Log!Leave(p),
         UNCHANGED <<main, logWriter, taken, written, late>>
  PROVE  LogInv'
<1>1. LogTypes'
  BY DEF LogAssumption, LogInv, LogTypes, Texts, Places, Log!Leave, Log!Goes, Log!shared
<1>2. OneProducer'
  BY DEF LogInv, LogTypes, OneProducer, Pushing, Log!Leave, Log!Goes, Log!shared
<1>3. WriterAwake' /\ EndInOrder' /\ LateCounted'
  BY DEF LogInv, WriterAwake, EndInOrder, LateCounted, StillLate, Coming, Log!Leave, Log!Goes
<1>4. RingInOrder' /\ RingHolds' /\ TakenInOrder' /\ WrittenInOrder'
  BY DEF LogInv, RingInOrder, Popped, RingHolds, Twice, TakenInOrder, WrittenInOrder,
         Log!Leave, Log!Goes
<1> QED  BY <1>1, <1>2, <1>3, <1>4 DEF LogInv

LEMMA LogSignalSound ==
  ASSUME LogAssumption, LogInv, NEW p \in Producers, Log!Signal(p),
         UNCHANGED <<main, logWriter, taken, written, late>>
  PROVE  LogInv'
<1>1. LogTypes'
  BY DEF LogAssumption, LogInv, LogTypes, Texts, Places, Log!Signal, Log!Goes, Log!shared
<1>2. WriterAwake'
  <2>1. CASE logWriter \in {"wait", "ask"}
    <3>1. main # "done" BY <2>1 DEF LogInv, LogTypes, EndInOrder
    <3>2. signalled' BY <3>1 DEF Log!Signal
    <3> QED BY <3>2 DEF WriterAwake
  <2>2. CASE logWriter \notin {"wait", "ask"} BY <2>2 DEF WriterAwake
  <2> QED BY <2>1, <2>2
<1>3. OneProducer' /\ EndInOrder' /\ LateCounted'
  BY DEF LogInv, OneProducer, Pushing, EndInOrder, LateCounted, StillLate, Coming,
         Log!Signal, Log!Goes
<1>4. RingInOrder' /\ RingHolds' /\ TakenInOrder' /\ WrittenInOrder'
  BY DEF LogInv, RingInOrder, Popped, RingHolds, Twice, TakenInOrder, WrittenInOrder,
         Log!Signal, Log!Goes
<1> QED  BY <1>1, <1>2, <1>3, <1>4 DEF LogInv

(* DeferredWriter.                                                         *)

LEMMA LogWokenSound ==
  ASSUME LogAssumption, LogInv, Log!Woken,
         UNCHANGED <<main, logPc, record, asked, admitted, late>>
  PROVE  LogInv'
<1>1. LogTypes' /\ OneProducer' /\ WriterAwake' /\ EndInOrder' /\ LateCounted'
  BY DEF LogInv, LogTypes, OneProducer, Pushing, WriterAwake, EndInOrder, LateCounted,
         StillLate, Coming, Log!Woken
<1>2. RingInOrder' /\ RingHolds' /\ TakenInOrder' /\ WrittenInOrder'
  BY DEF LogInv, RingInOrder, Popped, RingHolds, Twice, TakenInOrder, WrittenInOrder, Log!Woken
<1> QED  BY <1>1, <1>2 DEF LogInv

LEMMA LogTakeSound ==
  ASSUME LogAssumption, LogInv, Log!Take, UNCHANGED <<main, logPc, record, asked, admitted, late>>
  PROVE  LogInv'
<1>1. LogTypes'
  <2>1. CASE tail = head BY <2>1 DEF LogInv, LogTypes, Log!Take, Log!shared
  <2>2. CASE tail # head
    <3>1. tail % LogCapacity \in Log!Cell BY InCell DEF LogInv, LogTypes
    <3>2. ring[tail % LogCapacity][1] \in Texts BY <3>1 DEF LogInv, LogTypes
    <3>3. taken' \in Texts \X Texts BY <2>2, <3>2 DEF LogAssumption, Log!Take, Texts
    <3> QED BY <2>2, <3>3 DEF LogInv, LogTypes, Log!Take, Log!shared
  <2> QED BY <2>1, <2>2
<1>2. TakenInOrder'
  <2>1. CASE tail = head BY <2>1 DEF Log!Take, TakenInOrder
  <2>2. CASE tail # head
    <3>1. tail < head /\ tail + 1 \in 1 .. head /\ (tail + 1) - 1 = tail
      BY <2>2 DEF LogInv, LogTypes, RingInOrder
    <3>2. ring[tail % LogCapacity] = Twice(admitted[tail + 1])
      <4>1. tail < tail + 1 BY DEF LogInv, LogTypes
      <4> QED BY <3>1, <4>1 DEF LogInv, RingHolds
    <3>3. logWriter' = "half" /\ taken'[1] = admitted[tail + 1] BY <2>2, <3>2 DEF Log!Take, Twice
    <3> QED BY <3>1, <3>3 DEF TakenInOrder, Log!Take, Log!shared
  <2> QED BY <2>1, <2>2
<1>3. OneProducer' /\ WriterAwake' /\ EndInOrder' /\ LateCounted'
  BY DEF LogInv, OneProducer, Pushing, WriterAwake, EndInOrder, LateCounted, StillLate,
         Coming, Log!Take, Log!shared
<1>4. RingInOrder' /\ RingHolds' /\ WrittenInOrder'
  BY DEF LogInv, RingInOrder, Popped, RingHolds, Twice, WrittenInOrder, Log!Take, Log!shared
<1> QED  BY <1>1, <1>2, <1>3, <1>4 DEF LogInv

LEMMA LogTakeRestSound ==
  ASSUME LogAssumption, LogInv, Log!TakeRest,
         UNCHANGED <<main, logPc, record, asked, admitted, late>>
  PROVE  LogInv'
<1>1. LogTypes'
  <2>1. tail % LogCapacity \in Log!Cell BY InCell DEF LogInv, LogTypes
  <2>2. ring[tail % LogCapacity][2] \in Texts BY <2>1 DEF LogInv, LogTypes
  <2>3. taken' = <<taken[1], ring[tail % LogCapacity][2]>>
    BY <2>2, SecondHalf DEF LogInv, LogTypes, Log!TakeRest
  <2>4. taken' \in Texts \X Texts BY <2>2, <2>3 DEF LogInv, LogTypes
  <2> QED BY <2>4 DEF LogInv, LogTypes, Log!TakeRest, Log!shared
<1>2. TakenInOrder'
  <2>1. tail < head /\ taken[1] = admitted[tail + 1] BY DEF LogInv, TakenInOrder, Log!TakeRest
  <2>2. tail + 1 \in 1 .. head /\ (tail + 1) - 1 = tail /\ tail < tail + 1
    BY <2>1 DEF LogInv, LogTypes
  <2>3. ring[tail % LogCapacity] = Twice(admitted[tail + 1]) BY <2>2 DEF LogInv, RingHolds
  <2>4. tail % LogCapacity \in Log!Cell BY InCell DEF LogInv, LogTypes
  <2>5. ring[tail % LogCapacity][2] \in Texts BY <2>4 DEF LogInv, LogTypes
  <2>6. taken' = <<taken[1], ring[tail % LogCapacity][2]>>
    BY <2>5, SecondHalf DEF LogInv, LogTypes, Log!TakeRest
  <2>7. taken' = Twice(admitted[tail + 1]) BY <2>1, <2>3, <2>6 DEF Twice
  <2> QED BY <2>1, <2>7 DEF TakenInOrder, Log!TakeRest, Log!shared
<1>3. OneProducer' /\ WriterAwake' /\ EndInOrder' /\ LateCounted'
  BY DEF LogInv, OneProducer, Pushing, WriterAwake, EndInOrder, LateCounted, StillLate,
         Coming, Log!TakeRest, Log!shared
<1>4. RingInOrder' /\ RingHolds' /\ WrittenInOrder'
  BY DEF LogInv, RingInOrder, Popped, RingHolds, Twice, WrittenInOrder, Log!TakeRest, Log!shared
<1> QED  BY <1>1, <1>2, <1>3, <1>4 DEF LogInv

LEMMA LogPopSound ==
  ASSUME LogAssumption, LogInv, Log!Pop, UNCHANGED <<main, logPc, record, asked, admitted, late>>
  PROVE  LogInv'
<1>1. LogTypes'
  <2>1. tail' \in Nat BY DEF LogInv, LogTypes, Log!Pop
  <2> QED BY <2>1 DEF LogInv, LogTypes, Log!Pop
<1>2. RingInOrder'
  BY DEF LogAssumption, LogInv, LogTypes, Texts, Places, RingInOrder, Popped, Log!Pop,
         Log!shared, TakenInOrder
<1>3. RingHolds'
  <2>1. \A i \in 1 .. head : tail' < i => tail < i BY DEF LogInv, LogTypes, Log!Pop
  <2> QED BY <2>1 DEF LogInv, RingHolds, Log!Pop
<1>4. TakenInOrder'
  BY DEF LogInv, LogTypes, TakenInOrder, Twice, Log!Pop, Log!shared
<1>5. OneProducer' /\ WriterAwake' /\ EndInOrder' /\ LateCounted'
  BY DEF LogInv, OneProducer, Pushing, WriterAwake, EndInOrder, LateCounted, StillLate,
         Coming, Log!Pop
<1>6. WrittenInOrder'
  BY DEF LogInv, WrittenInOrder, Twice, Log!Pop
<1> QED  BY <1>1, <1>2, <1>3, <1>4, <1>5, <1>6 DEF LogInv

LEMMA LogWriteSound ==
  ASSUME LogAssumption, LogInv, Log!Write,
         UNCHANGED <<main, logPc, record, asked, admitted, late>>
  PROVE  LogInv'
<1>1. LogTypes'
  <2>1. written' \in Seq(Texts \X Texts) BY DEF LogInv, LogTypes, Log!Write
  <2> QED BY <2>1 DEF LogInv, LogTypes, Log!Write, Log!shared
<1>2. WrittenInOrder'
  <2>1. tail = Len(written) + 1 /\ taken = Twice(admitted[tail])
    BY DEF LogInv, RingInOrder, Popped, TakenInOrder, Log!Write
  <2>2. written'[Len(written) + 1] = taken /\ Len(written') = Len(written) + 1
        /\ \A i \in 1 .. Len(written) : written'[i] = written[i]
    BY DEF LogInv, LogTypes, Log!Write
  <2>3. admitted' = admitted OBVIOUS
  <2>4. Len(written) \in Nat BY DEF LogInv, LogTypes
  <2> QED BY <2>1, <2>2, <2>3, <2>4 DEF LogInv, WrittenInOrder
<1>3. OneProducer' /\ WriterAwake' /\ EndInOrder' /\ LateCounted'
  BY DEF LogInv, OneProducer, Pushing, WriterAwake, EndInOrder, LateCounted, StillLate,
         Coming, Log!Write, Log!shared
<1>4. RingInOrder' /\ RingHolds' /\ TakenInOrder'
  BY DEF LogInv, RingInOrder, Popped, RingHolds, Twice, TakenInOrder, Log!Write, Log!shared
<1> QED  BY <1>1, <1>2, <1>3, <1>4 DEF LogInv

LEMMA LogAskToEndSound ==
  ASSUME LogAssumption, LogInv, Log!AskToEnd,
         UNCHANGED <<main, logPc, record, asked, admitted, late>>
  PROVE  LogInv'
<1>1. LateCounted'
  <2>1. StillLate \subseteq late /\ StillLate' = StillLate /\ late' = late BY DEF StillLate
  <2>2. Cardinality(StillLate) <= Cardinality(late) /\ Cardinality(StillLate) \in Nat
          /\ Cardinality(late) \in Nat
    BY <2>1, FewerLate DEF LogInv
  <2>3. logWriter' = "ended" => tail = head BY DEF Log!AskToEnd, Log!MayEnd
  <2>4. tail' = tail /\ head' = head BY DEF Log!AskToEnd, Log!shared
  <2> HIDE DEF StillLate
  <2> QED BY <2>1, <2>2, <2>3, <2>4 DEF LogInv, LogTypes, LateCounted
<1>2. LogTypes' /\ OneProducer' /\ WriterAwake' /\ EndInOrder'
  BY DEF LogInv, LogTypes, OneProducer, Pushing, WriterAwake, EndInOrder, Log!AskToEnd,
         Log!MayEnd, Log!shared
<1>3. RingInOrder' /\ RingHolds' /\ TakenInOrder' /\ WrittenInOrder'
  BY DEF LogInv, RingInOrder, Popped, RingHolds, Twice, TakenInOrder, WrittenInOrder,
         Log!AskToEnd, Log!MayEnd, Log!shared
<1> QED  BY <1>1, <1>2, <1>3 DEF LogInv

(* Initialize and Shutdown.                                                *)

LEMMA LogInitializeSound ==
  ASSUME LogAssumption, LogInv, Log!Initialize,
         UNCHANGED <<busy, ring, head, tail, logPc, record, taken, asked, admitted, written>>
  PROVE  LogInv'
<1>1. RingInOrder'
  <2>1. logWriter = "none" BY DEF LogInv, EndInOrder, Log!Initialize
  <2>2. Popped' = Popped BY <2>1 DEF Popped, Log!Initialize
  <2> QED BY <2>2 DEF LogInv, RingInOrder, Log!Initialize
<1>2. WriterAwake'
  <2>1. head = tail BY DEF LogInv, EndInOrder, Log!Initialize
  <2> QED BY <2>1 DEF WriterAwake
<1>3. LogTypes' /\ OneProducer' /\ EndInOrder' /\ LateCounted'
  BY DEF LogInv, LogTypes, OneProducer, Pushing, EndInOrder, LateCounted, StillLate,
         Coming, Log!Initialize
<1>4. RingHolds' /\ TakenInOrder' /\ WrittenInOrder'
  BY DEF LogInv, RingHolds, Twice, TakenInOrder, WrittenInOrder, Log!Initialize
<1> QED  BY <1>1, <1>2, <1>3, <1>4 DEF LogInv

LEMMA LogShutdownSound ==
  ASSUME LogAssumption, LogInv, Log!Shutdown,
         UNCHANGED <<busy, ring, head, tail, logPc, record, taken, asked, admitted, written>>
  PROVE  LogInv'
<1>1. LogTypes'
  BY DEF LogInv, LogTypes, Texts, Places, Log!Shutdown, Log!shared
<1>2. LateCounted'
  <2>1. CASE logWriter = "ended"
    <3>1. late' = late BY <2>1 DEF LogInv, LogTypes, EndInOrder, Log!Shutdown
    <3>2. StillLate' = StillLate BY <3>1 DEF StillLate
    <3> QED BY <3>1, <3>2 DEF LogInv, LateCounted, Log!Shutdown
  <2>2. CASE logWriter # "ended" BY <2>2 DEF LateCounted, Log!Shutdown
  <2> QED BY <2>1, <2>2
<1>3. OneProducer' /\ WriterAwake' /\ EndInOrder'
  BY DEF LogInv, OneProducer, Pushing, WriterAwake, EndInOrder, Log!Shutdown
<1>4. RingInOrder' /\ RingHolds' /\ TakenInOrder' /\ WrittenInOrder'
  BY DEF LogInv, RingInOrder, Popped, RingHolds, Twice, TakenInOrder, WrittenInOrder, Log!Shutdown
<1> QED  BY <1>1, <1>2, <1>3, <1>4 DEF LogInv

LEMMA StutterSound ==
  ASSUME LogAssumption, LogInv, UNCHANGED Log!vars
  PROVE  LogInv'
<1>1. LogTypes' /\ OneProducer' /\ WriterAwake' /\ EndInOrder' /\ LateCounted'
  BY DEF LogInv, LogTypes, OneProducer, Pushing, WriterAwake, EndInOrder, LateCounted,
         StillLate, Coming, Log!vars, Log!shared
<1>2. RingInOrder' /\ RingHolds' /\ TakenInOrder' /\ WrittenInOrder'
  BY DEF LogInv, RingInOrder, Popped, RingHolds, Twice, TakenInOrder, WrittenInOrder,
         Log!vars, Log!shared
<1> QED  BY <1>1, <1>2 DEF LogInv

-----------------------------------------------------------------------------
LEMMA LogInitially == ASSUME LogAssumption, Log!Init PROVE LogInv
<1>1. LogTypes
  <2>1. 0 \in Texts /\ <<0, 0>> \in Texts \X Texts BY DEF LogAssumption, Texts
  <2>2. ring \in [Log!Cell -> Texts \X Texts] /\ record \in [Producers -> Texts]
    BY <2>1 DEF Log!Init
  <2>3. logPc \in [Producers -> Places] BY DEF Log!Init, Places
  <2>4. admitted \in Seq(Texts) /\ written \in Seq(Texts \X Texts) BY DEF Log!Init
  <2> QED BY <2>1, <2>2, <2>3, <2>4 DEF Log!Init, LogTypes
<1>2. OneProducer BY DEF Log!Init, OneProducer, Pushing
<1>3. RingInOrder BY DEF LogAssumption, Log!Init, RingInOrder, Popped
<1>4. RingHolds BY DEF LogAssumption, Log!Init, RingHolds
<1>5. TakenInOrder BY DEF Log!Init, TakenInOrder
<1>6. WrittenInOrder BY DEF Log!Init, WrittenInOrder
<1>7. WriterAwake BY DEF Log!Init, WriterAwake
<1>8. EndInOrder BY DEF Log!Init, EndInOrder
<1>9. LateCounted BY DEF Log!Init, LateCounted
<1> QED BY <1>1, <1>2, <1>3, <1>4, <1>5, <1>6, <1>7, <1>8, <1>9 DEF LogInv

LEMMA LogStep == ASSUME LogAssumption, LogInv, [Log!Next]_(Log!vars) PROVE LogInv'
<1>1. ASSUME NEW p \in Producers, Log!TryDeferred(p) PROVE LogInv'
  BY <1>1, LogAskSound, LogEnterSound, LogCopyHalfSound, LogCopyRestSound, LogPushSound,
     LogLeaveSound, LogSignalSound
  DEF Log!TryDeferred
<1>2. CASE Log!DeferredWriter
  BY <1>2, LogWokenSound, LogTakeSound, LogTakeRestSound, LogPopSound, LogWriteSound,
     LogAskToEndSound
  DEF Log!DeferredWriter
<1>3. CASE Log!Main BY <1>3, LogInitializeSound, LogShutdownSound DEF Log!Main
<1>4. CASE UNCHANGED Log!vars BY <1>4, StutterSound
<1> QED BY <1>1, <1>2, <1>3, <1>4 DEF Log!Next

(* The module of the log counts as this one does.                          *)
LEMMA SameCount == ASSUME NEW S PROVE Log!Cardinality(S) = Cardinality(S)
  BY DEF Cardinality, Log!Cardinality

(* From the invariant.                                                     *)
LEMMA AllIsWritten == ASSUME LogAssumption, LogInv PROVE Log!AdmittedIsWritten
<1>1. Len(written) \in Nat /\ Len(admitted) \in Nat /\ DOMAIN written = 1 .. Len(written)
  BY DEF LogInv, LogTypes
<1>2. \A i \in DOMAIN written : written[i][1] = written[i][2]
  BY <1>1 DEF LogInv, WrittenInOrder, Twice
<1>3. Log!Text \in Seq(Texts) /\ Len(Log!Text) = Len(written)
  BY <1>1 DEF LogInv, LogTypes, Log!Text
<1>4. \A i \in 1 .. Len(written) : Log!Text[i] = admitted[i]
  BY <1>1 DEF LogInv, WrittenInOrder, Twice, Log!Text
<1>5. Len(written) <= Len(admitted) BY DEF LogInv, LogTypes, RingInOrder, Popped
<1>6. Log!IsPrefix(Log!Text, admitted)
  BY <1>1, <1>3, <1>4, <1>5 DEF LogInv, LogTypes, Log!IsPrefix
<1>7. ASSUME Len(written) = Len(admitted) PROVE Log!Text = admitted
  BY <1>1, <1>3, <1>4, <1>7 DEF LogInv, LogTypes
<1>8. ASSUME logWriter = "wait", ~signalled, \A p \in Producers
        : logPc[p] \notin {"pushed", "left"}
      PROVE Log!Text = admitted
  BY <1>7, <1>8 DEF LogInv, LogTypes, WriterAwake, RingInOrder, Popped
<1>9. StillLate \subseteq late BY DEF StillLate
<1>10. Cardinality(StillLate) \in Nat /\ Cardinality(late) \in Nat BY <1>9, FewerLate DEF LogInv
<1>11. ASSUME main = "done" PROVE Len(admitted) <= Len(Log!Text) + Cardinality(late)
  <2>1. logWriter = "ended" BY <1>11 DEF LogInv, EndInOrder
  <2>2. head + Cardinality(StillLate) <= tail + Cardinality(late) BY <2>1 DEF LogInv, LateCounted
  <2>3. head = Len(admitted) /\ tail = Len(written) BY <2>1, <1>1 DEF LogInv, RingInOrder, Popped
  <2> HIDE DEF StillLate
  <2> QED BY <1>1, <1>3, <1>10, <2>2, <2>3
<1>12. ASSUME main = "done", late = {} PROVE Log!Text = admitted
  <2>1. Cardinality(late) = 0 BY <1>12, FS_EmptySet
  <2> QED BY <1>1, <1>3, <1>5, <1>7, <1>11, <1>12, <2>1
<1>13. Log!Cardinality(late) = Cardinality(late) BY SameCount
<1> QED BY <1>2, <1>6, <1>8, <1>11, <1>12, <1>13 DEF Log!AdmittedIsWritten

(* logger.cpp, deferred_queue.hpp: the inductive invariant of the log's    *)
(* queue, for every capacity and any number of producers.                  *)
THEOREM LogInvariant == ASSUME LogAssumption PROVE Log!Spec => []LogInv
  BY LogInitially, LogStep, PTL DEF Log!Spec

(* What TryDeferred admitted is written whole and in order; the writer     *)
(* sleeps on nothing, and Shutdown leaves at most one record of each       *)
(* producer that was on its way (AdmittedIsWritten of DeferredLog).        *)
THEOREM NoRecordIsLost == ASSUME LogAssumption PROVE Log!Spec => []AdmittedIsWritten
  BY LogInvariant, AllIsWritten, PTL DEF AdmittedIsWritten

-----------------------------------------------------------------------------
(* The rate of the foreground program, between three threads.              *)

(* A reading that is ready is of the frames of one trace and one kind, all *)
(* of the program it names, and right but for a loss nobody was told of.   *)
Measured(r) ==
  r.ready =>
    /\ \A x \in r.frames : x.of = r.of /\ (x.right \/ r.raced)
    /\ \A x, y \in r.frames : x.trace = y.trace /\ x.kind = y.kind

RateFrames == [of : Observer!Somebody, trace : Nat, kind : Observer!Kinds, right : BOOLEAN]
RateReadings ==
  [ready : BOOLEAN, of : Observer!Somebody, frames : SUBSET RateFrames, raced : BOOLEAN]

RateTypes ==
  /\ trace \in [on : {"no", "yes", "ended"}, of : Observer!Somebody, number : Nat,
                failed : BOOLEAN, lost : BOOLEAN]
  /\ tracker \in [of : Observer!Somebody, kind : Observer!Kinds, frames : SUBSET RateFrames]
  /\ control \in [at : {"wait", "stop", "start", "check", "read", "publish", "retire"},
                  of : Observer!Somebody, healthy : BOOLEAN, lost : BOOLEAN,
                  reading : RateReadings]
  /\ desired \in Observer!Somebody
  /\ published \in RateReadings
  /\ window \in [target : Observer!Somebody, at : {"read", "clear"}, shown : RateReadings]

(* The tracker never holds frames of two traces: it is emptied before one  *)
(* begins.  A frame that is not right came after a loss.                   *)
FramesAreOfTheTrace ==
  \A x \in tracker.frames :
    /\ x.of = tracker.of /\ x.kind = tracker.kind /\ x.trace = trace.number
    /\ x.right \/ trace.lost

RateInv ==
  /\ RateTypes
  /\ FramesAreOfTheTrace
  /\ control.at = "read" => (control.healthy => ~control.lost)
  /\ Measured(control.reading) /\ Measured(published) /\ Measured(window.shown)
  /\ window.shown.ready => window.shown.of = window.target

LEMMA NothingMeasured == Observer!NoReading \in RateReadings /\ Measured(Observer!NoReading)
  BY DEF Observer!NoReading, RateReadings, RateFrames, Measured, Observer!Somebody

LEMMA RateConsumerSound == ASSUME RateInv, Observer!Consumer PROVE RateInv'
<1> USE DEF RateInv
<1>1. UNCHANGED <<control, desired, published, window>>
  BY DEF Observer!Consumer
<1>2. /\ Measured(control.reading)' /\ Measured(published)' /\ Measured(window.shown)'
      /\ (control.at = "read" => (control.healthy => ~control.lost))'
      /\ (window.shown.ready => window.shown.of = window.target)'
  BY <1>1 DEF Measured
<1>3. CASE Observer!Record
  <2>1. PICK kind \in Observer!Kinds :
          tracker' = Observer!Recorded([of |-> trace.of, trace |-> trace.number, kind |-> kind,
                               right |-> ~trace.lost])
    BY <1>3 DEF Observer!Record
  <2> DEFINE frame == [of |-> trace.of, trace |-> trace.number, kind |-> kind,
                       right |-> ~trace.lost]
  <2>2. frame \in RateFrames
    BY DEF RateTypes, RateFrames
  <2>3. tracker' = [of |-> tracker.of, kind |-> kind,
                    frames |-> IF kind = tracker.kind THEN tracker.frames \cup {frame}
                               ELSE {frame}]
    BY <2>1 DEF Observer!Recorded, RateTypes
  <2>4. trace' = trace /\ tracker.of = trace.of
    BY <1>3 DEF Observer!Record
  <2> HIDE DEF frame
  <2>5. RateTypes'
    BY <1>1, <2>2, <2>3, <2>4 DEF RateTypes
  <2>6. frame.of = tracker.of /\ frame.kind = kind /\ frame.trace = trace.number
        /\ (frame.right \/ trace.lost)
    BY <2>4 DEF frame, RateTypes
  <2>7. FramesAreOfTheTrace'
    <3>1. ASSUME NEW x \in tracker'.frames
          PROVE  x = frame \/ (x \in tracker.frames /\ kind = tracker.kind)
      BY <2>3
    <3>2. tracker'.of = tracker.of /\ tracker'.kind = kind
      BY <2>3
    <3> QED BY <2>4, <2>6, <3>1, <3>2 DEF FramesAreOfTheTrace
  <2> QED BY <1>2, <2>5, <2>7
<1>4. CASE Observer!CorrelationFails \/ Observer!EventLost \/ Observer!TraceEnds
  <2>1. tracker' = tracker /\ trace'.number = trace.number /\ (trace.lost => trace'.lost)
    BY <1>4 DEF Observer!CorrelationFails, Observer!EventLost, Observer!TraceEnds, RateTypes
  <2>2. RateTypes'
    BY <1>1, <1>4 DEF Observer!CorrelationFails, Observer!EventLost, Observer!TraceEnds, RateTypes
  <2> QED BY <1>2, <2>1, <2>2 DEF FramesAreOfTheTrace
<1> QED BY <1>3, <1>4 DEF Observer!Consumer

LEMMA RateStartSessionSound ==
  ASSUME RateInv, Observer!StartSession, UNCHANGED <<desired, window>>
  PROVE  RateInv'
<1> USE DEF RateInv
<1>1. control' = [control EXCEPT !.at = "check"] /\ published' = published
  BY DEF Observer!StartSession
<1>2. control'.at = "check" /\ control'.reading = control.reading
  BY <1>1 DEF RateTypes
<1>3. Measured(control.reading)' /\ Measured(published)' /\ Measured(window.shown)'
  BY <1>1, <1>2 DEF Measured
<1>4. CASE UNCHANGED <<trace, tracker>>
  BY <1>1, <1>2, <1>3, <1>4 DEF RateTypes, FramesAreOfTheTrace
<1>5. CASE tracker' = Observer!Began(control.of) /\ ~UNCHANGED <<trace, tracker>>
  <2>1. PICK on \in {"yes", "no"} :
          trace' = [on |-> on, of |-> control.of, number |-> trace.number + 1,
                    failed |-> FALSE, lost |-> FALSE]
    BY <1>5 DEF Observer!StartSession
  <2>2. RateTypes'
    BY <1>1, <1>5, <2>1 DEF RateTypes, Observer!Began, Observer!Kinds
  <2>3. tracker'.frames = {}
    BY <1>5 DEF Observer!Began
  <2> QED BY <1>1, <1>2, <1>3, <2>2, <2>3 DEF FramesAreOfTheTrace
<1> QED BY <1>4, <1>5 DEF Observer!StartSession

LEMMA RateCheckSound ==
  ASSUME RateInv, Observer!Check, UNCHANGED <<desired, window>>
  PROVE  RateInv'
<1> USE DEF RateInv
<1>1. /\ trace' = trace /\ published' = published
      /\ tracker' = [tracker EXCEPT !.frames =
           IF trace.on = "yes" /\ ~trace.failed /\ ~Observer!Unbroken THEN {} ELSE @]
      /\ control' = [control EXCEPT !.at = "read",
           !.healthy = trace.on = "yes" /\ ~trace.failed
             /\ Observer!Unbroken, !.lost = trace.lost]
  BY DEF Observer!Check
<1>2. /\ tracker'.of = tracker.of /\ tracker'.kind = tracker.kind
      /\ tracker'.frames \subseteq tracker.frames
      /\ control'.reading = control.reading
      /\ control'.healthy => ~control'.lost
  BY <1>1 DEF RateTypes, Observer!Unbroken
<1>3. RateTypes'
  BY <1>1 DEF RateTypes, Observer!Unbroken
<1>4. FramesAreOfTheTrace'
  BY <1>1, <1>2 DEF FramesAreOfTheTrace
<1>5. Measured(control.reading)' /\ Measured(published)' /\ Measured(window.shown)'
  BY <1>1, <1>2 DEF Measured
<1> QED BY <1>2, <1>3, <1>4, <1>5

LEMMA RateReadRateSound ==
  ASSUME RateInv, Observer!ReadRate, UNCHANGED <<desired, window>>
  PROVE  RateInv'
<1> USE DEF RateInv
<1> DEFINE r == [ready |-> control.healthy /\ tracker.frames # {}, of |-> tracker.of,
                 frames |-> IF control.healthy THEN tracker.frames ELSE {},
                 raced |-> trace.lost /\ ~control.lost]
<1>1. /\ control.at = "read" /\ control' = [control EXCEPT !.at = "publish", !.reading = r]
      /\ UNCHANGED <<trace, tracker, published>>
  BY DEF Observer!ReadRate
<1>2. r \in RateReadings
  BY DEF RateReadings, RateTypes
<1>3. Measured(r)
  BY <1>1 DEF Measured, FramesAreOfTheTrace, RateTypes
<1> HIDE DEF r
<1>4. control'.reading = r /\ control'.at = "publish"
  BY <1>1 DEF RateTypes
<1>5. RateTypes'
  BY <1>1, <1>2 DEF RateTypes
<1>6. Measured(control.reading)' /\ Measured(published)' /\ Measured(window.shown)'
  BY <1>1, <1>3, <1>4 DEF Measured
<1> QED BY <1>1, <1>4, <1>5, <1>6 DEF FramesAreOfTheTrace

LEMMA RateControllerSound == ASSUME RateInv, Observer!Controller PROVE RateInv'
<1> USE DEF RateInv
<1>1. UNCHANGED <<desired, window>>
  BY DEF Observer!Controller
<1>2. CASE Observer!Wake
  <2>1. UNCHANGED <<trace, tracker, published>> /\ RateTypes'
    BY <1>1, <1>2 DEF Observer!Wake, RateTypes
  <2>2. control'.reading = control.reading /\ control'.at # "read"
    BY <1>2 DEF Observer!Wake, RateTypes
  <2> QED BY <1>1, <2>1, <2>2 DEF Measured, FramesAreOfTheTrace
<1>3. CASE Observer!SwitchTarget
  <2>1. RateTypes'
    BY <1>1, <1>3, NothingMeasured DEF Observer!SwitchTarget, RateTypes
  <2>2. /\ control'.reading = control.reading /\ control'.at # "read"
        /\ trace'.number = trace.number /\ trace'.lost = trace.lost
        /\ tracker' = tracker /\ published' = Observer!NoReading
    BY <1>3 DEF Observer!SwitchTarget, RateTypes
  <2> QED BY <1>1, <2>1, <2>2, NothingMeasured DEF Measured, FramesAreOfTheTrace
<1>4. CASE Observer!StartSession
  BY <1>1, <1>4, RateStartSessionSound
<1>5. CASE Observer!Check
  BY <1>1, <1>5, RateCheckSound
<1>6. CASE Observer!ReadRate
  BY <1>1, <1>6, RateReadRateSound
<1>7. CASE Observer!Publish
  <2>1. RateTypes'
    BY <1>1, <1>7, NothingMeasured DEF Observer!Publish, RateTypes
  <2>2. /\ control'.reading = Observer!NoReading /\ control'.at # "read"
        /\ published' = control.reading /\ UNCHANGED <<trace, tracker>>
    BY <1>7 DEF Observer!Publish, RateTypes
  <2> QED BY <1>1, <2>1, <2>2, NothingMeasured DEF Measured, FramesAreOfTheTrace
<1>8. CASE Observer!Retire
  <2>1. RateTypes'
    BY <1>1, <1>8 DEF Observer!Retire, RateTypes
  <2>2. /\ control'.reading = control.reading /\ control'.at # "read"
        /\ tracker'.frames = {} /\ published' = published
    BY <1>8 DEF Observer!Retire, RateTypes
  <2> QED BY <1>1, <2>1, <2>2 DEF Measured, FramesAreOfTheTrace
<1> QED BY <1>2, <1>3, <1>4, <1>5, <1>6, <1>7, <1>8 DEF Observer!Controller

LEMMA RateWindowSound == ASSUME RateInv, Observer!Window PROVE RateInv'
<1> USE DEF RateInv
<1>1. UNCHANGED <<trace, tracker, control>>
  BY DEF Observer!Window
<1>2. Measured(control.reading)' /\ FramesAreOfTheTrace'
  BY <1>1 DEF Measured, FramesAreOfTheTrace
<1>3. ASSUME NEW t \in Observer!Somebody, Observer!Foreground(t)
      PROVE  RateInv'
  <2>1. RateTypes'
    BY <1>1, <1>3, NothingMeasured DEF Observer!Foreground, RateTypes
  <2>2. published' = published /\ window'.shown = Observer!NoReading /\ ~Observer!NoReading.ready
    BY <1>3 DEF Observer!Foreground, Observer!NoReading
  <2> QED BY <1>1, <1>2, <2>1, <2>2, NothingMeasured DEF Measured
<1>4. CASE Observer!Clear
  <2>1. RateTypes'
    BY <1>1, <1>4, NothingMeasured DEF Observer!Clear, RateTypes
  <2>2. published' = Observer!NoReading /\ window'.shown = window.shown
          /\ window'.target = window.target
    BY <1>4 DEF Observer!Clear, RateTypes
  <2> QED BY <1>1, <1>2, <2>1, <2>2, NothingMeasured DEF Measured
<1>5. CASE Observer!TryRead
  <2>1. Observer!Matched \in RateReadings /\ Measured(Observer!Matched)
        /\ (Observer!Matched.ready => Observer!Matched.of = window.target)
    <3>1. CASE published.of = window.target
      BY <3>1 DEF Observer!Matched, RateTypes
    <3>2. CASE published.of # window.target
      BY <3>2, NothingMeasured DEF Observer!Matched, Observer!NoReading
    <3> QED BY <3>1, <3>2
  <2>2. window' = [window EXCEPT !.shown = Observer!Matched] /\ UNCHANGED <<desired, published>>
    BY <1>5 DEF Observer!TryRead
  <2>3. RateTypes' /\ window'.shown = Observer!Matched /\ window'.target = window.target
    BY <1>1, <2>1, <2>2 DEF RateTypes
  <2> QED BY <1>1, <1>2, <2>1, <2>2, <2>3 DEF Measured
<1> QED BY <1>3, <1>4, <1>5 DEF Observer!Window

LEMMA RateInitially == Observer!Init => RateInv
<1> SUFFICES ASSUME Observer!Init PROVE RateInv
  OBVIOUS
<1>1. RateTypes
  BY NothingMeasured DEF Observer!Init, RateTypes, Observer!Somebody, Observer!Kinds
<1>2. /\ tracker.frames = {} /\ control.at = "wait" /\ control.reading = Observer!NoReading
      /\ published = Observer!NoReading /\ window.shown = Observer!NoReading
           /\ ~Observer!NoReading.ready
  BY DEF Observer!Init, Observer!NoReading
<1> QED BY <1>1, <1>2, NothingMeasured DEF RateInv, FramesAreOfTheTrace, Measured

LEMMA RateStep == ASSUME RateInv, [Observer!Next]_(Observer!vars) PROVE RateInv'
<1>1. CASE UNCHANGED Observer!vars
  BY <1>1 DEF Observer!vars, RateInv, RateTypes, FramesAreOfTheTrace, Measured
<1> QED BY <1>1, RateConsumerSound, RateControllerSound, RateWindowSound DEF Observer!Next

(* The three threads of the rate, for any programs and any number of       *)
(* traces: the tracker holds frames of one trace, program and kind, and    *)
(* every reading on its way to the window was taken from such a tracker.   *)
THEOREM RateInvariant == Observer!Spec => []RateInv
  BY RateInitially, RateStep, PTL DEF Observer!Spec

(* A rate that is shown was measured: of the program it is shown for, from *)
(* frames of one trace and one kind, none of them counted after a loss the *)
(* controller could have known of (dxgi_observer.cpp, ControlLoop).        *)
THEOREM RateIsMeasured == Observer!Spec => []ReadingIsMeasured
<1>1. RateInv => ReadingIsMeasured
  BY DEF RateInv, Measured, ReadingIsMeasured, Observer!ReadingIsMeasured
<1> QED BY <1>1, RateInvariant, PTL

-----------------------------------------------------------------------------
(* The desktop OSD: the work it shows, and whether it is shown.            *)

HandTypes ==
  /\ visible \in BOOLEAN /\ collapsed \in BOOLEAN /\ locked \in BOOLEAN /\ moving \in BOOLEAN
  /\ drag \in BOOLEAN /\ captured \in BOOLEAN
  /\ mark \in Osd!Marks /\ pressed \in SUBSET Osd!Buttons

WorkTypes ==
  /\ slot \in BOOLEAN /\ osdTimer \in {"Off", "On", "Refused"} /\ stray \in BOOLEAN
  /\ action \in Osd!Actions \cup {"None"}
  /\ indicator \in {"None", "Work", "Result", "Spin"}
  /\ worker \in {"None", "Running", "Returned"}
  /\ age \in 0 .. 2 /\ hold \in {"Unset", "Waiting", "Over"}

OsdTypes == HandTypes /\ WorkTypes

PresenceTypes ==
  /\ osdSuppressed \in BOOLEAN /\ kept \in BOOLEAN /\ stored \in BOOLEAN /\ refresh \in BOOLEAN
  /\ here \in BOOLEAN /\ quiet \in BOOLEAN /\ idle \in BOOLEAN /\ awake \in BOOLEAN

(* The lock turns and the shape changes under a captured pointer only, and *)
(* a captured pointer has woken the header.                                *)
HandOnHeader == captured => ~idle

OsdInv ==
  /\ OsdTypes /\ PresenceTypes
  /\ Osd!ActionIsWatched /\ Osd!UnlockedIsShown /\ HandOnHeader /\ Osd!ChoiceKept

(* What the pointer, the work and the mark of the overlay change.          *)
PointerInv == OsdTypes /\ Osd!ActionIsWatched

(* The shape and the lock are those of an OSD that was left alone.         *)
SameShape == UNCHANGED <<collapsed, locked>>

LEMMA OsdEndActionSound ==
  ASSUME Osd!EndAction, visible' \in BOOLEAN, collapsed' \in BOOLEAN, locked' \in BOOLEAN,
         moving' \in BOOLEAN, captured' \in BOOLEAN, drag' \in BOOLEAN,
         mark' \in Osd!Marks, pressed' \in SUBSET Osd!Buttons,
         drag' => Osd!Arrangeable' /\ captured'
  PROVE  PointerInv'
<1>1. HandTypes' /\ WorkTypes'
  <2>1. HandTypes'
    BY DEF HandTypes
  <2>2. WorkTypes'
    <3>1. slot' \in BOOLEAN /\ osdTimer' \in {"Off", "On", "Refused"} /\ stray' \in BOOLEAN
      BY DEF Osd!EndAction
    <3>2. action' \in Osd!Actions \cup {"None"}
      BY DEF Osd!EndAction
    <3>3. age' \in 0 .. 2 /\ hold' \in {"Unset", "Waiting", "Over"}
      BY DEF Osd!EndAction
    <3>4. /\ indicator' \in {"None", "Work", "Result", "Spin"}
          /\ worker' \in {"None", "Running", "Returned"}
      BY DEF Osd!EndAction
    <3> QED BY <3>1, <3>2, <3>3, <3>4 DEF WorkTypes
  <2> QED BY <2>1, <2>2
<1>2. Osd!ActionIsWatched'
  BY DEF Osd!EndAction, Osd!ActionIsWatched
<1> QED BY <1>1, <1>2 DEF PointerInv, OsdTypes

LEMMA OsdPressSound ==
  ASSUME PointerInv, Osd!Press
  PROVE  PointerInv' /\ visible' = visible /\ SameShape
<1> USE DEF PointerInv, SameShape
<1>1. ASSUME NEW on \in Osd!Points, Osd!Down(on)
      PROVE  PointerInv' /\ visible' = visible /\ SameShape
  <2>1. UNCHANGED <<Osd!body, mark, Osd!work, stray>>
    BY <1>1 DEF Osd!Down
  <2>2. /\ pressed' \subseteq Osd!Buttons /\ drag' \in BOOLEAN /\ captured' \in BOOLEAN
        /\ drag' => Osd!Arrangeable /\ captured'
    <3>1. pressed \subseteq Osd!Buttons /\ drag \in BOOLEAN /\ (drag => captured) /\ ~captured
      BY <1>1 DEF Osd!Down, OsdTypes, HandTypes, Osd!ActionIsWatched
    <3>2. drag = FALSE
      BY <3>1
    <3>3. captured' = (on \in Osd!Buttons \/ drag') /\ captured' \in BOOLEAN
      BY <1>1 DEF Osd!Down, Osd!Buttons
    <3>4. pressed' \subseteq Osd!Buttons /\ (drag' = FALSE \/ (drag' = TRUE /\ Osd!Arrangeable))
      BY <1>1, <3>1, <3>2 DEF Osd!Down, Osd!Buttons
    <3> QED BY <3>3, <3>4
  <2>3. OsdTypes'
    BY <2>1, <2>2 DEF Osd!body, Osd!work, OsdTypes, HandTypes, WorkTypes
  <2>4. Osd!ActionIsWatched'
    BY <2>1, <2>2 DEF Osd!body, Osd!work, Osd!ActionIsWatched, Osd!Arrangeable, Osd!ShowsLock
  <2> QED BY <2>1, <2>3, <2>4 DEF Osd!body
<1>2. CASE Osd!StripDown
  BY <1>2
  DEF Osd!StripDown, Osd!EnterSizeMove, Osd!gestures, OsdTypes, HandTypes, WorkTypes,
      Osd!ActionIsWatched, Osd!Arrangeable, Osd!ShowsLock
<1>3. ASSUME NEW a \in Osd!Actions, Osd!Activate(a)
      PROVE  PointerInv' /\ visible' = visible /\ SameShape
  <2>1. /\ UNCHANGED <<Osd!body, mark, Osd!gestures>> /\ visible /\ collapsed /\ locked
        /\ indicator = "None" /\ action = "None"
    BY <1>3 DEF Osd!Activate, Osd!Active, Osd!ActionIsWatched, OsdTypes, HandTypes, WorkTypes
  <2>2. CASE /\ slot' = TRUE /\ stray' = TRUE
             /\ UNCHANGED <<action, indicator, worker, osdTimer, age, hold>>
    BY <2>1, <2>2
    DEF Osd!body, Osd!gestures, OsdTypes, HandTypes, WorkTypes, Osd!ActionIsWatched,
        Osd!Arrangeable, Osd!ShowsLock
  <2>3. CASE action' = a /\ slot' = TRUE /\ indicator' = "Work" /\ worker' = "Running"
             /\ osdTimer' \in {"On", "Refused"} /\ age' = 0 /\ hold' = "Unset" /\ stray' = FALSE
    <3>1. HandTypes' /\ WorkTypes'
      <4>1. HandTypes'
        BY <2>1 DEF Osd!body, Osd!gestures, OsdTypes, HandTypes
      <4>2. WorkTypes'
        <5>1. slot' \in BOOLEAN /\ osdTimer' \in {"Off", "On", "Refused"} /\ stray' \in BOOLEAN
          BY <2>3
        <5>2. action' \in Osd!Actions \cup {"None"}
          BY <2>3
        <5>3. age' \in 0 .. 2 /\ hold' \in {"Unset", "Waiting", "Over"}
          BY <2>3
        <5>4. /\ indicator' \in {"None", "Work", "Result", "Spin"}
              /\ worker' \in {"None", "Running", "Returned"}
          BY <2>3
        <5> QED BY <5>1, <5>2, <5>3, <5>4 DEF WorkTypes
      <4> QED BY <4>1, <4>2
    <3>2. Osd!ActionIsWatched'
      BY <2>1, <2>3
      DEF Osd!body, Osd!gestures, Osd!ActionIsWatched, Osd!Arrangeable, Osd!ShowsLock,
          Osd!Actions
    <3> QED BY <2>1, <3>1, <3>2 DEF Osd!body, OsdTypes
  <2>4. CASE Osd!EndAction
    BY <2>1, <2>4, OsdEndActionSound
    DEF Osd!body, Osd!gestures, OsdTypes, HandTypes, WorkTypes, Osd!ActionIsWatched,
        Osd!Arrangeable, Osd!ShowsLock
  <2> QED BY <1>3, <2>2, <2>3, <2>4 DEF Osd!Activate
<1> QED BY <1>1, <1>2, <1>3 DEF Osd!Press

(* A captured pointer is the only one that turns the lock.                 *)
LEMMA OsdReleaseSound ==
  ASSUME PointerInv, Osd!Release
  PROVE  /\ PointerInv' /\ visible' = visible /\ (captured' => captured)
         /\ captured \/ SameShape
<1> USE DEF PointerInv, SameShape
<1>1. ASSUME NEW on \in Osd!Points, Osd!Up(on)
      PROVE  /\ PointerInv' /\ visible' = visible /\ (captured' => captured)
             /\ captured \/ SameShape
  <2>1. /\ visible' = visible /\ UNCHANGED <<mark, moving>>
        /\ pressed' = {} /\ drag' = FALSE /\ captured' = FALSE
    BY <1>1 DEF Osd!Up
  <2>2. CASE captured
    <3>1. Osd!EndAction
      BY <1>1, <2>2 DEF Osd!Up
    <3>2. locked' \in BOOLEAN /\ collapsed' \in BOOLEAN
      BY <1>1 DEF Osd!Up, OsdTypes, HandTypes, WorkTypes
    <3> QED BY <2>1, <2>2, <3>1, <3>2, OsdEndActionSound DEF OsdTypes, HandTypes
  <2>3. CASE ~captured
    <3>1. UNCHANGED <<Osd!work, stray, locked, collapsed>>
      BY <1>1, <2>3 DEF Osd!Up
    <3> QED BY <2>1, <3>1 DEF Osd!work, OsdTypes, HandTypes, WorkTypes, Osd!ActionIsWatched
  <2> QED BY <2>2, <2>3
<1>2. ASSUME Osd!LoseCapture, UNCHANGED <<visible, collapsed, locked, mark>>, moving' \in BOOLEAN
      PROVE  PointerInv' /\ visible' = visible /\ (captured' => captured) /\ SameShape
  <2>1. Osd!EndAction /\ captured' = FALSE /\ drag' = FALSE /\ pressed' \in SUBSET Osd!Buttons
    BY <1>2 DEF Osd!LoseCapture, OsdTypes, HandTypes, WorkTypes
  <2> QED BY <1>2, <2>1, OsdEndActionSound DEF OsdTypes, HandTypes, WorkTypes
<1>3. ASSUME NEW beyond \in BOOLEAN, NEW button \in Osd!Buttons, Osd!Travel(beyond, button)
      PROVE  PointerInv' /\ visible' = visible /\ (captured' => captured) /\ SameShape
  <2>1. /\ Osd!EndAction /\ captured' = FALSE /\ drag' = FALSE /\ pressed' = {} /\ moving' = TRUE
        /\ UNCHANGED <<visible, collapsed, locked, mark>>
    BY <1>3 DEF Osd!Travel, OsdTypes, HandTypes, WorkTypes
  <2> QED BY <2>1, OsdEndActionSound DEF OsdTypes, HandTypes, WorkTypes
<1>4. CASE Osd!CaptureLost \/ Osd!CancelMode
  BY <1>2, <1>4 DEF Osd!CaptureLost, Osd!CancelMode, Osd!body, OsdTypes, HandTypes, WorkTypes
<1>5. CASE Osd!ExitSizeMove
  BY <1>2, <1>5 DEF Osd!ExitSizeMove
<1> QED BY <1>1, <1>3, <1>4, <1>5 DEF Osd!Release

LEMMA OsdElsewhereSound ==
  ASSUME PointerInv, Osd!Elsewhere
  PROVE  PointerInv' /\ UNCHANGED <<visible, collapsed, locked, captured>>
<1> USE DEF PointerInv
<1>1. CASE Osd!WorkerReturns
  BY <1>1
  DEF Osd!WorkerReturns, Osd!body, Osd!gestures, OsdTypes, HandTypes, WorkTypes,
      Osd!ActionIsWatched, Osd!Arrangeable, Osd!ShowsLock
<1>2. CASE Osd!OnOverlayTimer
  <2>1. UNCHANGED <<Osd!body, mark, Osd!gestures>>
    BY <1>2 DEF Osd!OnOverlayTimer
  <2>2. CASE /\ ~(Osd!Active /\ action # "None") /\ osdTimer' = "Off"
             /\ UNCHANGED <<action, slot, indicator, worker, age, hold, stray>>
    BY <2>1, <2>2
    DEF Osd!body, Osd!gestures, OsdTypes, HandTypes, WorkTypes, Osd!ActionIsWatched,
        Osd!Arrangeable, Osd!ShowsLock, Osd!Active
  <2>3. CASE Osd!EndAction
    BY <2>1, <2>3, OsdEndActionSound
    DEF Osd!body, Osd!gestures, OsdTypes, HandTypes, WorkTypes, Osd!ActionIsWatched,
        Osd!Arrangeable, Osd!ShowsLock
  <2>4. CASE /\ Osd!Active /\ action # "None" /\ indicator' = "Result" /\ hold' = "Waiting"
             /\ UNCHANGED <<action, slot, worker, osdTimer, age, stray>>
    BY <2>1, <2>4
    DEF Osd!body, Osd!gestures, OsdTypes, HandTypes, WorkTypes, Osd!ActionIsWatched,
        Osd!Arrangeable, Osd!ShowsLock
  <2> QED
    BY <1>2, <2>1, <2>2, <2>3, <2>4 DEF Osd!OnOverlayTimer, Osd!Report, Osd!body, Osd!gestures
<1>3. CASE Osd!TimePasses
  <2>1. /\ UNCHANGED <<Osd!body, mark, Osd!gestures>>
        /\ UNCHANGED <<action, slot, indicator, worker, osdTimer, stray>>
        /\ age' \in 0 .. 2 /\ hold' \in {"Unset", "Waiting", "Over"}
    BY <1>3 DEF Osd!TimePasses, OsdTypes, HandTypes, WorkTypes
  <2> QED
    BY <2>1
    DEF Osd!body, Osd!gestures, OsdTypes, HandTypes, WorkTypes, Osd!ActionIsWatched,
        Osd!Arrangeable, Osd!ShowsLock
<1>4. CASE Osd!OverlaySetsMark
  <2>1. PICK m \in Osd!Marks : Osd!SetOverlayMark(m)
    BY <1>4 DEF Osd!OverlaySetsMark
  <2>2. /\ UNCHANGED <<Osd!body, drag, captured, stray>>
        /\ UNCHANGED <<action, slot, worker, osdTimer, age, hold>>
        /\ mark' \in Osd!Marks /\ pressed' \subseteq Osd!Buttons
    BY <2>1 DEF Osd!SetOverlayMark, OsdTypes, HandTypes, WorkTypes
  <2>3. \/ indicator' = indicator
        \/ indicator' \in {"Spin", "None"} /\ (~Osd!Active \/ ~slot)
    BY <2>1 DEF Osd!SetOverlayMark
  <2>4. indicator' = indicator \/ (indicator' \in {"Spin", "None"} /\ action = "None")
    BY <2>3 DEF Osd!ActionIsWatched, Osd!Active, OsdTypes, HandTypes, WorkTypes
  <2> QED
    BY <2>2, <2>4
    DEF Osd!body, OsdTypes, HandTypes, WorkTypes, Osd!ActionIsWatched, Osd!Arrangeable,
        Osd!ShowsLock
<1>5. CASE Osd!CellMoved
  BY <1>5, OsdEndActionSound
  DEF Osd!CellMoved, Osd!body, Osd!gestures, OsdTypes, HandTypes, WorkTypes,
      Osd!ActionIsWatched, Osd!Arrangeable, Osd!ShowsLock
<1> QED BY <1>1, <1>2, <1>3, <1>4, <1>5 DEF Osd!Elsewhere, Osd!body, Osd!gestures

LEMMA OsdSetVisibleSound ==
  ASSUME PointerInv, NEW show \in BOOLEAN, Osd!SetVisible(show)
  PROVE  PointerInv' /\ visible' = show /\ SameShape /\ (captured' => captured)
<1> USE DEF PointerInv, SameShape
<1>1. visible' = show /\ UNCHANGED <<collapsed, locked, mark, moving>>
  BY DEF Osd!SetVisible
<1>2. CASE show
  <2>1. UNCHANGED <<Osd!gestures, Osd!work, stray>>
    BY <1>2 DEF Osd!SetVisible
  <2> QED
    BY <1>1, <1>2, <2>1
    DEF Osd!gestures, Osd!work, OsdTypes, HandTypes, WorkTypes, Osd!ActionIsWatched,
        Osd!Arrangeable, Osd!ShowsLock
<1>3. CASE ~show
  <2>1. /\ Osd!EndAction /\ captured' = FALSE /\ drag' = (drag /\ ~captured)
        /\ pressed' \subseteq pressed
    BY <1>3 DEF Osd!SetVisible
  <2>2. drag' = FALSE
    BY <2>1 DEF OsdTypes, HandTypes, WorkTypes, Osd!ActionIsWatched
  <2>3. pressed' \in SUBSET Osd!Buttons
    BY <2>1 DEF OsdTypes, HandTypes, WorkTypes
  <2> QED BY <1>1, <1>3, <2>1, <2>2, <2>3, OsdEndActionSound DEF OsdTypes, HandTypes, WorkTypes
<1> QED BY <1>2, <1>3

LEMMA OsdToggleSound == ASSUME OsdInv, Osd!Toggle PROVE OsdInv'
<1> USE DEF OsdInv
<1> DEFINE show == ~Osd!Wanted
<1>1. Osd!ShowOrKeep(show) /\ stored' = show /\ UNCHANGED <<osdSuppressed, Osd!header>>
  BY DEF Osd!Toggle
<1>2. show \in BOOLEAN
  OBVIOUS
<1>3. PointerInv
  BY DEF PointerInv
<1> HIDE DEF show
<1>4. CASE osdSuppressed
  <2>1. kept' = show /\ UNCHANGED <<Osd!pointer, refresh>>
    BY <1>1, <1>4 DEF Osd!ShowOrKeep
  <2>2. OsdTypes' /\ Osd!ActionIsWatched' /\ Osd!UnlockedIsShown' /\ HandOnHeader'
          /\ visible' = visible
    BY <1>1, <2>1
    DEF Osd!pointer, Osd!body, Osd!gestures, Osd!work, Osd!header, OsdTypes, HandTypes,
        WorkTypes, Osd!ActionIsWatched, Osd!UnlockedIsShown, HandOnHeader, Osd!Arrangeable,
        Osd!ShowsLock
  <2>3. PresenceTypes'
    BY <1>1, <1>2, <2>1 DEF Osd!header, PresenceTypes
  <2>4. Osd!ChoiceKept'
    BY <1>1, <1>4, <2>1, <2>2 DEF Osd!ChoiceKept, Osd!Wanted
  <2> QED BY <2>2, <2>3, <2>4
<1>5. CASE ~osdSuppressed
  <2>1. Osd!SetVisible(show) /\ refresh' \in {FALSE, show} /\ UNCHANGED kept
    BY <1>1, <1>5 DEF Osd!ShowOrKeep, Osd!UpdateRefreshCadence
  <2>2. PointerInv' /\ visible' = show /\ SameShape /\ (captured' => captured)
    BY <1>2, <1>3, <2>1, OsdSetVisibleSound
  <2>3. Osd!UnlockedIsShown' /\ HandOnHeader'
    BY <1>1, <2>2
    DEF Osd!header, SameShape, Osd!UnlockedIsShown, HandOnHeader, Osd!Arrangeable,
        Osd!ShowsLock
  <2>4. PresenceTypes'
    BY <1>1, <1>2, <2>1 DEF Osd!header, PresenceTypes
  <2>5. refresh' => visible'
    BY <2>1, <2>2
  <2>6. osdSuppressed' = FALSE /\ stored' = visible'
    BY <1>1, <1>5, <2>2 DEF PresenceTypes
  <2>7. Osd!ChoiceKept'
    BY <2>5, <2>6 DEF Osd!ChoiceKept, Osd!Wanted
  <2> QED BY <2>2, <2>3, <2>4, <2>7 DEF PointerInv
<1> QED BY <1>4, <1>5

LEMMA OsdSetSuppressedSound ==
  ASSUME OsdInv, NEW s \in BOOLEAN, Osd!SetSuppressed(s) PROVE OsdInv'
<1> USE DEF OsdInv
<1>1. s # osdSuppressed /\ osdSuppressed' = s /\ UNCHANGED <<stored, here, quiet>>
  BY DEF Osd!SetSuppressed
<1>2. PointerInv
  BY DEF PointerInv
<1>3. /\ PointerInv' /\ SameShape /\ (captured' => captured)
      /\ idle' \in BOOLEAN /\ awake' \in BOOLEAN /\ (idle' => idle)
      /\ \/ s /\ kept' = visible /\ visible' = FALSE /\ refresh' = FALSE
         \/ ~s /\ kept' = FALSE /\ visible' = kept /\ refresh' \in {FALSE, kept}
  <2>1. CASE s /\ visible
    <3>1. /\ kept' = visible /\ awake' = FALSE /\ idle' = idle /\ Osd!SetVisible(FALSE)
          /\ refresh' = FALSE
      BY <2>1 DEF Osd!SetSuppressed, Osd!UpdateRefreshCadence
    <3>2. PointerInv' /\ visible' = FALSE /\ SameShape /\ (captured' => captured)
      BY <1>2, <3>1, OsdSetVisibleSound
    <3> QED BY <2>1, <3>1, <3>2 DEF PresenceTypes
  <2>2. CASE s /\ ~visible
    <3>1. kept' = visible /\ awake' = FALSE /\ idle' = idle /\ UNCHANGED <<Osd!pointer, refresh>>
      BY <2>2 DEF Osd!SetSuppressed
    <3>2. PointerInv' /\ UNCHANGED <<visible, captured, collapsed, locked>>
      BY <1>2, <3>1
      DEF PointerInv, Osd!pointer, Osd!body, Osd!gestures, Osd!work, OsdTypes, HandTypes,
          WorkTypes, Osd!ActionIsWatched, Osd!Arrangeable, Osd!ShowsLock
    <3>3. visible = FALSE /\ refresh = FALSE
      BY <2>2 DEF OsdTypes, HandTypes, WorkTypes, PresenceTypes, Osd!ChoiceKept
    <3> QED BY <2>2, <3>1, <3>2, <3>3 DEF PresenceTypes, SameShape
  <2>3. CASE ~s /\ kept
    <3>1. kept' = FALSE /\ awake' = TRUE /\ idle' = FALSE /\ Osd!SetVisible(TRUE)
            /\ refresh' \in {FALSE, TRUE}
      BY <2>3 DEF Osd!SetSuppressed, Osd!UpdateRefreshCadence
    <3>2. PointerInv' /\ visible' = TRUE /\ SameShape /\ (captured' => captured)
      BY <1>2, <3>1, OsdSetVisibleSound
    <3>3. kept = TRUE
      BY <2>3 DEF PresenceTypes
    <3> QED BY <2>3, <3>1, <3>2, <3>3
  <2>4. CASE ~s /\ ~kept
    <3>1. kept' = FALSE /\ UNCHANGED <<Osd!pointer, refresh, idle, awake>>
      BY <2>4 DEF Osd!SetSuppressed
    <3>2. PointerInv' /\ UNCHANGED <<visible, captured, collapsed, locked>>
      BY <1>2, <3>1
      DEF PointerInv, Osd!pointer, Osd!body, Osd!gestures, Osd!work, OsdTypes, HandTypes,
          WorkTypes, Osd!ActionIsWatched, Osd!Arrangeable, Osd!ShowsLock
    <3>3. osdSuppressed
      BY <1>1, <2>4 DEF PresenceTypes
    <3>4. visible = FALSE /\ kept = FALSE /\ refresh = FALSE
      BY <2>4, <3>3 DEF OsdTypes, HandTypes, WorkTypes, PresenceTypes, Osd!ChoiceKept
    <3> QED BY <2>4, <3>1, <3>2, <3>4 DEF PresenceTypes, SameShape
  <2> QED BY <2>1, <2>2, <2>3, <2>4
<1>4. Osd!UnlockedIsShown' /\ HandOnHeader'
  BY <1>3 DEF SameShape, Osd!UnlockedIsShown, HandOnHeader, Osd!Arrangeable, Osd!ShowsLock
<1>5. PresenceTypes'
  BY <1>1, <1>3 DEF PresenceTypes, OsdTypes, HandTypes, WorkTypes
<1>6. Osd!ChoiceKept'
  <2>1. CASE s
    <3>1. osdSuppressed = FALSE
      BY <1>1, <2>1 DEF PresenceTypes
    <3> QED BY <1>1, <1>3, <2>1, <3>1 DEF Osd!ChoiceKept, Osd!Wanted
  <2>2. CASE ~s
    <3>1. osdSuppressed = TRUE /\ osdSuppressed' = FALSE
      BY <1>1, <2>2 DEF PresenceTypes
    <3>2. visible' = kept /\ refresh' \in {FALSE, kept}
      BY <1>3, <2>2
    <3>3. refresh' => visible'
      BY <3>2
    <3>4. stored' = visible'
      BY <1>1, <3>1, <3>2 DEF Osd!ChoiceKept, Osd!Wanted
    <3> QED BY <3>1, <3>3, <3>4 DEF Osd!ChoiceKept, Osd!Wanted
  <2> QED BY <2>1, <2>2
<1> QED BY <1>3, <1>4, <1>5, <1>6 DEF PointerInv

LEMMA OsdStep == ASSUME OsdInv, [Osd!Next]_(Osd!vars) PROVE OsdInv'
<1> USE DEF OsdInv
<1>1. PointerInv
  BY DEF PointerInv
<1>2. ASSUME UNCHANGED Osd!presence, UNCHANGED visible
      PROVE  Osd!ChoiceKept'
  BY <1>2 DEF Osd!presence, Osd!ChoiceKept, Osd!Wanted
<1>3. CASE Osd!Point
  <2>1. UNCHANGED Osd!presence /\ here' = TRUE /\ quiet' = FALSE /\ idle' = FALSE
          /\ awake' = awake
    BY <1>3 DEF Osd!Point, Osd!NotePointer
  <2>2. PointerInv' /\ visible' = visible
    <3>1. CASE Osd!Press
      BY <1>1, <3>1, OsdPressSound
    <3>2. CASE UNCHANGED Osd!pointer
      BY <1>1, <3>2
      DEF PointerInv, Osd!pointer, Osd!body, Osd!gestures, Osd!work, OsdTypes, HandTypes,
          WorkTypes, Osd!ActionIsWatched, Osd!Arrangeable, Osd!ShowsLock
    <3> QED BY <1>3, <3>1, <3>2 DEF Osd!Point
  <2> QED
    BY <1>2, <2>1, <2>2
    DEF PointerInv, Osd!presence, PresenceTypes, Osd!UnlockedIsShown, HandOnHeader
<1>4. CASE Osd!LetGo
  <2>1. UNCHANGED <<Osd!presence, quiet, idle, awake>> /\ here' \in BOOLEAN /\ Osd!Release
    BY <1>4 DEF Osd!LetGo
  <2>2. /\ PointerInv' /\ visible' = visible /\ (captured' => captured)
        /\ captured \/ SameShape
    BY <1>1, <2>1, OsdReleaseSound
  <2>3. Osd!UnlockedIsShown' /\ HandOnHeader'
    BY <2>1, <2>2 DEF SameShape, Osd!UnlockedIsShown, HandOnHeader, Osd!Arrangeable, Osd!ShowsLock
  <2> QED BY <1>2, <2>1, <2>2, <2>3 DEF PointerInv, Osd!presence, PresenceTypes
<1>5. CASE Osd!Leave \/ Osd!TwoSeconds \/ UNCHANGED Osd!vars
  <2>1. /\ UNCHANGED <<Osd!pointer, Osd!presence, idle, awake>>
        /\ here' \in BOOLEAN /\ quiet' \in BOOLEAN
    BY <1>5 DEF Osd!Leave, Osd!TwoSeconds, Osd!vars, Osd!header, PresenceTypes
  <2>2. OsdTypes' /\ Osd!ActionIsWatched' /\ Osd!UnlockedIsShown' /\ HandOnHeader'
          /\ visible' = visible
    BY <2>1
    DEF Osd!pointer, Osd!body, Osd!gestures, Osd!work, OsdTypes, HandTypes, WorkTypes,
        Osd!ActionIsWatched, Osd!UnlockedIsShown, HandOnHeader, Osd!Arrangeable, Osd!ShowsLock
  <2> QED BY <1>2, <2>1, <2>2 DEF Osd!presence, PresenceTypes
<1>6. CASE Osd!OnRefreshTimer
  <2> DEFINE present == here \/ moving \/ drag \/ captured
  <2>1. /\ UNCHANGED <<Osd!pointer, Osd!presence, here>>
        /\ quiet' = (quiet /\ ~present) /\ awake' = (awake /\ ~present)
        /\ idle' = (~awake' /\ Osd!HeaderIdle(present))
    BY <1>6 DEF Osd!OnRefreshTimer
  <2>2. idle' => ~Osd!Arrangeable /\ ~captured
    BY <2>1 DEF Osd!HeaderIdle
  <2>3. OsdTypes' /\ Osd!ActionIsWatched' /\ UNCHANGED <<visible, collapsed, locked, captured>>
    BY <2>1
    DEF Osd!pointer, Osd!body, Osd!gestures, Osd!work, OsdTypes, HandTypes, WorkTypes,
        Osd!ActionIsWatched, Osd!Arrangeable, Osd!ShowsLock
  <2>4. Osd!UnlockedIsShown' /\ HandOnHeader'
    BY <2>2, <2>3 DEF Osd!UnlockedIsShown, HandOnHeader, Osd!Arrangeable, Osd!ShowsLock
  <2>5. PresenceTypes'
    <3>1. quiet' \in BOOLEAN /\ awake' \in BOOLEAN /\ idle' \in BOOLEAN
      BY <2>1
    <3> QED BY <2>1, <3>1 DEF Osd!presence, PresenceTypes
  <2> QED BY <1>2, <2>1, <2>3, <2>4, <2>5
<1>7. CASE Osd!Elsewhere
  <2>1. UNCHANGED <<Osd!presence, Osd!header>>
    BY <1>7 DEF Osd!Elsewhere
  <2>2. PointerInv' /\ UNCHANGED <<visible, collapsed, locked, captured>>
    BY <1>1, <1>7, OsdElsewhereSound
  <2> QED
    BY <1>2, <2>1, <2>2
    DEF PointerInv, Osd!presence, Osd!header, PresenceTypes, Osd!UnlockedIsShown,
        HandOnHeader, Osd!Arrangeable, Osd!ShowsLock
<1>8. CASE Osd!Toggle
  BY <1>8, OsdToggleSound
<1>9. CASE \E s \in BOOLEAN : Osd!SetSuppressed(s)
  BY <1>9, OsdSetSuppressedSound
<1> QED BY <1>3, <1>4, <1>5, <1>6, <1>7, <1>8, <1>9 DEF Osd!Next

LEMMA OsdInitially == Osd!Init => OsdInv
<1> SUFFICES ASSUME Osd!Init PROVE OsdInv
  OBVIOUS
<1>1. HandTypes
  BY DEF Osd!Init, Osd!PointerInit, HandTypes, Osd!Marks
<1>2. WorkTypes
  <2>1. slot \in BOOLEAN /\ osdTimer \in {"Off", "On", "Refused"} /\ stray \in BOOLEAN
    BY DEF Osd!Init, Osd!PointerInit
  <2>2. action \in Osd!Actions \cup {"None"}
    BY DEF Osd!Init, Osd!PointerInit
  <2>3. age \in 0 .. 2 /\ hold \in {"Unset", "Waiting", "Over"}
    BY DEF Osd!Init, Osd!PointerInit
  <2>4. /\ indicator \in {"None", "Work", "Result", "Spin"}
        /\ worker \in {"None", "Running", "Returned"}
    BY DEF Osd!Init, Osd!PointerInit
  <2> QED BY <2>1, <2>2, <2>3, <2>4 DEF WorkTypes
<1>r. visible \in BOOLEAN /\ refresh \in {FALSE, visible} /\ stored = visible
  BY DEF Osd!Init, Osd!PointerInit
<1>f. FALSE \in BOOLEAN
  OBVIOUS
<1>s. refresh \in BOOLEAN /\ (refresh => visible) /\ stored \in BOOLEAN
  <2>1. stored \in BOOLEAN
    BY <1>r
  <2>2. CASE refresh = FALSE
    BY <1>f, <2>1, <2>2
  <2>3. CASE refresh = visible
    BY <1>r, <2>1, <2>3
  <2> QED BY <1>r, <2>2, <2>3
<1>3. PresenceTypes
  <2>1. /\ osdSuppressed = FALSE /\ kept = FALSE
        /\ here = FALSE /\ quiet = TRUE /\ idle = FALSE /\ awake = FALSE
    BY DEF Osd!Init
  <2> QED BY <1>s, <2>1, Zenon DEF PresenceTypes
<1>4. Osd!ActionIsWatched /\ Osd!UnlockedIsShown /\ HandOnHeader
  BY DEF Osd!Init, Osd!PointerInit, Osd!ActionIsWatched, Osd!UnlockedIsShown, HandOnHeader
<1>5. Osd!ChoiceKept
  <2>1. osdSuppressed = FALSE /\ stored = visible
    BY DEF Osd!Init
  <2> QED BY <1>s, <2>1 DEF Osd!ChoiceKept, Osd!Wanted
<1> QED BY <1>1, <1>2, <1>3, <1>4, <1>5 DEF OsdInv, OsdTypes

(* The inductive invariant of the OSD (osd_overlay.cpp): its work, its     *)
(* gestures, its header and what the user last asked for.                  *)
THEOREM OsdInvariant == Osd!Spec => []OsdInv
  BY OsdInitially, OsdStep, PTL DEF Osd!Spec

-----------------------------------------------------------------------------
(* The place of the OSD above other windows.                               *)

PlaceInv ==
  /\ onTop \in BOOLEAN /\ passes \in Nat
  /\ Topmost!NeverShownUnwanted

LEMMA PlaceScheduleSound ==
  ASSUME PlaceInv, Topmost!ScheduleTopmostRepair, UNCHANGED Topmost!shown
  PROVE  PlaceInv'
<1> USE DEF PlaceInv, Topmost!NeverShownUnwanted
<1>1. onTop' = onTop /\ onTopWanted' = onTopWanted
  BY DEF Topmost!shown
<1>2. CASE onTop
  <2>1. PICK set \in BOOLEAN : repairTimer' = set /\ passes' = IF set THEN 2 ELSE 0
    BY <1>2 DEF Topmost!ScheduleTopmostRepair
  <2> QED BY <1>1, <2>1
<1>3. CASE ~onTop
  BY <1>1, <1>3 DEF Topmost!ScheduleTopmostRepair, Topmost!repair
<1> QED BY <1>2, <1>3

(* A message that comes late finds nothing left to repair.                 *)
LEMMA PlaceRepairSound == ASSUME PlaceInv, Topmost!OnRepairTimer PROVE PlaceInv'
<1> USE DEF PlaceInv, Topmost!NeverShownUnwanted
<1>1. onTopWanted' = onTopWanted /\ Topmost!RepairTopmost
  BY DEF Topmost!OnRepairTimer
<1>2. CASE passes = 0 \/ ~onTop
  BY <1>1, <1>2 DEF Topmost!RepairTopmost, Topmost!shown
<1>3. CASE ~(passes = 0 \/ ~onTop)
  <2>1. onTop' = TRUE
    BY <1>1, <1>3 DEF Topmost!RepairTopmost
  <2>2. PICK set \in BOOLEAN :
          repairTimer' = (passes > 1 /\ set) /\ passes' = IF repairTimer' THEN passes - 1 ELSE 0
    BY <1>1, <1>3 DEF Topmost!RepairTopmost
  <2>3. onTopWanted' = TRUE
    BY <1>1, <1>3
  <2>4. passes' \in Nat /\ (repairTimer' => passes' > 0)
    <3>1. CASE repairTimer'
      <4>1. passes > 1
        BY <2>2, <3>1, Zenon
      <4>2. passes' = passes - 1
        BY <2>2, <3>1
      <4> QED BY <4>1, <4>2
    <3>2. CASE ~repairTimer'
      BY <2>2, <3>2
    <3> QED BY <3>1, <3>2
  <2> QED BY <2>1, <2>3, <2>4
<1> QED BY <1>2, <1>3

LEMMA PlaceStep == ASSUME PlaceInv, [Topmost!Next]_(Topmost!vars) PROVE PlaceInv'
<1>1. ASSUME UNCHANGED <<Topmost!shown, passes, repairTimer>>
      PROVE  PlaceInv'
  BY <1>1 DEF Topmost!shown, PlaceInv, Topmost!NeverShownUnwanted
<1>2. ASSUME UNCHANGED <<Topmost!shown, Topmost!repair>>
      PROVE  PlaceInv'
  BY <1>1, <1>2 DEF Topmost!repair
<1>3. ASSUME NEW lock \in BOOLEAN, Topmost!OnSessionChanged(lock)
      PROVE  PlaceInv'
  BY <1>2, <1>3, PlaceScheduleSound DEF Topmost!OnSessionChanged
<1>4. CASE Topmost!OnResume
  BY <1>4, PlaceScheduleSound DEF Topmost!OnResume
<1>5. ASSUME NEW status, Topmost!OnDisplayStatus(status)
      PROVE  PlaceInv'
  BY <1>2, <1>5, PlaceScheduleSound DEF Topmost!OnDisplayStatus
<1>6. ASSUME NEW show \in BOOLEAN, Topmost!SetVisible(show)
      PROVE  PlaceInv'
  <2>1. onTop' = show /\ onTopWanted' = show
    BY <1>6 DEF Topmost!SetVisible
  <2>2. UNCHANGED Topmost!repair \/ (passes' = 0 /\ repairTimer' = FALSE)
    BY <1>6 DEF Topmost!SetVisible
  <2> QED BY <2>1, <2>2 DEF Topmost!repair, PlaceInv, Topmost!NeverShownUnwanted
<1>7. CASE Topmost!TimerExpires
  BY <1>1, <1>7 DEF Topmost!TimerExpires
<1>8. CASE Topmost!CheckZOrder \/ Topmost!ThreeSeconds \/ Topmost!ThirtySeconds
        \/ Topmost!Topmost \/ Topmost!Desktop
  BY <1>2, <1>8
  DEF Topmost!CheckZOrder, Topmost!ThreeSeconds, Topmost!ThirtySeconds, Topmost!Topmost,
      Topmost!Desktop
<1>9. ASSUME NEW w, Topmost!Cover(w)
      PROVE  PlaceInv'
  BY <1>2, <1>9 DEF Topmost!Cover
<1>10. CASE UNCHANGED Topmost!vars
  BY <1>2, <1>10 DEF Topmost!vars
<1> QED BY <1>3, <1>4, <1>5, <1>6, <1>7, <1>8, <1>9, <1>10, PlaceRepairSound DEF Topmost!Next

LEMMA PlaceInitially == Topmost!Init => PlaceInv
  BY DEF Topmost!Init, PlaceInv, Topmost!NeverShownUnwanted

(* The inductive invariant of the repairs (osd_overlay.cpp): passes are    *)
(* left for as long as the timer runs.                                     *)
THEOREM PlaceInvariant == Topmost!Spec => []PlaceInv
  BY PlaceInitially, PlaceStep, PTL DEF Topmost!Spec

(* An action has its indicator and its worker, and the timer that ends it  *)
(* unless Windows refused one, and the lock is never hidden while it is    *)
(* open (osd_overlay.cpp).                                                 *)
THEOREM WorkIsWatched == Osd!Spec => []ActionIsWatched
<1>1. OsdInv => ActionIsWatched
  <2>1. OsdTypes => Osd!TypeOK
    BY DEF OsdTypes, HandTypes, WorkTypes, Osd!TypeOK
  <2> QED BY <2>1 DEF OsdInv, ActionIsWatched
<1> QED BY <1>1, OsdInvariant, PTL

(* The OSD is shown exactly when the user wants it, through games and      *)
(* repairs of its place, and the registry knows what he wants              *)
(* (main_dialog.cpp, osd_overlay.cpp).                                     *)
THEOREM OsdIsShownAsWanted == Osd!Spec /\ Topmost!Spec => []ShownAsWanted
<1>1. OsdInv /\ PlaceInv => ShownAsWanted
  BY DEF OsdInv, PlaceInv, ShownAsWanted
<1> QED BY <1>1, OsdInvariant, PlaceInvariant, PTL

-----------------------------------------------------------------------------
(* The gate in the game.                                                   *)

(* Between test_and_set and clear.                                         *)
Holding ==
  {"rechecking", "confirming", "dropping", "drawing", "verifying", "yielding", "changing", "freeing"}

(* Between the exchange and the store that ends the transition.            *)
Reserving == Gate!Waiting \cup Gate!Ending \cup {"changing"}

Owned ==
  /\ \A t \in Threads : pc[t] \in Holding => owner
  /\ \A t, u \in Threads : pc[t] \in Holding /\ pc[u] \in Holding => t = u

Reserved ==
  /\ \A t \in Threads : pc[t] \in Reserving => transition
  /\ \A t, u \in Threads : pc[t] \in Reserving /\ pc[u] \in Reserving => t = u
  /\ transition => disabled \/ \E t \in Threads : pc[t] \in Reserving
  /\ \A t \in Threads : pc[t] = "yielding" => disabled

GateInv == Gate!TypeOK /\ Owned /\ Reserved

USE DEF Gate!Trying, Gate!Waiting, Gate!Ending

-----------------------------------------------------------------------------

LEMMA GateInitially == Gate!Init => GateInv
BY DEF Gate!Init, GateInv, Gate!TypeOK, Owned, Reserved, Holding, Reserving

(* One step moves one thread and leaves the others where they are.         *)
LEMMA StepType ==
  ASSUME Gate!TypeOK, NEW t \in Threads,
         \/ Gate!TryDraw(t) \/ Gate!EndDraw(t) \/ Gate!BeginTransition(t)
         \/ \E qualified \in BOOLEAN : Gate!EndTransition(t, qualified)
         \/ Gate!Inside(t) \/ Gate!Elapse(t)
  PROVE  Gate!TypeOK'
<1>1. CASE Gate!TryDraw(t) \/ Gate!EndDraw(t) \/ Gate!BeginTransition(t) \/ Gate!Elapse(t)
  BY <1>1 DEF Gate!TypeOK, Gate!TryDraw, Gate!EndDraw, Gate!BeginTransition, Gate!Elapse, Gate!Load,
     Gate!Go
<1>2. CASE \E qualified \in BOOLEAN : Gate!EndTransition(t, qualified)
  BY <1>2 DEF Gate!TypeOK, Gate!EndTransition, Gate!Go
<1>3. CASE Gate!LookAtTransition(t) \/ Gate!TakeOwner(t) \/ Gate!RecheckDisabled(t) \/
           Gate!RecheckTransition(t) \/ Gate!Drop(t)
  BY <1>3 DEF Gate!TypeOK, Gate!LookAtTransition, Gate!TakeOwner, Gate!RecheckDisabled,
     Gate!RecheckTransition, Gate!Drop, Gate!Load, Gate!Go
<1>4. CASE Gate!Reserve(t) \/ Gate!Bar(t) \/ Gate!CheckReserved(t) \/ Gate!Poll(t) \/ Gate!Grab(t)
  BY <1>4 DEF Gate!TypeOK, Gate!Reserve, Gate!Bar, Gate!CheckReserved, Gate!Poll, Gate!Grab,
     Gate!Load, Gate!Go
<1>5. CASE Gate!Expire(t) \/ Gate!VerifyEnabled(t) \/ Gate!Yield(t) \/ Gate!Free(t) \/
           Gate!Reopen(t)
  BY <1>5 DEF Gate!TypeOK, Gate!Expire, Gate!VerifyEnabled, Gate!Yield, Gate!Free, Gate!Reopen,
     Gate!Load, Gate!Go
<1> QED  BY <1>1, <1>2, <1>3, <1>4, <1>5 DEF Gate!Inside

LEMMA StepOwned ==
  ASSUME Gate!TypeOK, Owned, NEW t \in Threads,
         \/ Gate!TryDraw(t) \/ Gate!EndDraw(t) \/ Gate!BeginTransition(t)
         \/ \E qualified \in BOOLEAN : Gate!EndTransition(t, qualified)
         \/ Gate!Inside(t) \/ Gate!Elapse(t)
  PROVE  Owned'
<1> USE DEF Owned, Holding, Gate!TypeOK
<1>1. CASE Gate!TryDraw(t) \/ Gate!BeginTransition(t) \/ Gate!Elapse(t)
  BY <1>1 DEF Gate!TryDraw, Gate!BeginTransition, Gate!Elapse, Gate!Load, Gate!Go
<1>2. CASE Gate!EndDraw(t) \/ Gate!Drop(t) \/ Gate!Yield(t) \/ Gate!Free(t)
  BY <1>2 DEF Gate!EndDraw, Gate!Drop, Gate!Yield, Gate!Free, Gate!Go
<1>3. CASE \E qualified \in BOOLEAN : Gate!EndTransition(t, qualified)
  BY <1>3 DEF Gate!EndTransition, Gate!Go
<1>4. CASE Gate!TakeOwner(t)
  BY <1>4 DEF Gate!TakeOwner, Gate!Go
<1>5. CASE Gate!Grab(t)
  BY <1>5 DEF Gate!Grab, Gate!Go
<1>6. CASE Gate!LookAtTransition(t) \/ Gate!RecheckDisabled(t) \/ Gate!RecheckTransition(t) \/
           Gate!VerifyEnabled(t)
  BY <1>6 DEF Gate!LookAtTransition, Gate!RecheckDisabled, Gate!RecheckTransition,
     Gate!VerifyEnabled, Gate!Load, Gate!Go
<1>7. CASE Gate!Reserve(t) \/ Gate!Bar(t) \/ Gate!CheckReserved(t) \/ Gate!Poll(t) \/
           Gate!Expire(t) \/ Gate!Reopen(t)
  BY <1>7 DEF Gate!Reserve, Gate!Bar, Gate!CheckReserved, Gate!Poll, Gate!Expire, Gate!Reopen,
     Gate!Load, Gate!Go
<1> QED  BY <1>1, <1>2, <1>3, <1>4, <1>5, <1>6, <1>7 DEF Gate!Inside

LEMMA StepReserved ==
  ASSUME Gate!TypeOK, Reserved, NEW t \in Threads,
         \/ Gate!TryDraw(t) \/ Gate!EndDraw(t) \/ Gate!BeginTransition(t)
         \/ \E qualified \in BOOLEAN : Gate!EndTransition(t, qualified)
         \/ Gate!Inside(t) \/ Gate!Elapse(t)
  PROVE  Reserved'
<1> USE DEF Reserved, Reserving, Gate!TypeOK
<1>1. CASE Gate!TryDraw(t) \/ Gate!EndDraw(t) \/ Gate!BeginTransition(t) \/ Gate!Elapse(t)
  BY <1>1 DEF Gate!TryDraw, Gate!EndDraw, Gate!BeginTransition, Gate!Elapse, Gate!Load, Gate!Go
<1>2. CASE \E qualified \in BOOLEAN : Gate!EndTransition(t, qualified)
  BY <1>2 DEF Gate!EndTransition, Gate!Go
<1>3. CASE Gate!LookAtTransition(t) \/ Gate!TakeOwner(t) \/ Gate!RecheckDisabled(t) \/
           Gate!RecheckTransition(t) \/ Gate!Drop(t)
  BY <1>3 DEF Gate!LookAtTransition, Gate!TakeOwner, Gate!RecheckDisabled, Gate!RecheckTransition,
     Gate!Drop, Gate!Load, Gate!Go
<1>4. CASE Gate!Reserve(t)
  BY <1>4 DEF Gate!Reserve, Gate!Go
<1>5. CASE Gate!Bar(t) \/ Gate!Expire(t)
  BY <1>5 DEF Gate!Bar, Gate!Expire, Gate!Go
<1>6. CASE Gate!CheckReserved(t)
  BY <1>6 DEF Gate!CheckReserved, Gate!Load, Gate!Go
<1>7. CASE Gate!Poll(t)
  BY <1>7 DEF Gate!Poll, Gate!Go
<1>8. CASE Gate!Grab(t)
  BY <1>8 DEF Gate!Grab, Gate!Go
<1>9. CASE Gate!VerifyEnabled(t)
  BY <1>9 DEF Gate!VerifyEnabled, Gate!Load, Gate!Go
<1>10. CASE Gate!Yield(t) \/ Gate!Free(t)
  BY <1>10 DEF Gate!Yield, Gate!Free, Gate!Go
<1>11. CASE Gate!Reopen(t)
  BY <1>11 DEF Gate!Reopen, Gate!Go
<1> QED  BY <1>1, <1>2, <1>3, <1>4, <1>5, <1>6, <1>7, <1>8, <1>9, <1>10, <1>11 DEF Gate!Inside

LEMMA GateStep == GateInv /\ [Gate!Next]_(Gate!gate) => GateInv'
<1> SUFFICES ASSUME GateInv, [Gate!Next]_(Gate!gate) PROVE GateInv'
  OBVIOUS
<1>1. CASE Gate!Next
  <2> PICK t \in Threads :
         \/ Gate!TryDraw(t) \/ Gate!EndDraw(t) \/ Gate!BeginTransition(t)
         \/ \E qualified \in BOOLEAN : Gate!EndTransition(t, qualified)
         \/ Gate!Inside(t) \/ Gate!Elapse(t)
    BY <1>1 DEF Gate!Next
  <2> QED  BY StepType, StepOwned, StepReserved DEF GateInv
<1>2. CASE UNCHANGED Gate!gate
  BY <1>2 DEF Gate!gate, GateInv, Gate!TypeOK, Owned, Reserved
<1> QED  BY <1>1, <1>2

(* The holders of the two flags, in every reachable state of the gate.     *)
THEOREM GateInvariant == Gate!Spec => []GateInv
BY GateInitially, GateStep, PTL DEF Gate!Spec

-----------------------------------------------------------------------------

(* The flags and places keep their types.                                  *)
THEOREM GateTypeCorrect == Gate!Spec => []Gate!TypeOK
BY GateInvariant, PTL DEF GateInv

(* No two threads of the game are inside the gate at once, however their   *)
(* Presents, resizes and colour changes interleave.                        *)
THEOREM OneInside == Gate!Spec => []Gate!MutualExclusion
<1>1. GateInv => Gate!MutualExclusion
  BY DEF GateInv, Owned, Holding, Gate!MutualExclusion
<1> QED  BY <1>1, GateInvariant, PTL

(* A reservation always belongs to a thread that will end it, or the       *)
(* overlay has been stopped.                                               *)
THEOREM NoOrphanedReservation == Gate!Spec => []Gate!ReservationIsOwned
<1>1. GateInv => Gate!ReservationIsOwned
  BY DEF GateInv, Reserved, Reserving, Gate!ReservationIsOwned
<1> QED  BY <1>1, GateInvariant, PTL

-----------------------------------------------------------------------------
(* The gate implements DrawAdmission.                                      *)

(* A move of one thread is an update of its phase.                         *)
LEMMA PhaseMoves ==
  ASSUME Gate!TypeOK, NEW t \in Threads, NEW to, pc' = [pc EXCEPT ![t] = to]
  PROVE  Gate!Phase' = [Gate!Phase EXCEPT ![t] = Gate!PhaseOf(to)]
BY DEF Gate!TypeOK, Gate!Phase

LEMMA PhaseRests ==
  ASSUME Gate!TypeOK, NEW t \in Threads, NEW to, pc' = [pc EXCEPT ![t] = to],
         Gate!PhaseOf(to) = Gate!Phase[t]
  PROVE  Gate!Phase' = Gate!Phase
BY PhaseMoves DEF Gate!TypeOK, Gate!Phase

LEMMA InitAdmission == Gate!Init => Gate!Admission!Init
BY DEF Gate!Init, Gate!Admission!Init, Gate!Phase, Gate!PhaseOf

(* Whoever holds the owner flag finds nobody else inside.                  *)
LEMMA HolderIsAlone ==
  ASSUME Gate!TypeOK, Owned, NEW t \in Threads,
         pc[t] \in {"confirming", "verifying"} \/ (pc[t] \in {"taking", "grabbing"} /\ ~owner)
  PROVE  Gate!Admission!NoneInside
BY DEF Gate!TypeOK, Owned, Holding, Gate!Admission!NoneInside, Gate!Phase, Gate!PhaseOf

(* The steps that change nothing DrawAdmission can see.                    *)
LEMMA Unseen ==
  ASSUME Gate!TypeOK, NEW t \in Threads, NEW to, pc' = [pc EXCEPT ![t] = to],
         Gate!PhaseOf(to) = Gate!PhaseOf(pc[t]), UNCHANGED disabled
  PROVE  UNCHANGED Gate!Admission!vars
<1>1. Gate!PhaseOf(to) = Gate!Phase[t]
  BY DEF Gate!Phase
<1> QED  BY <1>1, PhaseRests DEF Gate!Admission!vars

LEMMA StepDraw ==
  ASSUME Gate!TypeOK, Owned, NEW t \in Threads,
         \/ Gate!TryDraw(t) \/ Gate!LookAtTransition(t) \/ Gate!TakeOwner(t) \/
            Gate!RecheckDisabled(t)
         \/ Gate!RecheckTransition(t) \/ Gate!Drop(t) \/ Gate!EndDraw(t)
  PROVE  [Gate!Admission!Next]_(Gate!Admission!vars)
<1> USE DEF Gate!PhaseOf
<1>1. CASE Gate!TryDraw(t)
  <2>1. CASE disabled
    BY <1>1, <2>1, Unseen DEF Gate!TryDraw, Gate!Load, Gate!Go
  <2>2. CASE ~disabled
    <3>1. /\ Gate!Phase' = [Gate!Phase EXCEPT ![t] = "asking"]
          /\ Gate!Phase[t] = "out" /\ UNCHANGED disabled
      BY <1>1, <2>2, PhaseMoves DEF Gate!TryDraw, Gate!Load, Gate!Go, Gate!Phase
    <3> QED  BY <2>2, <3>1 DEF Gate!Admission!Next, Gate!Admission!Ask
  <2> QED  BY <2>1, <2>2
<1>2. CASE Gate!LookAtTransition(t)
  <2>1. CASE transition
    <3>1. /\ Gate!Phase' = [Gate!Phase EXCEPT ![t] = "out"]
          /\ Gate!Phase[t] = "asking" /\ UNCHANGED disabled
      BY <1>2, <2>1, PhaseMoves DEF Gate!LookAtTransition, Gate!Load, Gate!Go, Gate!Phase
    <3> QED  BY <3>1 DEF Gate!Admission!Next, Gate!Admission!Refuse
  <2>2. CASE ~transition
    BY <1>2, <2>2, Unseen DEF Gate!LookAtTransition, Gate!Load, Gate!Go
  <2> QED  BY <2>1, <2>2
<1>3. CASE Gate!TakeOwner(t)
  <2>1. CASE owner
    <3>1. /\ Gate!Phase' = [Gate!Phase EXCEPT ![t] = "out"]
          /\ Gate!Phase[t] = "asking" /\ UNCHANGED disabled
      BY <1>3, <2>1, PhaseMoves DEF Gate!TakeOwner, Gate!Go, Gate!Phase
    <3> QED  BY <3>1 DEF Gate!Admission!Next, Gate!Admission!Refuse
  <2>2. CASE ~owner
    BY <1>3, <2>2, Unseen DEF Gate!TakeOwner, Gate!Go
  <2> QED  BY <2>1, <2>2
<1>4. CASE Gate!RecheckDisabled(t)
  BY <1>4, Unseen DEF Gate!RecheckDisabled, Gate!Load, Gate!Go
<1>5. CASE Gate!RecheckTransition(t)
  <2>1. CASE transition
    BY <1>5, <2>1, Unseen DEF Gate!RecheckTransition, Gate!Load, Gate!Go
  <2>2. CASE ~transition
    <3>1. /\ Gate!Phase' = [Gate!Phase EXCEPT ![t] = "drawing"]
          /\ Gate!Phase[t] = "asking" /\ UNCHANGED disabled
      BY <1>5, <2>2, PhaseMoves DEF Gate!RecheckTransition, Gate!Load, Gate!Go, Gate!Phase
    <3>2. Gate!Admission!NoneInside
      BY <1>5, HolderIsAlone DEF Gate!RecheckTransition, Gate!Load, Gate!Go
    <3> QED  BY <3>1, <3>2 DEF Gate!Admission!Next, Gate!Admission!Enter
  <2> QED  BY <2>1, <2>2
<1>6. CASE Gate!Drop(t)
  <2>1. /\ Gate!Phase' = [Gate!Phase EXCEPT ![t] = "out"]
        /\ Gate!Phase[t] = "asking" /\ UNCHANGED disabled
    BY <1>6, PhaseMoves DEF Gate!Drop, Gate!Go, Gate!Phase
  <2> QED  BY <2>1 DEF Gate!Admission!Next, Gate!Admission!Refuse
<1>7. CASE Gate!EndDraw(t)
  <2>1. /\ Gate!Phase' = [Gate!Phase EXCEPT ![t] = "out"]
        /\ Gate!Phase[t] = "drawing" /\ UNCHANGED disabled
    BY <1>7, PhaseMoves DEF Gate!EndDraw, Gate!Go, Gate!Phase
  <2> QED  BY <2>1 DEF Gate!Admission!Next, Gate!Admission!Leave
<1> QED  BY <1>1, <1>2, <1>3, <1>4, <1>5, <1>6, <1>7

LEMMA StepReserve ==
  ASSUME Gate!TypeOK, NEW t \in Threads,
         Gate!BeginTransition(t) \/ Gate!Reserve(t) \/ Gate!Bar(t) \/ Gate!CheckReserved(t) \/
         Gate!Poll(t) \/ Gate!Elapse(t)
  PROVE  [Gate!Admission!Next]_(Gate!Admission!vars)
<1> USE DEF Gate!PhaseOf
<1>1. CASE Gate!BeginTransition(t)
  <2>1. CASE disabled
    BY <1>1, <2>1, Unseen DEF Gate!BeginTransition, Gate!Go
  <2>2. CASE ~disabled
    <3>1. /\ Gate!Phase' = [Gate!Phase EXCEPT ![t] = "asking"]
          /\ Gate!Phase[t] = "out" /\ UNCHANGED disabled
      BY <1>1, <2>2, PhaseMoves DEF Gate!BeginTransition, Gate!Go, Gate!Phase
    <3> QED  BY <2>2, <3>1 DEF Gate!Admission!Next, Gate!Admission!Ask
  <2> QED  BY <2>1, <2>2
<1>2. CASE Gate!Reserve(t)
  BY <1>2, Unseen DEF Gate!Reserve, Gate!Go
<1>3. CASE Gate!Bar(t)
  <2>1. /\ Gate!Phase' = [Gate!Phase EXCEPT ![t] = "out"]
        /\ Gate!Phase[t] = "asking" /\ disabled' = TRUE
    BY <1>3, PhaseMoves DEF Gate!Bar, Gate!Go, Gate!Phase
  <2> QED  BY <2>1 DEF Gate!Admission!Next, Gate!Admission!Refuse
<1>4. CASE Gate!CheckReserved(t)
  <2>1. CASE disabled
    <3>1. /\ Gate!Phase' = [Gate!Phase EXCEPT ![t] = "out"]
          /\ Gate!Phase[t] = "asking" /\ UNCHANGED disabled
      BY <1>4, <2>1, PhaseMoves DEF Gate!CheckReserved, Gate!Load, Gate!Go, Gate!Phase
    <3> QED  BY <3>1 DEF Gate!Admission!Next, Gate!Admission!Refuse
  <2>2. CASE ~disabled
    BY <1>4, <2>2, Unseen DEF Gate!CheckReserved, Gate!Load, Gate!Go
  <2> QED  BY <2>1, <2>2
<1>5. CASE Gate!Poll(t)
  <2>1. CASE disabled
    <3>1. /\ Gate!Phase' = [Gate!Phase EXCEPT ![t] = "out"]
          /\ Gate!Phase[t] = "asking" /\ UNCHANGED disabled
      BY <1>5, <2>1, PhaseMoves DEF Gate!Poll, Gate!Go, Gate!Phase
    <3> QED  BY <3>1 DEF Gate!Admission!Next, Gate!Admission!Refuse
  <2>2. CASE ~disabled
    BY <1>5, <2>2, Unseen DEF Gate!Poll, Gate!Go
  <2> QED  BY <2>1, <2>2
<1>6. CASE Gate!Elapse(t)
  BY <1>6 DEF Gate!Elapse, Gate!Admission!vars, Gate!Phase
<1> QED  BY <1>1, <1>2, <1>3, <1>4, <1>5, <1>6

LEMMA StepGrab ==
  ASSUME Gate!TypeOK, Owned, NEW t \in Threads,
         Gate!Grab(t) \/ Gate!Expire(t) \/ Gate!VerifyEnabled(t) \/ Gate!Yield(t)
  PROVE  [Gate!Admission!Next]_(Gate!Admission!vars)
<1> USE DEF Gate!PhaseOf
<1>1. CASE Gate!Grab(t)
  BY <1>1, Unseen DEF Gate!Grab, Gate!Go
<1>2. CASE Gate!Expire(t)
  <2>1. /\ Gate!Phase' = [Gate!Phase EXCEPT ![t] = "out"]
        /\ Gate!Phase[t] = "asking" /\ disabled' = TRUE
    BY <1>2, PhaseMoves DEF Gate!Expire, Gate!Go, Gate!Phase
  <2> QED  BY <2>1 DEF Gate!Admission!Next, Gate!Admission!Refuse
<1>3. CASE Gate!VerifyEnabled(t)
  <2>1. CASE disabled
    BY <1>3, <2>1, Unseen DEF Gate!VerifyEnabled, Gate!Load, Gate!Go
  <2>2. CASE ~disabled
    <3>1. /\ Gate!Phase' = [Gate!Phase EXCEPT ![t] = "changing"]
          /\ Gate!Phase[t] = "asking" /\ UNCHANGED disabled
      BY <1>3, <2>2, PhaseMoves DEF Gate!VerifyEnabled, Gate!Load, Gate!Go, Gate!Phase
    <3>2. Gate!Admission!NoneInside
      BY <1>3, HolderIsAlone DEF Gate!VerifyEnabled, Gate!Load, Gate!Go
    <3> QED  BY <3>1, <3>2 DEF Gate!Admission!Next, Gate!Admission!Enter
  <2> QED  BY <2>1, <2>2
<1>4. CASE Gate!Yield(t)
  <2>1. /\ Gate!Phase' = [Gate!Phase EXCEPT ![t] = "out"]
        /\ Gate!Phase[t] = "asking" /\ UNCHANGED disabled
    BY <1>4, PhaseMoves DEF Gate!Yield, Gate!Go, Gate!Phase
  <2> QED  BY <2>1 DEF Gate!Admission!Next, Gate!Admission!Refuse
<1> QED  BY <1>1, <1>2, <1>3, <1>4

LEMMA StepEnd ==
  ASSUME Gate!TypeOK, NEW t \in Threads,
         (\E qualified \in BOOLEAN : Gate!EndTransition(t, qualified)) \/ Gate!Free(t) \/
         Gate!Reopen(t)
  PROVE  [Gate!Admission!Next]_(Gate!Admission!vars)
<1> USE DEF Gate!PhaseOf
<1>1. CASE \E qualified \in BOOLEAN : Gate!EndTransition(t, qualified)
  <2>1. Gate!Phase' = Gate!Phase /\ Gate!Phase[t] = "changing"
    BY <1>1, PhaseRests DEF Gate!EndTransition, Gate!Go, Gate!Phase
  <2>2. disabled' = TRUE \/ disabled' = disabled
    BY <1>1 DEF Gate!EndTransition, Gate!TypeOK
  <2> QED  BY <2>1, <2>2 DEF Gate!Admission!Next, Gate!Admission!Close, Gate!Admission!vars
<1>2. CASE Gate!Free(t)
  <2>1. /\ Gate!Phase' = [Gate!Phase EXCEPT ![t] = "out"]
        /\ Gate!Phase[t] = "changing" /\ UNCHANGED disabled
    BY <1>2, PhaseMoves DEF Gate!Free, Gate!Go, Gate!Phase
  <2> QED  BY <2>1 DEF Gate!Admission!Next, Gate!Admission!Leave
<1>3. CASE Gate!Reopen(t)
  BY <1>3, Unseen DEF Gate!Reopen, Gate!Go
<1> QED  BY <1>1, <1>2, <1>3

(* Every step of the gate's code is a step of DrawAdmission or none: the   *)
(* callers may reason with the six rules of that module.                   *)
THEOREM GateImplementsAdmission == Gate!Spec => Gate!ImplementsAdmission
<1>1. GateInv /\ [Gate!Next]_(Gate!gate) => [Gate!Admission!Next]_(Gate!Admission!vars)
  <2> SUFFICES ASSUME GateInv,
  [Gate!Next]_(Gate!gate) PROVE [Gate!Admission!Next]_(Gate!Admission!vars)
    OBVIOUS
  <2>1. CASE Gate!Next
    <3> PICK t \in Threads :
           \/ Gate!TryDraw(t) \/ Gate!EndDraw(t) \/ Gate!BeginTransition(t)
           \/ \E qualified \in BOOLEAN : Gate!EndTransition(t, qualified)
           \/ Gate!Inside(t) \/ Gate!Elapse(t)
      BY <2>1 DEF Gate!Next
    <3> QED  BY StepDraw, StepReserve, StepGrab, StepEnd DEF GateInv, Gate!Inside
  <2>2. CASE UNCHANGED Gate!gate
    BY <2>2 DEF Gate!gate, Gate!Admission!vars, Gate!Phase
  <2> QED  BY <2>1, <2>2
<1> QED  BY <1>1, InitAdmission, GateInvariant, PTL DEF Gate!Spec, Gate!ImplementsAdmission,
            Gate!Admission!Spec
=============================================================================
