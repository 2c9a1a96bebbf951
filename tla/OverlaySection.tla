----------------------------- MODULE OverlaySection ----------------------------
(***************************************************************************)
(* The picture in shared memory: the tray publishes it (overlay/           *)
(* integration/runtime.cpp, Publish), the game's render thread draws it    *)
(* (overlay/probe/published_bitmap.hpp, Acquire), nobody locks and nobody  *)
(* waits (overlay/ipc/osd_section.hpp).  There are two buffers; each is    *)
(* bracketed by two serials, and so is the record that says where the      *)
(* picture goes.  A reader tries once per frame of the game.               *)
(*                                                                         *)
(* A picture is its serial; sizeOf and frameOf say what the tray made it   *)
(* for.  What one side writes and the other copies field by field is       *)
(* written and copied in parts, each holding the serial of the picture it  *)
(* belongs to.  Loads and stores take effect in the order of the program,  *)
(* as on x64, the only platform the overlay is built for.                  *)
(***************************************************************************)
EXTENDS Naturals

CONSTANTS
  Frames,         (* sizes of the game's frame                             *)
  Sizes,          (* sizes of the picture                                  *)
  MaxImages,      (* bound: pictures published                             *)
  MaxPlacements,  (* bound: placements published                           *)
  MaxResizes      (* bound: resizes of the game                            *)

ASSUME SectionAssumption ==
  MaxImages \in Nat /\ MaxPlacements \in Nat /\ MaxResizes \in Nat

VARIABLES
  writer,       (* place of Publish: "idle", "begun", "described",         *)
                (* "painting", "painted", "finished", "shown", "placing",  *)
                (* "placed"                                                *)
  reader,       (* place of Acquire: "out", "index", "serial", "header",   *)
                (* "place", "where", "fits", "stage", "half",    *)
                (* "copied"                                                *)
  target,       (* the game's frame                                        *)
  resizes,
  request,      (* frame the game last asked for, or "none"                *)
  wanted,       (* s.width, s.height                                       *)
  sizeOf, frameOf,  (* picture -> what it was made for                     *)
  images,       (* image_serial                                            *)
  valid,        (* image_valid                                             *)
  buffer,       (* 0 and 1: serial_begin, the header's size and frame, two *)
                (* parts of the pixels, serial                             *)
  index,        (* published_index                                         *)
  enabled,
  placeFor,     (* placement -> picture and frame it was computed for      *)
  placements,   (* placement_serial                                        *)
  spot,         (* the record: begun, its parts, serial                    *)
  copy,         (* the reader's locals, parts as in buffer                 *)
  texture,      (* parts of what was uploaded; 0 for no texture            *)
  held          (* placement_, placement_serial_                           *)

tray == <<writer, wanted, sizeOf, frameOf, images, valid, placeFor, placements>>
section == <<buffer, index, enabled, spot>>
local == <<copy, texture, held>>
vars == <<reader, target, resizes, request, tray, section, local>>

Image == 0 .. MaxImages
Placement == 0 .. MaxPlacements
Pictures == [begun : Image, header : Image, upper : Image, lower : Image, serial : Image]
Spots == [begun : Placement, upper : Placement, lower : Placement, serial : Placement]
Empty == [begun |-> 0, header |-> 0, upper |-> 0, lower |-> 0, serial |-> 0]
Nowhere == [begun |-> 0, upper |-> 0, lower |-> 0, serial |-> 0]

TypeOK ==
  /\ writer \in {"idle", "begun", "described", "painting", "painted",
                 "finished", "shown", "placing", "placed"}
  /\ reader \in {"out", "index", "serial", "header", "place", "where", "fits",
                 "stage", "half", "copied"}
  /\ target \in Frames /\ {request, wanted} \subseteq Frames \cup {"none"}
  /\ sizeOf \in [1 .. MaxImages -> Sizes \cup {"none"}]
  /\ frameOf \in [1 .. MaxImages -> Frames \cup {"none"}]
  /\ placeFor \in [1 .. MaxPlacements -> Image \X (Frames \cup {"none"})]
  /\ images \in Image /\ placements \in Placement /\ resizes \in 0 .. MaxResizes
  /\ valid \in BOOLEAN /\ enabled \in BOOLEAN
  /\ buffer \in [{0, 1} -> Pictures] /\ index \in {0, 1} /\ spot \in Spots
  /\ copy \in [from : {0, 1}, image : Pictures, spot : Spots]
  /\ texture \in Pictures /\ held \in Spots

Init ==
  /\ writer = "idle" /\ reader = "out"
  /\ target \in Frames /\ resizes = 0
  /\ request = "none" /\ wanted = "none"
  /\ sizeOf = [i \in 1 .. MaxImages |-> "none"] /\ frameOf = [i \in 1 .. MaxImages |-> "none"]
  /\ images = 0 /\ valid = FALSE
  /\ buffer = [b \in {0, 1} |-> Empty] /\ index = 0 /\ enabled = FALSE
  /\ placeFor = [p \in 1 .. MaxPlacements |-> <<0, "none">>] /\ placements = 0
  /\ spot = Nowhere
  /\ copy = [from |-> 0, image |-> Empty, spot |-> Nowhere]
  /\ texture = Empty
  /\ held = Nowhere

-----------------------------------------------------------------------------
(* The tray: one Publish per tick.                                         *)

(* A request that cannot be read, or a picture that cannot be rendered,    *)
(* ends the tick with the overlay off.                                     *)
Refuse ==
  /\ writer = "idle"
  /\ enabled' = FALSE
  /\ \/ UNCHANGED <<valid, wanted>>
     \/ request # "none" /\ wanted' = request /\ valid' \in {valid, FALSE}
  /\ UNCHANGED <<reader, target, resizes, request, writer, sizeOf, frameOf, images, placeFor,
                 placements, buffer, index, spot, local>>

(* The last picture stays: it is not yet time to render, or nothing in it  *)
(* has changed.                                                            *)
Keep ==
  /\ writer = "idle"
  /\ request # "none"
  /\ wanted' = request
  /\ images > 0
  /\ \/ valid /\ UNCHANGED valid
     \/ frameOf[buffer[index].header] = request /\ valid' = TRUE
  /\ writer' = "shown"
  /\ UNCHANGED <<reader, target, resizes, request, sizeOf, frameOf, images, placeFor, placements,
                 section, local>>

(* The buffer that is not published is written, and nothing but the        *)
(* calendar says that nobody reads it.                                     *)
Hidden == 1 - index

Render(size) ==
  /\ writer = "idle"
  /\ request # "none" /\ images < MaxImages
  /\ wanted' = request
  /\ images' = images + 1
  /\ sizeOf' = [sizeOf EXCEPT ![images + 1] = size]
  /\ frameOf' = [frameOf EXCEPT ![images + 1] = request]
  /\ valid' = TRUE
  /\ buffer' = [buffer EXCEPT ![Hidden].begun = images + 1]
  /\ writer' = "begun"
  /\ UNCHANGED <<reader, target, resizes, request, placeFor, placements, index, enabled, spot, local>>

Write(from, part, to) ==
  /\ writer = from
  /\ buffer' = [buffer EXCEPT ![Hidden][part] = images]
  /\ writer' = to
  /\ UNCHANGED <<reader, target, resizes, request, wanted, sizeOf, frameOf, images, valid, placeFor,
                 placements, index, enabled, spot, local>>

WriteImage ==
  \/ Write("begun", "header", "described")
  \/ Write("described", "upper", "painting")
  \/ Write("painting", "lower", "painted")
  \/ Write("painted", "serial", "finished")

Publish ==
  /\ writer = "finished"
  /\ index' = Hidden
  /\ writer' = "shown"
  /\ UNCHANGED <<reader, target, resizes, request, wanted, sizeOf, frameOf, images, valid, placeFor,
                 placements, buffer, enabled, spot, local>>

(* A record is written if the picture, the frame or the window moved.      *)
Fitting == <<images, wanted>>

BeginPlacement ==
  /\ writer = "shown" /\ placements < MaxPlacements
  /\ placements' = placements + 1
  /\ placeFor' = [placeFor EXCEPT ![placements + 1] = Fitting]
  /\ spot' = [spot EXCEPT !.begun = placements + 1]
  /\ writer' = "placing"
  /\ UNCHANGED <<reader, target, resizes, request, wanted, sizeOf, frameOf, images, valid, buffer,
                 index, enabled, local>>

WritePlacement ==
  /\ writer = "placing"
  /\ IF spot.upper # placements
       THEN spot' = [spot EXCEPT !.upper = placements] /\ UNCHANGED writer
       ELSE IF spot.lower # placements
              THEN spot' = [spot EXCEPT !.lower = placements] /\ UNCHANGED writer
              ELSE spot' = [spot EXCEPT !.serial = placements] /\ writer' = "placed"
  /\ UNCHANGED <<reader, target, resizes, request, wanted, sizeOf, frameOf, images, valid, placeFor,
                 placements, buffer, index, enabled, local>>

Enable ==
  /\ \/ writer = "placed"
     \/ writer = "shown" /\ (placements = MaxPlacements \/ (placements > 0 /\ placeFor[placements] = Fitting))
  /\ enabled' = TRUE
  /\ writer' = "idle"
  /\ UNCHANGED <<reader, target, resizes, request, wanted, sizeOf, frameOf, images, valid, placeFor,
                 placements, buffer, index, spot, local>>

-----------------------------------------------------------------------------
(* The game: a frame asks for its size, then tries to draw.                *)

Resize ==
  /\ reader = "out" /\ resizes < MaxResizes
  /\ resizes' = resizes + 1
  /\ target' \in Frames \ {target}
  /\ UNCHANGED <<reader, request, tray, section, local>>

(* ReportTarget; the record has serials of its own, and a torn one is an   *)
(* unreadable request.                                                     *)
ReportTarget ==
  /\ reader = "out" /\ request # target
  /\ request' = target
  /\ UNCHANGED <<reader, target, resizes, tray, section, local>>

(* Acquire returns; whether it found a picture to draw is not followed.    *)
Return == reader' = "out"

Step(from, to) == reader = from /\ reader' = to

(* The gates: no section, the flag, a heartbeat too old.                   *)
Gates ==
  /\ reader = "out" /\ request = target
  /\ IF enabled
       THEN /\ reader' = "index"
            /\ copy' = [copy EXCEPT !.from = index, !.image = Empty, !.spot = Nowhere]
       ELSE Return /\ UNCHANGED copy
  /\ UNCHANGED <<target, resizes, request, tray, section, texture, held>>

Source == buffer[copy.from]

Copy(from, part, to) ==
  /\ Step(from, to)
  /\ copy' = [copy EXCEPT !.image[part] = Source[part]]
  /\ UNCHANGED <<target, resizes, request, tray, section, texture, held>>

CopyHeader ==
  \/ Copy("index", "serial", "serial")
  \/ Copy("serial", "header", "header")

(* HeaderPlausible and ReadPlacement; a header never written has no size.  *)
LookAtPlacement ==
  /\ reader = "header"
  /\ IF copy.image.header = 0
       THEN Return /\ UNCHANGED copy
       ELSE IF spot.serial = 0 \/ spot.serial = held.serial
              THEN reader' = "fits" /\ UNCHANGED copy
              ELSE /\ reader' = "place"
                   /\ copy' = [copy EXCEPT !.spot.serial = spot.serial]
  /\ UNCHANGED <<target, resizes, request, tray, section, texture, held>>

CopyPlacement ==
  /\ Step("place", "where")
  /\ copy' = [copy EXCEPT !.spot.upper = spot.upper]
  /\ UNCHANGED <<target, resizes, request, tray, section, texture, held>>

(* Mutant of Settled: nobody looks whether the record was written over.    *)
SettledUnchecked == TRUE

Settled == spot.begun = copy.spot.serial

TakePlacement ==
  /\ Step("where", "fits")
  /\ held' = IF Settled
               THEN [copy.spot EXCEPT !.lower = spot.lower]
               ELSE held
  /\ UNCHANGED <<target, resizes, request, tray, section, copy, texture>>

Uploaded == texture.serial

FrameOf(i) == IF i = 0 THEN "none" ELSE frameOf[i]
SizeOf(i) == IF i = 0 THEN "none" ELSE sizeOf[i]

(* Rule 4: an image for another frame is not drawn; one already uploaded   *)
(* is drawn again; any other is copied.                                    *)
Fits ==
  /\ reader = "fits"
  /\ IF \/ FrameOf(copy.image.header) # target
        \/ /\ copy.image.serial = Uploaded /\ Uploaded # 0
           /\ SizeOf(texture.header) = SizeOf(copy.image.header)
       THEN Return
       ELSE reader' = "stage"
  /\ UNCHANGED <<target, resizes, request, tray, section, local>>

(* Stage; the upload buffer may not be had.                                *)
Stage ==
  \/ /\ reader = "stage"
     /\ Return
     /\ UNCHANGED <<target, resizes, request, tray, section, local>>
  \/ Copy("stage", "upper", "half")
  \/ Copy("half", "lower", "copied")

Whole == Source.begun = copy.image.serial

(* The copy counts if nobody began to write over it; otherwise the texture *)
(* of before is drawn once more.  Commit may fail, with or without the old *)
(* texture.                                                                *)
Check ==
  /\ reader = "copied"
  /\ Return
  /\ texture' \in IF Whole THEN {copy.image, texture, Empty} ELSE {texture}
  /\ UNCHANGED <<target, resizes, request, tray, section, copy, held>>

Next ==
  \/ Refuse \/ Keep \/ WriteImage \/ Publish \/ BeginPlacement \/ WritePlacement \/ Enable
  \/ \E size \in Sizes : Render(size)
  \/ Resize \/ ReportTarget \/ Gates \/ CopyHeader \/ LookAtPlacement
  \/ CopyPlacement \/ TakePlacement \/ Fits \/ Stage \/ Check

Spec == Init /\ [][Next]_vars

-----------------------------------------------------------------------------
(* What the game shows was published as it is: the texture's header      *)
(* and pixels are of one picture, the one whose serial was uploaded, and   *)
(* the placement it is held at is one record (osd_section.hpp: accept the  *)
(* copy iff begun == serial), although the tray may fill a buffer twice    *)
(* while it is being copied.                                               *)
NoTornFrame ==
  /\ TypeOK
  /\ {texture.header, texture.upper, texture.lower} = {Uploaded}
  /\ held.upper = held.serial /\ held.lower = held.serial
=============================================================================
