------------------------------ MODULE DesktopFrames ------------------------------
(***************************************************************************)
(* The pictures of the desktop on Windows (display_vram.cpp): each         *)
(* snapshot() copies what the desktop duplication delivered, a new desktop *)
(* picture, a change of the mouse cursor, or both, through the last frame  *)
(* it keeps into an image of the pool, which the encoders of the clients   *)
(* share.                                                                  *)
(*                                                                         *)
(* A picture is [desk, cursors]: the desktop on it, and the cursors drawn  *)
(* onto it; "now" is the one delivered last.  Left out: which sizes and    *)
(* formats begin the capture anew, and calls of the GPU that fail; both    *)
(* end the display with its images.  Assumed: two textures alive in the    *)
(* same device, or one after the other, have different addresses.          *)
(***************************************************************************)

CONSTANT
  Images      (* the images of the pool (capture_buffer_size)              *)

VARIABLES
  format,     (* capture_format is known                                   *)
  last,       (* last_frame_variant: nothing, "surface", or an image       *)
  surface,    (* the picture on the intermediate surface, also while unused*)
  pointer,    (* cursor_alpha.visible || cursor_xor.visible                *)
  picture,    (* what is on each image                                     *)
  texture,    (* the texture each image has: none, a dummy or a real one   *)
  images,     (* the event: the image in it with the picture it shows      *)
  held,       (* the image the encoder converts, or none                   *)
  opened,     (* img_ctx_map: the texture the encoder has opened of each   *)
  output,     (* history: the last picture sent, and what it should show   *)
  desktop,    (* history: the desktop was delivered at least once          *)
  drawnStale, (* history: the encoder drew a texture the image has lost    *)
  logical     (* history: "Logical error"                                  *)

frameVars == <<format, last, surface, pointer, picture, texture, images, held, opened,
               output, desktop, drawnStale, logical>>
encoderSide == <<held, opened, drawnStale>>

NoImage == "no image"
Black == [desk |-> "black", cursors |-> {}]
Latest == [desk |-> "now", cursors |-> {}]
None == [img |-> NoImage, pic |-> Black]

-----------------------------------------------------------------------------
(* External: with a new desktop, or a new cursor, what was the latest is   *)
(* not any more.                                                           *)
AgedDesk(desk) == IF desk = "now" THEN "before" ELSE desk
Aged(pic, frame, mouse) ==
  [desk |-> IF frame THEN AgedDesk(pic.desk) ELSE pic.desk,
   cursors |-> IF mouse # "same" /\ pic.cursors # {} THEN {"before"} ELSE pic.cursors]
AgedOf(shows, frame, mouse) == [shows EXCEPT !.pic = Aged(@, frame, mouse)]

-----------------------------------------------------------------------------
(* The lfa and ofa tables of snapshot().                                   *)
LastAction(known, frame, blend) ==
  CASE ~known -> "nothing"
    [] known /\ frame -> IF blend THEN "copy_src_to_surface" ELSE "copy_src_to_img"
    [] known /\ ~frame /\ blend /\ last \in Images -> "replace_img_with_surface"
    [] known /\ ~frame /\ ~blend /\ last = "surface" -> "replace_surface_with_img"
    [] OTHER -> "nothing"
OutAction(known, frame, blend) ==
  CASE ~known \/ (~frame /\ last = NoImage) -> "dummy_fallback"
    [] OTHER -> IF blend THEN "copy_last_surface_and_blend_cursor" ELSE "forward_last_img"

(* pull_free_image_cb(): an image nobody but the pool refers to.           *)
(* Variant: what waits for the encoder is overlooked.                      *)
FreeBug(kept) == Images \ {kept, held.img}
Free(kept) ==
  Images \ {kept, images.img, held.img}

(* An image that was used before is preferred.                             *)
Pulled(kept) ==
  LET used == {i \in Free(kept) : texture[i] # "none"}
  IN IF used # {} THEN used ELSE Free(kept)

(* The last frame after the action, and what the surface shows.            *)
(* p is the image that was pulled.                                         *)
LastAfter(act, p) ==
  CASE act \in {"replace_surface_with_img", "copy_src_to_img"} -> p
    [] act \in {"replace_img_with_surface", "copy_src_to_surface"} -> "surface"
    [] OTHER -> last
(* A surface given up is reused for ten seconds, with what was on it.      *)
(* Variant: it is not copied to.                                           *)
SurfaceAfterBug(act) ==
  CASE act = "replace_img_with_surface" -> surface
    [] act = "copy_src_to_surface" -> Latest
    [] OTHER -> surface
SurfaceAfter(act) ==
  CASE act = "replace_img_with_surface" -> picture[last]
    [] act = "copy_src_to_surface" -> Latest
    [] OTHER -> surface
Cursors(blend) == IF blend THEN {"now"} ELSE {}

(* The picture on the pulled image, after both actions.  A dummy that was  *)
(* used before is cleared.                                                 *)
(* Variant: it is not.                                                     *)
DummyPictureBug(p, blend) ==
  [desk |-> "black",
   cursors |-> (IF texture[p] = "dummy" THEN picture[p].cursors ELSE {}) \cup Cursors(blend)]
DummyPicture(p, blend) == [desk |-> "black", cursors |-> Cursors(blend)]

Painted(act, out, p, blend) ==
  CASE out = "dummy_fallback" -> DummyPicture(p, blend)
    [] out = "copy_last_surface_and_blend_cursor" ->
         [SurfaceAfter(act) EXCEPT !.cursors = @ \cup Cursors(blend)]
    [] act = "copy_src_to_img" -> Latest
    [] act = "replace_surface_with_img" -> surface

(* Neither action writes an image when the last one is forwarded as it is. *)
Pulls(act, out) == ~(act = "nothing" /\ out = "forward_last_img")

(* An action finds another last frame than it needs.                       *)
Illogical(act, out, p) ==
  \/ out = "forward_last_img" /\ LastAfter(act, p) \notin Images
  \/ out = "copy_last_surface_and_blend_cursor" /\ LastAfter(act, p) # "surface"

(* A picture with its cursor drawn, or without if none is visible or the   *)
(* user does not want one.                                                 *)
Due(seen, blend) == [desk |-> IF seen THEN "now" ELSE "black", cursors |-> Cursors(blend)]

-----------------------------------------------------------------------------
(* The rest of snapshot(), and push_captured_image_callback, once it is    *)
(* known what was delivered.                                               *)
Send(act, out, p, blend, aged, agedSurface, seen) ==
  LET img == IF Pulls(act, out) THEN p ELSE last
      painted == IF Pulls(act, out) THEN [aged EXCEPT ![p] = Painted(act, out, p, blend)]
                                    ELSE aged
  IN /\ picture' = painted
     /\ texture' = IF Pulls(act, out)
                   THEN [texture EXCEPT ![p] = IF out = "dummy_fallback" THEN "dummy" ELSE "real"]
                   ELSE texture
     /\ images' = [img |-> img, pic |-> painted[img]]     (* event_t::raise() *)
     /\ output' = [img |-> img, due |-> Due(seen, blend)]
     /\ last' = LastAfter(act, p)
     /\ surface' = IF act \in {"replace_img_with_surface", "copy_src_to_surface"}
                   THEN SurfaceAfter(act) ELSE agedSurface
     /\ logical' = (logical \/ Illogical(act, out, p))

(* snapshot(): frame is a new desktop, mouse a cursor that moved, changed  *)
(* its shape, or disappeared; draw is cursor_visible, the user's choice.   *)
(* The first desktop tells the format.                                     *)
Snapshot(frame, mouse, draw) ==
  LET visible == IF mouse \in {"same", "shape"} THEN pointer ELSE mouse = "moved"
      blend == visible /\ draw
      known == format \/ frame
      act == LastAction(known, frame, blend)
      out == OutAction(known, frame, blend)
  IN /\ frame \/ mouse # "same"
     /\ pointer' = visible /\ format' = known /\ desktop' = (desktop \/ frame)
     (* copy_src_to_img gives the last image up before it pulls one.       *)
     /\ \E p \in Pulled(IF act = "copy_src_to_img" THEN NoImage ELSE last) :
          Send(act, out, p, blend,
               [i \in Images |-> Aged(picture[i], frame, mouse)], Aged(surface, frame, mouse),
               desktop \/ frame)
     /\ held' = AgedOf(held, frame, mouse)
     /\ UNCHANGED <<opened, drawnStale>>

-----------------------------------------------------------------------------
(* The encoder thread: images->pop(), then convert().                      *)
PopImage ==
  /\ held = None /\ images # None
  /\ held' = images /\ images' = None
  /\ UNCHANGED <<format, last, surface, pointer, picture, texture, opened, output,
                 desktop, drawnStale, logical>>

(* initialize_image_context(): the texture is opened unless it is the one  *)
(* opened before.  Variant: whichever was opened before is taken.          *)
OpenedBug(i) == IF opened[i] # "none" THEN opened[i] ELSE texture[i]
Opened(i) == IF opened[i] = texture[i] THEN opened[i] ELSE texture[i]

Convert ==
  /\ held # None
  /\ opened' = [opened EXCEPT ![held.img] = Opened(held.img)]
  /\ drawnStale' = (drawnStale \/ Opened(held.img) # texture[held.img])
  /\ held' = None
  /\ UNCHANGED <<format, last, surface, pointer, picture, texture, images, output,
                 desktop, logical>>

(* trim_imgs(): images not in use for three seconds are given up; one that *)
(* is allocated anew has a new id, which the encoder does not know.        *)
Trim ==
  /\ \E i \in Free(last) :
       /\ texture[i] # "none"
       /\ texture' = [texture EXCEPT ![i] = "none"] /\ picture' = [picture EXCEPT ![i] = Black]
       /\ opened' = [opened EXCEPT ![i] = "none"]
       /\ output' = IF output.img = i THEN [output EXCEPT !.img = NoImage] ELSE output
  /\ UNCHANGED <<format, last, surface, pointer, images, held, desktop, drawnStale,
                 logical>>

FramesInit ==
  /\ format = FALSE /\ last = NoImage /\ surface = Black /\ pointer = FALSE
  /\ picture = [i \in Images |-> Black] /\ texture = [i \in Images |-> "none"]
  /\ images = None /\ held = None /\ opened = [i \in Images |-> "none"]
  /\ output = [img |-> NoImage, due |-> Black]
  /\ desktop = FALSE /\ drawnStale = FALSE /\ logical = FALSE

FramesNext ==
  \/ \E frame, draw \in BOOLEAN, mouse \in {"same", "moved", "shape", "gone"} :
       Snapshot(frame, mouse, draw)
  \/ PopImage \/ Convert \/ Trim

-----------------------------------------------------------------------------
Pictures == [desk : {"black", "now", "before"}, cursors : SUBSET {"now", "before"}]
ImagesTypeOK ==
  /\ {format, pointer, desktop, drawnStale, logical} \subseteq BOOLEAN
  /\ last \in Images \cup {NoImage, "surface"} /\ surface \in Pictures
  /\ picture \in [Images -> Pictures]
  /\ {texture, opened} \subseteq [Images -> {"none", "dummy", "real"}]
  /\ {images.img, held.img} \subseteq Images \cup {NoImage}

(* The picture sent last shows the desktop delivered last, also if only    *)
(* the cursor changed since, and exactly the cursor that is visible now.   *)
ShowsTheDesktop == output.img \in Images => picture[output.img] = output.due

(* An image is not written, cleared or given another texture while an      *)
(* encoder still has to show it, and an encoder draws the texture the      *)
(* image has.                                                              *)
PicturesKept ==
  /\ images # None => picture[images.img] = images.pic
  /\ held # None => picture[held.img] = held.pic
  /\ ~drawnStale

(* The branches "Logical error" of snapshot() are never reached.           *)
NeverIllogical == ~logical
===============================================================================
