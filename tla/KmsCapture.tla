------------------------------- MODULE KmsCapture -------------------------------
(***************************************************************************)
(* Capture of a Linux display through the kernel (kmsgrab.cpp): the       *)
(* displays that are listed and the one opened under a name, the file     *)
(* descriptors of a framebuffer handed to the encoder with an image, the  *)
(* cursor, and the pace.  The four share nothing but the thread: what a   *)
(* behaviour is about is chosen at its start.                             *)
(***************************************************************************)
EXTENDS Integers, Sequences, FiniteSets, FiniteSetsExt, SequencesExt

CONSTANTS
  Layouts,    (* sets of cards: [nvidia, planes], a plane is             *)
                (* [fb, cursor, crtc]                                      *)
  DeviceType,  (* mem_type: "cuda", "vaapi", "system"                    *)
  NvencChosen,  (* the user chose nvenc                                  *)
  KmsImages,  (* the images of the pool                                  *)
  Files,      (* bound: file descriptors are 0 .. Files - 1              *)
  FrameBuffers,  (* the framebuffers a cursor comes in                   *)
  Shapes,     (* what a cursor looks like                                *)
  MaxSerial,  (* bound: images of the cursor read                        *)
  Delay,      (* ticks between two frames                                *)
  LastTick,   (* bound: ticks                                            *)
  ScreenWidth,  (* width of the screen, in pixels                        *)
  CursorSizes  (* widths of a cursor                                     *)

ASSUME KmsCaptureAssumption ==
  /\ {Files, MaxSerial, Delay, LastTick, ScreenWidth} \subseteq Nat \ {0}
  /\ 0 \notin FrameBuffers /\ \A w \in CursorSizes : w \in 1 .. ScreenWidth

VARIABLES
  focus,      (* "names", "files", "cursor", "pace"                      *)
  cards,      (* external: the cards and their planes                    *)
  names,      (* the displays listed: <<card, plane>>                    *)
  openedDisplay,  (* the display opened                                  *)
  owner,      (* file descriptor -> "free", "host", "others"             *)
  fds,        (* image -> the descriptors in its sd                      *)
  grab,       (* [stage, img]: "idle", "pulled", "encode", "over"        *)
  doubled,    (* history: descriptors were closed and left in an image   *)
  stolen,     (* history: a file of others was closed                    *)
  cursorPlane,  (* external: the framebuffer of the cursor, 0: hidden    *)
  shape,      (* external: framebuffer -> what it shows                  *)
  captured,   (* captured_cursor: [visible, fb, pixels, serial]          *)
  plane,      (* cursor_plane_id is known                                *)
  buffers,    (* image -> [serial, pixels]                               *)
  unread,     (* history: reading the cursor failed since it was read    *)
  frameCursor,  (* the last frame: [cursor, due, fb], the cursor drawn,  *)
              (* the one there was, in which framebuffer               *)
  unnoticed,  (* history: that framebuffer was drawn on meanwhile        *)
  tick, nextFrame, wakeAt,  (* the time, next_frame, the end of the sleep or 0 *)
  snaps       (* history: when the last four frames were taken          *)

kmsVars == <<focus, cards, names, openedDisplay, owner, fds, grab, doubled, stolen,
             cursorPlane, shape, captured, plane, buffers, unread, frameCursor, unnoticed,
             tick, nextFrame, wakeAt, snaps>>
nameVars == <<cards, names, openedDisplay>>
fileVars == <<owner, fds, grab, doubled, stolen>>
cursorVars == <<cursorPlane, shape, captured, plane, buffers, unread, frameCursor, unnoticed>>
paceVars == <<tick, nextFrame, wakeAt, snaps>>

Unset == <<>>
NoDisplay == <<0>>

-----------------------------------------------------------------------------
(* Planes that may be a monitor, of the cards that suit the encoder.      *)
(* Variant: the opened display is counted among the planes of every card. *)
FitsEncoderBug(card) == TRUE
FitsEncoder(card) ==
  CASE DeviceType = "cuda" -> card.nvidia \/ NvencChosen
    [] DeviceType = "vaapi" -> ~card.nvidia
    [] OTHER -> TRUE
MayShow(p) == p.fb # "none" /\ ~p.cursor
PlanesOf(cs, c) == [k \in DOMAIN cs[c].planes |-> <<c, k>>]
At(cs, id) == cs[id[1]].planes[id[2]]

(* display_t::init: the index counts every such plane, readable or not.   *)
CountedPlanes(cs) ==
  FlattenSeq([c \in DOMAIN cs |->
    IF FitsEncoder(cs[c])
    THEN SelectSeq(PlanesOf(cs, c), LAMBDA id : MayShow(At(cs, id))) ELSE <<>>])
DisplayAt(cs, index) ==
  LET rest == SubSeq(CountedPlanes(cs), index, Len(CountedPlanes(cs)))
      at == SelectInSeq(rest, LAMBDA id : At(cs, id).fb # "readable" \/ At(cs, id).crtc)
  IN  IF at = 0 \/ At(cs, rest[at]).fb # "readable" THEN NoDisplay ELSE rest[at]

(* kms_display_names: a plane that cannot be read has no name; one that   *)
(* may not be read ends its card.                                         *)
UpToDenied(cs, ids) ==
  LET at == SelectInSeq(ids, LAMBDA id : MayShow(At(cs, id)) /\ At(cs, id).fb = "denied")
  IN  IF at = 0 THEN ids ELSE SubSeq(ids, 1, at - 1)
Listed(cs, id) == MayShow(At(cs, id)) /\ At(cs, id).fb = "readable" /\ At(cs, id).crtc
ListedFits(card) ==
  CASE DeviceType = "cuda" -> card.nvidia \/ NvencChosen
    [] DeviceType = "vaapi" -> ~card.nvidia
    [] OTHER -> TRUE
NamesOf(cs) ==
  FlattenSeq([c \in DOMAIN cs |->
    IF ListedFits(cs[c])
    THEN SelectSeq(UpToDenied(cs, PlanesOf(cs, c)), LAMBDA id : Listed(cs, id)) ELSE <<>>])

DisplayNames ==
  /\ focus = "names" /\ names' = NamesOf(cards) /\ openedDisplay' = Unset
  /\ UNCHANGED <<cards, fileVars, cursorVars, paceVars, focus>>
OpenDisplay(index) ==
  /\ focus = "names" /\ openedDisplay' = DisplayAt(cards, index)
  /\ UNCHANGED <<cards, names, fileVars, cursorVars, paceVars, focus>>
(* External: a plane is used or not, or cannot be read for a while.       *)
PlaneChanges(c, k, fb) ==
  /\ focus = "names" /\ cards[c].planes[k].fb # fb
  /\ cards' = [cards EXCEPT ![c].planes[k].fb = fb] /\ names' = Unset /\ openedDisplay' = Unset
  /\ UNCHANGED <<fileVars, cursorVars, paceVars, focus>>

-----------------------------------------------------------------------------
(* Files: the lowest free descriptor is given; closing frees whatever has *)
(* the number.                                                            *)
FreeFiles(o) == {n \in DOMAIN o : o[n] = "free"}
LowestGiven(o, who) == [o EXCEPT ![Min(FreeFiles(o))] = who]
Closed(o, ns) == [n \in DOMAIN o |-> IF n \in ns THEN "free" ELSE o[n]]
Hits(o, ns) == \E n \in ns : o[n] = "others"
(* The descriptors of an image that is used again are closed first.       *)
(* Variants: they are not; those handed to an image are closed after all. *)
ResetsBug(i) == {}
Resets(i) == fds[i]
LocalBug(new, ok) == new
Local(new, ok) == IF ok THEN {} ELSE new

Pull(i) ==
  /\ focus = "files" /\ grab.stage = "idle"
  /\ grab' = [stage |-> "pulled", img |-> i]
  /\ owner' = Closed(owner, Resets(i)) /\ fds' = [fds EXCEPT ![i] = {}]
  /\ stolen' = (stolen \/ Hits(owner, Resets(i)))
  /\ UNCHANGED <<doubled, nameVars, cursorVars, paceVars, focus>>

(* refresh(): of the framebuffer's handles, as many are exported as it    *)
(* has, or fewer; only then is its size compared.                         *)
Exported(o, count) == {n \in FreeFiles(o) : Cardinality({m \in FreeFiles(o) : m < n}) < count}
RefreshFrame(count, result) ==
  LET new == Exported(owner, count)
      ok == result = "ok"
  IN  /\ focus = "files" /\ grab.stage = "pulled" /\ Cardinality(new) = count
      /\ ok => count > 0
      /\ count > 0 => result # "timeout"
      /\ fds' = [fds EXCEPT ![grab.img] = new]
      /\ owner' = [n \in DOMAIN owner |->
                     IF n \in Local(new, ok) THEN "free"
                     ELSE IF n \in new THEN "host" ELSE owner[n]]
      /\ doubled' = (doubled \/ (~ok /\ new # {}))
      /\ grab' = [grab EXCEPT !.stage = CASE ok -> "encode" [] result = "timeout" -> "idle"
                                          [] OTHER -> "over"]
      /\ UNCHANGED <<stolen, nameVars, cursorVars, paceVars, focus>>

(* The image goes to the encoder, which lets go of it; the next one may   *)
(* be another.                                                            *)
Encoded ==
  /\ focus = "files" /\ grab.stage = "encode" /\ grab' = [grab EXCEPT !.stage = "idle"]
  /\ UNCHANGED <<owner, fds, doubled, stolen, nameVars, cursorVars, paceVars, focus>>

(* The display is given up with its images; ~img_descriptor_t.            *)
GiveUp ==
  /\ focus = "files" /\ grab.stage \in {"idle", "over"}
  /\ LET left == UNION {fds[i] : i \in KmsImages}
     IN  owner' = Closed(owner, left) /\ stolen' = (stolen \/ Hits(owner, left))
  /\ fds' = [i \in KmsImages |-> {}] /\ grab' = [grab EXCEPT !.stage = "idle"]
  /\ UNCHANGED <<doubled, nameVars, cursorVars, paceVars, focus>>

(* External: other threads open and close files.                          *)
OthersOpen ==
  /\ focus = "files" /\ FreeFiles(owner) # {} /\ owner' = LowestGiven(owner, "others")
  /\ UNCHANGED <<fds, grab, doubled, stolen, nameVars, cursorVars, paceVars, focus>>
OthersClose(n) ==
  /\ focus = "files" /\ owner[n] = "others" /\ owner' = Closed(owner, {n})
  /\ UNCHANGED <<fds, grab, doubled, stolen, nameVars, cursorVars, paceVars, focus>>

-----------------------------------------------------------------------------
(* External: the cursor is shown in a framebuffer, which may be a new one *)
(* of an old number, or is hidden.                                        *)
ShowCursor(f, s) ==
  /\ focus = "cursor" /\ cursorPlane # f /\ cursorPlane' = f
  /\ shape' = IF f = 0 THEN shape ELSE [shape EXCEPT ![f] = s]
  /\ UNCHANGED <<captured, plane, buffers, unread, frameCursor, unnoticed, fileVars,
                 nameVars, paceVars, focus>>

(* update_cursor(): the image is read when the framebuffer is another one *)
(* than that which was read last.  Variants: a hidden cursor is not       *)
(* forgotten; the images are not told that it was read anew.              *)
HiddenBug(c) == [c EXCEPT !.visible = FALSE]
Hidden(c) == [c EXCEPT !.visible = FALSE, !.fb = 0]
NextSerialBug(c) == c.serial
NextSerial(c) == c.serial + 1
Read(c) ==
  [visible |-> TRUE, fb |-> cursorPlane, pixels |-> shape[cursorPlane],
   serial |-> NextSerial(c)]
UpdateCursor(result) ==
  IF ~plane THEN UNCHANGED <<captured, plane, unread>>
  ELSE IF cursorPlane = 0
  THEN captured' = Hidden(captured) /\ UNCHANGED <<plane, unread>>
  ELSE IF cursorPlane = captured.fb THEN UNCHANGED <<captured, plane, unread>>
  ELSE /\ captured' = IF result = "read" THEN Read(captured)
                      ELSE [captured EXCEPT !.visible = FALSE]
       /\ plane' = (result # "unsupported") /\ unread' = (result # "read")

(* snapshot(), of memory: the cursor is drawn on the image; or with the   *)
(* image goes the cursor it has a copy of.                                *)
Stale(i) == buffers[i].serial # captured'.serial
Copied(i) ==
  IF captured'.visible /\ Stale(i)
  THEN [serial |-> captured'.serial, pixels |-> captured'.pixels] ELSE buffers[i]
There == IF cursorPlane = 0 THEN "none" ELSE shape[cursorPlane]
KmsSnapshot(i, inMemory, result) ==
  /\ focus = "cursor" /\ captured.serial < MaxSerial
  /\ UpdateCursor(result)
  /\ buffers' = IF inMemory THEN buffers ELSE [buffers EXCEPT ![i] = Copied(i)]
  /\ unnoticed' = /\ cursorPlane = frameCursor.fb
                   /\ (unnoticed \/ There # frameCursor.due)
  /\ frameCursor' = [due |-> There, fb |-> cursorPlane,
               cursor |-> IF ~captured'.visible THEN "none"
                          ELSE IF inMemory THEN captured'.pixels ELSE buffers'[i].pixels]
  /\ UNCHANGED <<cursorPlane, shape, fileVars, nameVars, paceVars, focus>>

-----------------------------------------------------------------------------
(* capture(): the times of the frames.  Variant: a host that was too slow *)
(* makes up for the frames it missed.                                     *)
CaughtUpBug(next, now) == next
CaughtUp(next, now) == IF next < now THEN now + Delay ELSE next
Recent(s) == IF Len(s) = 4 THEN Append(Tail(s), tick) ELSE Append(s, tick)

Plan ==
  /\ focus = "pace" /\ wakeAt = 0
  /\ wakeAt' = Max({tick, nextFrame}) /\ nextFrame' = CaughtUp(nextFrame + Delay, tick)
  /\ UNCHANGED <<tick, snaps, fileVars, nameVars, cursorVars, focus>>
TakeImage ==
  /\ focus = "pace" /\ wakeAt > 0 /\ tick >= wakeAt
  /\ wakeAt' = 0 /\ snaps' = Recent(snaps)
  /\ UNCHANGED <<tick, nextFrame, fileVars, nameVars, cursorVars, focus>>
TimeGoesOn ==
  /\ focus = "pace" /\ tick < LastTick /\ tick' = tick + 1
  /\ UNCHANGED <<nextFrame, wakeAt, snaps, fileVars, nameVars, cursorVars, focus>>

-----------------------------------------------------------------------------
(* display_ram_t::blend_cursor(): the columns of a cursor of width w at   *)
(* column x that are drawn, and where.  Variant: the part that is off the *)
(* screen at the left is drawn past the right edge of the cursor.         *)
DeltaX(x, w) == Max({0, x}) - Max({-w, x})
ColumnsBug(x, w) == Min({w, Max({0, ScreenWidth - Max({0, x})})})
Columns(x, w) == Min({w, Max({0, ScreenWidth - Max({0, x})})}) - DeltaX(x, w)
Blended(x, w) == {<<DeltaX(x, w) + i, Max({0, x}) + i>> : i \in 0 .. Columns(x, w) - 1}

-----------------------------------------------------------------------------
KmsInit ==
  /\ focus \in {"names", "files", "cursor", "pace"}
  /\ cards \in Layouts /\ names = Unset /\ openedDisplay = Unset
  /\ owner = [n \in 0 .. Files - 1 |-> "free"] /\ fds = [i \in KmsImages |-> {}]
  /\ grab = [stage |-> "idle", img |-> CHOOSE i \in KmsImages : TRUE]
  /\ doubled = FALSE /\ stolen = FALSE
  /\ cursorPlane = 0 /\ shape = [f \in FrameBuffers |-> CHOOSE s \in Shapes : TRUE]
  /\ captured = [visible |-> FALSE, fb |-> 0, pixels |-> "none", serial |-> 0]
  /\ plane = TRUE /\ buffers = [i \in KmsImages |-> [serial |-> -1, pixels |-> "none"]]
  /\ unread = FALSE /\ frameCursor = [cursor |-> "none", due |-> "none", fb |-> 0]
  /\ unnoticed = FALSE
  /\ tick = 1 /\ nextFrame = 1 /\ wakeAt = 0 /\ snaps = <<>>

KmsNext ==
  \/ DisplayNames \/ \E index \in DOMAIN names : OpenDisplay(index)
  \/ \E c \in DOMAIN cards : \E k \in DOMAIN cards[c].planes :
       \E fb \in {"none", "readable", "unreadable", "denied"} : PlaneChanges(c, k, fb)
  \/ \E i \in KmsImages : Pull(i)
  \/ \E count \in 0 .. 2, result \in {"ok", "timeout", "error", "reinit"} :
       RefreshFrame(count, result)
  \/ Encoded \/ GiveUp \/ OthersOpen \/ \E n \in DOMAIN owner : OthersClose(n)
  \/ \E f \in FrameBuffers \cup {0}, s \in Shapes : ShowCursor(f, s)
  \/ \E i \in KmsImages, inMemory \in BOOLEAN, result \in {"read", "failed", "unsupported"} :
       KmsSnapshot(i, inMemory, result)
  \/ Plan \/ TakeImage \/ TimeGoesOn

-----------------------------------------------------------------------------
(* The domains of the variables.                                          *)
KmsTypeOK ==
  /\ owner \in [0 .. Files - 1 -> {"free", "host", "others"}]
  /\ fds \in [KmsImages -> SUBSET (0 .. Files - 1)]
  /\ captured.serial \in 0 .. MaxSerial /\ captured.fb \in FrameBuffers \cup {0}
  /\ {doubled, stolen, plane, unread, unnoticed} \subseteq BOOLEAN

(* Under a name the display is opened that was listed under it, when every *)
(* plane in use can be read: one that cannot has no name but is counted.  *)
AllReadable ==
  \A c \in DOMAIN cards : \A k \in DOMAIN cards[c].planes :
    cards[c].planes[k].fb \in {"readable", "none"} /\ cards[c].planes[k].crtc
NameOpensListed ==
  openedDisplay # Unset /\ AllReadable =>
    /\ openedDisplay \in Range(names) /\ MayShow(At(cards, openedDisplay))
    /\ Len(CountedPlanes(cards)) = Len(names)

(* The host closes the descriptors of a framebuffer, each of them once,   *)
(* and no file of others; unless an image kept those of a framebuffer that *)
(* was not taken in the end.                                              *)
FilesOwned ==
  ~doubled =>
    /\ ~stolen
    /\ {n \in DOMAIN owner : owner[n] = "host"} = UNION {fds[i] : i \in KmsImages}
    /\ \A i, j \in KmsImages : i # j => fds[i] \intersect fds[j] = {}

(* A frame shows the cursor there was when it was taken; unless its       *)
(* framebuffer was drawn on since it was read and no frame without it was *)
(* taken, or it could not be read.                                        *)
CursorAsShown == frameCursor.cursor = frameCursor.due \/ unnoticed \/ unread

(* Four frames are never taken within the time of one, even after the host *)
(* was too slow: at most two come too early.                               *)
PacedEvenly == Len(snaps) = 4 => snaps[4] - snaps[1] >= Delay

(* What is on the screen of a cursor is drawn, where it is.               *)
BlendedWithin ==
  frameCursor.cursor # "none" =>
  \A w \in CursorSizes : \A x \in -2 * w .. 2 * ScreenWidth :
    Blended(x, w) = {<<i, x + i>> : i \in {i \in 0 .. w - 1 : x + i \in 0 .. ScreenWidth - 1}}
=============================================================================
