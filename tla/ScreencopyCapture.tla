---------------------------- MODULE ScreencopyCapture ----------------------------
(***************************************************************************)
(* Capture of a monitor through a wlroots compositor (wlgrab.cpp,         *)
(* wayland.cpp).  A frame is asked for; the compositor tells the formats, *)
(* makes a buffer of the memory the host offers, copies the screen to it  *)
(* and says so.  The answers are handled while the host waits for them;   *)
(* a request that was given up after a second stays outstanding.          *)
(***************************************************************************)
EXTENDS Integers, Sequences, FiniteSets, FiniteSetsExt, SequencesExt

CONSTANTS
  MaxCopies,  (* bound: frames asked for; a frame's buffer has its number *)
  ShotImages,  (* the images of the pool                                 *)
  Monitors,   (* sequences of monitor names in the order announced, ""   *)
              (* for none                                                *)
  FromView(_)   (* the number a name is read as                          *)

ASSUME ScreencopyAssumption ==
  MaxCopies \in Nat \ {0} /\ ShotImages # {} /\ <<>> \notin Monitors

VARIABLES
  selecting,  (* a behaviour is about the monitors, or about the frames  *)
  inMemory,   (* images are copied to memory (wlr_ram_t), else handed over *)
  monitors,   (* external: the monitors                                  *)
  wantedName,  (* [name, index]: what was chosen, and where it was       *)
  theOutput,  (* [name, index] of the monitor captured                   *)
  copies,     (* request -> "asked", "creating", "copying", "over"       *)
  copyStatus,  (* status: "ready", "waiting", "reinit"                   *)
  copyLoop,   (* "idle", "dispatch", "reinit"                            *)
  shots,      (* frames: <<[fd, stamp, fits], ...>>, fd 0: none          *)
  currentShot,  (* current_frame                                         *)
  bo, wlBuffer,  (* current_bo, current_wl_buffer, 0: none               *)
  memoryOpen,  (* [fd, bo, wl] -> the buffers not closed yet             *)
  copiedTo,   (* external: the buffers the screen was copied to          *)
  imageFd,    (* image -> the buffer in its sd, 0: none                  *)
  givenShot,  (* history: [buffer, stamp] of the last picture            *)
  overlap,    (* history: a frame was asked for with another outstanding *)
  everOverlap  (* history: ever since the display was opened             *)

screencopyVars ==
  <<selecting, inMemory, monitors, wantedName, theOutput, copies, copyStatus, copyLoop, shots,
    currentShot, bo, wlBuffer, memoryOpen, copiedTo, imageFd, givenShot, overlap, everOverlap>>
chosenVars == <<selecting, inMemory, monitors, wantedName, theOutput>>
shotVars == <<imageFd, givenShot, overlap, everOverlap>>

NoShot == [fd |-> 0, stamp |-> 0, fits |-> TRUE]
NothingOpen == [fd |-> {}, bo |-> {}, wl |-> {}]
Outstanding == {r \in DOMAIN copies : copies[r] # "over"}
NextShot == 3 - currentShot

-----------------------------------------------------------------------------
(* wl_display_names: a monitor without a name is listed by its number,    *)
(* here the empty name; init: it is found by its name, else by its number. *)
(* Variant: by the number first.                                          *)
MonitorNamed(ms, name) == SelectInSeq(ms, LAMBDA m : m = name)
MonitorNumbered(ms, n) == IF n \in 0 .. Len(ms) - 1 THEN n + 1 ELSE 1
MonitorForBug(ms, w) == IF w.index > 0 THEN MonitorNumbered(ms, w.index - 1) ELSE 1
MonitorFor(ms, w) ==
  IF w.name # "" /\ MonitorNamed(ms, w.name) > 0 THEN MonitorNamed(ms, w.name)
  ELSE MonitorNumbered(ms, IF w.name = "" THEN w.index - 1 ELSE FromView(w.name))

DisplayChosen(index) ==
  /\ copyLoop = "idle" /\ theOutput.index = 0
  /\ wantedName' = [name |-> monitors[index], index |-> index]
  /\ UNCHANGED <<selecting, inMemory, monitors, theOutput, copies, copyStatus, copyLoop,
                 shots, currentShot, bo, wlBuffer, memoryOpen, copiedTo, imageFd, givenShot,
                 overlap, everOverlap>>
(* External: monitors are plugged in or out; of one that is captured it   *)
(* shows when it is opened anew.                                          *)
Hotplug(ms) ==
  /\ selecting /\ theOutput.index = 0 /\ monitors # ms /\ monitors' = ms
  /\ UNCHANGED <<selecting, inMemory, wantedName, theOutput, copies, copyStatus, copyLoop,
                 shots, currentShot, bo, wlBuffer, memoryOpen, copiedTo, imageFd, givenShot,
                 overlap, everOverlap>>
OpenOutput ==
  /\ copyLoop = "idle" /\ theOutput.index = 0 /\ wantedName.index > 0
  /\ LET k == MonitorFor(monitors, wantedName)
     IN  theOutput' = [name |-> monitors[k], index |-> k]
  /\ UNCHANGED <<selecting, inMemory, monitors, wantedName, copies, copyStatus, copyLoop,
                 shots, currentShot, bo, wlBuffer, memoryOpen, copiedTo, imageFd, givenShot,
                 overlap, everOverlap>>

-----------------------------------------------------------------------------
(* dmabuf_t::listen, from snapshot(): a frame is asked for.               *)
AskForFrame(r) ==
  /\ copyLoop = "idle" /\ ~selecting /\ theOutput.index > 0 /\ Len(copies) = r - 1
  /\ copies' = Append(copies, "asked")
  /\ copyStatus' = "waiting" /\ copyLoop' = "dispatch"
  /\ givenShot' = [buffer |-> 0, stamp |-> 0] /\ overlap' = (Outstanding # {})
  /\ everOverlap' = (everOverlap \/ Outstanding # {})
  /\ UNCHANGED <<selecting, inMemory, monitors, wantedName, theOutput, shots, currentShot,
                 bo, wlBuffer, memoryOpen, copiedTo, imageFd>>

(* cleanup_gbm.                                                           *)
CleanedUp(open) == [open EXCEPT !.bo = @ \ {bo}, !.wl = @ \ {wlBuffer}]
(* frame_t::destroy.                                                      *)
ShotDestroyed(open, shot) == [open EXCEPT !.fd = @ \ {shot.fd}]
Over(r) == copies' = [copies EXCEPT ![r] = "over"]

(* buffer, linux_dmabuf and buffer_done: memory is allocated, unless the  *)
(* compositor takes none or something fails.                              *)
BufferDone(r, fits) ==
  /\ copyLoop = "dispatch" /\ r \in DOMAIN copies /\ copies[r] = "asked"
  /\ copies' = [copies EXCEPT ![r] = "creating"] /\ bo' = r
  /\ shots' = [shots EXCEPT ![NextShot].fd = r, ![NextShot].fits = fits]
  /\ memoryOpen' = [memoryOpen EXCEPT !.bo = @ \cup {r}, !.fd = @ \cup {r}]
  /\ UNCHANGED <<selecting, inMemory, monitors, wantedName, theOutput, copyStatus, copyLoop,
                 currentShot, wlBuffer, copiedTo, imageFd, givenShot, overlap, everOverlap>>
NoMemoryTaken(r) ==
  /\ copyLoop = "dispatch" /\ r \in DOMAIN copies /\ copies[r] = "asked" /\ Over(r)
  /\ copyStatus' = "reinit"
  /\ UNCHANGED <<selecting, inMemory, monitors, wantedName, theOutput, copyLoop, shots,
                 currentShot, bo, wlBuffer, memoryOpen, copiedTo, imageFd, givenShot,
                 overlap, everOverlap>>

(* buffer_params_created, buffer_params_failed.                           *)
BufferParamsCreated(r) ==
  /\ copyLoop = "dispatch" /\ r \in DOMAIN copies /\ copies[r] = "creating"
  /\ copies' = [copies EXCEPT ![r] = "copying"] /\ wlBuffer' = r
  /\ memoryOpen' = [memoryOpen EXCEPT !.wl = @ \cup {r}]
  /\ UNCHANGED <<selecting, inMemory, monitors, wantedName, theOutput, copyStatus, copyLoop,
                 shots, currentShot, bo, copiedTo, imageFd, givenShot, overlap,
                 everOverlap>>
BufferParamsFailed(r) ==
  /\ copyLoop = "dispatch" /\ r \in DOMAIN copies /\ copies[r] = "creating" /\ Over(r)
  /\ memoryOpen' = CleanedUp(memoryOpen) /\ bo' = 0 /\ wlBuffer' = 0
  /\ copyStatus' = "reinit"
  /\ UNCHANGED <<selecting, inMemory, monitors, wantedName, theOutput, copyLoop, shots,
                 currentShot, copiedTo, imageFd, givenShot, overlap, everOverlap>>

(* ready: the next frame becomes the current one.  Variants: the frame    *)
(* there was is not closed; the one that was current stays current.       *)
CurrentClosedBug(open) == open
CurrentClosed(open) == ShotDestroyed(open, shots[currentShot])
BecomesCurrentBug == currentShot
BecomesCurrent == NextShot
ReadyEvent(r) ==
  /\ copyLoop = "dispatch" /\ r \in DOMAIN copies /\ copies[r] = "copying" /\ Over(r)
  /\ copiedTo' = copiedTo \cup {r}
  /\ shots' = [shots EXCEPT ![currentShot].fd = 0, ![BecomesCurrent].stamp = r]
  /\ memoryOpen' = CleanedUp(CurrentClosed(memoryOpen))
  /\ currentShot' = BecomesCurrent /\ bo' = 0 /\ wlBuffer' = 0 /\ copyStatus' = "ready"
  /\ UNCHANGED <<selecting, inMemory, monitors, wantedName, theOutput, copyLoop, imageFd,
                 givenShot, overlap, everOverlap>>

(* failed.                                                                *)
FailedEvent(r) ==
  /\ copyLoop = "dispatch" /\ r \in DOMAIN copies /\ copies[r] \in {"asked", "copying"}
  /\ Over(r)
  /\ memoryOpen' = CleanedUp(ShotDestroyed(memoryOpen, shots[NextShot]))
  /\ shots' = [shots EXCEPT ![NextShot].fd = 0]
  /\ bo' = 0 /\ wlBuffer' = 0 /\ copyStatus' = "reinit"
  /\ UNCHANGED <<selecting, inMemory, monitors, wantedName, theOutput, copyLoop,
                 currentShot, copiedTo, imageFd, givenShot, overlap, everOverlap>>

-----------------------------------------------------------------------------
(* snapshot: nothing came within a second.                                *)
NoAnswer ==
  /\ copyLoop = "dispatch" /\ copyStatus = "waiting" /\ copyLoop' = "idle"
  /\ UNCHANGED <<selecting, inMemory, monitors, wantedName, theOutput, copies, copyStatus,
                 shots, currentShot, bo, wlBuffer, memoryOpen, copiedTo, imageFd, givenShot,
                 overlap, everOverlap>>

(* The display is opened anew: the frame failed, its size is another one, *)
(* or its memory cannot be imported.                                      *)
Unusable(importable) ==
  copyStatus = "reinit" \/ ~shots[currentShot].fits \/ (inMemory /\ ~importable)
MustReinit(importable) ==
  /\ copyLoop = "dispatch" /\ copyStatus # "waiting" /\ Unusable(importable)
  /\ copyLoop' = "reinit"
  /\ UNCHANGED <<selecting, inMemory, monitors, wantedName, theOutput, copies, copyStatus,
                 shots, currentShot, bo, wlBuffer, memoryOpen, copiedTo, imageFd, givenShot,
                 overlap, everOverlap>>

(* Of an image that is handed over the frame no longer owns the memory;   *)
(* what the image had before is closed.  Variant: both close it.          *)
HandedOverBug(shot) == shot
HandedOver(shot) == [shot EXCEPT !.fd = 0]
ImageReset(i) == {imageFd[i]}
GivePicture(i) ==
  LET shot == shots[currentShot]
  IN  /\ copyLoop = "dispatch" /\ copyStatus # "waiting" /\ ~Unusable(TRUE)
      /\ copyLoop' = "idle" /\ givenShot' = [buffer |-> shot.fd, stamp |-> shot.stamp]
      /\ \/ inMemory /\ UNCHANGED <<shots, imageFd, memoryOpen>>
         \/ /\ ~inMemory
            /\ memoryOpen' = [memoryOpen EXCEPT !.fd = @ \ ImageReset(i)]
            /\ imageFd' = [imageFd EXCEPT ![i] = shot.fd]
            /\ shots' = [shots EXCEPT ![currentShot] = HandedOver(shot)]
      /\ UNCHANGED <<chosenVars, copies, copyStatus, currentShot, bo, wlBuffer, copiedTo,
                     overlap, everOverlap>>

(* The display and its images are destroyed: ~dmabuf_t, ~img_descriptor_t; *)
(* the connection goes, and every request with it.                        *)
Reopen ==
  /\ copyLoop = "reinit" /\ copyLoop' = "idle" /\ theOutput' = [name |-> "", index |-> 0]
  /\ copies' = [r \in DOMAIN copies |-> "over"]
  /\ memoryOpen' =
       [CleanedUp(memoryOpen) EXCEPT
          !.fd = @ \ ({s.fd : s \in Range(shots)} \cup Range(imageFd))]
  /\ shots' = <<NoShot, NoShot>> /\ currentShot' = 1 /\ bo' = 0 /\ wlBuffer' = 0
  /\ copyStatus' = "ready" /\ imageFd' = [i \in ShotImages |-> 0]
  /\ givenShot' = [buffer |-> 0, stamp |-> 0] /\ overlap' = FALSE
  /\ UNCHANGED <<selecting, inMemory, monitors, wantedName, copiedTo, everOverlap>>

-----------------------------------------------------------------------------
ScreencopyInit ==
  /\ selecting \in BOOLEAN /\ inMemory \in BOOLEAN /\ (selecting => inMemory)
  /\ monitors \in (IF selecting THEN Monitors ELSE {CHOOSE ms \in Monitors : Len(ms) = 1})
  /\ wantedName = [name |-> "", index |-> 0] /\ theOutput = [name |-> "", index |-> 0]
  /\ copies = <<>> /\ copyStatus = "ready" /\ copyLoop = "idle"
  /\ shots = <<NoShot, NoShot>> /\ currentShot = 1 /\ bo = 0 /\ wlBuffer = 0
  /\ memoryOpen = NothingOpen /\ copiedTo = {} /\ imageFd = [i \in ShotImages |-> 0]
  /\ givenShot = [buffer |-> 0, stamp |-> 0] /\ overlap = FALSE /\ everOverlap = FALSE

ScreencopyNext ==
  \/ \E index \in DOMAIN monitors : DisplayChosen(index)
  \/ \E ms \in Monitors : Hotplug(ms)
  \/ OpenOutput
  \/ \E r \in 1 .. MaxCopies :
       \/ AskForFrame(r) \/ NoMemoryTaken(r) \/ \E fits \in BOOLEAN : BufferDone(r, fits)
       \/ BufferParamsCreated(r) \/ BufferParamsFailed(r) \/ ReadyEvent(r) \/ FailedEvent(r)
  \/ NoAnswer \/ \E importable \in BOOLEAN : MustReinit(importable)
  \/ \E i \in ShotImages : GivePicture(i)
  \/ Reopen

-----------------------------------------------------------------------------
(* The domains of the variables.                                          *)
ScreencopyTypeOK ==
  /\ Range(copies) \subseteq {"asked", "creating", "copying", "over"}
  /\ copyStatus \in {"ready", "waiting", "reinit"}
  /\ copyLoop \in {"idle", "dispatch", "reinit"}
  /\ currentShot \in {1, 2} /\ {bo, wlBuffer} \subseteq 0 .. MaxCopies

(* A picture is what the compositor copied for the request it is stamped  *)
(* with, unless a request that was given up was answered meanwhile.       *)
PictureIsCopied ==
  givenShot.stamp # 0 /\ ~overlap =>
    givenShot.buffer \in copiedTo /\ givenShot.buffer = givenShot.stamp

(* Every buffer that is open belongs to a frame or an image, each to one, *)
(* unless a request was given up: then its buffer's owner was forgotten.  *)
NoBufferLost ==
  everOverlap \/
    /\ memoryOpen.fd = ({s.fd : s \in Range(shots)} \cup Range(imageFd)) \ {0}
    /\ memoryOpen.bo = {bo} \ {0} /\ memoryOpen.wl = {wlBuffer} \ {0}
    /\ Cardinality(memoryOpen.fd) =
         Cardinality({k \in {1, 2} : shots[k].fd # 0})
           + Cardinality({i \in ShotImages : imageFd[i] # 0})

(* The monitor captured is the one that was chosen: the one of that name  *)
(* while there is one, whatever was plugged in; without a name, the one   *)
(* at its place.                                                          *)
MonitorChosen ==
  theOutput.index > 0 =>
    /\ wantedName.name \in Range(monitors) \ {""} /\ theOutput.name \in Range(monitors)
         => theOutput.name = wantedName.name
    /\ wantedName.name = "" => theOutput.index \in {wantedName.index, 1}
=============================================================================
