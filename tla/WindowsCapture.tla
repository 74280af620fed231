----------------------------- MODULE WindowsCapture -----------------------------
(***************************************************************************)
(* The capture thread of the Windows host: display_base_t::capture() and  *)
(* its pacing, the two ways it gets a frame, Desktop Duplication ("ddx")  *)
(* and Windows.Graphics.Capture ("wgc"), and the pictures in system       *)
(* memory (display_base.cpp, display_wgc.cpp, display_ram.cpp).  Time is  *)
(* counted in ticks; it passes where the thread can be told to be late.   *)
(***************************************************************************)
EXTENDS Integers, Sequences, FiniteSets, FiniteSetsExt

CONSTANTS
  Second,     (* ticks in a second                                       *)
  Timeout,    (* ticks of the long wait for a frame (200 ms)             *)
  ClientRate,  (* the frame rate the client asked for                    *)
  ExactRate,  (* the exact rate it asked for, [num, den], num = 0: none *)
  Refreshes,  (* refresh rates of the display: [num, den]                *)
  Pool,       (* the buffers of the frame pool of wgc                    *)
  MaxTime,    (* bound: ticks                                            *)
  CursorWidths,  (* widths of a cursor, in pixels                        *)
  ImageWidth,  (* width of an image, in pixels                           *)
  ByteBits    (* pixels in a byte of a monochrome cursor                 *)

ASSUME WindowsCaptureAssumption ==
  /\ {Second, Timeout, ClientRate, ImageWidth, ByteBits} \subseteq Nat \ {0}
  /\ {ExactRate.num, ExactRate.den} \subseteq Nat
  /\ \A r \in Refreshes : {r.num, r.den} \subseteq Nat \ {0}

VARIABLES
  clock, refresh, (* the time; the refresh rate                            *)
  lately,     (* external: what changed since the last frame was         *)
                  (* takenAt, [any, desk, mouse, at]                         *)
  api,        (* "ddx", "wgc", "none"                                    *)
  loop,       (* the capture thread: "check", "sleep", "wait",           *)
                  (* "frame", "push", "reinit", "stopped"                  *)
  deadline,   (* when the wait ends                                      *)
  group,      (* frame_pacing_group: [start, frames]                     *)
  has_frame,  (* a frame of the duplication is held                      *)
  acquired,   (* ddx: the frame takenAt, [desk, at, new]                 *)
  staging,    (* the desktop on the staging texture                      *)
  cursorKnown,  (* the cursor the host knows of                          *)
  content,    (* buffer of the pool -> what it shows                     *)
  unclosed,   (* the buffers of frames that were not closed              *)
  arrivedFrames,  (* buffers whose arrival was not looked at yet         *)
  produced_frame, consumed_frame,
  img_out,    (* there is a picture to be sent                           *)
  lastPicture,  (* the last picture takenAt                              *)
  seen,       (* history: the screen when its frame was takenAt          *)
  takenAt     (* history: when the last three frames were takenAt        *)

wcVars == <<clock, refresh, lately, api, loop, deadline, group, has_frame, acquired, staging,
            cursorKnown, content, unclosed, arrivedFrames, produced_frame, consumed_frame,
            img_out, lastPicture, seen, takenAt>>

(* What is shown of the desktop and of the cursor: nothing, an older one, *)
(* or the one the screen shows.                                           *)
NotAFrame == "no frame"
NothingShown == [desk |-> "none", mouse |-> "none"]
Screen == [desk |-> "now", mouse |-> "now"]
NothingNew == [any |-> FALSE, desk |-> FALSE, mouse |-> FALSE, at |-> 0]
NoGroup == [start |-> 0, frames |-> 0]
NotAcquired == [desk |-> "none", at |-> 0, new |-> FALSE]
Faded(v) == IF v = "now" THEN "old" ELSE v
FadedDesk(p) == [p EXCEPT !.desk = Faded(@)]
FadedMouse(p) == [p EXCEPT !.mouse = Faded(@)]

-----------------------------------------------------------------------------
(* adjust_client_frame_rate: a refresh rate that is a little lower than   *)
(* the rate asked for is followed.                                        *)
Rounded(r) == (2 * r.num + r.den) \div (2 * r.den)
Candidate(r) ==
  CASE ClientRate % Rounded(r) = 0 -> [r EXCEPT !.num = @ * (ClientRate \div Rounded(r))]
    [] Rounded(r) % ClientRate = 0 -> [r EXCEPT !.den = @ * (Rounded(r) \div ClientRate)]
    [] OTHER -> r
ClientRateAdjusted(r) ==
  IF ExactRate.num > 0 THEN ExactRate ELSE
  IF /\ r.den > 1 /\ ClientRate * Candidate(r).den > Candidate(r).num
     /\ 100 * Candidate(r).num > 99 * ClientRate * Candidate(r).den
  THEN Candidate(r) ELSE [num |-> ClientRate, den |-> 1]

(* Variants: the next frame is due one frame too early; a frame of wgc    *)
(* stays produced; the cursor alone is no update; the frame that came first *)
(* is kept.                                                               *)
SleepTargetBug(g) ==
  LET r == ClientRateAdjusted(refresh)
  IN  g.start + (Second * (g.frames - 1) * r.den) \div r.num
AfterTakeBug(b) == b
UpdateBug(l) == l.desk
ReplacedBug(old, b) == IF old = NotAFrame THEN b ELSE old

(* When the next frame of the group is due.                               *)
SleepTarget(g) ==
  LET r == ClientRateAdjusted(refresh)
      ticks == g.frames * r.den
  IN  g.start + Second * (ticks \div r.num) + (Second * (ticks % r.num)) \div r.num

-----------------------------------------------------------------------------
WindowsCaptureInit ==
  /\ clock = 1 /\ refresh \in Refreshes /\ lately = NothingNew
  /\ api = "none" /\ loop = "reinit" /\ deadline = 0 /\ group = NoGroup
  /\ has_frame = FALSE /\ acquired = NotAcquired /\ staging = "none" /\ cursorKnown = "none"
  /\ content = [b \in Pool |-> NothingShown] /\ unclosed = {} /\ arrivedFrames = <<>>
  /\ produced_frame = NotAFrame /\ consumed_frame = NotAFrame
  /\ img_out = FALSE /\ lastPicture = NothingShown /\ seen = NothingShown /\ takenAt = <<>>

(* display(): Desktop Duplication if it can be had, else wgc.  The first  *)
(* frame shows everything there is, but that of the duplication may tell  *)
(* of the cursor alone.                                                   *)
Open(how, whole) ==
  /\ loop = "reinit" /\ loop' = "check" /\ api' = how
  /\ whole \/ how = "ddx"
  /\ lately' = [any |-> TRUE, desk |-> whole, mouse |-> TRUE, at |-> clock]
  /\ group' = NoGroup /\ has_frame' = FALSE /\ staging' = "none" /\ cursorKnown' = "none"
  /\ content' = [b \in Pool |-> NothingShown] /\ unclosed' = {} /\ arrivedFrames' = <<>>
  /\ produced_frame' = NotAFrame /\ consumed_frame' = NotAFrame
  /\ img_out' = FALSE /\ lastPicture' = NothingShown /\ seen' = NothingShown /\ takenAt' = <<>>
  /\ UNCHANGED <<clock, refresh, deadline, acquired>>

Tick ==
  /\ clock < MaxTime /\ clock' = clock + 1
  /\ loop \in {"check", "sleep", "wait", "frame"}
  /\ UNCHANGED <<refresh, lately, api, loop, deadline, group, has_frame, acquired, staging,
                 cursorKnown, content, unclosed, arrivedFrames, produced_frame,
                 consumed_frame, img_out, lastPicture, seen, takenAt>>

(* The desktop or the cursor changes, or nothing that shows; the shape of *)
(* the cursor changes without a time.                                     *)
DesktopChanges ==
  /\ api # "none" /\ loop \notin {"reinit", "stopped"}
  /\ lately' = [any |-> TRUE, desk |-> TRUE, mouse |-> lately.mouse, at |-> clock]
  /\ acquired' = [acquired EXCEPT !.desk = Faded(@)] /\ staging' = Faded(staging)
  /\ content' = [b \in Pool |-> FadedDesk(content[b])]
  /\ lastPicture' = FadedDesk(lastPicture) /\ seen' = FadedDesk(seen)
  /\ UNCHANGED <<clock, refresh, api, loop, deadline, group, has_frame, cursorKnown,
                 unclosed, arrivedFrames, produced_frame, consumed_frame, img_out, takenAt>>

CursorChanges(timed) ==
  /\ api # "none" /\ loop \notin {"reinit", "stopped"}
  /\ timed \/ lately = NothingNew
  /\ lately' = [any |-> TRUE, desk |-> lately.desk, mouse |-> TRUE,
                at |-> IF timed THEN clock ELSE lately.at]
  /\ cursorKnown' = Faded(cursorKnown) /\ content' = [b \in Pool |-> FadedMouse(content[b])]
  /\ lastPicture' = FadedMouse(lastPicture) /\ seen' = FadedMouse(seen)
  /\ UNCHANGED <<clock, refresh, api, loop, deadline, group, has_frame, acquired, staging,
                 unclosed, arrivedFrames, produced_frame, consumed_frame, img_out, takenAt>>

NothingChanges ==
  /\ api = "ddx" /\ loop \notin {"reinit", "stopped"}
  /\ lately' = [lately EXCEPT !.any = TRUE] /\ lately' # lately
  /\ UNCHANGED <<clock, refresh, api, loop, deadline, group, has_frame, acquired, staging,
                 cursorKnown, content, unclosed, arrivedFrames, produced_frame,
                 consumed_frame, img_out, lastPicture, seen, takenAt>>

(* wgc: a free buffer of the pool is unclosed on; on_frame_arrived() hands *)
(* it to the capture thread and closes the one it did not come for.       *)
Compose(b) ==
  /\ api = "wgc" /\ loop # "reinit" /\ (lately.desk \/ lately.mouse) /\ b \notin unclosed
  /\ unclosed' = unclosed \cup {b}
  /\ content' = [content EXCEPT ![b] = Screen]
  /\ arrivedFrames' = Append(arrivedFrames, b) /\ lately' = NothingNew
  /\ UNCHANGED <<clock, refresh, api, loop, deadline, group, has_frame, acquired, staging,
                 cursorKnown, produced_frame, consumed_frame, img_out, lastPicture, seen,
                 takenAt>>

Replaced(old, b) == b
OnFrameArrived ==
  /\ arrivedFrames # <<>> /\ loop # "reinit"
  /\ produced_frame' = Replaced(produced_frame, Head(arrivedFrames))
  /\ unclosed' = unclosed \ {produced_frame}
  /\ arrivedFrames' = Tail(arrivedFrames)
  /\ UNCHANGED <<clock, refresh, lately, api, loop, deadline, group, has_frame, acquired,
                 staging, cursorKnown, content, consumed_frame, img_out, lastPicture, seen,
                 takenAt>>

-----------------------------------------------------------------------------
(* The head of the loop of capture(): a change of the displays ends it; a *)
(* group whose next frame is late is given up.                            *)
Check ==
  /\ loop = "check"
  /\ \/ loop' = "reinit" /\ UNCHANGED <<group, deadline>>
     \/ /\ group.frames > 0 /\ SleepTarget(group) > clock
        /\ loop' = "sleep" /\ UNCHANGED <<group, deadline>>
     \/ /\ group.frames = 0 \/ SleepTarget(group) <= clock
        /\ loop' = "wait" /\ group' = NoGroup /\ deadline' = clock + Timeout
  /\ UNCHANGED <<clock, refresh, lately, api, has_frame, acquired, staging, cursorKnown,
                 content, unclosed, arrivedFrames, produced_frame, consumed_frame, img_out,
                 lastPicture, seen, takenAt>>

Snapshots == loop = "wait" \/ (loop = "sleep" /\ clock >= SleepTarget(group))

(* snapshot() has nothing: after the short wait the long one follows,     *)
(* after the long one the encoder is told that there is nothing.          *)
NoPicture ==
  IF loop = "wait" THEN loop' = "push" /\ deadline' = 0 /\ UNCHANGED group
  ELSE loop' = "wait" /\ deadline' = clock + Timeout /\ group' = NoGroup
Took(s) == IF Len(s) = 3 THEN Append(Tail(s), clock) ELSE Append(s, clock)

(* duplication_t::next_frame(): the frame held is given back, or the next *)
(* one cannot be had.  What is new: the desktop, the cursor, or neither.  *)
Update(l) == l.desk \/ l.mouse
NextFrame ==
  /\ api = "ddx" /\ Snapshots /\ lately.any
  /\ has_frame' = TRUE /\ lately' = NothingNew
  /\ cursorKnown' = IF Update(lately) /\ lately.mouse THEN "now" ELSE cursorKnown
  /\ IF Update(lately)
     THEN /\ loop' = "frame" /\ deadline' = 0 /\ takenAt' = Took(takenAt)
          /\ acquired' = [desk |-> "now", at |-> lately.at, new |-> lately.desk]
          /\ seen' = IF lately.desk \/ staging # "none" THEN Screen
                     ELSE [Screen EXCEPT !.desk = "none"]
          /\ UNCHANGED group
     ELSE NoPicture /\ UNCHANGED <<acquired, seen, takenAt>>
  /\ UNCHANGED <<clock, refresh, api, staging, content, unclosed, arrivedFrames,
                 produced_frame, consumed_frame, img_out, lastPicture>>

(* The duplication is lost while a frame is waited for or given back.     *)
AccessLost ==
  /\ api = "ddx" /\ Snapshots /\ loop' = "reinit" /\ deadline' = 0
  /\ UNCHANGED <<clock, refresh, lately, api, group, has_frame, acquired, staging,
                 cursorKnown, content, unclosed, arrivedFrames, produced_frame,
                 consumed_frame, img_out, lastPicture, seen, takenAt>>

(* wgc_capture_t::next_frame().                                           *)
AfterTake(b) == NotAFrame
TakeProduced ==
  /\ api = "wgc" /\ Snapshots /\ produced_frame # NotAFrame
  /\ unclosed' = unclosed \ {consumed_frame}
  /\ consumed_frame' = produced_frame /\ produced_frame' = AfterTake(produced_frame)
  /\ loop' = "frame" /\ deadline' = 0 /\ takenAt' = Took(takenAt)
  /\ seen' = content[produced_frame]
  /\ UNCHANGED <<clock, refresh, lately, api, group, has_frame, acquired, staging,
                 cursorKnown, content, arrivedFrames, img_out, lastPicture>>

(* Nothing came in time, or the thread was woken without a cause (wgc).   *)
TimedOut ==
  /\ Snapshots /\ ~(api = "ddx" /\ lately.any) /\ produced_frame = NotAFrame
  /\ loop = "wait" => clock >= deadline \/ api = "wgc"
  /\ has_frame' = FALSE /\ consumed_frame' = NotAFrame
  /\ unclosed' = unclosed \ {consumed_frame} /\ NoPicture
  /\ UNCHANGED <<clock, refresh, lately, api, acquired, staging, cursorKnown, content,
                 arrivedFrames, produced_frame, img_out, lastPicture, seen, takenAt>>

(* The rest of snapshot(): a new desktop is copied to the staging texture, *)
(* the picture made of it, and the cursor unclosed.  There may be no image, *)
(* or the desktop has got another size or format.                         *)
Staged ==
  CASE api = "wgc" -> content[consumed_frame].desk
    [] api = "ddx" /\ acquired.new -> acquired.desk
    [] api = "ddx" /\ ~acquired.new -> staging
Pointer == IF api = "wgc" THEN content[consumed_frame].mouse ELSE cursorKnown
GroupStart == IF api = "wgc" \/ acquired.at = 0 THEN clock ELSE acquired.at
Copy ==
  /\ loop = "frame" /\ staging' = Staged /\ acquired' = NotAcquired
  /\ \/ /\ loop' = "push" /\ img_out' = TRUE
        /\ lastPicture' = [desk |-> Staged, mouse |-> Pointer]
        /\ group' = [start |-> IF group.frames > 0 THEN group.start ELSE GroupStart,
                     frames |-> group.frames + 1]
     \/ loop' \in {"stopped", "reinit"} /\ UNCHANGED <<img_out, lastPicture, group>>
  /\ UNCHANGED <<clock, refresh, lately, api, deadline, has_frame, cursorKnown, content,
                 unclosed, arrivedFrames, produced_frame, consumed_frame, seen, takenAt>>

(* push_captured_image_cb(), which may end the capture, and               *)
(* release_snapshot(), which may find the duplication lost.               *)
SendPicture ==
  /\ loop = "push" /\ img_out' = FALSE
  /\ \/ loop' = "stopped" /\ UNCHANGED <<has_frame, unclosed, consumed_frame>>
     \/ /\ loop' = "check" /\ has_frame' = FALSE /\ consumed_frame' = NotAFrame
        /\ unclosed' = unclosed \ {consumed_frame}
     \/ /\ has_frame /\ loop' = "reinit" /\ has_frame' = FALSE
        /\ UNCHANGED <<unclosed, consumed_frame>>
  /\ UNCHANGED <<clock, refresh, lately, api, deadline, group, acquired, staging,
                 cursorKnown, content, arrivedFrames, produced_frame, lastPicture, seen,
                 takenAt>>

WindowsCaptureNext ==
  \/ \E how \in {"ddx", "wgc"}, whole \in BOOLEAN : Open(how, whole)
  \/ Tick \/ DesktopChanges \/ NothingChanges \/ \E timed \in BOOLEAN : CursorChanges(timed)
  \/ \E b \in Pool : Compose(b)
  \/ OnFrameArrived \/ Check \/ NextFrame \/ AccessLost \/ TakeProduced
  \/ TimedOut \/ Copy \/ SendPicture

-----------------------------------------------------------------------------
(* blend_cursor_color(), blend_cursor_monochrome(): the columns of a      *)
(* cursor of width w at column x that are unclosed, and where.            *)
(* Variant: the cursor is not cut off at the right.                       *)
Skipped(x) == Max({0, -x})
Cut(x) == Max({0, x - ImageWidth})
DeltaBug(x, w) == w - Skipped(x)
Delta(x, w) == Min({w - Skipped(x) - 2 * Cut(x), Max({0, ImageWidth - Max({0, x})})})
ColorColumns(x, w) == {<<Skipped(x) + i, Max({0, x}) + i>> : i \in 0 .. Delta(x, w) - 1}
MonochromeColumns(x, w) ==
  {<<b, Max({0, x}) + b - Skipped(x)>> :
     b \in Skipped(x) .. ByteBits * (Delta(x, w) \div ByteBits) - 1}

-----------------------------------------------------------------------------
(* The domains of the variables.                                          *)
WindowsCaptureTypeOK ==
  /\ loop \in {"check", "sleep", "wait", "frame", "push", "reinit", "stopped"}
  /\ api \in {"ddx", "wgc", "none"} /\ {has_frame, img_out} \subseteq BOOLEAN
  /\ {produced_frame, consumed_frame} \subseteq Pool \cup {NotAFrame}
  /\ group.frames = 0 => group = NoGroup

(* The client gets no more pictures than it asked for: three frames are   *)
(* never takenAt within the time of one, even when the host falls behind and *)
(* starts counting anew.                                                  *)
PacedForClient == Len(takenAt) = 3 => takenAt[3] - takenAt[1] >= Second \div ClientRate

(* A picture shows the desktop and the cursor as they were when its frame *)
(* was takenAt: a buffer is not unclosed on meanwhile, and what did not change *)
(* is shown as it last was.                                               *)
PictureOfItsFrame == img_out => lastPicture = seen

(* When nothing is left to be takenAt, the last picture shows the screen. *)
NothingWithheld ==
  /\ loop = "wait" /\ arrivedFrames = <<>> /\ produced_frame = NotAFrame
  /\ ~lately.desk /\ ~lately.mouse /\ staging # "none"
  => lastPicture = Screen

(* A cursor that can be seen is unclosed where it is, within the image; one *)
(* in colours with every column of it that is within.                     *)
CursorWithin ==
  img_out /\ api = "ddx" /\ lastPicture.mouse # "none" =>
  \A w \in CursorWidths : \A x \in 1 - w .. ImageWidth - 1 :
    LET due == {<<i, x + i>> : i \in {i \in 0 .. w - 1 : x + i \in 0 .. ImageWidth - 1}}
    IN  ColorColumns(x, w) = due /\ MonochromeColumns(x, w) \subseteq due
=============================================================================
