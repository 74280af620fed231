------------------------------ MODULE PipewireStream ------------------------------
(***************************************************************************)
(* The pictures of the desktop from PipeWire (platform/linux/pipewire.cpp): *)
(* callbacks of the stream run on the thread of PipeWire's loop, with the *)
(* loop locked; capture() runs on the capture thread and locks the loop to *)
(* fill an image.  A picture stays in PipeWire's buffer (DMA-BUF), or is  *)
(* copied into the one of two vectors that is at the back (memory).       *)
(*                                                                        *)
(* External: the compositor, which draws into the buffers it has, begins, *)
(* pauses and ends the streamState, and the session of the portal.  A picture *)
(* is its number.  Left out: sizes, colours, and what a format allows.    *)
(***************************************************************************)
EXTENDS Naturals, Sequences, FiniteSets, SequencesExt

CONSTANTS
  Buffers,    (* the buffers of the stream                               *)
  MaxPictures  (* bound: pictures the compositor draws                   *)
ASSUME PicturesAssumption == MaxPictures \in Nat

VARIABLES
  memory,     (* external: the stream has memory, not DMA-BUF, buffers   *)
  streamState,  (* external: its state                                   *)
  drawn,      (* external: the picture in each buffer; 0 is no data      *)
  with,       (* who has each buffer: the compositor, the queue, the host, *)
              (*   or nobody, because it was freed                         *)
  arrived,    (* the buffers to be dequeued                              *)
  pictures,   (* external: pictures so far                               *)
  current,    (* current_buffer                                          *)
  front,      (* front_buffer                                            *)
  copied,     (* the picture in buffer_a and buffer_b                    *)
  ready,      (* frame_ready                                             *)
  dead,       (* stream_dead                                             *)
  at,         (* where the capture thread is                             *)
  pointed,    (* the vectors images of the pool still point to           *)
  shown,      (* a picture an encoder uses: [in, picture, newer], or none *)
  lastSent,   (* history: the picture sent last                          *)
  spare,      (* history: buffers forgotten at a change of parameters    *)
  emptied,    (* history: a buffer of memory was delivered without data  *)
  harm        (* history: what happened that must not                    *)

pwVars == <<memory, streamState, drawn, with, arrived, pictures, current, front, copied, ready, dead,
            at, pointed, shown, lastSent, spare, emptied, harm>>
compositor == <<memory, drawn, pictures>>
captureSide == <<at, pointed, shown, lastSent>>

streamSide == <<compositor, streamState, with, arrived, current, front, copied, ready, dead, spare,
                emptied, harm>>

NoBuffer == "no buffer"
NotShown == [in |-> NoBuffer, picture |-> 0, newer |-> 0]
Vectors == {"buffer_a", "buffer_b"}
Back == CHOOSE v \in Vectors : v # front

(* Of the dequeued buffers, those bs go back to the compositor:           *)
(* pw_stream_queue_buffer().                                              *)
Queued(bs) ==
  [b \in Buffers |-> CASE b \in bs -> "compositor"
                     [] b \notin bs /\ b \in ToSet(arrived) -> "host"
                     [] OTHER -> with[b]]
QueuedTwice(bs) == IF \E b \in bs : with[b] = "compositor" THEN {"queued twice"} ELSE {}

-----------------------------------------------------------------------------
(* External: the compositor draws a picture, or tells something without   *)
(* one.                                                                   *)
Draw(b) ==
  /\ streamState = "streaming" /\ with[b] = "compositor" /\ pictures < MaxPictures
  /\ \E data \in {0, pictures + 1} : drawn' = [drawn EXCEPT ![b] = data]
  /\ pictures' = pictures + 1
  /\ emptied' = (emptied \/ (memory /\ drawn'[b] = 0))
  /\ with' = [with EXCEPT ![b] = "queue"] /\ arrived' = Append(arrived, b)
  /\ UNCHANGED <<memory, streamState, current, front, copied, ready, dead, captureSide, spare, harm>>

(* on_process(): all but the latest buffer are returned; that one becomes *)
(* the current one, and takes the place of the one before, or its picture *)
(* is copied.                                                             *)
Before == {current} \ {NoBuffer}
(* Variant: older buffers are dropped.                                    *)
OlderBug == {}
Older == ToSet(Front(arrived))

KeepBuffer ==
  /\ memory = FALSE
  /\ with' = Queued(Older \cup Before)
  /\ harm' = harm \cup QueuedTwice(Before)
  /\ UNCHANGED <<front, copied>>

(* A copy goes where no picture is taken from.                            *)
CopyTarget == Back

CopyBuffer(b) ==
  /\ memory = TRUE
  /\ copied' = IF drawn[b] = 0 THEN copied ELSE [copied EXCEPT ![CopyTarget] = drawn[b]]
  /\ front' = CopyTarget
  /\ with' = Queued(Older \cup {b})
  /\ UNCHANGED harm

Process ==
  /\ arrived # <<>>
  /\ LET b == Last(arrived) IN (KeepBuffer \/ CopyBuffer(b)) /\ current' = b
  /\ arrived' = <<>> /\ ready' = TRUE
  /\ shown' = IF shown = NotShown THEN shown
              ELSE [shown EXCEPT !.newer = IF @ < 2 THEN @ + 1 ELSE 2]
  /\ UNCHANGED <<compositor, streamState, dead, at, pointed, lastSent, spare, emptied>>

(* on_param_changed(): whatever the parameter.  With a format the buffers *)
(* are new ones.                                                          *)
CurrentAfterChange == NoBuffer

FormatChanged ==
  /\ streamState \in {"paused", "streaming"}
  /\ current' = CurrentAfterChange
  /\ with' = [b \in Buffers |-> IF b = current' THEN "nobody" ELSE "compositor"]
  /\ arrived' = <<>> /\ spare' = {}
  /\ shown' = IF memory THEN shown ELSE NotShown
  /\ UNCHANGED <<compositor, streamState, front, copied, ready, dead, at, pointed, lastSent, emptied,
                 harm>>

OtherParameterChanged ==
  /\ streamState \in {"paused", "streaming"} /\ current # NoBuffer
  /\ current' = CurrentAfterChange
  /\ spare' = IF memory THEN spare ELSE spare \cup {current}
  /\ UNCHANGED <<compositor, streamState, with, arrived, front, copied, ready, dead, captureSide,
                 emptied, harm>>

(* on_stream_state_changed().                                             *)
StreamStarts ==
  /\ streamState = "paused" /\ streamState' = "streaming"
  /\ UNCHANGED <<compositor, with, arrived, current, front, copied, ready, dead, captureSide,
                 spare, emptied, harm>>

StreamPauses ==
  /\ streamState = "streaming" /\ streamState' = "paused"
  /\ ready' = FALSE /\ current' = NoBuffer /\ dead' = TRUE
  /\ spare' = IF memory \/ current = NoBuffer THEN spare ELSE spare \cup {current}
  /\ UNCHANGED <<compositor, with, arrived, front, copied, captureSide, emptied, harm>>

(* PW_STREAM_STATE_ERROR, PW_STREAM_STATE_UNCONNECTED: PipeWire frees the *)
(* buffers; current_buffer stays.                                         *)
StreamEnds ==
  /\ streamState \in {"paused", "streaming"} /\ streamState' = "ended"
  /\ dead' = TRUE
  /\ with' = [b \in Buffers |-> "nobody"] /\ arrived' = <<>>
  /\ UNCHANGED <<compositor, current, front, copied, ready, captureSide, spare, emptied, harm>>

-----------------------------------------------------------------------------
(* The capture thread.  init(): if the core is not reached the loop stays *)
(* locked, and the destructor waits for it for ever.                      *)
ReachCore ==
  /\ at = "init" /\ at' \in {"core", "locked"}
  /\ UNCHANGED <<streamSide, pointed, shown, lastSent>>

(* ensure_stream(): once; capture() finds it.                             *)
EnsureStream ==
  /\ at = "core" /\ at' = "negotiate"
  /\ streamState = "none" /\ streamState' = "paused"
  /\ UNCHANGED <<compositor, with, arrived, current, front, copied, ready, dead, pointed,
                 shown, lastSent, spare, emptied, harm>>

(* A format is waited for, but not for long.                              *)
AwaitFormat ==
  /\ at = "negotiate" /\ at' = "top"
  /\ UNCHANGED <<streamSide, pointed, shown, lastSent>>

(* The top of the loop of capture(): dead.exchange(false).                *)
CheckDead ==
  /\ at = "top"
  /\ at' = IF dead THEN "out" ELSE "wait"
  /\ dead' = FALSE
  /\ UNCHANGED <<compositor, streamState, with, arrived, current, front, copied, ready, pointed,
                 shown, lastSent, spare, emptied, harm>>

(* wait_for_frame(): a second at most.                                    *)
WaitForFrame ==
  /\ at = "wait"
  /\ \/ (ready \/ dead) /\ at' = "fill" /\ ready' = FALSE
     \/ at' = "top" /\ UNCHANGED ready
  /\ UNCHANGED <<compositor, streamState, with, arrived, current, front, copied, dead, pointed, shown,
                 lastSent, spare, emptied, harm>>

(* fill_img() and the end of snapshot().                                  *)
(* Variant: whether the stream is dead is not looked at.                  *)
FillableBug == current # NoBuffer
Fillable == ~dead /\ current # NoBuffer

(* The size of the data in a buffer of memory is read although the buffer *)
(* was returned.  Without data the image that was pulled points where it  *)
(* did, or nowhere.                                                       *)
Sources ==
  CASE ~Fillable -> {}
    [] Fillable /\ drawn[current] = 0 -> pointed
    [] Fillable /\ drawn[current] # 0 -> IF memory THEN {front} ELSE {current}
PictureIn(s) == IF memory THEN copied[s] ELSE drawn[s]

Push(s) ==
  /\ pointed' = IF memory THEN pointed \cup {s} ELSE pointed
  /\ lastSent' = PictureIn(s)
  /\ shown' \in {shown, [in |-> s, picture |-> PictureIn(s), newer |-> 0]}
  /\ at' = "top"

ReadsFreed == IF Fillable /\ with[current] = "nobody" THEN {"freed"} ELSE {}
SentBack(s) == IF PictureIn(s) < lastSent THEN {"back"} ELSE {}

(* Nothing that could be sent, or a picture marked as corrupted: once more. *)
NothingSent == at' = "wait" /\ harm' = harm \cup ReadsFreed /\ UNCHANGED <<pointed, shown, lastSent>>

FillImage ==
  /\ at = "fill"
  /\ \/ \E s \in Sources : Push(s) /\ harm' = harm \cup ReadsFreed \cup SentBack(s)
     \/ NothingSent
     \/ at' = "out" /\ UNCHANGED <<pointed, shown, lastSent, harm>>   (* interrupted *)
  /\ UNCHANGED <<compositor, streamState, with, arrived, current, front, copied, ready, dead, spare,
                 emptied>>

(* ~pipewire_t(), once the encoders have given the display up.            *)
DestroyStream ==
  /\ at = "out" /\ at' = "gone" /\ shown = NotShown
  /\ streamState' = "ended" /\ ready' = FALSE /\ current' = NoBuffer
  /\ with' = [b \in Buffers |-> "nobody"] /\ arrived' = <<>>
  /\ UNCHANGED <<compositor, front, copied, dead, pointed, shown, lastSent, spare, emptied,
                 harm>>

(* External: the encoder has converted the picture.                       *)
Converted ==
  /\ shown # NotShown /\ shown' = NotShown
  /\ UNCHANGED <<compositor, streamState, with, arrived, current, front, copied, ready, dead, at,
                 pointed, lastSent, spare, emptied, harm>>

PipewireInit ==
  /\ memory \in BOOLEAN /\ streamState = "none"
  /\ drawn = [b \in Buffers |-> 0] /\ with = [b \in Buffers |-> "compositor"]
  /\ arrived = <<>> /\ pictures = 0 /\ current = NoBuffer /\ front = "buffer_a"
  /\ copied = [v \in Vectors |-> 0]
  /\ ready = FALSE /\ dead = FALSE /\ at = "init"
  /\ pointed = {} /\ shown = NotShown /\ lastSent = 0 /\ spare = {} /\ emptied = FALSE
  /\ harm = {}

PipewireNext ==
  \/ \E b \in Buffers : Draw(b)
  \/ Process \/ FormatChanged \/ OtherParameterChanged
  \/ StreamStarts \/ StreamPauses \/ StreamEnds
  \/ ReachCore \/ EnsureStream \/ AwaitFormat
  \/ CheckDead \/ WaitForFrame \/ FillImage \/ Converted \/ DestroyStream

-----------------------------------------------------------------------------
PipewireTypeOK ==
  /\ {memory, ready, dead, emptied} \subseteq BOOLEAN
  /\ streamState \in {"none", "paused", "streaming", "ended"}
  /\ drawn \in [Buffers -> 0..MaxPictures] /\ pictures \in 0..MaxPictures
  /\ with \in [Buffers -> {"compositor", "queue", "host", "nobody"}]
  /\ current \in Buffers \cup {NoBuffer} /\ front \in Vectors
  /\ copied \in [Vectors -> 0..MaxPictures] /\ pointed \subseteq Vectors
  /\ at \in {"init", "locked", "core", "negotiate", "top", "wait", "fill", "out", "gone"}
  /\ harm \subseteq {"queued twice", "freed", "back"}

(* A picture an encoder uses stays as it was until the next one has come, *)
(* and in memory until the second next one: the vectors take turns, but   *)
(* where an image without data points to the one at the back.             *)
StreamPicturesKept ==
  shown # NotShown /\ ~emptied /\ shown.newer <= (IF memory THEN 1 ELSE 0) =>
    PictureIn(shown.in) = shown.picture

(* No buffer is queued twice, or used after PipeWire has freed it; no     *)
(* picture is sent after a later one, but where an image without data     *)
(* stands for the picture it had before.                                  *)
StreamInOrder == harm \subseteq (IF emptied THEN {"back"} ELSE {})

(* Buffers are given back, but for the one that was current at a change of *)
(* parameters.                                                            *)
BuffersReturned ==
  \A b \in Buffers : with[b] = "host" => b = current \/ b \in spare
===============================================================================
