---------------------------- MODULE VideoCapture ----------------------------
(***************************************************************************)
(* The capture thread all streaming sessions share, and their encoder      *)
(* threads (video.cpp, thread_safe.h).                                     *)
(*                                                                         *)
(* A session's encoder thread takes a reference of the capture context;    *)
(* the first one starts the capture thread, the last one stops and joins   *)
(* it.  The capture thread hands every captured image to the sessions and  *)
(* alone opens displays; the encoder threads share the display it has open.*)
(* When the display is lost it raises reinit_event, waits until nobody     *)
(* else refers to the display, and opens the next one.                     *)
(***************************************************************************)
EXTENDS Integers, FiniteSets

CONSTANTS
  Sessions,
  Images,         (* memory for images                                     *)
  PoolSize,       (* capture_buffer_size                                   *)
  MaxDisplays,    (* bound: displays opened                                *)
  AsyncTeardown,  (* the encoder has ASYNC_TEARDOWN                        *)
  None

Displays == 1..MaxDisplays

ASSUME CaptureAssumption ==
  /\ PoolSize \in Nat \ {0} /\ MaxDisplays \in Nat /\ AsyncTeardown \in BOOLEAN
  /\ None \notin Sessions /\ None \notin Images /\ None \notin Displays

VARIABLES
  pc,         (* where each encoder thread is                              *)
  display,    (* its display                                               *)
  first,      (* frame_nr <= 1                                             *)
  hand,       (* the image it converts                                     *)
  event,      (* its images event: the image in it                         *)
  running,    (* ... and whether it is running                             *)
  shutdown,   (* its shutdown event                                        *)
  teardown,   (* displays encoders still being torn down refer to          *)
  refs,       (* sessions that hold a reference of the capture context     *)
  cap,        (* where the capture thread is; "none" before there is one   *)
  queue,      (* the contexts in capture_ctx_queue, whose order nobody sees *)
  open,       (* capture_ctx_queue is running                              *)
  ctxs,       (* those in capture_ctxs                                     *)
  todo,       (* contexts the thread has still to drain in this round      *)
  peeked,     (* the one it found an image with, and drains                *)
  disp,       (* the display it has                                        *)
  wp,         (* display_wp                                                *)
  reinit,     (* reinit_event                                              *)
  pool,       (* imgs                                                      *)
  shot,       (* the image it captures into                                *)
  opened      (* displays opened so far                                    *)

encoder == <<pc, display, first, hand, teardown>>
events == <<event, running, shutdown>>
context == <<refs, queue, open, wp, reinit>>
capture == <<cap, ctxs, todo, peeked, disp, pool, shot, opened>>
vars == <<encoder, events, context, capture>>

EncoderPoints ==
  {"new", "queue", "check", "top", "lock", "device", "enc", "pop",
   "encode", "leave", "release", "join", "stop", "out"}
CapturePoints ==
  {"none", "wait", "open", "capture", "shot", "reinit", "count", "drain", "pop",
   "drop", "make", "publish", "close", "guard", "ended"}

TypeOK ==
  /\ pc \in [Sessions -> EncoderPoints] /\ cap \in CapturePoints
  /\ display \in [Sessions -> Displays \cup {None}] /\ first \in [Sessions -> BOOLEAN]
  /\ hand \in [Sessions -> Images \cup {None}] /\ event \in [Sessions -> Images \cup {None}]
  /\ running \in [Sessions -> BOOLEAN] /\ shutdown \in [Sessions -> BOOLEAN]
  /\ teardown \subseteq Displays
  /\ refs \subseteq Sessions /\ open \in BOOLEAN /\ reinit \in BOOLEAN
  /\ queue \subseteq Sessions /\ ctxs \subseteq Sessions /\ queue \cap ctxs = {}
  /\ todo \subseteq ctxs /\ peeked \in ctxs \cup {None}
  /\ disp \in Displays \cup {None} /\ wp \in Displays \cup {None}
  /\ pool \subseteq Images /\ Cardinality(pool) <= PoolSize
  /\ shot \in Images \cup {None}
  /\ opened \in 0..MaxDisplays
  /\ \A s \in Sessions : pc[s] \in {"enc", "pop", "encode"} => display[s] # None
  /\ cap \in {"capture", "shot"} => disp # None

Init ==
  /\ pc = [s \in Sessions |-> "new"]
  /\ display = [s \in Sessions |-> None] /\ first = [s \in Sessions |-> TRUE]
  /\ hand = [s \in Sessions |-> None] /\ event = [s \in Sessions |-> None]
  /\ running = [s \in Sessions |-> TRUE] /\ shutdown = [s \in Sessions |-> FALSE]
  /\ teardown = {}
  /\ refs = {} /\ cap = "none" /\ queue = {} /\ open = FALSE
  /\ ctxs = {} /\ todo = {} /\ peeked = None /\ disp = None /\ wp = None /\ reinit = FALSE
  /\ pool = {} /\ shot = None /\ opened = 0

-----------------------------------------------------------------------------
(* References.  A display lives while the capture thread, an encoder       *)
(* thread or an encoder being torn down refers to it.                      *)
Holders(d) ==
  {s \in Sessions : display[s] = d} \cup (IF disp = d THEN {"capture"} ELSE {})
    \cup (IF d \in teardown THEN {"teardown"} ELSE {})
Alive == {d \in Displays : Holders(d) # {}}

(* Images somebody other than the pool holds.  A stopped event keeps its   *)
(* image as long as the session or the capture thread keeps the event.     *)
InUse ==
  {event[s] : s \in {r \in Sessions : pc[r] # "out" \/ r \in ctxs \cup queue}}
    \cup {hand[s] : s \in Sessions} \cup {shot}
Unallocated == Images \ (pool \cup InUse)

Goes(s, from_, to) == pc[s] = from_ /\ pc' = [pc EXCEPT ![s] = to]
CapGoes(from_, to) == cap = from_ /\ cap' = to

-----------------------------------------------------------------------------
(* The encoder thread: capture_async() and encode_run().                   *)

(* capture_thread_async.ref(), under the lock of the shared_t, which       *)
(* end_capture_async() holds while it joins.                               *)
NobodyJoins == \A s \in Sessions : pc[s] # "join"

Ref(s) ==
  /\ NobodyJoins
  /\ Goes(s, "new", "queue")
  /\ refs' = refs \cup {s}
  /\ IF refs # {} THEN UNCHANGED <<queue, open, wp, reinit, capture>>
     ELSE /\ cap' = "wait" /\ queue' = {} /\ open' = TRUE /\ reinit' = FALSE /\ wp' = None
          /\ ctxs' = {} /\ todo' = {} /\ peeked' = None
          /\ UNCHANGED <<disp, pool, shot, opened>>
  /\ UNCHANGED <<display, first, hand, teardown, events>>

Queue(s) ==
  /\ Goes(s, "queue", "check")
  /\ queue' = IF open THEN queue \cup {s} ELSE queue
  /\ UNCHANGED <<display, first, hand, teardown, events, refs, open, wp, reinit, capture>>

(* Mutant: a session that comes to a stopped queue goes on all the same.   *)
CheckForgottenBug(s) ==
  /\ Goes(s, "check", "top")
  /\ UNCHANGED <<display, first, hand, teardown, events, context, capture>>

Check(s) ==
  /\ Goes(s, "check", IF open THEN "top" ELSE "release")
  /\ UNCHANGED <<display, first, hand, teardown, events, context, capture>>

(* The loop of capture_async(): over, or asleep for 20 ms, or on to the    *)
(* display.                                                                *)
Ends(s) == shutdown[s] \/ ~running[s]

Top(s) ==
  /\ Ends(s) \/ ~reinit
  /\ Goes(s, "top", IF Ends(s) THEN "release" ELSE "lock")
  /\ UNCHANGED <<display, first, hand, teardown, events, context, capture>>

(* display_wp is locked after reinit_event was asked.                      *)
LockDisplay(s) ==
  /\ Goes(s, "lock", IF wp \in Alive THEN "device" ELSE "top")
  /\ display' = [display EXCEPT ![s] = IF wp \in Alive THEN wp ELSE None]
  /\ UNCHANGED <<first, hand, teardown, events, context, capture>>

(* make_encode_device() and make_encode_session(), with the dummy image:   *)
(* without a device capture_async() returns, without a session its loop    *)
(* turns once more.                                                        *)
MakeEncoder(s) ==
  /\ \/ Goes(s, "device", "enc") /\ UNCHANGED display
     \/ /\ Goes(s, "device", "release") \/ Goes(s, "device", "top")
        /\ display' = [display EXCEPT ![s] = None]
  /\ UNCHANGED <<first, hand, teardown, events, context, capture>>

EncodeLoop(s) ==
  /\ Goes(s, "enc", IF Ends(s) \/ (reinit /\ ~first[s]) THEN "leave" ELSE "pop")
  /\ UNCHANGED <<display, first, hand, teardown, events, context, capture>>

(* images->pop(max_frametime), left out for an IDR frame with no image     *)
(* there: an image, or the last one is encoded again.                      *)
PopImage(s) ==
  /\ event[s] # None /\ running[s]
  /\ Goes(s, "pop", "encode")
  /\ hand' = [hand EXCEPT ![s] = event[s]]
  /\ event' = [event EXCEPT ![s] = None]
  /\ UNCHANGED <<display, first, teardown, running, shutdown, context, capture>>

PopNone(s) ==
  /\ event[s] = None \/ ~running[s]
  /\ Goes(s, "pop", IF running[s] THEN "encode" ELSE "leave")
  /\ UNCHANGED <<display, first, hand, teardown, events, context, capture>>

(* convert() and encode(), which may fail.                                 *)
Encode(s) ==
  /\ Goes(s, "encode", "enc") \/ Goes(s, "encode", "leave")
  /\ hand' = [hand EXCEPT ![s] = None]
  /\ first' = [first EXCEPT ![s] = FALSE]
  /\ UNCHANGED <<display, teardown, events, context, capture>>

(* encode_run() returns: its encoder goes, at once or in a thread of its   *)
(* own, and then the reference of the display.                             *)
LeaveRun(s) ==
  /\ Goes(s, "leave", "top")
  /\ teardown' = IF AsyncTeardown THEN teardown \cup {display[s]} ELSE teardown
  /\ display' = [display EXCEPT ![s] = None]
  /\ UNCHANGED <<first, hand, events, context, capture>>

Torn(d) ==
  /\ d \in teardown
  /\ teardown' = teardown \ {d}
  /\ UNCHANGED <<pc, display, first, hand, events, context, capture>>

(* The reference goes before images->stop(): ref was declared after the    *)
(* guard.  end_capture_async() stops the queue and joins.                  *)
Release(s) ==
  /\ NobodyJoins
  /\ refs' = refs \ {s}
  /\ IF refs = {s} THEN Goes(s, "release", "join") /\ open' = FALSE
     ELSE Goes(s, "release", "stop") /\ UNCHANGED open
  /\ UNCHANGED <<display, first, hand, teardown, events, queue, wp, reinit, capture>>

Join(s) ==
  /\ cap = "ended"
  /\ Goes(s, "join", "stop")
  /\ cap' = "none"
  /\ UNCHANGED <<display, first, hand, teardown, events, context, ctxs, todo, peeked,
                 disp, pool, shot, opened>>

StopImages(s) ==
  /\ Goes(s, "stop", "out")
  /\ running' = [running EXCEPT ![s] = FALSE]
  /\ shutdown' = [shutdown EXCEPT ![s] = TRUE]
  /\ UNCHANGED <<display, first, hand, teardown, event, context, capture>>

-----------------------------------------------------------------------------
(* The capture thread.                                                     *)

WaitFirst ==
  /\ \/ ~open /\ CapGoes("wait", "guard") /\ UNCHANGED <<queue, ctxs>>
     \/ /\ open /\ CapGoes("wait", "open")
        /\ \E s \in queue : ctxs' = {s} /\ queue' = queue \ {s}
  /\ UNCHANGED <<encoder, events, refs, open, wp, reinit, todo, peeked, disp, pool,
                 shot, opened>>

OpenDisplay ==
  /\ opened < MaxDisplays
  /\ disp' = opened + 1 /\ opened' = opened + 1

OpenFirst ==
  /\ \/ CapGoes("open", "capture") /\ OpenDisplay /\ wp' = disp'
     \/ CapGoes("open", "guard") /\ UNCHANGED <<disp, opened, wp>>
  /\ UNCHANGED <<encoder, events, refs, queue, open, reinit, ctxs, todo, peeked,
                 pool, shot>>

(* Mutant: an image is free as soon as its session has taken it.           *)
PullableBug(i) == i \in pool \/ (i \in Unallocated /\ Cardinality(pool) < PoolSize)

(* An image of the pool nobody uses, or else a new one.                    *)
Pullable(i) ==
  LET unused == pool \ InUse
  IN IF unused # {} THEN i \in unused
     ELSE i \in Unallocated /\ Cardinality(pool) < PoolSize

(* pull_free_image_callback(); trim_imgs() gives up some unused images.    *)
PullImage ==
  /\ open /\ CapGoes("capture", "shot")
  /\ \E i \in Images :
       /\ Pullable(i)
       /\ \E trimmed \in SUBSET (pool \ (InUse \cup {i})) :
            pool' = (pool \cup {i}) \ trimmed
       /\ shot' = i
  /\ UNCHANGED <<encoder, events, context, ctxs, todo, peeked, disp, opened>>

(* A stopped queue ends the capture.                                       *)
Interrupted ==
  /\ ~open /\ CapGoes("capture", "close")
  /\ UNCHANGED <<encoder, events, context, ctxs, todo, peeked, disp, pool, shot, opened>>

(* push_captured_image_callback(): with the image, or with none after a    *)
(* timeout.  The user may have asked for another display.                  *)
Listening(contexts) == {s \in contexts : running[s]}

Push(image) ==
  /\ event' = [s \in Sessions |->
       IF image # None /\ s \in Listening(ctxs) THEN image ELSE event[s]]
  /\ shot' = None
  /\ ctxs' = Listening(ctxs) \cup (IF open THEN queue ELSE {})
  /\ queue' = IF open THEN {} ELSE queue
  /\ \/ cap' = IF open THEN "capture" ELSE "close"
     \/ open /\ opened < MaxDisplays /\ cap' = "reinit"
  /\ UNCHANGED <<encoder, running, shutdown, refs, open, wp, reinit, todo, peeked,
                 disp, pool, opened>>

PushImage == cap = "shot" /\ Push(shot)
PushTimeout == cap = "capture" /\ Push(None)

(* The backend gives up: the display is to be opened anew, or an error.    *)
BackendEnds ==
  /\ cap \in {"capture", "shot"}
  /\ \/ opened < MaxDisplays /\ cap' = "reinit"
     \/ cap' = "close"
  /\ shot' = None
  /\ UNCHANGED <<encoder, events, context, ctxs, todo, peeked, disp, pool, opened>>

Reinit ==
  /\ CapGoes("reinit", "count")
  /\ reinit' = TRUE /\ pool' = {}
  /\ UNCHANGED <<encoder, events, refs, queue, open, wp, ctxs, todo, peeked, disp, shot,
                 opened>>

(* display_wp->use_count() != 1: a round of draining, and 20 ms.           *)
Count ==
  /\ IF Holders(disp) = {"capture"} THEN CapGoes("count", "drop") /\ UNCHANGED <<ctxs, todo>>
     ELSE CapGoes("count", "drain") /\ ctxs' = Listening(ctxs) /\ todo' = Listening(ctxs)
  /\ UNCHANGED <<encoder, events, context, peeked, disp, pool, shot, opened>>

(* while (images->peek()) images->pop(), two calls.                        *)
ToDrain == IF peeked = None THEN todo ELSE {peeked}

DrainPeek ==
  /\ \/ ToDrain = {} /\ CapGoes("drain", "count") /\ UNCHANGED <<todo, peeked>>
     \/ \E s \in ToDrain :
          /\ todo' = todo \ {s}
          /\ IF running[s] /\ event[s] # None THEN CapGoes("drain", "pop") /\ peeked' = s
             ELSE CapGoes("drain", "drain") /\ peeked' = None
  /\ UNCHANGED <<encoder, events, context, ctxs, disp, pool, shot, opened>>

DrainPop ==
  /\ CapGoes("pop", "drain")
  /\ event[peeked] # None \/ ~running[peeked]
  /\ event' = [event EXCEPT ![peeked] = None]
  /\ UNCHANGED <<encoder, running, shutdown, context, ctxs, todo, peeked, disp, pool,
                 shot, opened>>

(* Mutant: the loop goes on for sessions that are gone.                    *)
DropForeverBug ==
  /\ CapGoes("drop", "make")
  /\ disp' = None
  /\ UNCHANGED <<encoder, events, context, ctxs, todo, peeked, pool, shot, opened>>

(* The loop that opens the next display.                                   *)
Drop ==
  /\ CapGoes("drop", IF open THEN "make" ELSE IF disp = None THEN "close" ELSE "publish")
  /\ disp' = IF open THEN None ELSE disp
  /\ UNCHANGED <<encoder, events, context, ctxs, todo, peeked, pool, shot, opened>>

(* Mutant: one attempt, whether it gives a display or not.                 *)
MakeDisplayOnceBug ==
  /\ CapGoes("make", "publish")
  /\ OpenDisplay \/ UNCHANGED <<disp, opened>>
  /\ UNCHANGED <<encoder, events, context, ctxs, todo, peeked, pool, shot>>

(* reset_display() with the configuration of capture_ctxs.front(), which   *)
(* may not be there any more: then that of the context erased last is read.*)
MakeDisplay ==
  /\ \/ CapGoes("make", "publish") /\ OpenDisplay
     \/ CapGoes("make", "drop") /\ UNCHANGED <<disp, opened>>
  /\ UNCHANGED <<encoder, events, context, ctxs, todo, peeked, pool, shot>>

Publish ==
  /\ CapGoes("publish", IF open THEN "capture" ELSE "close")
  /\ wp' = disp /\ reinit' = FALSE
  /\ UNCHANGED <<encoder, events, refs, queue, open, ctxs, todo, peeked, disp,
                 pool, shot, opened>>

(* captureThread() returns: images and display first, then the guard.      *)
Close ==
  /\ CapGoes("close", "guard")
  /\ pool' = {} /\ disp' = None
  /\ UNCHANGED <<encoder, events, context, ctxs, todo, peeked, shot, opened>>

Guard ==
  /\ CapGoes("guard", "ended")
  /\ open' = FALSE
  /\ running' = [s \in Sessions |-> running[s] /\ s \notin ctxs \cup queue]
  /\ ctxs' = {} /\ queue' = {} /\ todo' = {} /\ peeked' = None
  /\ UNCHANGED <<encoder, event, shutdown, refs, wp, reinit, disp, pool, shot, opened>>

-----------------------------------------------------------------------------
(* A session is told to end.                                               *)
Shutdown(s) ==
  /\ ~shutdown[s]
  /\ shutdown' = [shutdown EXCEPT ![s] = TRUE]
  /\ UNCHANGED <<encoder, event, running, context, capture>>

EncoderStep(s) ==
  \/ Queue(s) \/ Check(s) \/ Top(s) \/ LockDisplay(s) \/ MakeEncoder(s)
  \/ EncodeLoop(s) \/ PopImage(s) \/ PopNone(s) \/ Encode(s)
  \/ LeaveRun(s) \/ Release(s) \/ Join(s) \/ StopImages(s)

Teardowns == \E d \in Displays : Torn(d)

CaptureStep ==
  \/ WaitFirst \/ OpenFirst \/ PullImage \/ Interrupted \/ PushImage
  \/ PushTimeout \/ Reinit \/ Count \/ DrainPeek \/ DrainPop \/ Drop \/ MakeDisplay
  \/ Publish \/ Close \/ Guard

Next ==
  \/ \E s \in Sessions : Ref(s) \/ EncoderStep(s) \/ Shutdown(s)
  \/ Teardowns
  \/ CaptureStep \/ BackendEnds

Spec == Init /\ [][Next]_vars

(* Threads are scheduled, those that tear encoders down included.          *)
FairSpec ==
  /\ Spec
  /\ WF_vars(CaptureStep)
  /\ \A s \in Sessions : WF_vars(EncoderStep(s))
  /\ WF_vars(Teardowns)

-----------------------------------------------------------------------------
(* "some capture backends only support a single display session per        *)
(* device/application": at most one display is open at any time.           *)
OneDisplay == Cardinality(Alive) <= 1

(* The image the backend writes is in nobody else's hands: no session can  *)
(* convert it, now or from its event, until it is pushed.                  *)
ImageExclusive ==
  shot # None => /\ shot \in pool
                 /\ \A s \in Sessions : (running[s] => shot # event[s]) /\ shot # hand[s]

(* The capture thread runs only while somebody refers to it, or waits to   *)
(* join it, and a session never waits for images of one that has ended.    *)
InCapture == {"top", "lock", "device", "enc", "pop", "encode", "leave"}

NobodyForgotten ==
  /\ cap \notin {"none", "ended"} => refs # {} \/ \E s \in Sessions : pc[s] = "join"
  /\ \A s \in Sessions : pc[s] \in InCapture =>
       /\ s \in refs
       /\ cap = "ended" => ~running[s]

(* The capture thread waits for an image that somebody else took.          *)
Stuck == cap = "pop" /\ event[peeked] = None /\ running[peeked]

(* A session that is told to end leaves capture(), so that its thread can  *)
(* be joined, unless the capture thread is stuck.  (Being told and being   *)
(* out are for good: there is always another time when all are out.)       *)
Told(s) == shutdown[s] /\ pc[s] # "new"

EndsUnlessStuck ==
  []<>(Stuck \/ \A s \in Sessions : Told(s) => pc[s] = "out")
=============================================================================
