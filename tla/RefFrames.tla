------------------------------ MODULE RefFrames ------------------------------
(***************************************************************************)
(* Recovery from lost frames (nvenc_base.cpp, video.cpp encode_run): a     *)
(* client that lost frames asks the encoder not to refer to them any more, *)
(* or for an IDR frame.  The control thread leaves its request in an event *)
(* of one value, the encoder thread takes it before the next frame.        *)
(*                                                                         *)
(* The driver is external: a frame refers to one frame of its buffer that  *)
(* was not invalidated, or to none when it is forced or nothing is left.   *)
(***************************************************************************)
EXTENDS Integers, FiniteSets

CONSTANTS
  MaxFrame,   (* bound: frames of the stream                               *)
  DpbSize,    (* ref_frames_in_dpb                                         *)
  MaxAsked,   (* bound: requests                                           *)
  Wide,       (* 2^64: the differences are unsigned                        *)
  NoRequest

ASSUME FramesAssumption ==
  /\ {MaxFrame, DpbSize, MaxAsked, Wide} \subseteq Nat
  /\ DpbSize > 0 /\ Wide > MaxFrame + DpbSize

VARIABLES
  frame,      (* last frame_nr encoded; numbers go on across encoders       *)
  point,      (* where encode_run is                                        *)
  encoder,    (* encoder_state, and whether rfi is supported                *)
  force,      (* force_idr of the session                                   *)
  dpb,        (* driver: frames it may refer to                             *)
  needs,      (* the frames each of those cannot be decoded without          *)
  request,    (* invalidate_ref_frames_events                               *)
  idr,        (* idr_events                                                 *)
  asked,      (* history: frames the requests taken were about              *)
  fresh,      (* history: those asked for since the last frame              *)
  answered,   (* history: those a frame has answered for                    *)
  stale,      (* history: a frame needed one that was asked about before    *)
  silent,     (* history: a frame went out unmarked with an answer owed     *)
  requests    (* requests so far                                            *)

refVars == <<frame, point, encoder, force, dpb, needs, request, idr,
             asked, fresh, answered, stale, silent, requests>>

Frames == 1..MaxFrame
(* A new encoder: encoder_state = {}.                                      *)
NewEncoder(rfi) == [rfi |-> rfi, last |-> 0, confirm |-> FALSE, from |-> 0, to |-> 0]

RefInit ==
  /\ frame = 0 /\ point = "none" /\ encoder = NewEncoder(FALSE) /\ force = FALSE
  /\ dpb = {} /\ needs = [f \in Frames |-> {}]
  /\ request = NoRequest /\ idr = TRUE
  /\ asked = {} /\ fresh = {} /\ answered = {} /\ stale = FALSE /\ silent = FALSE
  /\ requests = 0

refHistory == <<asked, fresh, answered, stale, silent>>

-----------------------------------------------------------------------------
(* The client, and the control thread's handlers: the event holds only the *)
(* request raised last.                                                    *)
Ask(first, last) ==
  /\ point # "none" /\ requests < MaxAsked
  /\ request' = <<first, last>> /\ requests' = requests + 1
  /\ UNCHANGED <<frame, point, encoder, force, dpb, needs, idr, refHistory>>

AskIdr ==
  /\ point # "none" /\ requests < MaxAsked
  /\ idr' = TRUE /\ requests' = requests + 1
  /\ UNCHANGED <<frame, point, encoder, force, dpb, needs, request, refHistory>>

(* make_encode_session(): the first encoder, and the one after a failure   *)
(* or a re-initialisation of the capture.                                  *)
Create ==
  /\ point = "none" \/ point = "failed"
  /\ \E rfi \in BOOLEAN : encoder' = NewEncoder(rfi)
  /\ force' = FALSE /\ dpb' = {} /\ point' = "requests"
  /\ UNCHANGED <<frame, needs, request, idr, requests, refHistory>>

Reinit ==
  /\ point = "requests" /\ frame > 1
  /\ point' = "failed"
  /\ UNCHANGED <<frame, encoder, force, dpb, needs, request, idr, requests, refHistory>>

-----------------------------------------------------------------------------
(* Variant: the range forgets its end.                                     *)
AlreadyDoneBug(e, first, last) == first >= e.from

(* An NVENC session's invalidate_ref_frames(): an IDR frame follows what    *)
(* the encoder refuses.                                                    *)
ForcedUnless(done) == force' = (force \/ ~done)

(* The encoder's invalidate_ref_frames().                                  *)
AlreadyDone(e, first, last) == first >= e.from /\ last <= e.to
Count(first, last) == (last - first + 1) % Wide
Expanded(e, first, last) == e.last

TakeRequest ==
  LET first == request[1]
      last == request[2]
      to == Expanded(encoder, first, last)
      done == AlreadyDone(encoder, first, last)
      refused == ~encoder.rfi
      inverted == last < first
      large == Count(first, to) >= DpbSize
  IN
  /\ point = "requests" /\ request # NoRequest
  /\ request' = NoRequest
  /\ asked' = asked \cup (first..last)
  /\ fresh' = fresh \cup (first..last)
  /\ \/ /\ refused \/ done \/ inverted \/ large
        /\ ForcedUnless(done /\ ~refused)
        /\ dpb' = dpb
     \/ /\ ~refused /\ ~done /\ ~inverted /\ ~large
        /\ \E failing \in BOOLEAN, n \in first..to + 1 :
             /\ ~failing => n = to + 1
             /\ failing => n <= to
             /\ dpb' = dpb \ (first..n - 1)
             /\ ForcedUnless(~failing)
  /\ encoder' =
       IF refused \/ done THEN encoder
       ELSE IF inverted THEN [encoder EXCEPT !.confirm = TRUE]
       ELSE [encoder EXCEPT !.confirm = TRUE, !.from = first, !.to = to]
  /\ UNCHANGED <<frame, point, needs, idr, answered, stale, silent, requests>>

(* The rest of the loop's head: idr_events, convert().                     *)
TakeIdr ==
  /\ point = "requests" /\ request = NoRequest
  /\ force' = (force \/ idr) /\ idr' = FALSE
  /\ point' = "encode"
  /\ UNCHANGED <<frame, encoder, dpb, needs, request, requests, refHistory>>

(* The driver keeps the frames encoded last.                               *)
Newest(s) == {f \in s : Cardinality({g \in s : g > f}) < DpbSize}
(* A marked frame answers for everything from the first asked for.        *)
AnsweredBy(n) == {f \in 0..n - 1 : \E g \in fresh : g <= f}

(* encode_frame(); request_normal_frame().                                 *)
Encode ==
  LET n == frame + 1
      confirm == encoder.confirm
  IN
  /\ point = "encode" /\ n \in Frames
  /\ \E ref \in IF force \/ dpb = {} THEN {0} ELSE dpb :
       LET key == ref = 0
           needed == {n} \cup (IF key THEN {} ELSE needs[ref])
       IN
       /\ dpb' = Newest((IF key THEN {} ELSE dpb) \cup {n})
       /\ needs' = [f \in Frames |-> IF f = n THEN needed ELSE IF f \in dpb' THEN needs[f] ELSE {}]
       /\ stale' = (stale \/ needed \cap asked # {})
       /\ silent' = (silent \/ (fresh \ answered # {} /\ ~key /\ ~confirm))
       /\ answered' = answered \cup (IF key \/ confirm THEN AnsweredBy(n) ELSE {})
       /\ fresh' = {}
  /\ frame' = n
  /\ encoder' = [encoder EXCEPT !.last = n, !.confirm = FALSE]
  /\ force' = FALSE /\ point' = "requests"
  /\ UNCHANGED <<request, idr, asked, requests>>

(* The driver fails or times out: no packet, encode_run() returns.         *)
EncodeFails ==
  /\ point = "encode" /\ frame + 1 \in Frames
  /\ frame' = frame + 1 /\ point' = "failed"
  /\ UNCHANGED <<encoder, force, dpb, needs, request, idr, requests, refHistory>>

RefNext ==
  \/ \E a \in 0..frame, b \in 1..frame : Ask(a, b)
  \/ AskIdr \/ Create \/ Reinit
  \/ TakeRequest \/ TakeIdr \/ Encode \/ EncodeFails

-----------------------------------------------------------------------------
RefTypeOK ==
  /\ frame \in 0..MaxFrame /\ point \in {"none", "failed", "requests", "encode"}
  /\ encoder \in [rfi : BOOLEAN, last : 0..MaxFrame, confirm : BOOLEAN,
                  from : 0..MaxFrame, to : 0..MaxFrame]
  /\ {force, idr, stale, silent} \subseteq BOOLEAN
  /\ dpb \subseteq Frames /\ Cardinality(dpb) <= DpbSize
  /\ needs \in [Frames -> SUBSET Frames]
  /\ request = NoRequest \/ request \in (0..MaxFrame) \X (0..MaxFrame)

(* A frame encoded after a request was taken can be decoded without any of *)
(* the frames it was about, also indirectly, whether they were             *)
(* invalidated, were "already done" or the encoder was replaced.           *)
Severed == ~stale
(* The first frame after a request tells the client so, as an IDR frame or *)
(* by its mark, unless an earlier one did.                                 *)
Answered == ~silent
FramesRecover == Severed /\ Answered
===============================================================================
