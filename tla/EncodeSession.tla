----------------------------- MODULE EncodeSession -----------------------------
(***************************************************************************)
(* An encoding session of libavcodec (video.cpp): the table of encoders,  *)
(* make_avcodec_encode_session() with its second attempt, and the key     *)
(* frames, parameter sets and time stamps of the packets it produces.     *)
(*                                                                        *)
(* The codecs are external: one may keep a frame back, and makes a key    *)
(* frame of the first frame, of one every gop_size, and of a frame marked *)
(* so if it supports that and was given the option it needs for it.       *)
(***************************************************************************)
EXTENDS Integers, Sequences, FiniteSets

CONSTANTS
  EncodersTried,  (* encoders of the table an instance looks at          *)
  Rates,      (* [asked, limit, fps, slices]: bitrates in kbit/s         *)
  MinThreads,  (* config min_threads                                     *)
  VbvIncrease,  (* config nvenc_vbv_increase, in percent                 *)
  FixedGop,   (* frames of a fixed group of pictures; 120 in the code    *)
  MaxEncoded  (* bound: frames of the stream                             *)

ASSUME EncodeAssumption ==
  /\ EncodersTried \subseteq {"nvenc", "quicksync", "amdvce", "mediafoundation", "software",
                              "vaapi", "vulkan", "videotoolbox"}
  /\ {MinThreads, FixedGop, MaxEncoded} \subseteq Nat \ {0} /\ VbvIncrease \in 0..400
  /\ Rates \subseteq [asked : Nat, limit : Nat, fps : Nat, slices : Nat]

-----------------------------------------------------------------------------
(* The table, with the flags a session reads.  Of the options only those  *)
(* about key frames are kept: forced are the codecs given forced-idr or   *)
(* forced_idr, fallback those that have options for a second attempt.     *)
Encoder(flags, hardware, codecs, forced, fallback) ==
  [flags |-> flags, hardware |-> hardware, codecs |-> codecs,
   forced |-> forced, fallback |-> fallback]

VideoFormats == {"h264", "hevc", "av1"}
Nvenc == Encoder({}, TRUE, VideoFormats, VideoFormats, {})
Quicksync ==
  Encoder({"CBR_WITH_VBR", "NO_RC_BUF_LIMIT"}, TRUE, VideoFormats, VideoFormats,
          {"h264", "hevc"})
Amdvce == Encoder({}, TRUE, VideoFormats, VideoFormats, {"h264"})
MediaFoundation == Encoder({"FIXED_GOP_SIZE"}, TRUE, VideoFormats, {}, {})
Software == Encoder({}, FALSE, {"h264", "hevc"}, {"hevc"}, {})
Vaapi == Encoder({"LIMITED_GOP_SIZE", "NO_RC_BUF_LIMIT"}, TRUE, VideoFormats, {}, {})
Vulkan == Encoder({"LIMITED_GOP_SIZE"}, TRUE, VideoFormats, {}, {})
Videotoolbox == Encoder({}, TRUE, VideoFormats, {}, {"h264"})

Table ==
  [nvenc |-> Nvenc, quicksync |-> Quicksync, amdvce |-> Amdvce,
   mediafoundation |-> MediaFoundation, software |-> Software, vaapi |-> Vaapi,
   vulkan |-> Vulkan, videotoolbox |-> Videotoolbox]

(* External: the codecs that make a key frame of a frame marked so only   *)
(* with the option, and the encoder that never does.                      *)
NeedsOption(e, c) == e \in {"nvenc", "quicksync", "amdvce"} \/ (e = "software" /\ c = "hevc")
OnDemand(e, c) ==
  e # "mediafoundation" /\ (NeedsOption(e, c) => c \in Table[e].forced)

-----------------------------------------------------------------------------
VARIABLES
  job,        (* encoder, format, rates, whether the codec writes the VUI *)
  esPhase,    (* "new", "retry", "open", "refused", "fault"              *)
  ctx,        (* avcodec_ctx: rates, slices and group of pictures        *)
  esPoint,    (* where encode_run is: "take", "encode"                   *)
  nr,         (* frame_nr                                                *)
  marked,     (* the AVFrame is marked as a key frame                    *)
  inCodec,    (* frames the codec keeps back                             *)
  asks,       (* idr_events and invalidate_ref_frames_events             *)
  inject,     (* inject                                                  *)
  replaced,   (* replacements                                            *)
  gop,        (* codec: frames since a key frame; none before the first  *)
  out,        (* the packets of the last frame sent to the codec         *)
  owed,       (* history: the first frame encoded with an answer owed    *)
  missed      (* history: packets since then that were no key frames     *)

esVars == <<job, esPhase, ctx, esPoint, nr, marked, inCodec, asks, inject, replaced, gop, out,
            owed, missed>>

NoFrame == 0
NoContextYet == [max |-> 0, rate |-> 0, min |-> 0, buffer |-> 0, slices |-> 0, gop |-> 0]
Jobs ==
  {j \in [encoder : EncodersTried, codec : VideoFormats, rates : Rates,
          vui : BOOLEAN] :
     j.codec \in Table[j.encoder].codecs}

EncodeInit ==
  /\ job \in Jobs
  /\ esPhase = "new" /\ ctx = NoContextYet /\ esPoint = "take" /\ nr = 1
  /\ marked = FALSE /\ inCodec = {} /\ asks = {"idr"} /\ inject = "none" /\ replaced = {}
  /\ gop = -1 /\ out = <<>> /\ owed = NoFrame /\ missed = 0

Flag(f) == f \in Table[job.encoder].flags
OnDevice == Table[job.encoder].hardware

-----------------------------------------------------------------------------
(* make_avcodec_encode_session(): the rates, in bits per second.          *)
Bitrate == 1000 * (IF job.rates.limit > 0 /\ job.rates.limit < job.rates.asked
                   THEN job.rates.limit ELSE job.rates.asked)
SliceCount == IF ~OnDevice /\ MinThreads > job.rates.slices THEN MinThreads ELSE job.rates.slices

(* Frames per second, or two thirds of them where the buffer is enlarged. *)
Enlarged == ~OnDevice /\ (SliceCount > 1 \/ job.codec = "hevc")
Divisor == IF Enlarged THEN (job.rates.fps * 10) \div 15 ELSE job.rates.fps
Increase == IF job.encoder = "nvenc" THEN VbvIncrease ELSE 0

(* Variant: the increase is taken of the bitrate.                         *)
BufferBug ==
  IF Flag("NO_RC_BUF_LIMIT") THEN 0
  ELSE (Bitrate \div Divisor) + (Bitrate * Increase) \div 100
Buffer ==
  IF Flag("NO_RC_BUF_LIMIT") THEN 0
  ELSE LET share == Bitrate \div Divisor IN share + (share * Increase) \div 100

Context ==
  [max |-> Bitrate, rate |-> IF Flag("CBR_WITH_VBR") THEN Bitrate - 1 ELSE Bitrate,
   min |-> IF Flag("CBR_WITH_VBR") THEN 0 ELSE Bitrate,
   buffer |-> Buffer, slices |-> SliceCount,
   gop |-> IF Flag("FIXED_GOP_SIZE") THEN FixedGop ELSE MaxEncoded + 1]

(* Which parameter sets the session will replace.                         *)
Injected ==
  IF job.codec = "av1" \/ job.vui THEN "none" ELSE job.codec

(* What was not found when the encoder was probed is refused (HDR, 4:4:4), *)
(* and so is what the device cannot be prepared for.                      *)
Refuse ==
  /\ esPhase = "new"
  /\ esPhase' = "refused"
  /\ UNCHANGED <<job, ctx, esPoint, nr, marked, inCodec, asks, inject, replaced, gop, out, owed,
                 missed>>

CodecOpened ==
  /\ esPhase' = "open" /\ ctx' = Context /\ inject' = Injected /\ replaced' = {}
  /\ marked' = FALSE /\ inCodec' = {} /\ gop' = -1 /\ out' = <<>>
  /\ UNCHANGED <<job, esPoint, nr, asks, owed, missed>>

(* A client may ask for no frames, or one, a second: a division by zero.  *)
DividesByZero == ~Flag("NO_RC_BUF_LIMIT") /\ Divisor = 0
Fault ==
  /\ esPhase = "new" /\ DividesByZero
  /\ esPhase' = "fault"
  /\ UNCHANGED <<job, ctx, esPoint, nr, marked, inCodec, asks, inject, replaced, gop, out, owed,
                 missed>>

(* The codec is opened, or once more with the options for a fallback.     *)
OpenCodec ==
  /\ esPhase \in {"new", "retry"} /\ ~DividesByZero
  /\ \/ CodecOpened
     \/ /\ esPhase' = IF esPhase = "new" /\ job.codec \in Table[job.encoder].fallback
                      THEN "retry" ELSE "refused"
        /\ UNCHANGED <<job, ctx, esPoint, nr, marked, inCodec, asks, inject, replaced, gop, out,
                       owed, missed>>

-----------------------------------------------------------------------------
(* The client asks for a key frame, or not to refer to frames it lost.    *)
AskFor(what) ==
  /\ esPhase = "open" /\ what \notin asks
  /\ asks' = asks \cup {what}
  /\ UNCHANGED <<job, esPhase, ctx, esPoint, nr, marked, inCodec, inject, replaced, gop, out,
                 owed, missed>>

(* Variant: the request not to refer to lost frames is only reported.     *)
RequestIdrBug(asked) == "idr" \in asked
RequestIdr(asked) == asked # {}

(* encode_run: the requests are taken.  invalidate_ref_frames() of a      *)
(* libavcodec session is a request for a key frame.                       *)
TakeAsked ==
  /\ esPhase = "open" /\ esPoint = "take" /\ nr <= MaxEncoded
  /\ esPoint' = "encode" /\ asks' = {}
  /\ marked' = (marked \/ RequestIdr(asks))
  /\ owed' = IF asks # {} /\ owed = NoFrame THEN nr ELSE owed
  /\ missed' = IF asks # {} /\ owed = NoFrame THEN 0 ELSE missed
  /\ UNCHANGED <<job, esPhase, ctx, nr, inCodec, inject, replaced, gop, out>>

(* The parameter sets replaced from the first packet on.                  *)
ReplacementsBug(kind) == IF kind = "none" THEN {} ELSE {"sps"}
Replacements(kind) ==
  IF kind = "none" THEN {} ELSE IF kind = "hevc" THEN {"sps", "vps"} ELSE {"sps"}

(* Variant: a packet bears the time of the frame sent last.               *)
StampBug(f, last) == last.image
Stamp(f, last) == IF f.pts = last.pts THEN last.image ELSE NoFrame

(* Codec: since is how long ago the key frame before a frame was.         *)
IsKey(f, since) ==
  \/ since = -1 \/ since + 1 >= ctx.gop
  \/ f.marked /\ OnDemand(job.encoder, job.codec)

(* encode_avcodec(): image is the frame itself, or NoFrame if none came in *)
(* time; the codec gives what it kept back, and the frame or keeps it.    *)
SendFrame(image, keeps) ==
  LET f == [pts |-> nr, marked |-> marked, image |-> image]
      before == IF inCodec = {} THEN <<>> ELSE <<CHOOSE h \in inCodec : TRUE>>
      ready == IF keeps THEN before ELSE Append(before, f)
      since(i) == IF i = 1 THEN gop
                  ELSE IF IsKey(ready[1], gop) THEN 0 ELSE gop + 1
      packet(i) == [pts |-> ready[i].pts, key |-> IsKey(ready[i], since(i)),
                    stamp |-> Stamp(ready[i], f), image |-> ready[i].image,
                    sets |-> replaced \cup Replacements(inject)]
      packets == [i \in DOMAIN ready |-> packet(i)]
      due == {i \in DOMAIN ready : owed # NoFrame /\ packets[i].pts >= owed}
      answered == \E i \in due : packets[i].key
      final == packets[Len(packets)]
  IN /\ esPhase = "open" /\ esPoint = "encode"
     /\ esPoint' = "take" /\ nr' = nr + 1
     /\ inCodec' = IF keeps THEN {f} ELSE {}
     /\ out' = packets
     /\ marked' = FALSE
     /\ IF ready = <<>> THEN UNCHANGED <<inject, replaced, gop, owed, missed>>
        ELSE /\ inject' = "none" /\ replaced' = replaced \cup Replacements(inject)
             /\ gop' = IF final.key THEN 0 ELSE since(Len(packets)) + 1
             /\ owed' = IF answered THEN NoFrame ELSE owed
             /\ missed' = IF answered THEN 0 ELSE missed + Cardinality(due)
     /\ UNCHANGED <<job, esPhase, ctx, asks>>

(* The capture is set up again: another session, the numbers go on; the   *)
(* frames kept back are flushed and thrown away.                          *)
NextSession ==
  /\ esPhase = "open" /\ esPoint = "take" /\ nr > 1
  /\ CodecOpened

EncodeNext ==
  \/ Refuse \/ Fault \/ OpenCodec \/ TakeAsked \/ NextSession
  \/ \E what \in {"idr", "invalidate"} : AskFor(what)
  \/ \E image \in {NoFrame, nr}, keeps \in BOOLEAN : SendFrame(image, keeps)

-----------------------------------------------------------------------------
EncodeTypeOK ==
  /\ esPhase \in {"new", "retry", "open", "refused", "fault"} /\ esPoint \in {"take", "encode"}
  /\ nr \in 1..(MaxEncoded + 1) /\ marked \in BOOLEAN /\ Cardinality(inCodec) <= 1
  /\ asks \subseteq {"idr", "invalidate"} /\ inject \in {"none", "h264", "hevc"}
  /\ replaced \subseteq {"sps", "vps"} /\ owed \in 0..MaxEncoded

(* A client that asks for a key frame, or not to refer to lost frames,    *)
(* gets one with the next frame encoded, whatever the encoder; with a     *)
(* fixed group of pictures, before the group is over.                     *)
KeyOnRequest == missed <= (IF Flag("FIXED_GOP_SIZE") THEN FixedGop - 1 ELSE 0)

(* Every key frame is sent with the parameter sets a client needs that the *)
(* codec does not write itself.                                           *)
ParametersShown ==
  \A i \in DOMAIN out :
    out[i].key /\ ~job.vui /\ job.codec # "av1"
      => out[i].sets = (IF job.codec = "hevc" THEN {"sps", "vps"} ELSE {"sps"})

(* The latency told to a client is that of the frame's own image.         *)
StampsTrue == \A i \in DOMAIN out : out[i].stamp \in {NoFrame, out[i].image}

(* The codec never exceeds what the client asked and the user allows, and *)
(* its buffer holds one frame's share of it, but not two; with nvenc, more *)
(* by what the user adds.                                                 *)
RatesKept ==
  esPhase = "open" =>
    /\ ctx.max <= 1000 * job.rates.asked
    /\ job.rates.limit > 0 => ctx.max <= 1000 * job.rates.limit
    /\ ctx.rate <= ctx.max /\ (ctx.max > 0 => ctx.min <= ctx.rate)
    /\ Flag("NO_RC_BUF_LIMIT") \/
         ( /\ (ctx.buffer + 1) * job.rates.fps > ctx.max
           /\ ctx.buffer * job.rates.fps <= (2 + Increase \div 100) * ctx.max )
===============================================================================
