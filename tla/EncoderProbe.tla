----------------------------- MODULE EncoderProbe -----------------------------
(***************************************************************************)
(* The choice of an encoder (video.cpp, validate_encoder, probe_encoders)  *)
(* and what /serverinfo then tells clients the host can encode.            *)
(*                                                                         *)
(* What a validation finds depends on the hardware: each encoder has a set *)
(* of abilities per codec, found at its first validation and stable during *)
(* one probe.  Another probe may find other hardware.                      *)
(***************************************************************************)
EXTENDS Integers, Sequences, FiniteSets, SequencesExt

CONSTANTS
  Encoders,    (* encoders, in order of preference                         *)
  Codecs,      (* those besides H.264: "hevc", "av1"                       *)
  Modes,       (* hevc_mode and av1_mode: 0 auto, 1 off, 2 on, 3 with HDR  *)
  Abilities,   (* what an encoder can do with a codec                      *)
  H264Only, Yuv444Support,   (* flags of the encoders                      *)
  NoEncoder, Unknown

ASSUME ProbeAssumption ==
  /\ Modes \subseteq 0..3
  /\ Abilities \subseteq SUBSET {"known", "max", "auto", "hdr", "yuv444"}
  (* "the autoselect ref config [...] will always succeed if the encoder   *)
  (* is available"; 4:4:4 with HDR implies 4:2:0 with HDR.                 *)
  /\ \A a \in Abilities : ("max" \in a => "auto" \in a) /\ ("yuv444" \in a => "hdr" \in a)
  /\ "h264" \notin Codecs
  (* An encoder is in the table once.                                      *)
  /\ Encoders \in Seq(Range(Encoders)) /\ IsInjective(Encoders)
  /\ NoEncoder \notin Range(Encoders)
  /\ Unknown \notin [Codecs \cup {"h264"} -> SUBSET {"passed", "hdr", "yuv444"}]

VARIABLES
  settings,    (* the configuration: modes of the codecs, encoder by name  *)
  stage,       (* which of the three searches probe_encoders() is in       *)
  list,        (* encoder_list                                             *)
  pos,         (* pos                                                      *)
  chosen,      (* chosen_encoder                                           *)
  mode,        (* active_hevc_mode, active_av1_mode                        *)
  caps,        (* capabilities of the encoders validated in this probe     *)
  yuv444       (* last_encoder_probe_supported_yuv444_for_codec            *)

probeVars == <<settings, stage, list, pos, chosen, mode, caps, yuv444>>

AllCodecs == Codecs \cup {"h264"}
Hardware == [h264 : Abilities, codecs : [Codecs -> Abilities], hdrDisplay : BOOLEAN]

ProbeInit ==
  /\ settings = Unknown /\ stage = "idle" /\ list = <<>> /\ pos = 1
  /\ chosen = NoEncoder
  /\ mode = [c \in Codecs |-> 0] /\ caps = [e \in Range(Encoders) |-> Unknown]
  /\ yuv444 = {}

-----------------------------------------------------------------------------
(* validate_encoder(): the capabilities it finds, or Unknown when it       *)
(* fails; expect_failure only changes the order.  HDR is not tried with    *)
(* H.264, and 4:4:4 of the other codecs only together with HDR.            *)
Tested(e, c) == mode[c] >= 2 \/ (mode[c] = 0 /\ e \notin H264Only)

(* validate_config(): a device, a session, an image and one IDR frame; what *)
(* comes of it is an ability of the hardware.                              *)
Validated(a, config) == config \in a

(* make_encode_device(): no 4:4:4 without the flag, whatever the hardware. *)
Yuv444Of(e, a) == IF e \in Yuv444Support /\ Validated(a, "yuv444") THEN {"yuv444"} ELSE {}

(* With the reference frames restricted, or without if not even H.264      *)
(* could be encoded with them restricted.                                  *)
Passed(a, h264) ==
  Validated(a, "max") \/ (~Validated(h264, "max") /\ Validated(a, "auto"))

(* Of a codec the GPU knows that failed, what was set to begin with and is *)
(* not tried then stays set: HDR and 4:4:4.                                *)
CodecFound(e, c, a, h264) ==
  IF ~Tested(e, c) \/ "known" \notin a THEN {}
  ELSE IF ~Passed(a, h264) THEN {"hdr", "yuv444"}
  ELSE {"passed"} \cup (a \cap {"hdr"}) \cup Yuv444Of(e, a)

Capabilities(e, h) ==
  IF ~Validated(h.h264, "auto") \/ ~h.hdrDisplay THEN Unknown
  ELSE [c \in AllCodecs |->
         IF c = "h264" THEN {"passed"} \cup Yuv444Of(e, h.h264)
         ELSE CodecFound(e, c, h.codecs[c], h.h264)]

Works(e) == caps'[e] # Unknown
(* The encoder does what the configuration asks of a codec.                *)
Satisfies(c, cap) ==
  /\ mode[c] >= 2 => "passed" \in cap[c]
  /\ mode[c] = 3 => "hdr" \in cap[c]

(* Variants: HDR is not looked at, an encoder that lacks the second codec  *)
(* is accepted.                                                            *)
AdjustedBug(cap) ==
  [c \in Codecs |-> IF mode[c] < 2 \/ "passed" \in cap[c] THEN mode[c] ELSE 0]
SuitsBug(cap) == \E c \in Codecs : mode[c] >= 2 /\ Satisfies(c, cap)
(* adjust_encoder_constraints(), which for mode 3 asks for HDR alone; and  *)
(* the modes left to us.                                                   *)
Retains(c, cap) ==
  (mode[c] = 2 => "passed" \in cap[c]) /\ (mode[c] = 3 => "hdr" \in cap[c])
Adjusted(cap) == [c \in Codecs |-> IF Retains(c, cap) THEN mode[c] ELSE 0]
Resolved(m, cap) ==
  [c \in Codecs |->
     IF m[c] # 0 THEN m[c]
     ELSE IF "passed" \notin cap[c] THEN 1 ELSE IF "hdr" \in cap[c] THEN 3 ELSE 2]
Suits(cap) == \A c \in Codecs : Satisfies(c, cap)

-----------------------------------------------------------------------------
(* A bound of the instance: the configuration is read once.                *)
ReadSettings ==
  /\ settings = Unknown
  /\ \E m \in [Codecs -> Modes], e \in Range(Encoders) \cup {NoEncoder} :
       settings' = [modes |-> m, encoder |-> e]
  /\ UNCHANGED <<stage, list, pos, chosen, mode, caps, yuv444>>

(* probe_encoders(), its head.  Without an active display, or with a good  *)
(* encoder and the same GPU, it returns at once.                           *)
Probe ==
  /\ settings # Unknown /\ stage = "idle"
  /\ stage' = "named"
  /\ list' = Encoders /\ pos' = 1
  /\ chosen' = NoEncoder
  /\ mode' = settings.modes
  /\ caps' = [e \in Range(Encoders) |-> Unknown]
  /\ UNCHANGED <<settings, yuv444>>

(* One validation: it finds again what it found before.                    *)
Validate(e) ==
  IF caps[e] # Unknown THEN UNCHANGED caps
  ELSE \E h \in Hardware : caps' = [caps EXCEPT ![e] = Capabilities(e, h)]

Erase(i) == SubSeq(list, 1, i - 1) \o SubSeq(list, i + 1, Len(list))
Take(e) == chosen' = e /\ stage' = "finish" /\ UNCHANGED <<list, pos>>
Drop == list' = Erase(pos) /\ UNCHANGED chosen
Skip == pos' = pos + 1 /\ UNCHANGED <<list, chosen, stage>>
Search(next) == stage' = next /\ pos' = 1

probing == <<settings, yuv444>>

(* The encoder named in the configuration.                                 *)
Named ==
  /\ stage = "named"
  /\ IF settings.encoder = NoEncoder \/ pos > Len(list)
     THEN /\ Search(IF \E c \in Codecs : mode[c] >= 2 THEN "suiting" ELSE "any")
          /\ UNCHANGED <<list, chosen, mode, caps>>
     ELSE IF list[pos] # settings.encoder THEN Skip /\ UNCHANGED <<mode, caps>>
     ELSE /\ Validate(list[pos])
          /\ \/ /\ ~Works(list[pos]) /\ Drop
                /\ Search(IF \E c \in Codecs : mode[c] >= 2 THEN "suiting" ELSE "any")
                /\ UNCHANGED mode
             \/ /\ Works(list[pos]) /\ Take(list[pos])
                /\ mode' = Adjusted(caps'[list[pos]])
  /\ UNCHANGED probing

(* The first that encodes what the configuration requires.                 *)
Suiting ==
  /\ stage = "suiting"
  /\ IF pos > Len(list) THEN Search("any") /\ UNCHANGED <<list, chosen, caps>>
     ELSE /\ Validate(list[pos])
          /\ \/ ~Works(list[pos]) /\ Drop /\ UNCHANGED <<pos, stage>>
             \/ Works(list[pos]) /\ ~Suits(caps'[list[pos]]) /\ Skip
             \/ Works(list[pos]) /\ Suits(caps'[list[pos]]) /\ Take(list[pos])
  /\ UNCHANGED <<probing, mode>>

(* The first that works.                                                   *)
AnyWorking ==
  /\ stage = "any" /\ pos <= Len(list)
  /\ Validate(list[pos])
  /\ \/ ~Works(list[pos]) /\ Drop /\ UNCHANGED <<pos, stage, mode>>
     \/ /\ Works(list[pos]) /\ Take(list[pos])
        /\ mode' = Adjusted(caps'[list[pos]])
  /\ UNCHANGED probing

(* Variant: the probe goes on without an encoder.                          *)
NoneWorksBug ==
  /\ stage = "any" /\ pos > Len(list)
  /\ stage' = "finish"
  /\ UNCHANGED <<probing, list, pos, chosen, mode, caps>>
(* The probe fails: the modes and the 4:4:4 flags stay as they are.        *)
NoneWorks ==
  /\ stage = "any" /\ pos > Len(list)
  /\ stage' = "idle" /\ list' = <<>> /\ pos' = 1
  /\ UNCHANGED <<probing, chosen, mode, caps>>

Finish ==
  /\ stage = "finish"
  /\ stage' = "idle" /\ list' = <<>> /\ pos' = 1
  /\ mode' = Resolved(mode, caps[chosen])
  /\ yuv444' = {c \in AllCodecs : {"passed", "yuv444"} \subseteq caps[chosen][c]}
  /\ UNCHANGED <<settings, chosen, caps>>

ProbeNext == ReadSettings \/ Probe \/ Named \/ Suiting \/ AnyWorking \/ NoneWorks \/ Finish

-----------------------------------------------------------------------------
ProbeTypeOK ==
  /\ stage \in {"idle", "named", "suiting", "any", "finish"}
  /\ Range(list) \subseteq Range(Encoders) /\ pos \in 1..Len(Encoders) + 1
  /\ chosen \in Range(Encoders) \cup {NoEncoder}
  /\ mode \in [Codecs -> 0..3] /\ yuv444 \subseteq AllCodecs
  /\ stage = "finish" => chosen # NoEncoder

(* ServerCodecModeSupport: what clients are told they may ask for.         *)
Advertised ==
  (UNION {IF mode[c] >= 2
          THEN {<<c, "passed">>} \cup (IF mode[c] = 3 THEN {<<c, "hdr">>} ELSE {})
                 \cup (IF c \in yuv444 THEN {<<c, "yuv444">>} ELSE {})
          ELSE {} : c \in Codecs})
    \cup {<<"h264", "passed">>} \cup (IF "h264" \in yuv444 THEN {<<"h264", "yuv444">>} ELSE {})

Encodes(e) ==
  {x \in AllCodecs \X {"passed", "hdr", "yuv444"} : {"passed", x[2]} \subseteq caps[e][x[1]]}
(* Where the user requires HDR and the codec failed its validation, HDR is *)
(* still noted as possible, and the codec stays advertised with it.        *)
Insisted == {c \in Codecs : settings.modes[c] = 3 /\ "passed" \notin caps[chosen][c]}
(* What each encoder would have been found capable of.                     *)
Meets(e) ==
  /\ caps[e] # Unknown
  /\ \A c \in Codecs : /\ settings.modes[c] >= 2 => "passed" \in caps[e][c]
                       /\ settings.modes[c] = 3 => "hdr" \in caps[e][c]

(* After a probe that chose an encoder clients are told only of what it    *)
(* was seen to encode, but for HDR the user insists on with a codec that   *)
(* failed (never 4:4:4); every mode is settled, the encoder the user named *)
(* is taken if it works, and one that does all the user requires is taken  *)
(* before one that does not, with the modes the user asked for.            *)
EncoderFits ==
  stage = "idle" /\ chosen # NoEncoder =>
    /\ Advertised \subseteq Encodes(chosen) \cup (Insisted \X {"passed", "hdr"})
    /\ \A c \in Codecs : mode[c] # 0
    /\ settings.encoder # NoEncoder /\ caps[settings.encoder] # Unknown
         => chosen = settings.encoder
    /\ chosen # settings.encoder /\ (\E e \in Range(Encoders) : Meets(e)) => Meets(chosen)
    /\ Meets(chosen) => \A c \in Codecs : settings.modes[c] # 0 => mode[c] = settings.modes[c]
===============================================================================
