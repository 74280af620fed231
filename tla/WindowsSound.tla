------------------------------ MODULE WindowsSound ------------------------------
(***************************************************************************)
(* Sound on Windows (platform/windows/audio.cpp): the buffer between the  *)
(* packets of the sound device and the frames of a session (mic_wasapi_t), *)
(* and the default device, which the host changes for a session and keeps *)
(* there against others (audio_control_t).  An instance is about one.     *)
(*                                                                        *)
(* External: Windows, which records into a buffer of its own and signals  *)
(* an event for each packet; which chooses a default when the old one     *)
(* goes; and which tells of a new default a little later.                 *)
(***************************************************************************)
EXTENDS Integers, Sequences, FiniteSets, SequencesExt, FiniteSetsExt

CONSTANTS
  SampleSize,  (* samples of a frame                                     *)
  EndpointSize,  (* samples the device's own buffer has room for         *)
  MaxRecorded,  (* bound: samples recorded                               *)
  Roles,      (* the roles a device can be the default for               *)
  SoundDevices,  (* the devices of the user                              *)
  Speakers,   (* the Steam Streaming Speakers                            *)
  MaxStreams, MaxMeddling   (* bounds: sessions, changes by the user      *)

ASSUME SoundAssumption ==
  /\ {SampleSize, EndpointSize, MaxRecorded, MaxStreams, MaxMeddling} \subseteq Nat \ {0}
  /\ "console" \in Roles /\ Speakers \notin SoundDevices
  /\ "" \notin SoundDevices \cup {Speakers}

VARIABLES
  subject,    (* "samples" or "sink"                                     *)
  recorded,   (* samples recorded so far                                 *)
  endpoint,   (* the packets in the device's buffer                      *)
  audioEvent,  (* audio_event is signalled                               *)
  continuous,  (* continuous_audio                                       *)
  sampleBuf,  (* sample_buf up to sample_buf_pos; silence is 0           *)
  filling,    (* -1, or the samples taken by this _fill_buffer()         *)
  handedOut,  (* how many samples were handed out, without silence       *)
  lastOut,    (* the last of them                                        *)
  missing,    (* history: samples lost by the device or a new microphone *)
  spilled,    (* history: least samples a fill took that overflowed, or 0 *)
  muted,      (* history: silence was put before a waiting sample        *)
  present,    (* the devices there are                                   *)
  disabled,   (* the speakers are, by SetEndpointVisibility()            *)
  defaults,   (* the default device of each role, "" for none            *)
  notice,     (* a new default is yet to be told                         *)
  hostAt,     (* where the host is                                       *)
  wanted,     (* the sink of the session                                 *)
  hostSink,   (* sink.host                                               *)
  assigned,   (* assigned_sink                                           *)
  restores,   (* restore_sink                                            *)
  micDevice,  (* the device the microphone listens to                    *)
  changedFlag,  (* default_render_device_changed_flag                    *)
  foundAs,    (* history: the defaults the session found                 *)
  meddled,    (* history: changes the host did not make, since then      *)
  notTaken,   (* history: a call was refused since then                  *)
  unheard,    (* history: a change was told while no microphone listened *)
  streamed, meddling   (* bounds                                          *)

sampleVars == <<recorded, endpoint, audioEvent, continuous, sampleBuf, filling, handedOut,
                lastOut, missing, spilled, muted>>
historyVars == <<foundAs, meddled, notTaken, unheard>>
sinkVars == <<present, disabled, defaults, notice, hostAt, wanted, hostSink, assigned, restores,
              micDevice, changedFlag, historyVars, streamed, meddling>>
soundVars == <<subject, sampleVars, sinkVars>>

SoundInit ==
  /\ subject \in {"samples", "sink"}
  /\ recorded = 0 /\ endpoint = <<>> /\ audioEvent = FALSE /\ continuous \in BOOLEAN
  /\ sampleBuf = <<>> /\ filling = -1 /\ handedOut = 0 /\ lastOut = 0
  /\ missing = 0 /\ spilled = 0 /\ muted = FALSE
  /\ present \in {SoundDevices, SoundDevices \cup {Speakers}, {Speakers}} /\ disabled = FALSE
  /\ defaults \in [Roles -> present] /\ notice = FALSE
  /\ hostAt = "off" /\ wanted \in {Speakers} \cup SoundDevices
  /\ hostSink = "" /\ assigned = "" /\ restores = FALSE /\ micDevice = "" /\ changedFlag = FALSE
  /\ foundAs = defaults /\ meddled = FALSE /\ notTaken = FALSE /\ unheard = FALSE
  /\ streamed = 0 /\ meddling = 0

-----------------------------------------------------------------------------
Buffered == Range(sampleBuf) \ {0}

(* External: a packet is recorded; a full buffer loses its oldest ones.   *)
Retained(packets) ==
  LET room == {i \in 1 .. Len(packets) + 1 :
                 FoldLeft(LAMBDA n, p : n + Len(p), 0, SubSeq(packets, i, Len(packets)))
                   <= EndpointSize}
  IN  SubSeq(packets, Min(room), Len(packets))
InPackets(packets) == UNION {Range(packets[i]) : i \in DOMAIN packets}

Record(n) ==
  /\ recorded + n <= MaxRecorded
  /\ recorded' = recorded + n
  /\ LET all == Append(endpoint, [i \in 1 .. n |-> recorded + i])
     IN  /\ endpoint' = Retained(all)
         /\ missing' = missing + Cardinality(InPackets(all) \ InPackets(Retained(all)))
  /\ audioEvent' = TRUE
  /\ UNCHANGED <<continuous, sampleBuf, filling, handedOut, lastOut, spilled, muted>>

(* Variants: the buffer fits one packet of the device; a fill takes one   *)
(* packet only; silence is kept for the frames to come.                   *)
BufSizeOfBug == Max({EndpointSize, SampleSize})
MoreBug == endpoint # <<>> /\ filling = 0
AfterFrameBug == SubSeq(sampleBuf, SampleSize + 2, Len(sampleBuf))

ResetNeededBug == FALSE
ListensFirstBug == FALSE
BackToBug == IF assigned = "" THEN hostSink ELSE assigned

(* init(): "needs to fit double".                                         *)
BufSizeOf == 2 * Max({EndpointSize, SampleSize})
More == endpoint # <<>>

(* sample(): a full frame is handed out, what is left moves to the front. *)
AfterFrame == SubSeq(sampleBuf, SampleSize + 1, Len(sampleBuf))
HandOut ==
  /\ filling = -1 /\ Len(sampleBuf) >= SampleSize
  /\ LET frame == Range(SubSeq(sampleBuf, 1, SampleSize)) \ {0}
     IN  handedOut' = handedOut + Cardinality(frame) /\ lastOut' = Max(frame \cup {lastOut})
  /\ sampleBuf' = AfterFrame
  /\ UNCHANGED <<recorded, endpoint, audioEvent, continuous, filling, missing, spilled, muted>>

(* _fill_buffer(): the event is waited for; without one, a continuous     *)
(* client is given silence.                                               *)
WaitFor ==
  /\ filling = -1 /\ Len(sampleBuf) < SampleSize
  /\ \/ /\ audioEvent /\ audioEvent' = FALSE /\ filling' = 0
        /\ UNCHANGED <<sampleBuf, muted>>
     \/ /\ ~audioEvent /\ continuous
        /\ sampleBuf' = sampleBuf \o [i \in 1 .. SampleSize |-> 0]
        /\ muted' = (muted \/ endpoint # <<>>)
        /\ UNCHANGED <<audioEvent, filling>>
  /\ UNCHANGED <<recorded, endpoint, continuous, handedOut, lastOut, missing, spilled>>

(* The packets are taken until there is none.                             *)
TakePacket ==
  /\ filling >= 0
  /\ IF More
     THEN LET packet == Head(endpoint)
              n == Min({BufSizeOf - Len(sampleBuf), Len(packet)})
              taken == filling + Len(packet)
          IN  /\ sampleBuf' = sampleBuf \o SubSeq(packet, 1, n)
              /\ missing' = missing + Len(packet) - n
              /\ spilled' = IF n < Len(packet) /\ (spilled = 0 \/ taken < spilled)
                            THEN taken ELSE spilled
              /\ endpoint' = Tail(endpoint) /\ filling' = taken
     ELSE filling' = -1 /\ UNCHANGED <<sampleBuf, missing, spilled, endpoint>>
  /\ UNCHANGED <<recorded, audioEvent, continuous, handedOut, lastOut, muted>>

(* The device was invalidated, or there is a new default: the microphone  *)
(* is made anew, with a new buffer.                                       *)
NewMicrophone ==
  /\ missing' = missing + Cardinality(Buffered \cup InPackets(endpoint))
  /\ sampleBuf' = <<>> /\ endpoint' = <<>> /\ audioEvent' = FALSE /\ filling' = -1
  /\ UNCHANGED <<recorded, continuous, handedOut, lastOut, spilled, muted>>

SampleStep ==
  \/ \E n \in 1 .. SampleSize : Record(n)
  \/ HandOut \/ WaitFor \/ TakePacket \/ NewMicrophone

-----------------------------------------------------------------------------
(* External: who is the default after a device went or came back.         *)
Usable(a, d) == IF d THEN a \ {Speakers} ELSE a
NewDefaults(a, d, roles) ==
  {[r \in Roles |-> IF roles[r] \in Usable(a, d) THEN roles[r] ELSE pick] :
     pick \in IF Usable(a, d) = {} THEN {""} ELSE Usable(a, d)}
DefaultsBecome(new) == defaults' = new /\ notice' = (notice \/ new # defaults)

(* SetDefaultEndpoint() for each role; set_sink() gives up when its device *)
(* is not there or the speakers do not take the format.                   *)
Set(device, roles) == [r \in Roles |-> IF r \in roles THEN device ELSE defaults[r]]
SetSink(device, ok) ==
  /\ \E taken \in SUBSET Roles :
       /\ device \notin Usable(present, disabled) => taken = {}
       /\ DefaultsBecome(Set(device, taken)) /\ notTaken' = (notTaken \/ taken # Roles)
       /\ ok <=> taken = Roles
       /\ assigned' = IF taken = Roles THEN device ELSE assigned

(* platf::init(): a host that crashed may have left the speakers as the   *)
(* default.  They are disabled for a moment, so that Windows chooses.     *)
ResetNeeded == defaults["console"] = Speakers
StartHost ==
  /\ hostAt = "off"
  /\ hostAt' = IF Speakers \in Usable(present, disabled) /\ ResetNeeded
               THEN "resetting" ELSE "ready"
  /\ notTaken' = FALSE /\ meddled' = FALSE
  /\ UNCHANGED <<present, disabled, defaults, notice, wanted, hostSink, assigned, restores,
                 micDevice, changedFlag, foundAs, unheard, streamed, meddling>>

Disable ==
  /\ hostAt = "resetting"
  /\ \/ disabled' = TRUE /\ hostAt' = "disabled" /\ UNCHANGED notTaken
        /\ \E new \in NewDefaults(present, TRUE, defaults) : DefaultsBecome(new)
     \/ hostAt' = "ready" /\ notTaken' = TRUE /\ UNCHANGED <<disabled, defaults, notice>>
  /\ UNCHANGED <<present, wanted, hostSink, assigned, restores, micDevice, changedFlag, foundAs,
                 meddled, unheard, streamed, meddling>>

(* They are enabled again, which may make them the default again; the one *)
(* read in between is set.                                                *)
Enable ==
  /\ hostAt = "disabled" /\ hostAt' = "ready"
  /\ \/ notTaken' = TRUE /\ UNCHANGED <<disabled, defaults, notice>>
     \/ /\ disabled' = FALSE
        /\ LET new == defaults["console"] IN
           \E kept \in SUBSET Roles :
             /\ new = "" => kept = Roles
             /\ DefaultsBecome([r \in Roles |-> IF r \in kept THEN Speakers ELSE new])
             /\ notTaken' = (notTaken \/ (new # "" /\ kept # {}))
  /\ UNCHANGED <<present, wanted, hostSink, assigned, restores, micDevice, changedFlag, foundAs,
                 meddled, unheard, streamed, meddling>>
-----------------------------------------------------------------------------
(* audio_control() and sink_info(): the speakers' driver is installed when *)
(* they are not found, and the default of before is set again, if there   *)
(* was one.                                                               *)
Installed == [r \in Roles |-> defaults["console"]]
OpenControl ==
  /\ hostAt \in {"ready", "idle"} /\ streamed < MaxStreams
  /\ streamed' = streamed + 1
  /\ meddled' = FALSE /\ notTaken' = FALSE /\ unheard' = FALSE
  /\ \/ UNCHANGED <<present, defaults, notice>> /\ foundAs' = defaults
     \/ /\ Speakers \notin present /\ present' = present \cup {Speakers}
        /\ defaults["console"] # "" /\ DefaultsBecome(Installed) /\ foundAs' = defaults
     \/ /\ Speakers \notin present /\ present' = present \cup {Speakers}
        /\ defaults["console"] = ""
        /\ \E new \in NewDefaults(present', disabled, defaults) :
             DefaultsBecome(new) /\ foundAs' = new
  /\ hostSink' = defaults'["console"] /\ assigned' = "" /\ restores' = FALSE
  /\ hostAt' = IF hostSink' = "" THEN "deaf" ELSE "opened"
  /\ UNCHANGED <<disabled, wanted, micDevice, changedFlag, meddling>>

(* The first session takes its sink: the speakers, if they are there.  It *)
(* is set if its name is another than the default's, as the name of the   *)
(* speakers is, which tells their format, and one the user wrote may be.  *)
SinkOf == IF wanted = Speakers /\ Speakers \notin Usable(present, disabled)
          THEN hostSink ELSE wanted
NamedAnother == IF SinkOf # wanted THEN {FALSE}
                ELSE IF SinkOf \in {Speakers} \cup {d \in SoundDevices : d # hostSink} THEN {TRUE}
                ELSE BOOLEAN
TakeSink ==
  /\ hostAt = "opened"
  /\ restores' \in NamedAnother
  /\ IF restores' THEN \E ok \in BOOLEAN :
                        SetSink(SinkOf, ok) /\ hostAt' = IF ok THEN "chosen" ELSE "deaf"
     ELSE hostAt' = "chosen" /\ UNCHANGED <<defaults, notice, notTaken, assigned>>
  /\ UNCHANGED <<present, disabled, wanted, hostSink, micDevice, changedFlag, foundAs, meddled,
                 unheard, streamed, meddling>>

(* mic_wasapi_t::init(): it listens for changes before it looks for the   *)
(* default.                                                               *)
ListensFirst == TRUE
Listen ==
  /\ hostAt \in {"chosen", "reopen"}
  /\ hostAt' = IF hostAt = "chosen" THEN "listens" ELSE "listens again"
  /\ changedFlag' = FALSE
  /\ micDevice' = IF ListensFirst THEN "" ELSE defaults["console"]
  /\ UNCHANGED <<present, disabled, defaults, notice, wanted, hostSink, assigned, restores,
                 historyVars, streamed, meddling>>

Listening == hostAt \in {"listens again", "capturing"} \cup
                        (IF ListensFirst THEN {"listens"} ELSE {})
OpenMicrophone ==
  /\ hostAt \in {"listens", "listens again"}
  /\ LET device == IF ListensFirst THEN defaults["console"] ELSE micDevice IN
     \/ device # "" /\ micDevice' = device /\ hostAt' = "capturing" /\ UNCHANGED unheard
     \/ /\ micDevice' = "" /\ hostAt' = IF hostAt = "listens" THEN "deaf" ELSE "reopen"
        /\ unheard' = (unheard \/ changedFlag)
  /\ UNCHANGED <<present, disabled, defaults, notice, wanted, hostSink, assigned, restores,
                 changedFlag, foundAs, meddled, notTaken, streamed, meddling>>

(* _fill_buffer(): there is a new default.  The speakers are made the     *)
(* default again; the microphone is opened anew.                          *)
ResetsSink == assigned = Speakers
NewDefault ==
  /\ hostAt = "capturing" /\ changedFlag
  /\ \/ ~ResetsSink /\ UNCHANGED <<defaults, notice, notTaken, assigned>>
     \/ ResetsSink /\ \E ok \in BOOLEAN : SetSink(Speakers, ok)
  /\ changedFlag' = FALSE /\ micDevice' = "" /\ hostAt' = "reopen"
  /\ UNCHANGED <<present, disabled, wanted, hostSink, restores, foundAs, meddled, unheard,
                 streamed, meddling>>

(* An invalidated device: a change told since the fill began is forgotten *)
(* with the microphone.                                                   *)
DeviceInvalidated ==
  /\ hostAt = "capturing" /\ micDevice \notin Usable(present, disabled)
  /\ changedFlag' = FALSE /\ micDevice' = "" /\ hostAt' = "reopen"
  /\ unheard' = (unheard \/ changedFlag)
  /\ UNCHANGED <<present, disabled, defaults, notice, wanted, hostSink, assigned, restores,
                 foundAs, meddled, notTaken, streamed, meddling>>

(* stop_audio_control(), when the last session has ended.                 *)
BackTo == hostSink
EndStream ==
  /\ hostAt \in {"deaf", "capturing", "reopen"}
  /\ \/ ~restores /\ UNCHANGED <<defaults, notice, notTaken, assigned>>
     \/ restores /\ \E ok \in BOOLEAN : SetSink(BackTo, ok)
  /\ hostAt' = "idle" /\ micDevice' = "" /\ changedFlag' = FALSE /\ restores' = FALSE
  /\ UNCHANGED <<present, disabled, wanted, hostSink, foundAs, meddled, unheard, streamed,
                 meddling>>

(* The host crashes: its state is lost, what it set remains.              *)
HostCrash ==
  /\ hostAt # "off"
  /\ hostAt' = "off" /\ micDevice' = "" /\ changedFlag' = FALSE /\ restores' = FALSE
  /\ assigned' = "" /\ hostSink' = ""
  /\ UNCHANGED <<present, disabled, defaults, notice, wanted, historyVars, streamed, meddling>>

-----------------------------------------------------------------------------
(* External: OnDefaultDeviceChanged(), to the microphone there is; the    *)
(* user or another program changes the default, or a device comes or goes. *)
TellDefault ==
  /\ notice /\ notice' = FALSE
  /\ changedFlag' = (changedFlag \/ Listening)
  /\ unheard' = (unheard \/ ~Listening)
  /\ UNCHANGED <<present, disabled, defaults, hostAt, wanted, hostSink, assigned, restores,
                 micDevice, foundAs, meddled, notTaken, streamed, meddling>>

Meddle ==
  /\ meddling < MaxMeddling
  /\ meddling' = meddling + 1 /\ meddled' = TRUE
  /\ \/ /\ \E device \in Usable(present, disabled), roles \in {Roles, {"console"}} :
             DefaultsBecome(Set(device, roles))
        /\ UNCHANGED present
     \/ \E d \in SoundDevices :
          /\ present' = IF d \in present THEN present \ {d} ELSE present \cup {d}
          /\ \E new \in NewDefaults(present', disabled, defaults) : DefaultsBecome(new)
  /\ UNCHANGED <<disabled, hostAt, wanted, hostSink, assigned, restores, micDevice,
                 changedFlag, foundAs, notTaken, unheard, streamed>>

SinkStep ==
  \/ StartHost \/ Disable \/ Enable \/ OpenControl \/ TakeSink \/ Listen \/ OpenMicrophone
  \/ NewDefault \/ DeviceInvalidated \/ EndStream \/ HostCrash \/ TellDefault \/ Meddle

SoundNext ==
  \/ subject = "samples" /\ SampleStep /\ UNCHANGED <<subject, sinkVars>>
  \/ subject = "sink" /\ SinkStep /\ UNCHANGED <<subject, sampleVars>>

-----------------------------------------------------------------------------
(* The domains of the variables.                                          *)
SoundTypeOK ==
  /\ filling >= -1 /\ missing \in 0 .. recorded
  /\ {audioEvent, continuous, muted, disabled, notice, restores, changedFlag, meddled, notTaken,
      unheard} \subseteq BOOLEAN
  /\ present \subseteq SoundDevices \cup {Speakers} /\ defaults \in [Roles -> present \cup {""}]
  /\ {hostSink, assigned, micDevice} \subseteq SoundDevices \cup {Speakers, ""}

(* A client hears the samples in the order they were recorded, all that   *)
(* neither the device nor a new microphone lost; the buffer has room for silence and only *)
(* overflows when more is recorded during one fill than the device has room for. *)
SoundKept ==
  /\ LET sound == SelectSeq(sampleBuf, LAMBDA x : x > 0) \o FlattenSeq(endpoint)
     IN  \A i \in DOMAIN sound : sound[i] > IF i = 1 THEN lastOut ELSE sound[i - 1]
  /\ handedOut + Cardinality(Buffered \cup InPackets(endpoint)) + missing = recorded
  /\ Len(sampleBuf) <= BufSizeOf /\ (spilled = 0 \/ spilled > EndpointSize)

(* Silence is inserted only when no sample waits.                         *)
SilenceIsSilence == ~muted

(* The microphone listens to the default device, and the session's sink is *)
(* the default, unless a change is still to be told or nobody listened    *)
(* when it was, or Windows notTaken.                                      *)
HearsTheDefault ==
  hostAt = "capturing" /\ ~notice /\ ~changedFlag =>
    /\ micDevice = defaults["console"]
    /\ assigned = Speakers /\ ~unheard /\ ~notTaken => micDevice = Speakers

(* A session gives back the default it found: for every role, when they   *)
(* had one device.  After a start the speakers are not the default, be it *)
(* that the host crashed during a session.                                *)
DefaultGivenBack ==
  ~meddled /\ ~notTaken =>
    /\ hostAt = "idle" =>
         IF \A r \in Roles : foundAs[r] = foundAs["console"] THEN defaults = foundAs
         ELSE defaults["console"] = foundAs["console"]
    /\ hostAt = "ready" =>
         defaults["console"] # Speakers \/ Usable(present, disabled) = {Speakers}
=============================================================================
