--------------------------------- MODULE MCHost ---------------------------------
(* The parts of the host that share no state, each run on its own.         *)
EXTENDS FramePackets, RefFrames, EncoderProbe, DisplayDevice, AudioContext, PortMappings,
        NvPrefs, DesktopFrames, PointerDevice, VirtualGamepads, PipewireStream,
        PortalSession, EncodeSession, Mail, RtspConnection, ClientMessages, WindowsSound,
        Configuration, WindowsCapture, KmsCapture, ScreencopyCapture, HostLife, AppsFile,
        PulseSound, Announcement

VARIABLE part

EncoderList == <<"e1", "e2">>
FirstDevices == "d1"
EncodeRates ==
  {[asked |-> 20000, limit |-> 10000, fps |-> f, slices |-> 1] : f \in {1, 29}}
Profile(c, f, q, n, k, r) ==
  [chosen |-> c, fec |-> f, quality |-> q, channels |-> n, codec |-> k, rateX100 |-> r,
   layout |-> [channels |-> 6, streams |-> 4, coupled |-> 2, mapping |-> <<0, 4, 1, 5, 2, 3>>]]
RtspProfiles ==
  {Profile(0, 20, FALSE, 2, "h264", 0), Profile(20000, 20, TRUE, 6, "hevc", 5994),
   Profile(1000, 80, TRUE, 6, "h264", 12000), Profile(150000, 50, FALSE, 2, "h264", 6000),
   Profile(500, 255, TRUE, 2, "h264", 0), Profile(1000, 20, TRUE, 2, "av1", 0)}
MessageAddresses == [w1 |-> "x", w2 |-> "x"]
WaitingStreams == {<<"w1", "video">>, <<"w2", "video">>}
ComingPings == {<<"w1", "video">>, <<"w2", "video">>, <<"w1", "audio">>}
(* The lines of a configuration file, the arguments of the host, what is  *)
(* entered in the web UI.                                                 *)
Line(o, v, s) == [option |-> o, value |-> v, style |-> s]
UserLines ==
  {Line("mode", <<"2">>, "plain"), Line("mode", <<"9">>, "tight"),
   Line("mode", <<"2">>, "comment"), Line("delay", <<"2", "0">>, "crlf"),
   Line("upnp", <<"on">>, "plain"), Line("vt", <<"forced">>, "plain"),
   Line("keys", <<"[", "nl", "1", ",", "2", ",", "nl", "3", ",", "sp", "4", "]">>, "plain"),
   Line("keys", <<"[", "1", ",", "2">>, "plain"), Line("pad", <<"x360">>, "crlf"),
   Line("sink", <<"word">>, "comment"), Line("sink", <<"other">>, "off"),
   Line("state", <<"there">>, "plain")}
FlagArg == [style |-> "flag"]
UserArgs ==
  {<<>>, <<FlagArg>>, <<Line("mode", <<"1">>, "plain"), Line("mode", <<"3">>, "plain")>>}
UiValues == {<<"3">>, <<"a", "#", "b">>, <<"[", "3", ",", "4", "]">>, <<"[", "3">>}
NoExactRate == [num |-> 0, den |-> 1]
RefreshRates == {[num |-> 199, den |-> 100]}
PlaneOf(fb, cursor, crtc) == [fb |-> fb, cursor |-> cursor, crtc |-> crtc]
CardLayouts ==
  {<<[nvidia |-> TRUE, planes |-> <<PlaneOf("readable", FALSE, TRUE)>>],
     [nvidia |-> FALSE, planes |-> <<PlaneOf("readable", FALSE, TRUE),
        PlaneOf("readable", TRUE, TRUE), PlaneOf("readable", FALSE, TRUE)>>]>>}
MonitorSets == {<<"eDP", "DP">>, <<"DP">>, <<"DP", "eDP">>, <<"", "">>}
ReadAs(name) == IF name = "eDP" THEN -4 ELSE 1
NamesOfApps == <<<<"a">>, <<"a", "2">>, <<"b">>>>
Filed(n, c, cmd) == [name |-> n, cover |-> c, cmd |-> cmd]
AppsEntered == {Filed(<<"a">>, FALSE, <<>>), Filed(<<"b">>, TRUE, <<"$", "(">>)}
TextsWithDollars ==
  SeqOf({"$", "(", ")", "v"}, 3)
    \cup {<<"$", "(">> \o t : t \in {<<"v", ")">>, <<"v", ")", "v">>, <<"(", "v", ")">>,
                                   <<")", "$", "$">>, <<"$", "(", "v", ")", ")">>}}
    \cup {<<"$", "$", "(", "v", ")">>, <<"v", "$", "$", "$", "(", "v", ")">>}
AppsBefore ==
  {<<AppOf(1, Filed(<<"a">>, TRUE, <<>>)), AppOf(2, Filed(<<"a", "2">>, FALSE, <<>>))>>}
    \cup {<<AppOf(1, Filed(<<"b">>, TRUE, t))>> : t \in TextsWithDollars}
(* Files of one app are for its command, they are not changed.             *)
AppsStart == AppsInit /\ (Len(appsFile) = 1) = (edits = MaxEdits) /\ edits # 1
(* The devices of the user are alike.                                      *)
PulseStart ==
  /\ PulseInit
  /\ defaultSink = "speakers" /\ sinkSetting \in {"speakers", NoSink}
OneDigit(n) == <<ToString(n)>>
ValueOf(v) == IF v = <<"v">> THEN <<"$", "v">> ELSE <<>>
Parts == {"packets", "references", "encoder", "display", "audio", "ports", "driver",
          "desktop", "pointers", "gamepads", "pipewire", "portal", "session", "mail", "rtsp",
          "messages", "sound", "settings", "pacing", "kms", "screencopy", "life", "apps",
          "pulse", "announcement"}

vars == <<part, packetVars, refVars, probeVars, displayVars, contextVars, portVars, nvVars,
          frameVars, pointerVars, padVars, pwVars, portalVars, esVars, mailVars, rtspVars,
          messageVars, soundVars, configVars, wcVars, kmsVars, screencopyVars, lifeVars,
          appsVars, pulseVars, publishVars>>

(* A part that is not the run's has one of its initial states.             *)
FirstOf(p, PartInit, usual) == PartInit /\ (part = p \/ usual)

Init ==
  /\ part \in Parts
  /\ PacketInit /\ RefInit /\ ProbeInit /\ DisplayInit /\ AudioInit /\ PortInit
  /\ FramesInit /\ PadsInit /\ PortalInit
  /\ devices = FirstDevices
  /\ FirstOf("driver", NvInit, setting = HostValue)
  /\ FirstOf("pointers", PointerInit, tool = "touch")
  /\ FirstOf("pipewire", PipewireInit, memory)
  /\ FirstOf("session", EncodeInit, job.encoder = "software" /\ job.codec = "h264" /\ job.vui)
  /\ FirstOf("mail", MailInit, kind = "event")
  /\ FirstOf("rtsp", RtspInit,
           /\ client = [knows |-> TRUE, wishes |-> {}, mode |-> "never", secret |-> TRUE]
           /\ received.intact /\ received.head = 1)
  /\ FirstOf("messages", MessagesInit, topic = "pings" /\ ~sealed)
  /\ FirstOf("sound", SoundInit, /\ subject = "samples" /\ ~continuous /\ wanted = Speakers
           /\ present = {Speakers})
  /\ ConfigInit
  /\ WindowsCaptureInit
  /\ FirstOf("kms", KmsInit, focus = "names")
  /\ FirstOf("screencopy", ScreencopyInit, ~selecting /\ inMemory)
  /\ FirstOf("life", LifeInit, platform = "unix")
  /\ FirstOf("apps", AppsStart, edits = 0)
  /\ FirstOf("pulse", PulseStart, sinkSetting = NoSink)
  /\ FirstOf("announcement", AnnouncementInit, system = "avahi" /\ usedHere = {})

(* Only the part of the run goes on.                                       *)
Rests(p, partVars) == IF part = p THEN TRUE ELSE UNCHANGED partVars

Next ==
  /\ UNCHANGED part
  /\ Rests("packets", packetVars)
  /\ Rests("references", refVars)
  /\ Rests("encoder", probeVars)
  /\ Rests("display", displayVars)
  /\ Rests("audio", contextVars)
  /\ Rests("ports", portVars)
  /\ Rests("driver", nvVars)
  /\ Rests("desktop", frameVars)
  /\ Rests("pointers", pointerVars)
  /\ Rests("gamepads", padVars)
  /\ Rests("pipewire", pwVars)
  /\ Rests("portal", portalVars)
  /\ Rests("session", esVars)
  /\ Rests("mail", mailVars)
  /\ Rests("rtsp", rtspVars)
  /\ Rests("messages", messageVars)
  /\ Rests("sound", soundVars)
  /\ Rests("settings", configVars)
  /\ Rests("pacing", wcVars)
  /\ Rests("kms", kmsVars)
  /\ Rests("screencopy", screencopyVars)
  /\ Rests("life", lifeVars)
  /\ Rests("apps", appsVars)
  /\ Rests("pulse", pulseVars)
  /\ Rests("announcement", publishVars)
  /\ \/ part = "packets" /\ PacketNext
     \/ part = "references" /\ RefNext
     \/ part = "encoder" /\ ProbeNext
     \/ part = "display" /\ DisplayNext
     \/ part = "audio" /\ AudioNext
     \/ part = "ports" /\ PortNext
     \/ part = "driver" /\ NvNext
     \/ part = "desktop" /\ FramesNext
     \/ part = "pointers" /\ PointerNext
     \/ part = "gamepads" /\ PadsNext
     \/ part = "pipewire" /\ PipewireNext
     \/ part = "portal" /\ PortalNext
     \/ part = "session" /\ EncodeNext
     \/ part = "mail" /\ MailNext
     \/ part = "rtsp" /\ RtspNext
     \/ part = "messages" /\ MessagesNext
     \/ part = "sound" /\ SoundNext
     \/ part = "settings" /\ ConfigNext
     \/ part = "pacing" /\ WindowsCaptureNext
     \/ part = "kms" /\ KmsNext
     \/ part = "screencopy" /\ ScreencopyNext
     \/ part = "life" /\ LifeNext
     \/ part = "apps" /\ AppsNext
     \/ part = "pulse" /\ PulseNext
     \/ part = "announcement" /\ AnnouncementNext

(* Two states differ if the part of the run does: the others rest.        *)
PartOfRun ==
  <<part,
    CASE part = "packets" -> packetVars
      [] part = "references" -> refVars
      [] part = "encoder" -> probeVars
      [] part = "display" -> displayVars
      [] part = "audio" -> contextVars
      [] part = "ports" -> portVars
      [] part = "driver" -> nvVars
      [] part = "desktop" -> frameVars
      [] part = "pointers" -> pointerVars
      [] part = "gamepads" -> padVars
      [] part = "pipewire" -> pwVars
      [] part = "portal" -> portalVars
      [] part = "session" -> esVars
      [] part = "mail" -> mailVars
      [] part = "rtsp" -> rtspVars
      [] part = "messages" -> messageVars
      [] part = "sound" -> soundVars
      [] part = "settings" -> configVars
      [] part = "pacing" -> wcVars
      [] part = "kms" -> kmsVars
      [] part = "screencopy" -> screencopyVars
      [] part = "life" -> lifeVars
      [] part = "apps" -> appsVars
      [] part = "pulse" -> pulseVars
      [] part = "announcement" -> publishVars>>

Spec == Init /\ [][Next]_vars

(* Only the part that goes on is looked at.                                *)
Of(p, P) == part = p => P

(* The domains of the variables.                                           *)
TypeOK ==
  /\ Of("packets", PacketTypeOK) /\ Of("references", RefTypeOK) /\ Of("encoder", ProbeTypeOK)
  /\ Of("display", DisplayTypeOK) /\ Of("audio", AudioTypeOK) /\ Of("ports", PortTypeOK)
  /\ Of("driver", NvTypeOK) /\ Of("desktop", ImagesTypeOK)
  /\ Of("pointers", PointerTypeOK) /\ Of("gamepads", PadsTypeOK)
  /\ Of("pipewire", PipewireTypeOK) /\ Of("portal", PortalTypeOK)
  /\ Of("session", EncodeTypeOK) /\ Of("mail", MailTypeOK)
  /\ Of("rtsp", RtspTypeOK)
  /\ Of("messages", MessagesTypeOK)
  /\ Of("sound", SoundTypeOK)
  /\ Of("settings", ConfigTypeOK)
  /\ Of("pacing", WindowsCaptureTypeOK)
  /\ Of("kms", KmsTypeOK)
  /\ Of("screencopy", ScreencopyTypeOK)
  /\ Of("life", LifeTypeOK)
  /\ Of("apps", AppsTypeOK)
  /\ Of("pulse", PulseTypeOK)
  /\ Of("announcement", AnnouncementTypeOK)

(* What clients are sent can be put together and decoded, a lost frame is  *)
(* recovered from, and the chosen encoder can do what clients are told.    *)
StreamIsDecodable ==
  /\ Of("packets", FramesArrive) /\ Of("references", FramesRecover)
  /\ Of("encoder", EncoderFits)
  /\ Of("session", KeyOnRequest /\ ParametersShown /\ StampsTrue /\ RatesKept)

(* The host is left as the user had it: the display, the default sound     *)
(* device, the setting of the graphics driver and the ports of the router  *)
(* are given back, no null sink is left and nothing is announced.          *)
LeftAsFound ==
  /\ Of("display", DisplayGivenBack) /\ Of("audio", SoundGivenBack)
  /\ Of("ports", PortsClosed) /\ Of("driver", DriverGivenBack)
  /\ Of("sound", DefaultGivenBack)
  /\ Of("pulse", SinksUnloaded) /\ Of("announcement", AnnouncementWithdrawn)

(* The pictures sent show the desktop and the cursor as they were when     *)
(* they were taken, in their order and evenly; the buffers and file        *)
(* descriptors they come in are given back, once, and not used afterwards. *)
(* The sound sent is the sound there was, of the device it should come     *)
(* from.                                                                   *)
CaptureIsTrue ==
  /\ Of("desktop", ShowsTheDesktop /\ PicturesKept /\ NeverIllogical)
  /\ Of("pipewire", StreamPicturesKept /\ StreamInOrder /\ BuffersReturned)
  /\ Of("portal", CastsTheDisplay /\ TokenIsFresh)
  /\ Of("sound", SoundKept /\ SilenceIsSilence /\ HearsTheDefault)
  /\ Of("pacing", PictureOfItsFrame /\ NothingWithheld /\ CursorWithin)
  /\ Of("kms", FilesOwned /\ CursorAsShown /\ PacedEvenly /\ BlendedWithin)
  /\ Of("screencopy", PictureIsCopied /\ NoBufferLost)
  /\ Of("pulse", NullSinksOnce /\ HearsItsSink)

(* The virtual devices of a client do what it does with its own.           *)
DevicesFollow ==
  /\ Of("pointers", ContactsFollow /\ SlotsDistinct)
  /\ Of("gamepads", RumbleTold /\ FingersShown /\ PadsServed)

(* What threads, clients and the user tell the host is not lost: an event  *)
(* or element raised is seen by who waits for it, in its order; a request  *)
(* is answered whole, and a stream sent where it is awaited; quitting and  *)
(* restarting are heeded; the network is told of the host, by the name it  *)
(* has.                                                                    *)
NothingGoesAstray ==
  /\ Of("mail", NobodySleepsOn /\ TakenInOrder /\ PostShared /\ SharedAlive)
  /\ Of("rtsp", WholeRequest /\ RequestAnswered /\ EncryptionAgreed /\ BitrateFits)
  /\ Of("messages", SentWhereAwaited /\ PingsAreHeard /\ FeedbackInOrder /\ HdrIsKnown)
  /\ Of("life", QuitIsHeeded /\ RestartIsHeeded /\ InConsoleSession /\ LoopLeftInTime)
  /\ Of("announcement", KeepsAnnouncing /\ AnnouncedByName /\ ReferenceHeld)

(* What the user and the client choose is what the host uses: settings and *)
(* apps are those that were saved or edited, the display is the one they   *)
(* named, and pictures come no faster than was asked for.                  *)
ChoicesAreHeeded ==
  /\ Of("settings", SettingsFollow /\ SavedIsRead)
  /\ Of("apps", EditsTheChosen /\ ServedAreSaved /\ IdsDistinct /\ LaunchesTheKnown)
  /\ Of("kms", NameOpensListed)
  /\ Of("screencopy", MonitorChosen)
  /\ Of("pacing", PacedForClient)
===============================================================================
