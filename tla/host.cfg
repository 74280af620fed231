SPECIFICATION Spec
CONSTANTS
  Payloads = {1, 71561, 213688, 213689, 854777, 4200000}
  PacketSizes = {16, 1024}
  Percentages = {1, 20, 255}
  MinParities = {0, 2, 3}
  MaxFrames = 2
  SeqWrap = 8
  MaxFrame = 3
  DpbSize = 3
  MaxAsked = 2
  Wide = 64
  NoRequest = NoRequest
  Encoders <- EncoderList
  Codecs = {"hevc", "av1"}
  Modes = {0, 1, 2, 3}
  Abilities = {{}, {"known"}, {"known", "auto"}, {"known", "auto", "max", "hdr", "yuv444"}}
  H264Only = {"e2"}
  Yuv444Support = {"e1"}
  NoEncoder = NoEncoder
  Unknown = Unknown
  Topologies = {"t1", "t2"}
  User = "user"
  Extended = "extended"
  Client = "client"
  DeviceSets = {"d1", "d2"}
  Nothing = Nothing
  AudioStreams = {s1, s2}
  Virtuals = {"stereo", "surround"}
  UserSink = "speakers"
  OtherSink = "other"
  AudioSinks = {"other"}
  MaxChecks = 2
  NoContext = NoContext
  Ports = {"rtsp", "video"}
  HostValue = "on"
  OtherValues = {"none", "off"}
  Images = {i1, i2, i3}
  Pointers = {"a", "b", "c"}
  TouchSlots = 2
  PadSlots = {p1, p2}
  Fingers = {"a", "b"}
  Levels = {0, 1}
  MaxPads = 2
  MaxRumbles = 1
  Touched = {p1}
  Tracks = 2
  Buffers = {"b1", "b2"}
  MaxPictures = 3
  Displays = {"dp", "hdmi"}
  MaxSessions = 4
  Rates <- EncodeRates
  EncodersTried = {"nvenc", "quicksync", "mediafoundation", "software", "vaapi"}
  MinThreads = 2
  VbvIncrease = 150
  FixedGop = 2
  MaxEncoded = 4
  Users = {u1, u2, u3}
  MaxElements = 2
  MaxRaised = 4
  MaxPosts = 4
  Heads = {1, 2}
  Bodies = {0, 2}
  BufSize = 8
  Profiles <- RtspProfiles
  Maximum = 20000
  Required = {"packetSize", "maxFPS"}
  Watchers = {"w1", "w2"}
  Streams <- WaitingStreams
  Pings <- ComingPings
  Legacy = {"w2"}
  AddressOf <- MessageAddresses
  NewsLimit = 3
  FeedbackLimit = 2
  MaxMade = 3
  MaxSent = 1
  SampleSize = 2
  EndpointSize = 2
  MaxRecorded = 4
  Roles = {"console", "communications"}
  SoundDevices = {"desk", "headset"}
  Speakers = "steam"
  MaxStreams = 1
  MaxMeddling = 1
  ConfigLines <- UserLines
  ConfigArgs <- UserArgs
  SavedValues <- UiValues
  MaxLines = 2
  Second = 4
  Timeout = 1
  ClientRate = 2
  ExactRate <- NoExactRate
  Refreshes <- RefreshRates
  Pool = {"x", "y"}
  MaxTime = 4
  CursorWidths = {4, 8}
  ImageWidth = 11
  ByteBits = 4
  Layouts <- CardLayouts
  DeviceType = "vaapi"
  NvencChosen = FALSE
  KmsImages = {"k1", "k2"}
  Files = 4
  FrameBuffers = {1, 2}
  Shapes = {"arrow", "hand"}
  MaxSerial = 2
  Delay = 2
  LastTick = 7
  ScreenWidth = 6
  CursorSizes = {1, 3}
  MaxCopies = 3
  ShotImages = {1}
  Monitors <- MonitorSets
  FromView <- ReadAs
  Platforms = {"service", "console", "unix"}
  Consoles = {"s1", "s2"}
  MaxHosts = 2
  MaxAsks = 2
  MaxChanges = 1
  AppNames <- NamesOfApps
  FirstApps <- AppsBefore
  Editors = {"p"}
  MaxEdits = 2
  Entries <- AppsEntered
  ShortText <- OneDigit
  EnvValue <- ValueOf
  NullSinks = {"stereo", "surround"}
  UserSinks = {"speakers", "headset"}
  NoSink = ""
  MaxShortLists = 1
  MaxNames = 3
  MaxWaiting = 3
VIEW PartOfRun
INVARIANTS
  TypeOK
  StreamIsDecodable
  LeftAsFound
  CaptureIsTrue
  DevicesFollow
  NothingGoesAstray
  ChoicesAreHeeded
CHECK_DEADLOCK FALSE
