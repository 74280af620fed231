---------------------------- MODULE HostPartsProofs ----------------------------
(***************************************************************************)
(* The parts of the host that change something of the user's machine, the  *)
(* virtual devices of the clients, the events threads wait for, and what   *)
(* the stream is made of: an inductive invariant for each, from which it   *)
(* follows that what was changed is given back, that the devices do what   *)
(* the clients do, that no event is lost and that what is sent can be put  *)
(* together and decoded.  HostProofs puts them together.                   *)
(***************************************************************************)
EXTENDS DisplayDevice, AudioContext, PortMappings, NvPrefs, WindowsSound, HostLife,
        PulseSound, Announcement, PointerDevice, VirtualGamepads, Mail, RefFrames,
        EncodeSession, EncoderProbe, FramePackets, FiniteSetTheorems, SequenceTheorems,
        WellFoundedInduction, TLAPS

-------------------------------------------------------------------------------
(* The display device.                                                     *)

(* What a task can be to apply.                                            *)
Configurations ==
  [topology : Topologies \cup {Nothing}, changes : SUBSET {"resolution", "rate", "hdr"},
   sops : BOOLEAN]
AllowedChange(c) == "resolution" \in c.changes => c.sops

(* What is saved leads home from whatever the display is like, and without *)
(* it the display is home.                                                 *)
Homeward(d, s) ==
  /\ s = Nothing => d = home
  /\ s # Nothing =>
       /\ s.topology = home.topology
       /\ (IF s.mode = Nothing THEN d.mode ELSE s.mode) = home.mode
DisplayInv ==
  /\ display \in Displayed /\ home \in Displayed /\ saved \in Saved \cup {Nothing}
  /\ devices \in DeviceSets
  /\ Homeward(display, saved)
  /\ retry # Nothing /\ retry.kind # "revert" =>
       /\ retry.kind = "apply"
       /\ retry.configuration \in Configurations /\ AllowedChange(retry.configuration)
  /\ retry # Nothing /\ retry.kind = "revert" => retry.tried \in DeviceSets \cup {Nothing}
  /\ RevertIsPending /\ NoStaleTask

-----------------------------------------------------------------------------
(* A call that asks for a configuration asks for one of them, and changes  *)
(* the resolution only if the client allowed that.                         *)
LEMMA CallsAreAllowed ==
  ASSUME NEW chosenCall \in Calls, chosenCall.outcome = "configure"
  PROVE  chosenCall.configuration \in Configurations /\ AllowedChange(chosenCall.configuration)
<1>1. PICK o \in Options, r \in Requests, t \in Topologies :
        chosenCall = [outcome |-> Parsed(o, r),
                configuration |-> IF Parsed(o, r) = "configure" THEN Configuration(o, r, t)
                                  ELSE Nothing]
  BY DEF Calls
<1>2. chosenCall.configuration = Configuration(o, r, t)
  BY <1>1
<1>3. RemapGives(o, r) \subseteq {"resolution", "rate"}
      /\ ("resolution" \in RemapGives(o, r) => r.sops)
  BY DEF RemapGives, EntryGives
<1>4. Changes(o, r) \subseteq {"resolution", "rate", "hdr"}
      /\ ("resolution" \in Changes(o, r) => r.sops)
  BY <1>3 DEF Changes
<1>5. r.sops \in BOOLEAN
  BY DEF Requests
<1> QED  BY <1>2, <1>4, <1>5 DEF Configuration, Configurations, AllowedChange

(* What undoing the modifications leads to has the user's mode.            *)
LEMMA UndoneIsHome ==
  ASSUME DisplayInv
  PROVE  UndoneMode = home.mode /\ UndoneMode \in {User, Client}
<1> QED  BY DEF UndoneMode, DisplayInv, Homeward, Displayed, Saved

(* Whatever a revert comes to, what it leaves leads home; if it succeeds,  *)
(* the display is home.                                                    *)
LEMMA RevertLeadsHome ==
  ASSUME DisplayInv, NEW o \in RevertOutcomes
  PROVE  /\ o.display \in Displayed /\ o.saved \in Saved \cup {Nothing}
         /\ Homeward(o.display, o.saved)
         /\ o.result \in {"ok", "unavailable", "failed"}
         /\ o.result = "ok" => o.display = home
<1> USE DEF Outcome
<1>0. display \in Displayed /\ home \in Displayed /\ saved \in Saved \cup {Nothing}
      /\ Homeward(display, saved) /\ Nothing \notin {User, Client} /\ Nothing \notin Saved
  BY DisplayAssumption DEF DisplayInv
<1>1. CASE saved = Nothing
  BY <1>0, <1>1 DEF RevertOutcomes, Homeward
<1>2. CASE saved # Nothing
  <2>0. saved \in Saved /\ Extended \in Kept
    BY <1>0, <1>2 DEF Kept
  <2>1. UndoneMode = home.mode /\ UndoneMode \in {User, Client}
    BY UndoneIsHome
  <2>2. /\ Cleared \in Saved /\ Cleared.topology = saved.topology /\ Cleared.mode = Nothing
    BY <2>0 DEF Cleared, Saved
  <2>3. CASE o = Unavailable
    BY <2>3, <1>0 DEF Unavailable
  <2>4. CASE o = Reverted
    BY <2>4, <2>0, <2>1, <1>0, <1>2 DEF Reverted, Homeward, Displayed, Saved
  <2>5. ASSUME NEW d \in AllOn(display.mode), o = Outcome(d, saved, "failed")
        PROVE  /\ o.display \in Displayed /\ o.saved \in Saved \cup {Nothing}
               /\ Homeward(o.display, o.saved)
               /\ o.result \in {"ok", "unavailable", "failed"}
               /\ o.result = "ok" => o.display = home
    <3>1. d \in Displayed /\ d.mode = display.mode
      BY <2>0, <1>0 DEF AllOn, Displayed
    <3> QED  BY <3>1, <2>5, <2>0, <1>0, <1>2 DEF Homeward
  <2>6. ASSUME NEW d \in AllOn(UndoneMode), o = Outcome(d, Cleared, "failed")
        PROVE  /\ o.display \in Displayed /\ o.saved \in Saved \cup {Nothing}
               /\ Homeward(o.display, o.saved)
               /\ o.result \in {"ok", "unavailable", "failed"}
               /\ o.result = "ok" => o.display = home
    <3>1. d \in Displayed /\ d.mode = UndoneMode
      BY <2>0, <2>1, <1>0 DEF AllOn, Displayed
    <3>2. Homeward(d, Cleared)
      BY <3>1, <2>0, <2>1, <2>2, <1>0, <1>2 DEF Homeward
    <3> QED  BY <3>1, <3>2, <2>6, <2>2
  <2> QED  BY <2>3, <2>4, <2>5, <2>6, <1>2 DEF RevertOutcomes
<1> QED  BY <1>1, <1>2

(* Whatever applying settings comes to, what it leaves leads home.         *)
LEMMA ApplyLeadsHome ==
  ASSUME DisplayInv, NEW c \in Configurations, NEW o \in ApplyOutcomes(c)
  PROVE  /\ o.display \in Displayed /\ o.saved \in Saved \cup {Nothing}
         /\ Homeward(o.display, o.saved)
<1> USE DEF Outcome
<1>0. display \in Displayed /\ home \in Displayed /\ saved \in Saved \cup {Nothing}
      /\ Homeward(display, saved) /\ Nothing \notin {User, Client} /\ Nothing \notin Saved
  BY DisplayAssumption DEF DisplayInv
<1>1. UndoneMode = home.mode /\ UndoneMode \in {User, Client}
  BY UndoneIsHome
<1>2. Initial = home.topology /\ Initial \in Kept
  BY <1>0 DEF Initial, Homeward, Displayed, Saved
<1>3. Target(c) \in Kept
  BY <1>2 DEF Target, Configurations, Kept
<1>4. Original(c) = home.mode /\ Original(c) \in {User, Client}
  BY <1>0, <1>1 DEF Original, MustUndo, Homeward, Displayed, Saved
<1>5. CASE o = Unavailable \/ o = Outcome(display, saved, "failed")
  BY <1>5, <1>0 DEF Unavailable
<1>6. CASE o = Applied(c)
  <2>1. o.display \in Displayed /\ o.saved \in Saved
    BY <1>6, <1>2, <1>3, <1>4 DEF Applied, Displayed, Saved
  <2>2. Homeward(o.display, o.saved)
    BY <2>1, <1>6, <1>0, <1>2, <1>4 DEF Applied, Homeward
  <2> QED  BY <2>1, <2>2
<1>7. CASE MustUndo(c) /\ o = Outcome([display EXCEPT !.mode = UndoneMode], Cleared, "failed")
  <2>1. saved \in Saved
    BY <1>7, <1>0 DEF MustUndo
  <2>2. /\ Cleared \in Saved /\ Cleared.topology = saved.topology /\ Cleared.mode = Nothing
    BY <2>1 DEF Cleared, Saved
  <2>3. o.display \in Displayed /\ o.display.mode = UndoneMode
    BY <1>7, <1>1, <1>0 DEF Displayed
  <2>4. o.saved = Cleared
    BY <1>7
  <2>5. Homeward(o.display, Cleared)
    BY <2>1, <2>2, <2>3, <1>0, <1>1, <1>7 DEF Homeward, MustUndo
  <2> QED  BY <2>2, <2>3, <2>4, <2>5
<1> QED  BY <1>5, <1>6, <1>7 DEF ApplyOutcomes

(* A task to apply settings, at once or retried.                           *)
LEMMA AppliesSoundly ==
  ASSUME DisplayInv, NEW c \in Configurations, AllowedChange(c), RunApply(c),
         UNCHANGED <<devices, home>>, wish' \in {"configure", "unparsed"}
  PROVE  DisplayInv'
<1>1. PICK o \in ApplyOutcomes(c) :
        display' = o.display /\ saved' = o.saved /\ retry' = LeftOfApply(c, o.result)
  BY DEF RunApply, Becomes
<1>2. /\ o.display \in Displayed /\ o.saved \in Saved \cup {Nothing}
      /\ Homeward(o.display, o.saved)
  BY ApplyLeadsHome
<1>3. retry' \in {Nothing, ApplyTask(c)} /\ ApplyTask(c).kind = "apply"
      /\ ApplyTask(c).configuration = c
  BY <1>1 DEF LeftOfApply, ApplyTask
<1>4. display' \in Displayed /\ home' \in Displayed /\ saved' \in Saved \cup {Nothing}
      /\ devices' \in DeviceSets /\ Homeward(display, saved)'
  BY <1>1, <1>2 DEF DisplayInv, Homeward
<1>5. retry' # Nothing =>
        retry'.kind = "apply" /\ retry'.configuration \in Configurations
        /\ AllowedChange(retry'.configuration)
  BY <1>3
<1>6. RevertIsPending' /\ NoStaleTask'
  BY <1>5 DEF RevertIsPending, NoStaleTask
<1> QED  BY <1>4, <1>5, <1>6 DEF DisplayInv, AllowedChange

(* A task to revert them is one.                                           *)
LEMMA RevertTasks ==
  ASSUME NEW t \in DeviceSets \cup {Nothing}
  PROVE  RevertTask(t) # Nothing /\ RevertTask(t).kind = "revert" /\ RevertTask(t).tried = t
<1>1. RevertTask(t) \in [kind : {"revert"}, tried : DeviceSets \cup {Nothing}]
  BY DEF RevertTask
<1> QED  BY <1>1, DisplayAssumption DEF RevertTask

(* What is left of a revert: nothing when the display is home, and a task  *)
(* to revert it otherwise.                                                 *)
LEMMA RevertStays ==
  ASSUME display' \in Displayed, home' \in Displayed, saved' \in Saved \cup {Nothing},
         devices' \in DeviceSets, Homeward(display, saved)', wish' # "configure",
         \/ retry' = Nothing /\ display' = home'
         \/ \E t \in DeviceSets \cup {Nothing} : retry' = RevertTask(t)
  PROVE  DisplayInv'
<1>1. CASE retry' = Nothing /\ display' = home'
  BY <1>1 DEF DisplayInv, RevertIsPending, NoStaleTask
<1>2. ASSUME NEW t \in DeviceSets \cup {Nothing}, retry' = RevertTask(t)
      PROVE  DisplayInv'
  <2>1. retry' # Nothing /\ retry'.kind = "revert" /\ retry'.tried = t
    BY <1>2, RevertTasks
  <2>2. RevertIsPending' /\ NoStaleTask'
    BY <2>1 DEF RevertIsPending, NoStaleTask
  <2> QED  BY <2>1, <2>2 DEF DisplayInv
<1> QED  BY <1>1, <1>2

(* A task to revert, at once or retried.                                   *)
LEMMA RevertsSoundly ==
  ASSUME DisplayInv, NEW tried \in DeviceSets \cup {Nothing}, RunRevert(tried),
         UNCHANGED <<devices, home>>, wish' # "configure"
  PROVE  DisplayInv'
<1>0. display \in Displayed /\ home \in Displayed /\ saved \in Saved \cup {Nothing}
      /\ devices \in DeviceSets /\ Homeward(display, saved)
  BY DEF DisplayInv
<1>1. CASE tried = devices
  <2>1. UNCHANGED <<display, saved>> /\ retry' = RevertTask(tried)
    BY <1>1 DEF RunRevert
  <2>2. Homeward(display, saved)'
    BY <2>1, <1>0 DEF Homeward
  <2> QED  BY <2>1, <2>2, <1>0, RevertStays
<1>2. CASE tried # devices
  <2>1. PICK o \in RevertOutcomes :
          display' = o.display /\ saved' = o.saved /\ retry' = LeftOfRevert(tried, o.result)
    BY <1>2 DEF RunRevert, Becomes
  <2>2. /\ o.display \in Displayed /\ o.saved \in Saved \cup {Nothing}
        /\ Homeward(o.display, o.saved)
        /\ o.result \in {"ok", "unavailable", "failed"}
        /\ o.result = "ok" => o.display = home
    BY RevertLeadsHome
  <2>3. Homeward(display, saved)'
    BY <2>1, <2>2 DEF Homeward
  <2>4. \/ retry' = Nothing /\ display' = home'
        \/ \E t \in DeviceSets \cup {Nothing} : retry' = RevertTask(t)
    <3>1. CASE o.result = "ok"
      BY <3>1, <2>1, <2>2 DEF LeftOfRevert
    <3>2. CASE o.result = "unavailable"
      <4>1. retry' = RevertTask(tried)
        BY <3>2, <2>1 DEF LeftOfRevert
      <4> QED  BY <4>1
    <3>3. CASE o.result = "failed"
      <4>1. retry' = RevertTask(devices)
        BY <3>3, <2>1 DEF LeftOfRevert
      <4> QED  BY <4>1, <1>0
    <3> QED  BY <3>1, <3>2, <3>3, <2>2
  <2> QED  BY <2>1, <2>2, <2>3, <2>4, <1>0, RevertStays
<1> QED  BY <1>1, <1>2

(* revert_configuration(), at once or with the delay.                      *)
LEMMA RevertConfigurationKeeps ==
  ASSUME DisplayInv, RevertConfiguration, UNCHANGED <<devices, home>>, wish' # "configure"
  PROVE  DisplayInv'
<1>1. CASE RunRevert(Nothing)
  BY <1>1, RevertsSoundly
<1>2. CASE retry' = RevertTask(Nothing) /\ UNCHANGED <<display, saved>>
  <2>1. Homeward(display, saved)' /\ Nothing \in DeviceSets \cup {Nothing}
    BY <1>2 DEF DisplayInv, Homeward
  <2>2. display' \in Displayed /\ home' \in Displayed /\ saved' \in Saved \cup {Nothing}
        /\ devices' \in DeviceSets
    BY <1>2 DEF DisplayInv
  <2> QED  BY <1>2, <2>1, <2>2, RevertStays
<1> QED  BY <1>1, <1>2 DEF RevertConfiguration

(* The state in which nothing is left to do but to give the display back.  *)
LEMMA DisplayStarts == DisplayInit => DisplayInv
<1> SUFFICES ASSUME DisplayInit PROVE DisplayInv
  OBVIOUS
<1>1. display \in Displayed /\ home = display
  BY DEF DisplayInit, Displayed, Kept
<1> QED  BY <1>1 DEF DisplayInit, DisplayInv, Homeward, RevertIsPending, NoStaleTask

(* Every step of the display device keeps its invariant.                   *)
LEMMA DisplayGoesOn == DisplayInv /\ [DisplayNext]_displayVars => DisplayInv'
<1> SUFFICES ASSUME DisplayInv, [DisplayNext]_displayVars PROVE DisplayInv'
  OBVIOUS
<1>0. display \in Displayed /\ home \in Displayed /\ saved \in Saved \cup {Nothing}
      /\ devices \in DeviceSets /\ Homeward(display, saved)
  BY DEF DisplayInv
<1>1. ASSUME NEW chosenCall \in Calls, ConfigureDisplay(chosenCall) PROVE DisplayInv'
  <2>1. CASE /\ chosenCall.outcome = "configure" /\ wish' = "configure"
             /\ RunApply(chosenCall.configuration)
    <3>1. chosenCall.configuration \in Configurations /\ AllowedChange(chosenCall.configuration)
      BY <2>1, CallsAreAllowed
    <3>2. UNCHANGED <<devices, home>>
      BY <1>1 DEF ConfigureDisplay
    <3> QED  BY <3>1, <3>2, <2>1, AppliesSoundly
  <2>2. CASE wish' = "revert" /\ RevertConfiguration
    <3>1. UNCHANGED <<devices, home>>
      BY <1>1 DEF ConfigureDisplay
    <3> QED  BY <3>1, <2>2, RevertConfigurationKeeps
  <2>3. CASE wish' = "unparsed" /\ UNCHANGED <<display, saved, retry, devices, home>>
    BY <2>3 DEF DisplayInv, Homeward, RevertIsPending, NoStaleTask
  <2> QED  BY <1>1, <2>1, <2>2, <2>3 DEF ConfigureDisplay
<1>2. CASE Revert
  BY <1>2, RevertConfigurationKeeps DEF Revert
<1>3. CASE Retry
  <2>1. CASE retry.kind = "apply" /\ RunApply(retry.configuration)
    <3>1. retry.configuration \in Configurations /\ AllowedChange(retry.configuration)
          /\ UNCHANGED <<devices, home, wish>>
      BY <1>3, <2>1 DEF Retry, DisplayInv
    <3>2. wish' \in {"configure", "unparsed"}
      BY <1>3, <2>1, <3>1 DEF Retry, DisplayInv, NoStaleTask
    <3> QED  BY <3>1, <3>2, <2>1, AppliesSoundly
  <2>2. CASE retry.kind = "revert" /\ RunRevert(retry.tried)
    <3>1. retry.tried \in DeviceSets \cup {Nothing} /\ UNCHANGED <<devices, home, wish>>
          /\ wish # "configure"
      BY <1>3, <2>2 DEF Retry, DisplayInv, NoStaleTask
    <3> QED  BY <3>1, <2>2, RevertsSoundly
  <2> QED  BY <1>3, <2>1, <2>2 DEF Retry
<1>4. CASE ResetPersistence
  BY <1>4, <1>0 DEF ResetPersistence, DisplayInv, Homeward, RevertIsPending, NoStaleTask
<1>5. CASE Replug
  BY <1>5, <1>0 DEF Replug, DisplayInv, Homeward, RevertIsPending, NoStaleTask
<1>6. CASE Shutdown
  <2>1. PICK o \in RevertOutcomes : display' = o.display /\ saved' = o.saved
    BY <1>6 DEF Shutdown, Becomes
  <2>2. /\ o.display \in Displayed /\ o.saved \in Saved \cup {Nothing}
        /\ Homeward(o.display, o.saved)
    BY RevertLeadsHome
  <2> QED  BY <1>6, <2>1, <2>2, <1>0
           DEF Shutdown, DisplayInv, Homeward, RevertIsPending, NoStaleTask
<1>7. CASE Crash
  BY <1>7, <1>0 DEF Crash, DisplayInv, Homeward, RevertIsPending, NoStaleTask
<1>8. CASE Start
  BY <1>8, RevertsSoundly DEF Start
<1>9. CASE UNCHANGED displayVars
  BY <1>9, <1>0 DEF displayVars, DisplayInv, Homeward, RevertIsPending, NoStaleTask
<1> QED
  BY <1>1, <1>2, <1>3, <1>4, <1>5, <1>6, <1>7, <1>8, <1>9 DEF DisplayNext

(* With it, the display can be given back.                                 *)
LEMMA DisplayIsGivenBack == DisplayInv => DisplayGivenBack
<1> SUFFICES ASSUME DisplayInv PROVE DisplayGivenBack
  OBVIOUS
<1>1. Restorable
  BY DEF DisplayInv, Homeward, Restorable
<1>2. ResolutionIsAllowed
  BY DEF DisplayInv, AllowedChange, ResolutionIsAllowed
<1> QED  BY <1>1, <1>2 DEF DisplayInv, DisplayGivenBack

-------------------------------------------------------------------------------
(* The audio context.                                                      *)

(* Who can hold the context.                                               *)
SoundHolders == AudioStreams \cup {"display"}

(* The shared reference, whoever is about to change it: the sink is        *)
(* virtual only if it is to be put back or could not be, and a context     *)
(* made while it was virtual takes it for the user's until it goes.        *)
SharedOK(x) ==
  /\ x.holders \subseteq SoundHolders /\ x.sink \in Sinks /\ x.lost \in BOOLEAN
  /\ IF x.holders = {} THEN x.context = NoContext ELSE x.context \in Contexts
  /\ x.sink \in Virtuals => x.lost \/ (x.holders # {} /\ x.context.restore)
  /\ x.holders # {} =>
       /\ x.context.host \in Virtuals => x.lost
       /\ ~x.context.flag => ~x.context.restore

(* The app's reference is in hand only while it holds the context, and a   *)
(* retry is pending only for one that was released or replaced.            *)
Captures == [held : BOOLEAN, released : BOOLEAN, checks : 0..MaxChecks]
AudioInv ==
  /\ SharedOK(Now)
  /\ {there, pending, excused} \subseteq BOOLEAN
  /\ phase \in [AudioStreams -> {"idle", "held", "microphone", "sampling", "deaf"}]
  /\ \A s \in AudioStreams : phase[s] # "idle" => s \in holders
  /\ kept = NotKept \/ (kept \in Captures /\ kept.held /\ "display" \in holders)
  /\ pending => kept.held /\ (kept.released \/ excused)
  /\ early = FALSE

(* A reference taken leaves it so, and only adds a holder.                 *)
LEMMA AcquiredOK ==
  ASSUME NEW c, NEW h, NEW s, NEW l, SharedOK(Shared(c, h, s, l)),
         NEW who \in SoundHolders, NEW y \in Acquired(Shared(c, h, s, l), who)
  PROVE  \E d : y = Shared(d, h \cup {who}, s, l) /\ SharedOK(y)
<1>1. PICK d \in IF h # {} THEN {c}
                 ELSE {[control |-> b, host |-> s, flag |-> FALSE, restore |-> FALSE] :
                         b \in BOOLEAN} :
        y = Shared(d, h \cup {who}, s, l)
  BY DEF Acquired, Shared
<1>3. h # {} => d = c
  BY <1>1
<1>4. h = {} => d \in Contexts /\ d.host = s /\ ~d.flag /\ ~d.restore
  <2> SUFFICES ASSUME h = {} PROVE d \in Contexts /\ d.host = s /\ ~d.flag /\ ~d.restore
    OBVIOUS
  <2>1. PICK b \in BOOLEAN : d = [control |-> b, host |-> s, flag |-> FALSE, restore |-> FALSE]
    BY <1>1
  <2>2. s \in Sinks
    BY DEF SharedOK, Shared
  <2> QED
    BY <2>1, <2>2 DEF Contexts
<1>5. SharedOK(Shared(d, h \cup {who}, s, l))
  BY <1>3, <1>4 DEF SharedOK, Shared
<1> QED
  BY <1>1, <1>5

(* So does a reference dropped, and it only takes its holder away.         *)
LEMMA DroppedOK ==
  ASSUME NEW c, NEW h, NEW s, NEW l, SharedOK(Shared(c, h, s, l)), NEW who \in SoundHolders
  PROVE  \E d, t, f : /\ Dropped(Shared(c, h, s, l), who) = Shared(d, h \ {who}, t, f)
                     /\ SharedOK(Shared(d, h \ {who}, t, f))
<1> DEFINE lastOne == h = {who}
           back == lastOne /\ c.restore
           d == IF lastOne THEN NoContext ELSE c
           t == IF back /\ Settable(c.host) THEN c.host ELSE s
           f == l \/ (back /\ ~Settable(c.host))
<1>1. Dropped(Shared(c, h, s, l), who) = Shared(d, h \ {who}, t, f)
  BY DEF Dropped, Shared
<1>2. c.host \in Sinks \/ ~lastOne
  BY DEF SharedOK, Shared, Contexts
<1>3. SharedOK(Shared(d, h \ {who}, t, f))
  <2>1. CASE h = {who}
    BY <1>2, <2>1 DEF SharedOK, Shared
  <2>2. CASE h # {who}
    <3>1. h \ {who} = {} => h = {}
      BY <2>2
    <3> QED
      BY <2>2, <3>1 DEF SharedOK, Shared
  <2> QED
    BY <2>1, <2>2
<1> QED
  BY <1>1, <1>3

(* What the state becomes is as good as what it was made of.               *)
LEMMA BecomesOK ==
  ASSUME NEW c, NEW h, NEW s, NEW l, SharedOK(Shared(c, h, s, l)),
         ContextBecomes(Shared(c, h, s, l))
  PROVE  SharedOK(Now)' /\ holders' = h
<1>1. /\ context' = c /\ holders' = h /\ sink' = s
      /\ lost' = (l /\ (s \in Virtuals \/ (c # NoContext /\ c.host \in Virtuals)))
  BY DEF Shared, ContextBecomes
<1>2. CASE h = {}
  BY <1>1, <1>2 DEF SharedOK, Shared, Now
<1>3. CASE h # {}
  <2>1. c \in Contexts /\ c # NoContext
    BY <1>3, AudioAssumption DEF SharedOK, Shared
  <2> QED  BY <1>1, <1>3, <2>1 DEF SharedOK, Shared, Now
<1> QED  BY <1>2, <1>3

(* Nobody holds the context and the sink is the user's.                    *)
LEMMA AudioStarts == AudioInit => AudioInv
  BY AudioAssumption DEF AudioInit, AudioInv, SharedOK, Now, Shared, NotKept, Sinks

(* Every step of the streams, the app and the user keeps the invariant.    *)
LEMMA AudioGoesOn == AudioInv /\ [AudioNext]_contextVars => AudioInv'
<1> SUFFICES ASSUME AudioInv, [AudioNext]_contextVars PROVE AudioInv'
  OBVIOUS
<1>0. SharedOK(Shared(context, holders, sink, lost))
  BY DEF AudioInv, Now
<1>1. ASSUME NEW s \in AudioStreams, Hold(s) PROVE AudioInv'
  <2>1. PICK x \in Acquired(Now, s) : ContextBecomes(x)
    BY <1>1 DEF Hold
  <2>2. PICK d : x = Shared(d, holders \cup {s}, sink, lost) /\ SharedOK(x)
    BY <1>0, <2>1, AcquiredOK DEF Now, SoundHolders
  <2>3. SharedOK(Now)' /\ holders' = holders \cup {s}
    BY <2>1, <2>2, BecomesOK
  <2> QED
    BY <1>1, <2>3 DEF AudioInv, Hold, NotKept, Captures
<1>2. ASSUME NEW s \in AudioStreams, ChooseSink(s) PROVE AudioInv'
  <2>1. s \in holders
    BY <1>2 DEF ChooseSink, AudioInv
  <2>2. context \in Contexts
    BY <1>0, <2>1 DEF SharedOK, Shared
  <2>3. SharedOK(Now)'
    <3>1. ASSUME NEW d \in Contexts, NEW t \in Sinks, d.host = context.host,
                 ~d.flag => ~d.restore, t \in Virtuals => lost \/ d.restore,
                 d.host \in Virtuals => lost
          PROVE  SharedOK(Shared(d, holders, t, lost))
      BY <1>0, <2>1, <3>1 DEF SharedOK, Shared
    <3>2. /\ context.host \in Virtuals => lost
          /\ sink \in Virtuals => lost \/ context.restore
          /\ ~context.flag => ~context.restore
          /\ sink \in Sinks /\ context.host \in Sinks
      BY <1>0, <2>1, <2>2 DEF SharedOK, Shared, Contexts
    <3>3. holders' = holders /\ lost' = lost
      BY <1>2 DEF ChooseSink
    <3>4. CASE UNCHANGED <<context, sink>>
      BY <1>0, <3>3, <3>4 DEF Now
    <3>5. CASE context.control /\ ~context.flag /\ ~UNCHANGED <<context, sink>>
      <4>1. PICK want \in {context.host} \cup AudioSinks \cup Virtuals :
              /\ context' = [control |-> TRUE, host |-> context.host, flag |-> TRUE,
                             restore |-> want # context.host]
              /\ sink' = (IF want # context.host THEN want ELSE sink) \/ sink' = sink
        BY <1>2, <3>5 DEF ChooseSink
      <4>2. context' \in Contexts /\ context'.host = context.host /\ context'.flag
              /\ context'.restore = (want # context.host)
        BY <3>2, <4>1 DEF Contexts
      <4>3. sink' \in Sinks
        BY <3>2, <4>1, AudioAssumption DEF Sinks
      <4>4. sink' \in Virtuals => lost \/ context'.restore
        BY <3>2, <3>5, <4>1, <4>2
      <4>5. SharedOK(Shared(context', holders, sink', lost))
        BY <3>1, <3>2, <4>2, <4>3, <4>4
      <4> QED
        BY <3>3, <4>5 DEF Now
    <3> QED
      BY <1>2, <3>4, <3>5 DEF ChooseSink
  <2> QED
    BY <1>2, <2>1, <2>3 DEF AudioInv, ChooseSink, NotKept, Captures
<1>3. ASSUME NEW s \in AudioStreams, Microphone(s) \/ Fail(s) PROVE AudioInv'
  BY <1>3 DEF AudioInv, Microphone, Fail, Now, NotKept
<1>4. ASSUME NEW s \in AudioStreams, Leave(s) PROVE AudioInv'
  <2>1. PICK d, t, f : /\ Dropped(Now, s) = Shared(d, holders \ {s}, t, f)
                       /\ SharedOK(Shared(d, holders \ {s}, t, f))
    BY <1>0, DroppedOK DEF Now, SoundHolders
  <2>2. SharedOK(Now)' /\ holders' = holders \ {s}
    BY <1>4, <2>1, BecomesOK DEF Leave
  <2> QED
    BY <1>4, <2>2, AudioAssumption DEF AudioInv, Leave, NotKept, Captures
<1>5. CASE Capture
  <2>1. PICK c, h, t, f :
          /\ (IF kept.held THEN Dropped(Now, "display") ELSE Now) = Shared(c, h, t, f)
          /\ SharedOK(Shared(c, h, t, f)) /\ holders \ {"display"} \subseteq h
    <3>1. CASE kept.held
      <4>1. PICK d, t, f : /\ Dropped(Now, "display") = Shared(d, holders \ {"display"}, t, f)
                           /\ SharedOK(Shared(d, holders \ {"display"}, t, f))
        BY <1>0, DroppedOK DEF Now, SoundHolders
      <4> QED
        BY <3>1, <4>1
    <3>2. CASE ~kept.held
      BY <1>0, <3>2 DEF Now
    <3> QED
      BY <3>1, <3>2
  <2>2. PICK x \in Acquired(Shared(c, h, t, f), "display") : ContextBecomes(x)
    BY <1>5, <2>1 DEF Capture
  <2>3. PICK d : x = Shared(d, h \cup {"display"}, t, f) /\ SharedOK(x)
    BY <2>1, <2>2, AcquiredOK DEF SoundHolders
  <2>4. SharedOK(Now)' /\ holders' = h \cup {"display"}
    BY <2>2, <2>3, BecomesOK
  <2>5. kept' \in Captures /\ kept'.held /\ excused' = kept.held
    BY <1>5, AudioAssumption DEF Capture, Captures
  <2>6. kept.held \in BOOLEAN
    <3>1. kept = NotKept => kept.held \in BOOLEAN
      BY DEF NotKept
    <3>2. kept \in Captures => kept.held \in BOOLEAN
      BY DEF Captures
    <3> QED
      BY <3>1, <3>2 DEF AudioInv
  <2> QED
    BY <1>5, <2>1, <2>4, <2>5, <2>6 DEF AudioInv, Capture, NotKept, Captures
<1>6. ASSUME TryRelease
      PROVE  /\ SharedOK(Now)' /\ holders \ {"display"} \subseteq holders'
             /\ kept' = NotKept \/ (kept' \in Captures /\ kept'.held /\ "display" \in holders')
             /\ pending' \in BOOLEAN /\ (pending' => kept'.held /\ kept'.released)
  <2>1. CASE kept.held /\ ~Available /\ kept.checks > 0
    <3>1. kept \in Captures /\ "display" \in holders
      BY <2>1 DEF AudioInv, NotKept
    <3>2. kept' = [held |-> TRUE, released |-> TRUE, checks |-> kept.checks - 1]
            /\ pending' = TRUE /\ UNCHANGED <<context, holders, sink, lost>>
      BY <1>6, <2>1 DEF TryRelease
    <3>3. kept' \in Captures /\ kept'.held /\ kept'.released
      BY <2>1, <3>1, <3>2, AudioAssumption DEF Captures
    <3>4. SharedOK(Now)'
      BY <1>0, <3>2 DEF Now
    <3> QED
      BY <3>1, <3>2, <3>3, <3>4
  <2>2. CASE ~(kept.held /\ ~Available /\ kept.checks > 0) /\ kept.held
    <3>1. PICK d, t, f : /\ Dropped(Now, "display") = Shared(d, holders \ {"display"}, t, f)
                         /\ SharedOK(Shared(d, holders \ {"display"}, t, f))
      BY <1>0, DroppedOK DEF Now, SoundHolders
    <3>2. SharedOK(Now)' /\ holders' = holders \ {"display"}
      BY <1>6, <2>2, <3>1, BecomesOK DEF TryRelease
    <3> QED
      BY <1>6, <2>2, <3>2 DEF TryRelease
  <2>3. CASE ~kept.held
    BY <1>6, <2>3 DEF TryRelease, AudioInv, Now
  <2> QED
    BY <2>1, <2>2, <2>3
<1>7. CASE ReleaseCaptured
  <2>1. TryRelease /\ UNCHANGED <<there, phase, early, excused>>
    BY <1>7 DEF ReleaseCaptured
  <2>2. /\ SharedOK(Now)' /\ holders \ {"display"} \subseteq holders'
        /\ pending' \in BOOLEAN /\ (pending' => kept'.held /\ kept'.released)
    BY <1>6, <2>1
  <2>3. (kept = NotKept \/ (kept \in Captures /\ kept.held /\ "display" \in holders))'
    BY <1>6, <2>1 DEF NotKept, Captures
  <2> QED
    BY <2>1, <2>2, <2>3, AudioAssumption DEF AudioInv
<1>8. CASE RetryRelease
  <2>1. kept.held /\ (kept.released \/ excused)
    BY <1>8 DEF RetryRelease, AudioInv
  <2> QED
    <3>1. TryRelease /\ UNCHANGED <<there, phase, excused>> /\ early' = FALSE
      BY <1>8, <2>1 DEF RetryRelease, AudioInv
    <3>2. /\ SharedOK(Now)' /\ holders \ {"display"} \subseteq holders'
          /\ pending' \in BOOLEAN /\ (pending' => kept'.held /\ kept'.released)
      BY <1>6, <3>1
    <3>3. (kept = NotKept \/ (kept \in Captures /\ kept.held /\ "display" \in holders))'
      BY <1>6, <3>1 DEF NotKept, Captures
    <3> QED
      BY <3>1, <3>2, <3>3, AudioAssumption DEF AudioInv
<1>9. CASE SinkGoes
  <2>1. SharedOK(Now)'
    BY <1>0, <1>9, AudioAssumption DEF SinkGoes, SharedOK, Shared, Now, Sinks
  <2> QED
    BY <1>9, <2>1 DEF SinkGoes, AudioInv, NotKept
<1>10. CASE SinkReturns
  BY <1>10 DEF SinkReturns, AudioInv, Now, NotKept
<1>11. CASE UNCHANGED contextVars
  BY <1>11 DEF contextVars, AudioInv, Now, NotKept
<1> QED
  BY <1>1, <1>2, <1>3, <1>4, <1>5, <1>7, <1>8, <1>9, <1>10, <1>11 DEF AudioNext

(* With it, the sink is given back with the last reference.                *)
LEMMA AudioGivenBack == AudioInv => SoundGivenBack
  BY AudioAssumption
  DEF AudioInv, SharedOK, Now, Shared, SoundGivenBack, SinkGivenBack, KeptUntilReleased

-------------------------------------------------------------------------------
(* The ports of the router.                                                *)

(* The invariant: what the thread has not come to when it unmaps.  *)
PortInv ==
  /\ PortTypeOK
  /\ work = "wait" /\ found => mapped
  /\ work = "unmap" => \A p \in Ports : rule[p] \in Ours => p \in refused \cup todo
  /\ PortsClosed

(* The thread starts with nothing found and nothing mapped.                *)
LEMMA PortsStart == PortInit => PortInv
  BY DEF PortInit, PortInv, PortTypeOK, PortsClosed, Ours

(* Every step of the thread and the router keeps the invariant.            *)
LEMMA PortsGoOn == PortInv /\ [PortNext]_portVars => PortInv'
<1> SUFFICES ASSUME PortInv, [PortNext]_portVars PROVE PortInv'
  OBVIOUS
<1> USE DEF PortInv, PortTypeOK, PortsClosed, Ours
<1>1. CASE DiscoverFails
  BY <1>1 DEF DiscoverFails
<1>2. CASE Discover
  BY <1>2 DEF Discover
<1>3. CASE MappingDone
  BY <1>3 DEF MappingDone
<1>4. CASE Refresh
  BY <1>4 DEF Refresh
<1>5. CASE Terminate
  BY <1>5 DEF Terminate
<1>6. CASE UnmappingDone
  BY <1>6 DEF UnmappingDone
<1>7. ASSUME NEW p \in Ports, MapPort(p) PROVE PortInv'
  BY <1>7 DEF MapPort, Mapped
<1>8. ASSUME NEW p \in Ports, UnmapPort(p) PROVE PortInv'
  BY <1>8 DEF UnmapPort
<1>9. CASE EndProgram
  BY <1>9 DEF EndProgram
<1>10. CASE RouterChanges
  BY <1>10 DEF RouterChanges
<1>11. CASE UNCHANGED portVars
  BY <1>11 DEF portVars
<1> QED BY <1>1, <1>2, <1>3, <1>4, <1>5, <1>6, <1>7, <1>8, <1>9, <1>10, <1>11 DEF PortNext

-------------------------------------------------------------------------------
(* The settings of the graphics driver.                                    *)

(* The steps of the sections, by what they are for.                        *)
Recovering == {"recover", "recover: save", "recover: delete"}
Changing == {"profile", "global", "create", "clear", "write", "commit"}
GivingBack == {"give back", "give back: save", "give back: delete"}

(* Which section runs where in the host's life, and what it has in hand.   *)
NvSections ==
  /\ step \in {"none"} \cup Recovering \cup Changing \cup GivingBack
  /\ step # "none" =>
       /\ section = "tool" => step \in Recovering
       /\ section \in {"start", "stream"} => life = "up" /\ step \in Recovering \cup Changing
       /\ section = "end" => life = "ending" /\ step \in GivingBack
       /\ section = "exit" => life = "leaving" /\ step \in GivingBack
  /\ life = "down" => handle = "none"
  /\ handle = "closed" => undoFile = NoFile
  /\ Owning => undo \in OtherValues
  /\ step \in {"recover: save", "recover: delete"} => handle # "open"
  /\ step = "create" => newer \in OtherValues
  /\ step = "clear" => Owning
  /\ step \in {"write", "commit"} => handle = "open"
  /\ step \in GivingBack => Owning

(* The user's choice is never out of reach: it is the setting, or it is in *)
(* the undo file, in undo_data or in the copy the next call saves.         *)
NvWish ==
  ~givenUp =>
    /\ setting # userWish => setting = HostValue /\ undoFile = userWish
    /\ undoFile # NoFile \/ Owning => userWish # HostValue
    /\ Owning /\ setting = HostValue => undo = userWish
    /\ step \in {"recover", "recover: delete", "profile", "global", "give back"} =>
         copy = setting
    /\ step \in {"recover: save", "give back: save"} => copy = userWish
    /\ step \in {"recover: delete", "give back: delete"} => setting = userWish
    /\ step = "create" => newer = userWish
    /\ step \in {"create", "clear", "write", "commit"} =>
         setting = userWish /\ userWish # HostValue
    /\ step \in {"clear", "write", "commit"} => undo = userWish /\ copy = HostValue
    /\ step = "create" => copy = HostValue
    /\ step = "commit" => undoFile = userWish

(* In a run of the host without a failed call the undo file is there only  *)
(* while the host has it open.                                             *)
NvSmooth ==
  smooth =>
    /\ handle # "closed"
    /\ life = "down" => undoFile = NoFile
    /\ ~(section = "start" /\ step \in Recovering) => undoFile = NoFile \/ handle = "open"
    /\ life \in {"ending", "leaving"} /\ ~(section \in {"end", "exit"} /\ step \in GivingBack) =>
         handle = "none"

NvInv == NvTypeOK /\ NvSections /\ NvWish /\ NvSmooth

(* The driver has the user's setting and no undo file.                     *)
LEMMA NvStarts == NvInit => NvInv
  BY NvAssumption
  DEF NvInit, NvInv, NvTypeOK, NvSections, NvWish, NvSmooth, Sections, Recovering,
     Changing, GivingBack, Owning, NoFile, Unreadable, NoUndo

(* Every step of a section, every failed call and every crash keeps it.    *)
LEMMA NvGoesOn == NvInv /\ [NvNext]_nvVars => NvInv'
<1> SUFFICES ASSUME NvInv, [NvNext]_nvVars PROVE NvInv'
  OBVIOUS
<1> USE NvAssumption DEF NvInv, NvTypeOK, NvSections, NvWish, NvSmooth, Sections, Recovering,
     Changing, GivingBack, Owning, NoFile, Unreadable, NoUndo, Goto, Went, Failed, driver, mine
<1>1. ASSUME NEW s \in Sections, Enter(s) PROVE NvInv'
  <2>1. CASE s = "start"
    <3>1. LifeBefore(s) = {"down"} /\ LifeAfter(s) = "up" /\ FirstStep(s) = "recover"
      BY <2>1 DEF LifeBefore, LifeAfter, FirstStep
    <3> QED
      BY <1>1, <2>1, <3>1 DEF Enter
  <2>2. CASE s = "stream"
    <3>1. LifeBefore(s) = {"up"} /\ LifeAfter(s) = life
            /\ FirstStep(s) = (IF Owning THEN "profile" ELSE "recover")
      BY <2>2 DEF LifeBefore, LifeAfter, FirstStep
    <3> QED
      BY <1>1, <2>2, <3>1 DEF Enter
  <2>3. CASE s = "end"
    <3>1. LifeBefore(s) = {"up"} /\ LifeAfter(s) = "ending"
            /\ FirstStep(s) = (IF Owning THEN "give back" ELSE "none")
      BY <2>3 DEF LifeBefore, LifeAfter, FirstStep
    <3> QED
      BY <1>1, <2>3, <3>1 DEF Enter
  <2>4. CASE s = "exit"
    <3>1. LifeBefore(s) = {"up", "ending"} /\ LifeAfter(s) = "leaving"
            /\ FirstStep(s) = (IF Owning THEN "give back" ELSE "none")
      BY <2>4 DEF LifeBefore, LifeAfter, FirstStep
    <3> QED
      BY <1>1, <2>4, <3>1 DEF Enter
  <2>5. CASE s = "tool"
    <3>1. LifeAfter(s) = life /\ FirstStep(s) = "recover"
      BY <2>5 DEF LifeAfter, FirstStep
    <3> QED
      BY <1>1, <2>5, <3>1 DEF Enter
  <2> QED
    BY <1>1, <2>1, <2>2, <2>3, <2>4, <2>5 DEF Sections
<1>2. ASSUME NEW v \in OtherValues \cup {HostValue}, UserChooses(v) PROVE NvInv'
  BY <1>2 DEF UserChooses
<1>3. CASE Vanish
  BY <1>3 DEF Vanish
<1>4. CASE NothingToRecover
  BY <1>4 DEF NothingToRecover, AfterRecovery
<1>5. CASE CannotOpen
  BY <1>5 DEF CannotOpen, AfterRecovery
<1>6. CASE ReadUndo
  <2> USE <1>6 DEF ReadUndo, Restored
  <2>1. NvTypeOK' OBVIOUS
  <2>2. NvSections' OBVIOUS
  <2>3. NvWish'
    <3>1. step = "recover" /\ (~givenUp => copy = setting)
      BY DEF NvWish
    <3>2. CASE undoFile \in OtherValues /\ copy' = Restored(undoFile)
               /\ Went("recover: save") /\ UNCHANGED givenUp
      BY <3>1, <3>2
    <3>3. CASE undoFile = Unreadable /\ Went("recover: delete") /\ UNCHANGED <<copy, givenUp>>
      BY <3>1, <3>3
    <3>4. CASE Failed("recover: delete") /\ givenUp' = TRUE /\ UNCHANGED copy
      BY <3>4
    <3> QED
      BY <3>2, <3>3, <3>4
  <2>4. NvSmooth' OBVIOUS
  <2> QED BY <2>1, <2>2, <2>3, <2>4
<1>7. CASE SaveRecovered
  <2> USE <1>7 DEF SaveRecovered
  <2>1. NvTypeOK' OBVIOUS
  <2>2. NvSections' OBVIOUS
  <2>3. NvWish' OBVIOUS
  <2>4. NvSmooth' OBVIOUS
  <2> QED BY <2>1, <2>2, <2>3, <2>4
<1>8. CASE DeleteRecovered
  <2> USE <1>8 DEF DeleteRecovered, AfterRecovery
  <2>1. NvTypeOK' OBVIOUS
  <2>2. NvSections' OBVIOUS
  <2>3. NvWish' OBVIOUS
  <2>4. NvSmooth' OBVIOUS
  <2> QED BY <2>1, <2>2, <2>3, <2>4
<1>9. CASE ModifyApplication
  <2> USE <1>9 DEF ModifyApplication
  <2>1. NvTypeOK' OBVIOUS
  <2>2. NvSections' OBVIOUS
  <2>3. NvWish' OBVIOUS
  <2>4. NvSmooth' OBVIOUS
  <2> QED BY <2>1, <2>2, <2>3, <2>4
<1>10. CASE LeaveGlobal
  <2> USE <1>10 DEF LeaveGlobal
  <2>1. NvTypeOK' OBVIOUS
  <2>2. NvSections' OBVIOUS
  <2>3. NvWish' OBVIOUS
  <2>4. NvSmooth' OBVIOUS
  <2> QED BY <2>1, <2>2, <2>3, <2>4
<1>11. CASE ModifyCopy
  BY <1>11 DEF ModifyCopy
<1>12. CASE CreateUndoFile
  <2> USE <1>12 DEF CreateUndoFile, Merged
  <2>1. NvTypeOK' OBVIOUS
  <2>2. NvSections' OBVIOUS
  <2>3. NvWish' OBVIOUS
  <2>4. NvSmooth' OBVIOUS
  <2> QED BY <2>1, <2>2, <2>3, <2>4
<1>13. CASE ClearUndoFile
  BY <1>13 DEF ClearUndoFile
<1>14. CASE WriteUndoFile
  BY <1>14 DEF WriteUndoFile
<1>15. CASE WriteFails
  BY <1>15 DEF WriteFails
<1>16. CASE Commit
  BY <1>16 DEF Commit
<1>17. CASE GiveBack
  <2> USE <1>17 DEF GiveBack, Restored
  <2>1. NvTypeOK' OBVIOUS
  <2>2. NvSections' OBVIOUS
  <2>3. NvWish' OBVIOUS
  <2>4. NvSmooth' OBVIOUS
  <2> QED BY <2>1, <2>2, <2>3, <2>4
<1>18. CASE SaveGivenBack
  <2> USE <1>18 DEF SaveGivenBack
  <2>1. NvTypeOK' OBVIOUS
  <2>2. NvSections' OBVIOUS
  <2>3. NvWish' OBVIOUS
  <2>4. NvSmooth' OBVIOUS
  <2> QED BY <2>1, <2>2, <2>3, <2>4
<1>19. CASE DeleteGivenBack
  BY <1>19 DEF DeleteGivenBack
<1>20. CASE CrashHost
  BY <1>20 DEF CrashHost
<1>21. CASE CrashTool
  BY <1>21 DEF CrashTool
<1>22. CASE UNCHANGED nvVars
  <2> USE <1>22 DEF nvVars
  <2>1. NvTypeOK' OBVIOUS
  <2>2. NvSections' OBVIOUS
  <2>3. NvWish' OBVIOUS
  <2>4. NvSmooth' OBVIOUS
  <2> QED BY <2>1, <2>2, <2>3, <2>4
<1> QED
  BY <1>1, <1>2, <1>3, <1>4, <1>5, <1>6, <1>7, <1>8, <1>9, <1>10, <1>11, <1>12, <1>13, <1>14,
       <1>15, <1>16, <1>17, <1>18, <1>19, <1>20, <1>21, <1>22 DEF NvNext

(* With it, the user's choice can be given back.                           *)
LEMMA NvGivenBack == NvInv => DriverGivenBack
  BY NvAssumption DEF NvInv, NvTypeOK, NvSections, NvWish, NvSmooth, DriverGivenBack, NoFile

-------------------------------------------------------------------------------
(* The default sound device (Windows).                                     *)

(* What a default can be.                                                  *)
Endpoints == SoundDevices \cup {Speakers, ""}

(* The default devices are devices there are; there is none only when      *)
(* there is no device.                                                     *)
UsableDefaults(a, d, f) ==
  /\ f \in [Roles -> Endpoints]
  /\ \A r \in Roles : f[r] \in Usable(a, d) \cup {""}
  /\ \A r \in Roles : f[r] = "" => Usable(a, d) = {}
DefaultsUsable ==
  /\ present \subseteq SoundDevices \cup {Speakers} /\ disabled \in BOOLEAN
  /\ UsableDefaults(present, disabled, defaults) /\ foundAs \in [Roles -> Endpoints]
  /\ {hostSink, wanted} \subseteq Endpoints
  /\ disabled => Speakers \in present
  /\ hostAt = "resetting" => Speakers \in present /\ ~disabled
  /\ hostAt = "disabled" => disabled

(* What a session of the host finds and must give back.                    *)
AsFound ==
  IF \A r \in Roles : foundAs[r] = foundAs["console"] THEN defaults = foundAs
  ELSE defaults["console"] = foundAs["console"]
InSession == {"opened", "chosen", "listens", "listens again", "capturing", "reopen", "deaf"}
SessionFound ==
  ~meddled /\ ~notTaken /\ hostAt \in InSession =>
    /\ hostSink = foundAs["console"]
    /\ ~restores => AsFound /\ assigned = ""
SinkInv ==
  /\ {meddled, notTaken, restores} \subseteq BOOLEAN
  /\ DefaultsUsable
  /\ hostAt = "opened" => ~restores
  /\ SessionFound
  /\ DefaultGivenBack

(* What Windows chooses when a device goes or comes.                       *)
LEMMA NewDefaultsUsable ==
  ASSUME NEW a \in SUBSET (SoundDevices \cup {Speakers}), NEW d \in BOOLEAN,
         NEW roles \in [Roles -> Endpoints], NEW new \in NewDefaults(a, d, roles)
  PROVE  UsableDefaults(a, d, new)
<1>1. PICK pick \in IF Usable(a, d) = {} THEN {""} ELSE Usable(a, d) :
        new = [r \in Roles |-> IF roles[r] \in Usable(a, d) THEN roles[r] ELSE pick]
  BY DEF NewDefaults
<1>2. Usable(a, d) \subseteq SoundDevices \cup {Speakers} /\ "" \notin Usable(a, d)
  BY SoundAssumption DEF Usable
<1> QED
  BY <1>1, <1>2 DEF Endpoints, UsableDefaults

(* A device made the default, for all roles unless a call was refused.     *)
LEMMA SetUsable ==
  ASSUME DefaultsUsable, {meddled, notTaken, restores} \subseteq BOOLEAN,
         NEW device \in Endpoints, NEW ok, SetSink(device, ok)
  PROVE  /\ UsableDefaults(present, disabled, defaults') /\ notTaken' \in BOOLEAN
         /\ notTaken' = FALSE => notTaken = FALSE /\ defaults' = [r \in Roles |-> device]
<1>1. PICK tookIt \in SUBSET Roles :
        /\ device \notin Usable(present, disabled) => tookIt = {}
        /\ defaults' = [r \in Roles |-> IF r \in tookIt THEN device ELSE defaults[r]]
        /\ notTaken' = (notTaken \/ tookIt # Roles)
  BY DEF SetSink, DefaultsBecome, Set
<1>2. "" \notin Usable(present, disabled)
  BY SoundAssumption DEF Usable, DefaultsUsable, UsableDefaults
<1> QED
  BY <1>1, <1>2 DEF DefaultsUsable, UsableDefaults

(* Before the host is started the default is the user's.                   *)
LEMMA SoundStarts == SoundInit => SinkInv
  BY SoundAssumption DEF SoundInit, SinkInv, DefaultsUsable, UsableDefaults, SessionFound,
       DefaultGivenBack,
     InSession, Endpoints, Usable

(* Every step of the host, of Windows and of the user keeps it.            *)
LEMMA SoundGoesOn == SinkInv /\ [SoundNext]_soundVars => SinkInv'
<1> SUFFICES ASSUME SinkInv, [SoundNext]_soundVars PROVE SinkInv'
  OBVIOUS
<1> USE DEF SinkInv, SessionFound, AsFound, DefaultGivenBack, InSession
<1>1. CASE StartHost
  BY <1>1, SoundAssumption DEF StartHost, DefaultsUsable, UsableDefaults, ResetNeeded, Usable,
       historyVars
<1>2. CASE Disable
  <2>1. CASE disabled' = TRUE
    <3>1. defaults' \in NewDefaults(present, TRUE, defaults) /\ hostAt' = "disabled"
            /\ hostAt = "resetting"
      BY <1>2, <2>1 DEF Disable, DefaultsBecome, DefaultsUsable, UsableDefaults
    <3>2. UNCHANGED <<present, wanted, hostSink, assigned, restores, foundAs, meddled, notTaken>>
      BY <1>2, <2>1, <3>1 DEF Disable, DefaultsUsable, UsableDefaults
    <3>3. UsableDefaults(present, TRUE, defaults')
      BY <3>1, NewDefaultsUsable DEF DefaultsUsable, UsableDefaults
    <3>4. DefaultsUsable'
      BY <2>1, <3>1, <3>2, <3>3 DEF DefaultsUsable, UsableDefaults
    <3> QED
      BY <3>1, <3>2, <3>4
  <2>2. CASE disabled' # TRUE
    <3>1. UNCHANGED <<disabled, defaults, present, wanted, hostSink, assigned, restores, foundAs,
                      meddled>>
            /\ hostAt' = "ready" /\ notTaken' = TRUE
      BY <1>2, <2>2 DEF Disable
    <3> QED
      BY <3>1 DEF DefaultsUsable, UsableDefaults
  <2> QED
    BY <2>1, <2>2
<1>3. CASE Enable
  <2>1. hostAt = "disabled" /\ disabled /\ hostAt' = "ready" /\ Speakers \in present
          /\ UNCHANGED <<present, wanted, hostSink, assigned, restores, foundAs, meddled>>
    BY <1>3 DEF Enable, DefaultsUsable, UsableDefaults
  <2>2. CASE notTaken' = TRUE /\ UNCHANGED <<disabled, defaults, notice>>
    BY <2>1, <2>2 DEF DefaultsUsable, UsableDefaults
  <2>3. CASE ~(notTaken' = TRUE /\ UNCHANGED <<disabled, defaults, notice>>)
    <3> DEFINE new == defaults["console"]
    <3>1. PICK back \in SUBSET Roles :
            /\ disabled' = FALSE /\ new = "" => back = Roles
            /\ defaults' = [r \in Roles |-> IF r \in back THEN Speakers ELSE new]
            /\ notTaken' = (notTaken \/ (new # "" /\ back # {}))
      BY <1>3, <2>3 DEF Enable, DefaultsBecome
    <3>2. disabled' = FALSE
      BY <1>3, <2>3 DEF Enable
    <3>3. Usable(present, FALSE) = present /\ Usable(present, TRUE) = present \ {Speakers}
      BY DEF Usable
    <3>4. new \in (present \ {Speakers}) \cup {""} /\ (new = "" => present \ {Speakers} = {})
      BY <2>1, <3>3, SoundAssumption DEF DefaultsUsable, UsableDefaults
    <3>5. new = "" => back = Roles
      BY <3>1, <3>2
    <3>6. DefaultsUsable'
      BY <2>1, <3>1, <3>2, <3>3, <3>4, <3>5, SoundAssumption DEF DefaultsUsable, UsableDefaults,
           Endpoints
    <3>7. ~meddled' /\ ~notTaken' =>
            defaults'["console"] # Speakers \/ Usable(present, FALSE) = {Speakers}
      BY <2>1, <3>1, <3>3, <3>4, <3>5, SoundAssumption
    <3>8. notTaken' \in BOOLEAN
      BY <3>1
    <3> QED
      BY <2>1, <3>2, <3>6, <3>7, <3>8
  <2> QED
    BY <2>2, <2>3
<1>4. CASE OpenControl
  <2>1. /\ meddled' = FALSE /\ notTaken' = FALSE /\ assigned' = ""
        /\ restores' = FALSE /\ hostAt' \in {"deaf", "opened"} /\ UNCHANGED <<disabled, wanted>>
        /\ hostSink' = defaults'["console"]
    BY <1>4 DEF OpenControl
  <2>2. defaults["console"] \in Endpoints
    BY SoundAssumption DEF DefaultsUsable, UsableDefaults
  <2>3. CASE UNCHANGED <<present, defaults>> /\ foundAs' = defaults
    <3>1. DefaultsUsable'
      BY <2>1, <2>2, <2>3 DEF DefaultsUsable, UsableDefaults
    <3> QED
      BY <2>1, <2>3, <3>1
  <2>4. CASE /\ present' = present \cup {Speakers} /\ defaults["console"] # ""
             /\ defaults' = [r \in Roles |-> defaults["console"]] /\ Speakers \notin present
             /\ foundAs' = defaults
    <3>1. defaults["console"] \in Usable(present, disabled) /\ ~disabled
      BY <2>4, SoundAssumption DEF DefaultsUsable, UsableDefaults
    <3>2. hostSink' = defaults["console"]
      BY <2>1, <2>4, SoundAssumption
    <3>3. DefaultsUsable'
      BY <2>1, <2>2, <2>4, <3>1, <3>2, SoundAssumption DEF DefaultsUsable, UsableDefaults, Usable
    <3>4. AsFound'
      BY <2>1, <2>4, SoundAssumption DEF DefaultsUsable, UsableDefaults
    <3> QED
      BY <2>1, <2>4, <3>2, <3>3, <3>4
  <2>5. CASE /\ present' = present \cup {Speakers} /\ Speakers \notin present
             /\ defaults' \in NewDefaults(present', disabled, defaults) /\ foundAs' = defaults'
    <3>1. /\ present' \in SUBSET (SoundDevices \cup {Speakers}) /\ disabled \in BOOLEAN
          /\ defaults \in [Roles -> Endpoints]
      BY <2>5 DEF DefaultsUsable, UsableDefaults
    <3>2. UsableDefaults(present', disabled, defaults')
      BY <2>5, <3>1, NewDefaultsUsable
    <3>3. defaults' \in [Roles -> Endpoints] /\ hostSink' \in Endpoints
      BY <2>1, <3>2, SoundAssumption DEF UsableDefaults
    <3>4. UsableDefaults(present, disabled, defaults)'
      BY <2>1, <3>2 DEF UsableDefaults
    <3>5. DefaultsUsable'
      BY <2>1, <2>5, <3>1, <3>3, <3>4 DEF DefaultsUsable
    <3> QED
      BY <2>1, <2>5, <3>5
  <2> QED
    BY <1>4, <2>3, <2>4, <2>5 DEF OpenControl, DefaultsBecome, Installed
<1>5. CASE TakeSink
  <2>1. /\ hostAt = "opened" /\ hostAt' \in {"chosen", "deaf"}
        /\ UNCHANGED <<present, disabled, wanted, hostSink, foundAs, meddled>>
        /\ restores' \in BOOLEAN
    BY <1>5 DEF TakeSink, NamedAnother
  <2>2. CASE ~restores'
    <3>1. UNCHANGED <<defaults, notTaken, assigned>>
      BY <1>5, <2>2 DEF TakeSink
    <3>2. DefaultsUsable'
      BY <2>1, <3>1 DEF DefaultsUsable, UsableDefaults
    <3> QED
      BY <2>1, <2>2, <3>1, <3>2
  <2>3. CASE restores'
    <3>1. PICK ok \in BOOLEAN : SetSink(SinkOf, ok)
      BY <1>5, <2>3 DEF TakeSink
    <3>2. SinkOf \in Endpoints
      BY DEF SinkOf, DefaultsUsable, UsableDefaults
    <3>3. /\ UsableDefaults(present, disabled, defaults') /\ notTaken' \in BOOLEAN
          /\ notTaken' = FALSE => notTaken = FALSE
      BY <3>1, <3>2, SetUsable
    <3>4. DefaultsUsable'
      BY <2>1, <3>3 DEF DefaultsUsable, UsableDefaults
    <3> QED
      BY <2>1, <2>3, <3>3, <3>4
  <2> QED
    BY <2>1, <2>2, <2>3
<1>6. CASE Listen
  BY <1>6, SoundAssumption DEF Listen, DefaultsUsable, UsableDefaults, Endpoints, historyVars
<1>7. CASE OpenMicrophone
  BY <1>7, SoundAssumption DEF OpenMicrophone, DefaultsUsable, UsableDefaults, Endpoints,
       historyVars
<1>8. CASE NewDefault
  <2>1. /\ hostAt = "capturing" /\ hostAt' = "reopen"
        /\ UNCHANGED <<present, disabled, wanted, hostSink, restores, foundAs, meddled>>
    BY <1>8 DEF NewDefault
  <2>2. CASE UNCHANGED <<defaults, notTaken, assigned>>
    <3>1. DefaultsUsable'
      BY <2>1, <2>2 DEF DefaultsUsable, UsableDefaults
    <3> QED
      BY <2>1, <2>2, <3>1
  <2>3. CASE ~UNCHANGED <<defaults, notTaken, assigned>>
    <3>1. assigned = Speakers
      BY <1>8, <2>3 DEF NewDefault, ResetsSink
    <3>2. PICK ok \in BOOLEAN : SetSink(Speakers, ok)
      BY <1>8, <2>3 DEF NewDefault
    <3>3. /\ UsableDefaults(present, disabled, defaults') /\ notTaken' \in BOOLEAN
          /\ notTaken' = FALSE => notTaken = FALSE
      BY <3>2, SetUsable DEF Endpoints
    <3>4. DefaultsUsable'
      BY <2>1, <3>3 DEF DefaultsUsable, UsableDefaults
    <3>5. ~meddled /\ ~notTaken => restores
      BY <2>1, <3>1, SoundAssumption
    <3> QED
      BY <2>1, <3>3, <3>4, <3>5
  <2> QED
    BY <2>2, <2>3
<1>9. CASE DeviceInvalidated
  BY <1>9, SoundAssumption DEF DeviceInvalidated, DefaultsUsable, UsableDefaults, Endpoints,
       historyVars
<1>10. CASE EndStream
  <2>1. /\ hostAt \in {"deaf", "capturing", "reopen"} /\ hostAt' = "idle" /\ restores' = FALSE
        /\ UNCHANGED <<present, disabled, wanted, hostSink, foundAs, meddled>>
    BY <1>10 DEF EndStream
  <2>2. CASE ~restores
    <3>1. UNCHANGED <<defaults, notTaken, assigned>>
      BY <1>10, <2>2 DEF EndStream
    <3>2. DefaultsUsable'
      BY <2>1, <3>1 DEF DefaultsUsable, UsableDefaults
    <3> QED
      BY <2>1, <2>2, <3>1, <3>2
  <2>3. CASE restores
    <3>1. PICK ok \in BOOLEAN : SetSink(hostSink, ok)
      BY <1>10, <2>3 DEF EndStream, BackTo
    <3>2. hostSink \in Endpoints
      BY DEF DefaultsUsable, UsableDefaults
    <3>3. /\ UsableDefaults(present, disabled, defaults') /\ notTaken' \in BOOLEAN
          /\ notTaken' = FALSE => notTaken = FALSE /\ defaults' = [r \in Roles |-> hostSink]
      BY <3>1, <3>2, SetUsable
    <3>4. DefaultsUsable'
      BY <2>1, <3>3 DEF DefaultsUsable, UsableDefaults
    <3>5. ASSUME ~meddled', ~notTaken' PROVE AsFound'
      <4>1. defaults' = [r \in Roles |-> foundAs["console"]]
        BY <2>1, <3>3, <3>5
      <4>2. (\A r \in Roles : foundAs[r] = foundAs["console"]) => foundAs = defaults'
        BY <4>1 DEF DefaultsUsable, UsableDefaults
      <4> QED
        BY <2>1, <4>1, <4>2, SoundAssumption
    <3> QED
      BY <2>1, <3>3, <3>4, <3>5
  <2> QED
    BY <2>2, <2>3
<1>11. CASE HostCrash
  BY <1>11, SoundAssumption DEF HostCrash, DefaultsUsable, UsableDefaults, Endpoints, historyVars
<1>12. CASE TellDefault
  BY <1>12, SoundAssumption DEF TellDefault, DefaultsUsable, UsableDefaults, Endpoints,
       historyVars
<1>13. CASE Meddle
  <2>1. /\ meddled' = TRUE
        /\ UNCHANGED <<disabled, hostAt, wanted, hostSink, assigned, restores, foundAs,
                        notTaken>>
    BY <1>13 DEF Meddle
  <2>2. /\ present' \subseteq SoundDevices \cup {Speakers}
        /\ Speakers \in present => Speakers \in present'
        /\ UsableDefaults(present', disabled, defaults')
    <3>1. CASE /\ present' = present
               /\ \E device \in Usable(present, disabled), roles \in {Roles, {"console"}} :
                    DefaultsBecome(Set(device, roles))
      <4>1. PICK device \in Usable(present, disabled), roles \in {Roles, {"console"}} :
              defaults' = [r \in Roles |-> IF r \in roles THEN device ELSE defaults[r]]
        BY <3>1 DEF DefaultsBecome, Set
      <4>2. device \in SoundDevices \cup {Speakers} /\ device # ""
        BY <4>1, SoundAssumption DEF Usable, DefaultsUsable, UsableDefaults
      <4>3. UsableDefaults(present, disabled, defaults')
        BY <4>1, <4>2 DEF DefaultsUsable, UsableDefaults, Endpoints
      <4> QED
        BY <3>1, <4>3 DEF DefaultsUsable, UsableDefaults
    <3>2. CASE \E d \in SoundDevices :
                 /\ present' = IF d \in present THEN present \ {d} ELSE present \cup {d}
                 /\ \E new \in NewDefaults(present', disabled, defaults) : DefaultsBecome(new)
      <4>1. PICK d \in SoundDevices :
              /\ present' = IF d \in present THEN present \ {d} ELSE present \cup {d}
              /\ \E new \in NewDefaults(present', disabled, defaults) : DefaultsBecome(new)
        BY <3>2
      <4>2. /\ present' \subseteq SoundDevices \cup {Speakers}
            /\ Speakers \in present => Speakers \in present'
        BY <4>1, SoundAssumption DEF DefaultsUsable, UsableDefaults
      <4>3. PICK new \in NewDefaults(present', disabled, defaults) : defaults' = new
        BY <4>1 DEF DefaultsBecome
      <4>4. UsableDefaults(present', disabled, new)
        BY <4>2, <4>3, NewDefaultsUsable DEF DefaultsUsable, UsableDefaults
      <4> QED
        BY <4>2, <4>3, <4>4
    <3> QED
      BY <1>13, <3>1, <3>2 DEF Meddle
  <2>3. DefaultsUsable'
    BY <2>1, <2>2 DEF DefaultsUsable, UsableDefaults
  <2> QED
    BY <2>1, <2>3
<1>14. CASE UNCHANGED sinkVars
  BY <1>14 DEF sinkVars, historyVars, DefaultsUsable, UsableDefaults
<1> QED
  BY <1>1, <1>2, <1>3, <1>4, <1>5, <1>6, <1>7, <1>8, <1>9, <1>10, <1>11, <1>12, <1>13,
       <1>14 DEF SoundNext, SinkStep, soundVars

-------------------------------------------------------------------------------
(* Start and end of the host.                                              *)

(* The codes main() may return when it comes to its end.                   *)
ExitCodes == {"0", "quit"}

(* What the user asked of a host is in the code it returns, or restart()   *)
(* is registered; that code is what the service goes by.                   *)
CodeFollows ==
  /\ desired \in ExitCodes
  /\ platform = "service" => ~atExit
  /\ platform # "service" => svc = "stopped" /\ ~stopEvent
  /\ platform = "service" /\ "quit" \in userAsked => desired = "quit"
  /\ platform # "service" /\ "restart" \in userAsked => atExit
  /\ EndedItself => hostExit = desired
  /\ EndedItself /\ atExit => restartFailed

(* The service has a host only while it supervises or ends one; it stops   *)
(* because it was told to, or because its host was quit.                   *)
Supervised ==
  /\ platform = "service" /\ svc \in {"waiting", "stopped"} => mainAt = "off"
  /\ svc = "killing" => switched
  /\ stopEvent /\ ~stopAsked => svc \in {"waiting", "stopped"} /\ hostExit = "quit"

(* A handler that ran raised the event; the tray is on after it only if it *)
(* came up too late.                                                       *)
HandlerRan ==
  /\ handler # "none" => down
  /\ tray \in {"none", "on", "failed", "off", "unwanted"} /\ handler \in {"none", "raised", "done"}
  /\ mainAt = "loop" => tray # "none"
  /\ tray = "on" /\ handler = "done" => trayMissed
LifeInv ==
  /\ CodeFollows /\ Supervised /\ HandlerRan
  /\ QuitIsHeeded /\ InConsoleSession /\ LoopLeftInTime

(* No host runs yet.                                                       *)
LEMMA LifeStarts == LifeInit => LifeInv
  BY DEF LifeInit, LifeInv, ExitCodes, EndedItself, CodeFollows, Supervised, HandlerRan, QuitIsHeeded, InConsoleSession, LoopLeftInTime, Windows

(* Every step of the host, its tray and the service keeps the invariant.   *)
LEMMA LifeGoesOn == LifeInv /\ [LifeNext]_lifeVars => LifeInv'
<1> SUFFICES ASSUME LifeInv, [LifeNext]_lifeVars PROVE LifeInv'
  OBVIOUS
<1> USE DEF LifeInv, ExitCodes, EndedItself, Windows, WaitsForEvent, CodeFollows, Supervised, HandlerRan, QuitIsHeeded, InConsoleSession, LoopLeftInTime
<1>1. CASE UserStarts
  BY <1>1 DEF UserStarts, NewHost
<1>3. CASE InstallSignals
  BY <1>3 DEF InstallSignals
<1>4. CASE Initialised
  BY <1>4 DEF Initialised
<1>5. CASE NotInitialised
  BY <1>5 DEF NotInitialised, Returns, NewHost
<1>6. CASE StartThreads
  BY <1>6 DEF StartThreads
<1>7. CASE ShutBefore
  <2>1. ASSUME mainAt' # "off" PROVE LifeInv'
    BY <1>7, <2>1 DEF ShutBefore, Returns, NewHost
  <2>2. ASSUME mainAt' = "off" PROVE LifeInv'
    BY <1>7, <2>2 DEF ShutBefore, Returns, NewHost
  <2> QED  BY <2>1, <2>2
<1>8. ASSUME NEW o \in {"on", "failed", "unwanted"}, StartTray(o) PROVE LifeInv'
  BY <1>8 DEF StartTray
<1>9. CASE LeaveLoop
  BY <1>9 DEF LeaveLoop
<1>10. CASE ThreadsJoined
  BY <1>10 DEF ThreadsJoined
<1>11. CASE MainReturns
  BY <1>11 DEF MainReturns, Returns, NewHost
<1>12. CASE EndTray
  BY <1>12 DEF EndTray
<1>13. CASE Interrupt
  BY <1>13 DEF Interrupt, Signalled, Unhandled
<1>14. CASE RaiseSignal
  BY <1>14 DEF RaiseSignal, Signalled, Unhandled
<1>15. CASE TrayQuit
  BY <1>15 DEF TrayQuit, ExitCode
<1>16. CASE RestartHost
  <2>1. CASE platform = "service"
    <3>1. ~atExit'
      BY <1>16, <2>1 DEF RestartHost, RestartsItself
    <3> QED  BY <1>16, <2>1, <3>1 DEF RestartHost, ExitCode
  <2>2. CASE platform # "service"
    BY <1>16, <2>2 DEF RestartHost, ExitCode, RestartsItself
  <2> QED  BY <2>1, <2>2
<1>17. CASE ForceShutdown
  BY <1>17 DEF ForceShutdown, EndedBy, LoopOver
<1>18. CASE HostDies
  BY <1>18 DEF HostDies, EndedBy
<1>19. CASE Spawn
  BY <1>19 DEF Spawn, NewHost
<1>20. CASE ServiceEnds
  BY <1>20 DEF ServiceEnds
<1>21. CASE SawStop
  BY <1>21 DEF SawStop
<1>22. CASE SawExit
  BY <1>22 DEF SawExit, MeansStop
<1>23. CASE SawChange
  BY <1>23 DEF SawChange, Stays
<1>24. CASE SendCtrlC
  BY <1>24 DEF SendCtrlC, Signalled, Unhandled
<1>25. CASE HasEnded
  BY <1>25 DEF HasEnded
<1>26. CASE KillHost
  BY <1>26 DEF KillHost, EndedBy
<1>27. CASE ControlStop
  BY <1>27 DEF ControlStop
<1>28. ASSUME NEW s, SessionChange(s) PROVE LifeInv'
  <2>1. CASE s = "none"
    BY <1>28, <2>1 DEF SessionChange
  <2>2. CASE s # "none"
    <3>1. changeEvent'
      BY <1>28, <2>2 DEF SessionChange
    <3> QED  BY <1>28, <2>2, <3>1 DEF SessionChange
  <2> QED  BY <2>1, <2>2
<1>29. CASE UNCHANGED lifeVars
  BY <1>29 DEF lifeVars
<1> QED
  BY <1>1, <1>3, <1>4, <1>5, <1>6, <1>7, <1>8, <1>9, <1>10, <1>11, <1>12, <1>13, <1>14,
     <1>15, <1>16, <1>17, <1>18, <1>19, <1>20, <1>21, <1>22, <1>23, <1>24, <1>25, <1>26, <1>27,
     <1>28, <1>29
  DEF LifeNext

(* Quitting and restarting are heeded.                                     *)
LEMMA LifeIsHeeded ==
  LifeInv => QuitIsHeeded /\ RestartIsHeeded /\ InConsoleSession /\ LoopLeftInTime
  BY DEF LifeInv, CodeFollows, Supervised, RestartIsHeeded, EndedItself

-------------------------------------------------------------------------------
(* The sound on Linux.                                                     *)

(* Where the control has not chosen a sink yet, where it knows what is     *)
(* loaded, and where it may record.                                        *)
Unchosen == {"init", "list", "default", "load", "opened"}
Recording == {"microphone", "captures", "deaf"}
Knowing == {"default", "load", "opened", "restore"} \cup Recording

(* No null sink is loaded twice, but for lists that were not complete: what *)
(* is to be loaded is not there.                                           *)
LoadedOnce ==
  /\ \A n \in NullSinks : modules[n] <= 1 + shortLists
  /\ defaultSink \in UserSinks \/ modules[defaultSink] > 0
  /\ \A n \in NullSinks \ index :
       (call = "default" \/ (call = "load" /\ n \in sinksLeft)) => modules[n] <= shortLists

(* While no call failed, the null sinks there are are those whose module   *)
(* is known, but for those loaded twice, and none else is left behind.     *)
ModulesKnown ==
  unrefused =>
    /\ raisedEvent # "failed"
    /\ call \in Knowing => \A n \in NullSinks \ index : modules[n] <= shortLists
    /\ call = "unload" => \A n \in NullSinks \ (sinksLeft \cap index) : modules[n] <= shortLists
    /\ call \in {"ends", "none"} => \A n \in NullSinks : modules[n] <= shortLists

(* While no call failed, the default is what was found, until another sink *)
(* is made the default, which is noted; then it can be given back.         *)
DefaultKnown ==
  /\ foundDefault \in NullSinks \cup UserSinks
  /\ unrefused =>
       /\ call \in Unchosen =>
            defaultSink = foundDefault /\ reported = defaultSink /\ requested = NoSink
       /\ call \in Knowing \ {"default"} => hostDefault = foundDefault
       /\ call \in Recording /\ ~restoring => defaultSink = foundDefault
       /\ call \in Recording /\ requested = NoSink => reported = defaultSink
       /\ call \in Recording /\ requested # NoSink => requested = defaultSink
       /\ call \in {"unload", "ends", "none"} =>
            defaultSink \in {foundDefault} \cup Fallback(foundDefault)

Heard == (listening # NoSink => call = "captures") /\ HearsItsSink
PulseInv == PulseTypeOK /\ LoadedOnce /\ ModulesKnown /\ DefaultKnown /\ Heard

-------------------------------------------------------------------------------
(* The announcement.                                                       *)
AnnouncementInv ==
  /\ publisher = "none" => entered = NoEntries
  /\ system = "windows" /\ publisher = "made" /\ ~reference /\ ~refusals => ~Holds(entered)
  /\ AnnouncementWithdrawn

(* The host is started, nothing of it is in the server.                    *)
LEMMA PulseStarts == PulseInit => PulseInv
<1> SUFFICES ASSUME PulseInit PROVE PulseInv
  OBVIOUS
<1> USE PulseAssumption DEF PulseInit, SinkNames
<1>1. PulseTypeOK
  BY DEF PulseTypeOK, Places
<1>2. LoadedOnce
  BY DEF LoadedOnce
<1>3. ModulesKnown
  BY DEF ModulesKnown, Knowing, Recording
<1>4. DefaultKnown
  BY DEF DefaultKnown, Unchosen, Knowing, Recording, Fallback
<1>5. Heard
  BY DEF Heard, HearsItsSink
<1> QED  BY <1>1, <1>2, <1>3, <1>4, <1>5 DEF PulseInv

(* A module that goes, and a server that is lost, leave a default that is. *)
LEMMA GoneLeaves ==
  ASSUME PulseInv, NEW n \in NullSinks, modules[n] > 0, Gone(n)
  PROVE  /\ modules' \in [NullSinks -> Nat] /\ modules'[n] = modules[n] - 1
         /\ \A m \in NullSinks \ {n} : modules'[m] = modules[m]
         /\ defaultSink' \in NullSinks \cup UserSinks /\ reported' = defaultSink'
         /\ defaultSink' \in UserSinks \/ modules'[defaultSink'] > 0
         /\ defaultSink' \in UserSinks \/ defaultSink' = defaultSink
         /\ defaultSink \in UserSinks => defaultSink' = defaultSink
<1> USE PulseAssumption DEF PulseInv, PulseTypeOK, LoadedOnce, Gone
<1>1. modules' = [modules EXCEPT ![n] = @ - 1] /\ modules[n] - 1 \in Nat
  OBVIOUS
<1>2. modules' \in [NullSinks -> Nat] /\ modules'[n] = modules[n] - 1
  BY <1>1
<1>3. \A m \in NullSinks \ {n} : modules'[m] = modules[m]
  BY <1>1
<1>4. CASE defaultSink = n
  BY <1>1, <1>2, <1>3, <1>4
<1>5. CASE defaultSink # n
  BY <1>1, <1>2, <1>3, <1>5
<1> QED  BY <1>4, <1>5

LEMMA RestartLeaves ==
  ASSUME PulseInv, Restarted
  PROVE  /\ \A n \in NullSinks : modules'[n] = 0 \/ modules'[n] = modules[n]
         /\ modules' \in [NullSinks -> Nat]
         /\ defaultSink' \in NullSinks \cup UserSinks /\ reported' \in NullSinks \cup UserSinks
         /\ defaultSink' \in UserSinks \/ modules'[defaultSink'] > 0
<1> USE PulseAssumption DEF PulseInv, PulseTypeOK, LoadedOnce, Restarted
<1>1. CASE UNCHANGED serverVars
  BY <1>1 DEF serverVars
<1>2. CASE modules' = [n \in NullSinks |-> 0] /\ defaultSink' \in Fallback(defaultSink)
           /\ reported' = defaultSink'
  <2>1. modules' \in [NullSinks -> Nat] /\ \A n \in NullSinks : modules'[n] = 0
    BY <1>2
  <2>2. defaultSink' \in UserSinks
    BY <1>2 DEF Fallback
  <2> QED  BY <1>2, <2>1, <2>2
<1> QED  BY <1>1, <1>2

LEMMA SwapLeaves ==
  ASSUME PulseInv, NEW newSink, NEW next, Swap(newSink, next)
  PROVE  /\ defaultSink' \in NullSinks \cup UserSinks
         /\ defaultSink' \in UserSinks \/ modules[defaultSink'] > 0
         /\ requested' \in SinkNames
         /\ \/ /\ call' = next /\ defaultSink' = newSink /\ requested' = newSink
               /\ unrefused' = unrefused
            \/ /\ call' \in {next, "deaf"} /\ (next # "microphone" => call' = next)
               /\ unrefused' = FALSE
<1> USE PulseAssumption DEF PulseInv, PulseTypeOK, LoadedOnce, SinkNames
<1>1. CASE newSink \in Present /\ call' = next /\ defaultSink' = newSink /\ requested' = newSink
           /\ unrefused' = unrefused
  <2>1. newSink \in UserSinks \/ (newSink \in NullSinks /\ modules[newSink] > 0)
    BY <1>1 DEF Present
  <2> QED  BY <1>1, <2>1
<1>2. CASE /\ call' = IF next = "microphone" THEN "deaf" ELSE next
           /\ unrefused' = FALSE /\ UNCHANGED <<defaultSink, requested>>
  BY <1>2
<1> QED  BY <1>1, <1>2 DEF Swap, IsRefused

(* One module more of one sink.                                            *)
LEMMA OneMore ==
  ASSUME NEW f \in [NullSinks -> Nat], NEW n \in NullSinks,
         NEW g, g = [f EXCEPT ![n] = @ + 1]
  PROVE  /\ g \in [NullSinks -> Nat]
         /\ g[n] = f[n] + 1 /\ \A m \in NullSinks \ {n} : g[m] = f[m]
  OBVIOUS

(* The names of what the types are made of.                                *)
LEMMA PulseNames ==
  /\ NoSink \in SinkNames /\ \A s \in NullSinks \cup UserSinks : s \in SinkNames
  /\ "none" \in Places /\ "init" \in Places /\ "list" \in Places /\ "default" \in Places
  /\ "load" \in Places /\ "opened" \in Places /\ "microphone" \in Places
  /\ "captures" \in Places /\ "deaf" \in Places /\ "restore" \in Places
  /\ "unload" \in Places /\ "ends" \in Places /\ "waits forever" \in Places
  BY DEF SinkNames, Places

(* Every call that is answered, refused or not answered, every crash and   *)
(* what the user does keep it.                                             *)
LEMMA PulseGoesOn == PulseInv /\ [PulseNext]_pulseVars => PulseInv'
<1> SUFFICES ASSUME PulseInv, [PulseNext]_pulseVars PROVE PulseInv'
  OBVIOUS
<1>0. PulseTypeOK /\ LoadedOnce /\ ModulesKnown /\ DefaultKnown /\ Heard
  BY DEF PulseInv
<1> USE PulseAssumption DEF serverVars, pulseControlVars
<1>1. ASSUME LoseLink PROVE PulseInv'
  <2>1. PulseTypeOK'
    BY <1>0, <1>1, RestartLeaves, PulseNames DEF LoseLink, PulseTypeOK
  <2>2. LoadedOnce'
    BY <1>0, <1>1, RestartLeaves DEF LoseLink, PulseTypeOK, LoadedOnce
  <2>3. ModulesKnown'
    BY <1>0, <1>1, RestartLeaves
    DEF LoseLink, PulseTypeOK, LoadedOnce, ModulesKnown, Knowing, Recording
  <2>4. DefaultKnown'
    BY <1>0, <1>1, RestartLeaves
    DEF LoseLink, PulseTypeOK, SinkNames, DefaultKnown, Unchosen, Knowing, Recording
  <2>5. Heard'
    BY <1>0, <1>1, RestartLeaves
    DEF LoseLink, PulseTypeOK, DefaultKnown, Heard, HearsItsSink, Recording
  <2> QED  BY <2>1, <2>2, <2>3, <2>4, <2>5 DEF PulseInv
<1>2. ASSUME LoseAnswer PROVE PulseInv'
  <2>1. PulseTypeOK'
    BY <1>0, <1>2, RestartLeaves, PulseNames DEF LoseAnswer, Asking, PulseTypeOK
  <2>2. LoadedOnce'
    <3>1. call' = "waits forever" /\ shortLists' = shortLists /\ Restarted
      BY <1>2 DEF LoseAnswer
    <3>2. \A n \in NullSinks : modules'[n] <= 1 + shortLists'
      <4> TAKE n \in NullSinks
      <4>1. modules[n] <= 1 + shortLists /\ shortLists \in Nat
        BY <1>0 DEF PulseTypeOK, LoadedOnce
      <4>0. shortLists' = shortLists
        BY <3>1
      <4>2. CASE modules'[n] = 0
        <5>1. 0 <= 1 + shortLists
          BY <4>1
        <5> QED  BY <4>0, <4>2, <5>1
      <4>3. CASE modules'[n] = modules[n]
        BY <3>1, <4>1, <4>3
      <4> QED  BY <3>1, <4>2, <4>3, RestartLeaves
    <3>3. defaultSink' \in UserSinks \/ modules'[defaultSink'] > 0
      BY <3>1, RestartLeaves
    <3> QED  BY <3>1, <3>2, <3>3 DEF LoadedOnce
  <2>3. ModulesKnown'
    BY <1>0, <1>2, RestartLeaves
    DEF LoseAnswer, Asking, PulseTypeOK, LoadedOnce, ModulesKnown, Knowing, Recording
  <2>4. DefaultKnown'
    BY <1>0, <1>2, RestartLeaves
    DEF LoseAnswer, Asking, PulseTypeOK, SinkNames, DefaultKnown, Unchosen, Knowing, Recording
  <2>5. Heard'
    BY <1>0, <1>2, RestartLeaves
    DEF LoseAnswer, Asking, PulseTypeOK, DefaultKnown, Heard, HearsItsSink, Recording
  <2> QED  BY <2>1, <2>2, <2>3, <2>4, <2>5 DEF PulseInv
<1>3. ASSUME OpenPulse PROVE PulseInv'
  <2>1. PulseTypeOK'
    BY <1>0, <1>3, PulseNames DEF OpenPulse, FreshControl, PulseTypeOK
  <2>2. LoadedOnce'
    BY <1>0, <1>3 DEF OpenPulse, FreshControl, PulseTypeOK, LoadedOnce
  <2>3. ModulesKnown'
    BY <1>0, <1>3
    DEF OpenPulse, FreshControl, PulseTypeOK, LoadedOnce, ModulesKnown, Knowing, Recording
  <2>4. DefaultKnown'
    BY <1>0, <1>3
    DEF OpenPulse, FreshControl, PulseTypeOK, SinkNames, DefaultKnown, Unchosen, Knowing,
        Recording
  <2>5. Heard'
    BY <1>0, <1>3
    DEF OpenPulse, FreshControl, PulseTypeOK, DefaultKnown, Heard, HearsItsSink, Recording
  <2> QED  BY <2>1, <2>2, <2>3, <2>4, <2>5 DEF PulseInv
<1>4. ASSUME Connect PROVE PulseInv'
  <2>1. PulseTypeOK'
    BY <1>0, <1>4, PulseNames DEF Connect, PulseTypeOK
  <2>2. LoadedOnce'
    BY <1>0, <1>4 DEF Connect, PulseTypeOK, LoadedOnce
  <2>3. ModulesKnown'
    BY <1>0, <1>4 DEF Connect, PulseTypeOK, LoadedOnce, ModulesKnown, Knowing, Recording
  <2>4. DefaultKnown'
    BY <1>0, <1>4
    DEF Connect, PulseTypeOK, SinkNames, DefaultKnown, Unchosen, Knowing, Recording
  <2>5. Heard'
    BY <1>0, <1>4 DEF Connect, PulseTypeOK, DefaultKnown, Heard, HearsItsSink, Recording
  <2> QED  BY <2>1, <2>2, <2>3, <2>4, <2>5 DEF PulseInv
<1>5. ASSUME PulseInitialised PROVE PulseInv'
  <2>1. PulseTypeOK'
    BY <1>0, <1>5, PulseNames DEF PulseInitialised, PulseTypeOK
  <2>2. LoadedOnce'
    BY <1>0, <1>5 DEF PulseInitialised, PulseTypeOK, LoadedOnce
  <2>3. ModulesKnown'
    BY <1>0, <1>5
    DEF PulseInitialised, PulseTypeOK, LoadedOnce, ModulesKnown, Knowing, Recording
  <2>4. DefaultKnown'
    BY <1>0, <1>5
    DEF PulseInitialised, PulseTypeOK, SinkNames, DefaultKnown, Unchosen, Knowing, Recording
  <2>5. Heard'
    BY <1>0, <1>5
    DEF PulseInitialised, PulseTypeOK, DefaultKnown, Heard, HearsItsSink, Recording
  <2> QED  BY <2>1, <2>2, <2>3, <2>4, <2>5 DEF PulseInv
<1>6. ASSUME ListSinks PROVE PulseInv'
  <2>00. index \subseteq NullSinks
    BY <1>0 DEF PulseTypeOK
  <2>0. index' = NullSinksThere =>
          index' \subseteq NullSinks /\ \A n \in NullSinks \ index' : modules[n] <= shortLists
    BY <1>0 DEF NullSinksThere, PulseTypeOK
  <2>000. \A sinks \in SUBSET NullSinksThere : sinks \subseteq NullSinks
    BY DEF NullSinksThere
  <2>1. CASE /\ call' = "unload" /\ unrefused' = FALSE /\ index' \subseteq NullSinks
             /\ UNCHANGED shortLists
    <3>1. PulseTypeOK'
      BY <1>0, <1>6, <2>1, PulseNames DEF ListSinks, GiveUpControl, ToldOf, PulseTypeOK
    <3>2. LoadedOnce'
      BY <1>0, <1>6, <2>1 DEF ListSinks, GiveUpControl, ToldOf, PulseTypeOK, LoadedOnce
    <3>3. ModulesKnown'
      BY <1>0, <1>6, <2>1
      DEF ListSinks, GiveUpControl, ToldOf, PulseTypeOK, LoadedOnce, ModulesKnown, Knowing, Recording
    <3>4. DefaultKnown'
      BY <1>0, <1>6, <2>1
      DEF ListSinks, GiveUpControl, ToldOf, PulseTypeOK, SinkNames, DefaultKnown, Unchosen, Knowing,
          Recording
    <3>5. Heard'
      BY <1>0, <1>6, <2>1
      DEF ListSinks, GiveUpControl, ToldOf, PulseTypeOK, DefaultKnown, Heard, HearsItsSink, Recording
    <3> QED  BY <3>1, <3>2, <3>3, <3>4, <3>5 DEF PulseInv
  <2>2. CASE /\ call' = "default" /\ index' = NullSinksThere /\ UNCHANGED <<shortLists, unrefused>>
             /\ UNCHANGED sinksLeft
    <3>1. PulseTypeOK'
      BY <1>0, <1>6, <2>2, <2>0, PulseNames DEF ListSinks, GiveUpControl, ToldOf, PulseTypeOK
    <3>2. LoadedOnce'
      BY <1>0, <1>6, <2>2, <2>0 DEF ListSinks, GiveUpControl, ToldOf, PulseTypeOK, LoadedOnce
    <3>3. ModulesKnown'
      BY <1>0, <1>6, <2>2, <2>0
      DEF ListSinks, GiveUpControl, ToldOf, PulseTypeOK, LoadedOnce, ModulesKnown, Knowing, Recording
    <3>4. DefaultKnown'
      BY <1>0, <1>6, <2>2, <2>0
      DEF ListSinks, GiveUpControl, ToldOf, PulseTypeOK, SinkNames, DefaultKnown, Unchosen, Knowing,
          Recording
    <3>5. Heard'
      BY <1>0, <1>6, <2>2, <2>0
      DEF ListSinks, GiveUpControl, ToldOf, PulseTypeOK, DefaultKnown, Heard, HearsItsSink, Recording
    <3> QED  BY <3>1, <3>2, <3>3, <3>4, <3>5 DEF PulseInv
  <2>3. CASE /\ call' = "default" /\ index' \subseteq NullSinks /\ shortLists' = shortLists + 1
             /\ unrefused' = FALSE /\ UNCHANGED sinksLeft
    <3>1. PulseTypeOK'
      <4>1. shortLists' \in Nat
        BY <1>0, <2>3 DEF PulseTypeOK
      <4> QED
        BY <1>0, <1>6, <2>3, <4>1, PulseNames DEF ListSinks, GiveUpControl, ToldOf, PulseTypeOK
    <3>2. LoadedOnce'
      BY <1>0, <1>6, <2>3 DEF ListSinks, GiveUpControl, ToldOf, PulseTypeOK, LoadedOnce
    <3>3. ModulesKnown'
      BY <1>0, <1>6, <2>3
      DEF ListSinks, GiveUpControl, ToldOf, PulseTypeOK, LoadedOnce, ModulesKnown, Knowing, Recording
    <3>4. DefaultKnown'
      BY <1>0, <1>6, <2>3
      DEF ListSinks, GiveUpControl, ToldOf, PulseTypeOK, SinkNames, DefaultKnown, Unchosen, Knowing,
          Recording
    <3>5. Heard'
      BY <1>0, <1>6, <2>3
      DEF ListSinks, GiveUpControl, ToldOf, PulseTypeOK, DefaultKnown, Heard, HearsItsSink, Recording
    <3> QED  BY <3>1, <3>2, <3>3, <3>4, <3>5 DEF PulseInv
  <2> QED
    BY <1>6, <2>00, <2>000, <2>1, <2>2, <2>3 DEF ListSinks, GiveUpControl, ToldOf, IsRefused
<1>7. ASSUME AskDefault PROVE PulseInv'
  <2>1. CASE Unanswered
    <3>1. PulseTypeOK'
      BY <1>0, <1>7, <2>1, PulseNames DEF AskDefault, Unanswered, PulseTypeOK
    <3>2. LoadedOnce'
      BY <1>0, <1>7, <2>1 DEF AskDefault, Unanswered, PulseTypeOK, LoadedOnce
    <3>3. ModulesKnown'
      BY <1>0, <1>7, <2>1
      DEF AskDefault, Unanswered, PulseTypeOK, LoadedOnce, ModulesKnown, Knowing, Recording
    <3>4. DefaultKnown'
      BY <1>0, <1>7, <2>1
      DEF AskDefault, Unanswered, PulseTypeOK, SinkNames, DefaultKnown, Unchosen, Knowing,
          Recording
    <3>5. Heard'
      BY <1>0, <1>7, <2>1
      DEF AskDefault, Unanswered, PulseTypeOK, DefaultKnown, Heard, HearsItsSink, Recording
    <3> QED  BY <3>1, <3>2, <3>3, <3>4, <3>5 DEF PulseInv
  <2>2. CASE call' = "load" /\ unrefused' = unrefused
    <3>1. PulseTypeOK'
      BY <1>0, <1>7, <2>2, PulseNames DEF AskDefault, IsRefused, Unanswered, PulseTypeOK
    <3>2. LoadedOnce'
      BY <1>0, <1>7, <2>2 DEF AskDefault, IsRefused, Unanswered, PulseTypeOK, LoadedOnce
    <3>3. ModulesKnown'
      BY <1>0, <1>7, <2>2
      DEF AskDefault, IsRefused, Unanswered, PulseTypeOK, LoadedOnce, ModulesKnown, Knowing,
          Recording
    <3>4. DefaultKnown'
      BY <1>0, <1>7, <2>2
      DEF AskDefault, IsRefused, Unanswered, PulseTypeOK, SinkNames, DefaultKnown, Unchosen,
          Knowing, Recording
    <3>5. Heard'
      BY <1>0, <1>7, <2>2
      DEF AskDefault, IsRefused, Unanswered, PulseTypeOK, DefaultKnown, Heard, HearsItsSink,
          Recording
    <3> QED  BY <3>1, <3>2, <3>3, <3>4, <3>5 DEF PulseInv
  <2>3. CASE call' = "load" /\ unrefused' = FALSE
    <3>1. PulseTypeOK'
      BY <1>0, <1>7, <2>3, PulseNames DEF AskDefault, IsRefused, Unanswered, PulseTypeOK
    <3>2. LoadedOnce'
      BY <1>0, <1>7, <2>3 DEF AskDefault, IsRefused, Unanswered, PulseTypeOK, LoadedOnce
    <3>3. ModulesKnown'
      BY <1>0, <1>7, <2>3
      DEF AskDefault, IsRefused, Unanswered, PulseTypeOK, LoadedOnce, ModulesKnown, Knowing,
          Recording
    <3>4. DefaultKnown'
      BY <1>0, <1>7, <2>3
      DEF AskDefault, IsRefused, Unanswered, PulseTypeOK, SinkNames, DefaultKnown, Unchosen,
          Knowing, Recording
    <3>5. Heard'
      BY <1>0, <1>7, <2>3
      DEF AskDefault, IsRefused, Unanswered, PulseTypeOK, DefaultKnown, Heard, HearsItsSink,
          Recording
    <3> QED  BY <3>1, <3>2, <3>3, <3>4, <3>5 DEF PulseInv
  <2> QED  BY <1>7, <2>1, <2>2, <2>3 DEF AskDefault, Unanswered, IsRefused
<1>8. ASSUME SinksKnown PROVE PulseInv'
  <2>1. PulseTypeOK'
    BY <1>0, <1>8, PulseNames DEF SinksKnown, PulseTypeOK
  <2>2. LoadedOnce'
    BY <1>0, <1>8 DEF SinksKnown, PulseTypeOK, LoadedOnce
  <2>3. ModulesKnown'
    BY <1>0, <1>8 DEF SinksKnown, PulseTypeOK, LoadedOnce, ModulesKnown, Knowing, Recording
  <2>4. DefaultKnown'
    BY <1>0, <1>8
    DEF SinksKnown, PulseTypeOK, SinkNames, DefaultKnown, Unchosen, Knowing, Recording
  <2>5. Heard'
    BY <1>0, <1>8 DEF SinksKnown, PulseTypeOK, DefaultKnown, Heard, HearsItsSink, Recording
  <2> QED  BY <2>1, <2>2, <2>3, <2>4, <2>5 DEF PulseInv
<1>9. ASSUME ChooseDefault PROVE PulseInv'
  <2>0. PICK newSink :
          /\ restoring' = (hostDefault # newSink)
          /\ IF hostDefault # newSink THEN Swap(newSink, "microphone")
             ELSE call' = "microphone" /\ UNCHANGED <<defaultSink, requested, unrefused>>
    BY <1>9 DEF ChooseDefault
  <2>00. Swap(newSink, "microphone") =>
           /\ defaultSink' \in NullSinks \cup UserSinks
           /\ defaultSink' \in UserSinks \/ modules[defaultSink'] > 0
           /\ requested' \in SinkNames
           /\ \/ /\ call' = "microphone" /\ defaultSink' = newSink /\ requested' = newSink
                 /\ unrefused' = unrefused
              \/ unrefused' = FALSE /\ call' \in {"microphone", "deaf"}
    BY SwapLeaves
  <2>1. CASE Swap(newSink, "microphone") /\ restoring' = TRUE
    <3>1. PulseTypeOK'
      BY <1>0, <1>9, <2>1, <2>00, PulseNames DEF ChooseDefault, PulseTypeOK
    <3>2. LoadedOnce'
      BY <1>0, <1>9, <2>1, <2>00 DEF ChooseDefault, PulseTypeOK, LoadedOnce
    <3>3. ModulesKnown'
      BY <1>0, <1>9, <2>1, <2>00
      DEF ChooseDefault, PulseTypeOK, LoadedOnce, ModulesKnown, Knowing, Recording
    <3>4. DefaultKnown'
      BY <1>0, <1>9, <2>1, <2>00
      DEF ChooseDefault, PulseTypeOK, SinkNames, DefaultKnown, Unchosen, Knowing, Recording
    <3>5. Heard'
      BY <1>0, <1>9, <2>1, <2>00
      DEF ChooseDefault, PulseTypeOK, DefaultKnown, Heard, HearsItsSink, Recording
    <3> QED  BY <3>1, <3>2, <3>3, <3>4, <3>5 DEF PulseInv
  <2>2. CASE /\ call' = "microphone" /\ restoring' = FALSE /\ hostDefault = newSink
             /\ UNCHANGED <<defaultSink, requested, unrefused>>
    <3>1. PulseTypeOK'
      BY <1>0, <1>9, <2>2, PulseNames DEF ChooseDefault, PulseTypeOK
    <3>2. LoadedOnce'
      BY <1>0, <1>9, <2>2 DEF ChooseDefault, PulseTypeOK, LoadedOnce
    <3>3. ModulesKnown'
      BY <1>0, <1>9, <2>2
      DEF ChooseDefault, PulseTypeOK, LoadedOnce, ModulesKnown, Knowing, Recording
    <3>4. DefaultKnown'
      BY <1>0, <1>9, <2>2
      DEF ChooseDefault, PulseTypeOK, SinkNames, DefaultKnown, Unchosen, Knowing, Recording
    <3>5. Heard'
      BY <1>0, <1>9, <2>2
      DEF ChooseDefault, PulseTypeOK, DefaultKnown, Heard, HearsItsSink, Recording
    <3> QED  BY <3>1, <3>2, <3>3, <3>4, <3>5 DEF PulseInv
  <2> QED  BY <1>9, <2>0, <2>1, <2>2 DEF ChooseDefault
<1>10. ASSUME ListenToMonitor PROVE PulseInv'
  <2>1. CASE Unanswered
    <3>1. PulseTypeOK'
      BY <1>0, <1>10, <2>1, PulseNames DEF ListenToMonitor, Unanswered, PulseTypeOK
    <3>2. LoadedOnce'
      BY <1>0, <1>10, <2>1 DEF ListenToMonitor, Unanswered, PulseTypeOK, LoadedOnce
    <3>3. ModulesKnown'
      BY <1>0, <1>10, <2>1
      DEF ListenToMonitor, Unanswered, PulseTypeOK, LoadedOnce, ModulesKnown, Knowing, Recording
    <3>4. DefaultKnown'
      BY <1>0, <1>10, <2>1
      DEF ListenToMonitor, Unanswered, PulseTypeOK, SinkNames, DefaultKnown, Unchosen, Knowing,
          Recording
    <3>5. Heard'
      BY <1>0, <1>10, <2>1
      DEF ListenToMonitor, Unanswered, PulseTypeOK, DefaultKnown, Heard, HearsItsSink, Recording
    <3> QED  BY <3>1, <3>2, <3>3, <3>4, <3>5 DEF PulseInv
  <2>2. CASE call' = "captures" /\ listening' = SinkHeard /\ unrefused' = unrefused
    <3>1. PulseTypeOK'
      BY <1>0, <1>10, <2>2, PulseNames
      DEF ListenToMonitor, SinkHeard, Present, Unanswered, PulseTypeOK
    <3>2. LoadedOnce'
      BY <1>0, <1>10, <2>2
      DEF ListenToMonitor, SinkHeard, Present, Unanswered, PulseTypeOK, LoadedOnce
    <3>3. ModulesKnown'
      BY <1>0, <1>10, <2>2
      DEF ListenToMonitor, SinkHeard, Present, Unanswered, PulseTypeOK, LoadedOnce,
          ModulesKnown, Knowing, Recording
    <3>4. DefaultKnown'
      BY <1>0, <1>10, <2>2
      DEF ListenToMonitor, SinkHeard, Present, Unanswered, PulseTypeOK, SinkNames, DefaultKnown,
          Unchosen, Knowing, Recording
    <3>5. Heard'
      BY <1>0, <1>10, <2>2
      DEF ListenToMonitor, SinkHeard, Present, Unanswered, PulseTypeOK, DefaultKnown, Heard,
          HearsItsSink, Recording
    <3> QED  BY <3>1, <3>2, <3>3, <3>4, <3>5 DEF PulseInv
  <2>3. CASE call' = "deaf" /\ listening' = listening
    <3>1. PulseTypeOK'
      BY <1>0, <1>10, <2>3, PulseNames DEF ListenToMonitor, Unanswered, PulseTypeOK
    <3>2. LoadedOnce'
      BY <1>0, <1>10, <2>3 DEF ListenToMonitor, Unanswered, PulseTypeOK, LoadedOnce
    <3>3. ModulesKnown'
      BY <1>0, <1>10, <2>3
      DEF ListenToMonitor, Unanswered, PulseTypeOK, LoadedOnce, ModulesKnown, Knowing, Recording
    <3>4. DefaultKnown'
      BY <1>0, <1>10, <2>3
      DEF ListenToMonitor, Unanswered, PulseTypeOK, SinkNames, DefaultKnown, Unchosen, Knowing,
          Recording
    <3>5. Heard'
      BY <1>0, <1>10, <2>3
      DEF ListenToMonitor, Unanswered, PulseTypeOK, DefaultKnown, Heard, HearsItsSink, Recording
    <3> QED  BY <3>1, <3>2, <3>3, <3>4, <3>5 DEF PulseInv
  <2> QED  BY <1>10, <2>1, <2>2, <2>3 DEF ListenToMonitor, Unanswered
<1>11. ASSUME ListenToMonitorAgain PROVE PulseInv'
  <2>1. PulseTypeOK'
    BY <1>0, <1>11, PulseNames DEF ListenToMonitorAgain, PulseTypeOK
  <2>2. LoadedOnce'
    BY <1>0, <1>11 DEF ListenToMonitorAgain, PulseTypeOK, LoadedOnce
  <2>3. ModulesKnown'
    BY <1>0, <1>11
    DEF ListenToMonitorAgain, PulseTypeOK, LoadedOnce, ModulesKnown, Knowing, Recording
  <2>4. DefaultKnown'
    BY <1>0, <1>11
    DEF ListenToMonitorAgain, PulseTypeOK, SinkNames, DefaultKnown, Unchosen, Knowing, Recording
  <2>5. Heard'
    BY <1>0, <1>11
    DEF ListenToMonitorAgain, PulseTypeOK, DefaultKnown, Heard, HearsItsSink, Recording
  <2> QED  BY <2>1, <2>2, <2>3, <2>4, <2>5 DEF PulseInv
<1>12. ASSUME StopControl PROVE PulseInv'
  <2>1. PulseTypeOK'
    BY <1>0, <1>12, PulseNames DEF StopControl, PulseTypeOK
  <2>2. LoadedOnce'
    BY <1>0, <1>12 DEF StopControl, PulseTypeOK, LoadedOnce
  <2>3. ModulesKnown'
    BY <1>0, <1>12 DEF StopControl, PulseTypeOK, LoadedOnce, ModulesKnown, Knowing, Recording
  <2>4. DefaultKnown'
    BY <1>0, <1>12
    DEF StopControl, PulseTypeOK, SinkNames, DefaultKnown, Unchosen, Knowing, Recording,
        Fallback
  <2>5. Heard'
    BY <1>0, <1>12 DEF StopControl, PulseTypeOK, DefaultKnown, Heard, HearsItsSink, Recording
  <2> QED  BY <2>1, <2>2, <2>3, <2>4, <2>5 DEF PulseInv
<1>13. ASSUME RestoreDefault PROVE PulseInv'
  <2>00. Swap(SinkBefore, "unload") =>
           /\ defaultSink' \in NullSinks \cup UserSinks
           /\ defaultSink' \in UserSinks \/ modules[defaultSink'] > 0
           /\ requested' \in SinkNames /\ call' = "unload"
           /\ unrefused' = FALSE \/ (defaultSink' = SinkBefore /\ unrefused' = unrefused)
    BY SwapLeaves
  <2>1. CASE SinkBefore # NoSink /\ Swap(SinkBefore, "unload")
    <3>1. PulseTypeOK'
      BY <1>0, <1>13, <2>1, <2>00, PulseNames DEF RestoreDefault, SinkBefore, PulseTypeOK
    <3>2. LoadedOnce'
      BY <1>0, <1>13, <2>1, <2>00 DEF RestoreDefault, SinkBefore, PulseTypeOK, LoadedOnce
    <3>3. ModulesKnown'
      BY <1>0, <1>13, <2>1, <2>00
      DEF RestoreDefault, SinkBefore, PulseTypeOK, LoadedOnce, ModulesKnown, Knowing, Recording
    <3>4. DefaultKnown'
      BY <1>0, <1>13, <2>1, <2>00
      DEF RestoreDefault, SinkBefore, PulseTypeOK, SinkNames, DefaultKnown, Unchosen, Knowing,
          Recording, Fallback
    <3>5. Heard'
      BY <1>0, <1>13, <2>1, <2>00
      DEF RestoreDefault, SinkBefore, PulseTypeOK, DefaultKnown, Heard, HearsItsSink, Recording
    <3> QED  BY <3>1, <3>2, <3>3, <3>4, <3>5 DEF PulseInv
  <2>2. CASE SinkBefore = NoSink
    <3>1. PulseTypeOK'
      BY <1>0, <1>13, <2>2, PulseNames DEF RestoreDefault, SinkBefore, PulseTypeOK
    <3>2. LoadedOnce'
      BY <1>0, <1>13, <2>2 DEF RestoreDefault, SinkBefore, PulseTypeOK, LoadedOnce
    <3>3. ModulesKnown'
      BY <1>0, <1>13, <2>2
      DEF RestoreDefault, SinkBefore, PulseTypeOK, LoadedOnce, ModulesKnown, Knowing, Recording
    <3>4. DefaultKnown'
      BY <1>0, <1>13, <2>2
      DEF RestoreDefault, SinkBefore, PulseTypeOK, SinkNames, DefaultKnown, Unchosen, Knowing,
          Recording, Fallback
    <3>5. Heard'
      BY <1>0, <1>13, <2>2
      DEF RestoreDefault, SinkBefore, PulseTypeOK, DefaultKnown, Heard, HearsItsSink, Recording
    <3> QED  BY <3>1, <3>2, <3>3, <3>4, <3>5 DEF PulseInv
  <2> QED  BY <1>13, <2>1, <2>2 DEF RestoreDefault
<1>14. ASSUME Disconnect PROVE PulseInv'
  <2>1. PulseTypeOK'
    BY <1>0, <1>14, PulseNames DEF Disconnect, PulseTypeOK
  <2>2. LoadedOnce'
    BY <1>0, <1>14 DEF Disconnect, PulseTypeOK, LoadedOnce
  <2>3. ModulesKnown'
    BY <1>0, <1>14 DEF Disconnect, PulseTypeOK, LoadedOnce, ModulesKnown, Knowing, Recording
  <2>4. DefaultKnown'
    BY <1>0, <1>14
    DEF Disconnect, PulseTypeOK, SinkNames, DefaultKnown, Unchosen, Knowing, Recording, Fallback
  <2>5. Heard'
    BY <1>0, <1>14 DEF Disconnect, PulseTypeOK, DefaultKnown, Heard, HearsItsSink, Recording
  <2> QED  BY <2>1, <2>2, <2>3, <2>4, <2>5 DEF PulseInv
<1>15. ASSUME EndControl PROVE PulseInv'
  <2>1. PulseTypeOK'
    BY <1>0, <1>15, PulseNames DEF EndControl, FreshControl, PulseTypeOK
  <2>2. LoadedOnce'
    BY <1>0, <1>15 DEF EndControl, FreshControl, PulseTypeOK, LoadedOnce
  <2>3. ModulesKnown'
    BY <1>0, <1>15
    DEF EndControl, FreshControl, PulseTypeOK, LoadedOnce, ModulesKnown, Knowing, Recording
  <2>4. DefaultKnown'
    BY <1>0, <1>15
    DEF EndControl, FreshControl, PulseTypeOK, SinkNames, DefaultKnown, Unchosen, Knowing,
        Recording, Fallback
  <2>5. Heard'
    BY <1>0, <1>15
    DEF EndControl, FreshControl, PulseTypeOK, DefaultKnown, Heard, HearsItsSink, Recording
  <2> QED  BY <2>1, <2>2, <2>3, <2>4, <2>5 DEF PulseInv
<1>16. ASSUME PulseHostDies PROVE PulseInv'
  <2>1. PulseTypeOK'
    BY <1>0, <1>16, PulseNames DEF PulseHostDies, FreshControl, PulseTypeOK
  <2>2. LoadedOnce'
    BY <1>0, <1>16 DEF PulseHostDies, FreshControl, PulseTypeOK, LoadedOnce
  <2>3. ModulesKnown'
    BY <1>0, <1>16
    DEF PulseHostDies, FreshControl, PulseTypeOK, LoadedOnce, ModulesKnown, Knowing, Recording
  <2>4. DefaultKnown'
    BY <1>0, <1>16
    DEF PulseHostDies, FreshControl, PulseTypeOK, SinkNames, DefaultKnown, Unchosen, Knowing,
        Recording
  <2>5. Heard'
    BY <1>0, <1>16
    DEF PulseHostDies, FreshControl, PulseTypeOK, DefaultKnown, Heard, HearsItsSink, Recording
  <2> QED  BY <2>1, <2>2, <2>3, <2>4, <2>5 DEF PulseInv
<1>17. ASSUME ReportDefault PROVE PulseInv'
  <2>1. PulseTypeOK'
    BY <1>0, <1>17, PulseNames DEF ReportDefault, PulseTypeOK
  <2>2. LoadedOnce'
    BY <1>0, <1>17 DEF ReportDefault, PulseTypeOK, LoadedOnce
  <2>3. ModulesKnown'
    BY <1>0, <1>17 DEF ReportDefault, PulseTypeOK, LoadedOnce, ModulesKnown, Knowing, Recording
  <2>4. DefaultKnown'
    BY <1>0, <1>17
    DEF ReportDefault, PulseTypeOK, SinkNames, DefaultKnown, Unchosen, Knowing, Recording
  <2>5. Heard'
    BY <1>0, <1>17 DEF ReportDefault, PulseTypeOK, DefaultKnown, Heard, HearsItsSink, Recording
  <2> QED  BY <2>1, <2>2, <2>3, <2>4, <2>5 DEF PulseInv
<1>18. ASSUME UserMeddles PROVE PulseInv'
  <2>0. \A newSink \in Present :
          newSink \in UserSinks \/ (newSink \in NullSinks /\ modules[newSink] > 0)
    BY <1>0 DEF Present, LoadedOnce
  <2>1. CASE \E newSink \in Present :
               defaultSink' = newSink /\ reported' = newSink /\ UNCHANGED modules
    <3>1. PulseTypeOK'
      BY <1>0, <1>18, <2>1, <2>0, PulseNames DEF UserMeddles, PulseTypeOK
    <3>2. LoadedOnce'
      BY <1>0, <1>18, <2>1, <2>0 DEF UserMeddles, PulseTypeOK, LoadedOnce
    <3>3. ModulesKnown'
      BY <1>0, <1>18, <2>1, <2>0
      DEF UserMeddles, PulseTypeOK, LoadedOnce, ModulesKnown, Knowing, Recording
    <3>4. DefaultKnown'
      BY <1>0, <1>18, <2>1, <2>0
      DEF UserMeddles, PulseTypeOK, SinkNames, DefaultKnown, Unchosen, Knowing, Recording
    <3>5. Heard'
      BY <1>0, <1>18, <2>1, <2>0
      DEF UserMeddles, PulseTypeOK, DefaultKnown, Heard, HearsItsSink, Recording
    <3> QED  BY <3>1, <3>2, <3>3, <3>4, <3>5 DEF PulseInv
  <2>2. CASE \E n \in NullSinks : modules[n] > 0 /\ Gone(n)
    <3>1. PulseTypeOK'
      BY <1>0, <1>18, <2>2, GoneLeaves, PulseNames DEF UserMeddles, PulseTypeOK
    <3>2. LoadedOnce'
      BY <1>0, <1>18, <2>2, GoneLeaves DEF UserMeddles, PulseTypeOK, LoadedOnce
    <3>3. ModulesKnown'
      BY <1>0, <1>18, <2>2, GoneLeaves
      DEF UserMeddles, PulseTypeOK, LoadedOnce, ModulesKnown, Knowing, Recording
    <3>4. DefaultKnown'
      BY <1>0, <1>18, <2>2, GoneLeaves
      DEF UserMeddles, PulseTypeOK, SinkNames, DefaultKnown, Unchosen, Knowing, Recording
    <3>5. Heard'
      BY <1>0, <1>18, <2>2, GoneLeaves
      DEF UserMeddles, PulseTypeOK, DefaultKnown, Heard, HearsItsSink, Recording
    <3> QED  BY <3>1, <3>2, <3>3, <3>4, <3>5 DEF PulseInv
  <2> QED  BY <1>18, <2>1, <2>2 DEF UserMeddles
<1>19. ASSUME NEW n \in NullSinks, LoadNull(n) PROVE PulseInv'
  <2>9. n \notin index => modules[n] <= shortLists
    BY <1>0, <1>19 DEF LoadNull, LoadedOnce
  <2>0. n \notin index /\ modules' = [modules EXCEPT ![n] = @ + 1] =>
          /\ modules' \in [NullSinks -> Nat] /\ modules'[n] = modules[n] + 1
          /\ \A m \in NullSinks \ {n} : modules'[m] = modules[m]
    BY <1>0, OneMore DEF PulseTypeOK
  <2>1. CASE n \notin index /\ Unanswered
    <3>1. PulseTypeOK'
      BY <1>0, <1>19, <2>1, PulseNames DEF LoadNull, Unanswered, PulseTypeOK
    <3>2. LoadedOnce'
      BY <1>0, <1>19, <2>1 DEF LoadNull, Unanswered, PulseTypeOK, LoadedOnce
    <3>3. ModulesKnown'
      BY <1>0, <1>19, <2>1
      DEF LoadNull, Unanswered, PulseTypeOK, LoadedOnce, ModulesKnown, Knowing, Recording
    <3>4. DefaultKnown'
      BY <1>0, <1>19, <2>1
      DEF LoadNull, Unanswered, PulseTypeOK, SinkNames, DefaultKnown, Unchosen, Knowing,
          Recording
    <3>5. Heard'
      BY <1>0, <1>19, <2>1
      DEF LoadNull, Unanswered, PulseTypeOK, DefaultKnown, Heard, HearsItsSink, Recording
    <3> QED  BY <3>1, <3>2, <3>3, <3>4, <3>5 DEF PulseInv
  <2>2. CASE /\ n \in index /\ sinksLeft' = sinksLeft \ {n}
             /\ UNCHANGED <<modules, index, unrefused>>
    <3>1. PulseTypeOK'
      BY <1>0, <1>19, <2>2, PulseNames DEF LoadNull, Unanswered, PulseTypeOK
    <3>2. LoadedOnce'
      BY <1>0, <1>19, <2>2 DEF LoadNull, Unanswered, PulseTypeOK, LoadedOnce
    <3>3. ModulesKnown'
      BY <1>0, <1>19, <2>2
      DEF LoadNull, Unanswered, PulseTypeOK, LoadedOnce, ModulesKnown, Knowing, Recording
    <3>4. DefaultKnown'
      BY <1>0, <1>19, <2>2
      DEF LoadNull, Unanswered, PulseTypeOK, SinkNames, DefaultKnown, Unchosen, Knowing,
          Recording
    <3>5. Heard'
      BY <1>0, <1>19, <2>2
      DEF LoadNull, Unanswered, PulseTypeOK, DefaultKnown, Heard, HearsItsSink, Recording
    <3> QED  BY <3>1, <3>2, <3>3, <3>4, <3>5 DEF PulseInv
  <2>3. CASE /\ n \notin index /\ modules' = [modules EXCEPT ![n] = @ + 1]
             /\ index' = index \cup {n} /\ sinksLeft' = sinksLeft \ {n} /\ UNCHANGED unrefused
    <3>1. PulseTypeOK'
      BY <1>0, <1>19, <2>3, <2>0, PulseNames DEF LoadNull, Unanswered, PulseTypeOK
    <3>2. LoadedOnce'
      <4>1. /\ call' = call /\ sinksLeft' = sinksLeft \ {n} /\ index' = index \cup {n}
            /\ UNCHANGED <<defaultSink, shortLists>>
        BY <1>0, <1>19, <2>0, <2>3 DEF LoadNull, Unanswered, PulseTypeOK
      <4>2. \A m \in NullSinks : modules'[m] <= 1 + shortLists
        BY <1>0, <2>3, <2>0, <2>9 DEF PulseTypeOK, LoadedOnce
      <4>3. defaultSink \in UserSinks \/ modules'[defaultSink] > 0
        BY <1>0, <2>3, <2>0 DEF PulseTypeOK, LoadedOnce
      <4>4. \A m \in NullSinks \ index' :
              (call = "default" \/ (call = "load" /\ m \in sinksLeft)) => modules'[m] <= shortLists
        BY <1>0, <2>3, <2>0, <4>1 DEF PulseTypeOK, LoadedOnce
      <4> QED  BY <4>1, <4>2, <4>3, <4>4 DEF LoadedOnce
    <3>3. ModulesKnown'
      BY <1>0, <1>19, <2>3, <2>0
      DEF LoadNull, Unanswered, PulseTypeOK, LoadedOnce, ModulesKnown, Knowing, Recording
    <3>4. DefaultKnown'
      BY <1>0, <1>19, <2>3, <2>0
      DEF LoadNull, Unanswered, PulseTypeOK, SinkNames, DefaultKnown, Unchosen, Knowing,
          Recording
    <3>5. Heard'
      BY <1>0, <1>19, <2>3, <2>0
      DEF LoadNull, Unanswered, PulseTypeOK, DefaultKnown, Heard, HearsItsSink, Recording
    <3> QED  BY <3>1, <3>2, <3>3, <3>4, <3>5 DEF PulseInv
  <2>4. CASE /\ n \notin index /\ sinksLeft' = sinksLeft \ {n} /\ unrefused' = FALSE
             /\ UNCHANGED <<modules, index>>
    <3>1. PulseTypeOK'
      BY <1>0, <1>19, <2>4, PulseNames DEF LoadNull, Unanswered, PulseTypeOK
    <3>2. LoadedOnce'
      BY <1>0, <1>19, <2>4 DEF LoadNull, Unanswered, PulseTypeOK, LoadedOnce
    <3>3. ModulesKnown'
      BY <1>0, <1>19, <2>4
      DEF LoadNull, Unanswered, PulseTypeOK, LoadedOnce, ModulesKnown, Knowing, Recording
    <3>4. DefaultKnown'
      BY <1>0, <1>19, <2>4
      DEF LoadNull, Unanswered, PulseTypeOK, SinkNames, DefaultKnown, Unchosen, Knowing,
          Recording
    <3>5. Heard'
      BY <1>0, <1>19, <2>4
      DEF LoadNull, Unanswered, PulseTypeOK, DefaultKnown, Heard, HearsItsSink, Recording
    <3> QED  BY <3>1, <3>2, <3>3, <3>4, <3>5 DEF PulseInv
  <2> QED  BY <1>19, <2>1, <2>2, <2>3, <2>4 DEF LoadNull, IsRefused
<1>20. ASSUME NEW n \in NullSinks, UnloadNull(n) PROVE PulseInv'
  <2>1. CASE n \in index /\ Unanswered
    <3>1. PulseTypeOK'
      BY <1>0, <1>20, <2>1, PulseNames DEF UnloadNull, Unanswered, PulseTypeOK
    <3>2. LoadedOnce'
      BY <1>0, <1>20, <2>1 DEF UnloadNull, Unanswered, PulseTypeOK, LoadedOnce
    <3>3. ModulesKnown'
      BY <1>0, <1>20, <2>1
      DEF UnloadNull, Unanswered, PulseTypeOK, LoadedOnce, ModulesKnown, Knowing, Recording
    <3>4. DefaultKnown'
      BY <1>0, <1>20, <2>1
      DEF UnloadNull, Unanswered, PulseTypeOK, SinkNames, DefaultKnown, Unchosen, Knowing,
          Recording
    <3>5. Heard'
      BY <1>0, <1>20, <2>1
      DEF UnloadNull, Unanswered, PulseTypeOK, DefaultKnown, Heard, HearsItsSink, Recording
    <3> QED  BY <3>1, <3>2, <3>3, <3>4, <3>5 DEF PulseInv
  <2>2. CASE /\ n \notin index /\ sinksLeft' = sinksLeft \ {n}
             /\ UNCHANGED <<serverVars, unrefused>>
    <3>1. PulseTypeOK'
      BY <1>0, <1>20, <2>2, PulseNames DEF UnloadNull, Unanswered, PulseTypeOK
    <3>2. LoadedOnce'
      BY <1>0, <1>20, <2>2 DEF UnloadNull, Unanswered, PulseTypeOK, LoadedOnce
    <3>3. ModulesKnown'
      BY <1>0, <1>20, <2>2
      DEF UnloadNull, Unanswered, PulseTypeOK, LoadedOnce, ModulesKnown, Knowing, Recording
    <3>4. DefaultKnown'
      BY <1>0, <1>20, <2>2
      DEF UnloadNull, Unanswered, PulseTypeOK, SinkNames, DefaultKnown, Unchosen, Knowing,
          Recording
    <3>5. Heard'
      BY <1>0, <1>20, <2>2
      DEF UnloadNull, Unanswered, PulseTypeOK, DefaultKnown, Heard, HearsItsSink, Recording
    <3> QED  BY <3>1, <3>2, <3>3, <3>4, <3>5 DEF PulseInv
  <2>3. CASE /\ n \in index /\ sinksLeft' = sinksLeft \ {n} /\ modules[n] > 0 /\ Gone(n)
             /\ UNCHANGED unrefused
    <3>1. PulseTypeOK'
      BY <1>0, <1>20, <2>3, GoneLeaves, PulseNames DEF UnloadNull, Unanswered, PulseTypeOK
    <3>2. LoadedOnce'
      <4>1. call' = "unload" /\ shortLists' = shortLists /\ Gone(n) /\ modules[n] > 0
        BY <1>0, <1>20, <2>3, GoneLeaves DEF UnloadNull, Unanswered, PulseTypeOK
      <4>2. \A m \in NullSinks : modules'[m] <= 1 + shortLists
        BY <1>0, <4>1, GoneLeaves DEF PulseTypeOK, LoadedOnce
      <4>3. defaultSink' \in UserSinks \/ modules'[defaultSink'] > 0
        BY <4>1, GoneLeaves
      <4> QED  BY <4>1, <4>2, <4>3 DEF LoadedOnce
    <3>3. ModulesKnown'
      BY <1>0, <1>20, <2>3, GoneLeaves
      DEF UnloadNull, Unanswered, PulseTypeOK, LoadedOnce, ModulesKnown, Knowing, Recording
    <3>4. DefaultKnown'
      BY <1>0, <1>20, <2>3, GoneLeaves
      DEF UnloadNull, Unanswered, PulseTypeOK, SinkNames, DefaultKnown, Unchosen, Knowing,
          Recording, Fallback
    <3>5. Heard'
      BY <1>0, <1>20, <2>3, GoneLeaves
      DEF UnloadNull, Unanswered, PulseTypeOK, DefaultKnown, Heard, HearsItsSink, Recording
    <3> QED  BY <3>1, <3>2, <3>3, <3>4, <3>5 DEF PulseInv
  <2>4. CASE /\ n \in index /\ sinksLeft' = sinksLeft \ {n} /\ unrefused' = FALSE
             /\ UNCHANGED serverVars
    <3>1. PulseTypeOK'
      BY <1>0, <1>20, <2>4, PulseNames DEF UnloadNull, Unanswered, PulseTypeOK
    <3>2. LoadedOnce'
      BY <1>0, <1>20, <2>4 DEF UnloadNull, Unanswered, PulseTypeOK, LoadedOnce
    <3>3. ModulesKnown'
      BY <1>0, <1>20, <2>4
      DEF UnloadNull, Unanswered, PulseTypeOK, LoadedOnce, ModulesKnown, Knowing, Recording
    <3>4. DefaultKnown'
      BY <1>0, <1>20, <2>4
      DEF UnloadNull, Unanswered, PulseTypeOK, SinkNames, DefaultKnown, Unchosen, Knowing,
          Recording
    <3>5. Heard'
      BY <1>0, <1>20, <2>4
      DEF UnloadNull, Unanswered, PulseTypeOK, DefaultKnown, Heard, HearsItsSink, Recording
    <3> QED  BY <3>1, <3>2, <3>3, <3>4, <3>5 DEF PulseInv
  <2> QED  BY <1>20, <2>1, <2>2, <2>3, <2>4 DEF UnloadNull, IsRefused
<1>21. ASSUME UNCHANGED pulseVars PROVE PulseInv'
  <2>1. PulseTypeOK'
    BY <1>0, <1>21, PulseNames DEF pulseVars, PulseTypeOK
  <2>2. LoadedOnce'
    BY <1>0, <1>21 DEF pulseVars, PulseTypeOK, LoadedOnce
  <2>3. ModulesKnown'
    BY <1>0, <1>21 DEF pulseVars, PulseTypeOK, LoadedOnce, ModulesKnown, Knowing, Recording
  <2>4. DefaultKnown'
    BY <1>0, <1>21
    DEF pulseVars, PulseTypeOK, SinkNames, DefaultKnown, Unchosen, Knowing, Recording
  <2>5. Heard'
    BY <1>0, <1>21 DEF pulseVars, PulseTypeOK, DefaultKnown, Heard, HearsItsSink, Recording
  <2> QED  BY <2>1, <2>2, <2>3, <2>4, <2>5 DEF PulseInv
<1> QED  BY <1>1, <1>2, <1>3, <1>4, <1>5, <1>6, <1>7, <1>8, <1>9, <1>10, <1>11, <1>12, <1>13,
            <1>14, <1>15, <1>16, <1>17, <1>18, <1>19, <1>20, <1>21 DEF PulseNext

(* A null sink is never there twice, the default is there, and what is     *)
(* changed is given back.                                                  *)
LEMMA PulseGivesBack == PulseInv => NullSinksOnce /\ SinksUnloaded /\ HearsItsSink
<1> SUFFICES ASSUME PulseInv PROVE NullSinksOnce /\ SinksUnloaded
  BY DEF PulseInv, Heard
<1> USE PulseAssumption DEF PulseInv, LoadedOnce
<1>1. NullSinksOnce
  BY DEF NullSinksOnce, Present, PulseTypeOK
<1>2. SinksUnloaded
  BY DEF SinksUnloaded, ModulesKnown, DefaultKnown, Fallback, PulseTypeOK
<1> QED  BY <1>1, <1>2

(* Nothing is announced before it is asked for.                            *)
LEMMA AnnouncementStarts == AnnouncementInit => AnnouncementInv
  BY DEF AnnouncementInit, AnnouncementInv, AnnouncementWithdrawn, NoEntries, Holds

(* What Windows gave a reference to is all that it announces.              *)
LEMMA AnnouncementGoesOn ==
  AnnouncementInv /\ [AnnouncementNext]_publishVars => AnnouncementInv'
<1> SUFFICES ASSUME AnnouncementInv, [AnnouncementNext]_publishVars PROVE AnnouncementInv'
  OBVIOUS
<1> USE DEF AnnouncementInv, AnnouncementWithdrawn, Holds, NoEntries, externalVars
<1>1. ASSUME StartAvahi PROVE AnnouncementInv'
  BY <1>1 DEF StartAvahi
<1>2. ASSUME ServerChanges PROVE AnnouncementInv'
  BY <1>2 DEF ServerChanges
<1>3. ASSUME EntriesChange PROVE AnnouncementInv'
  BY <1>3 DEF EntriesChange, EmptyGroup
<1>4. ASSUME Dispatch PROVE AnnouncementInv'
  BY <1>4 DEF Dispatch
<1>5. ASSUME PollEnds PROVE AnnouncementInv'
  BY <1>5 DEF PollEnds
<1>6. ASSUME StopAvahi PROVE AnnouncementInv'
  BY <1>6 DEF StopAvahi
<1>7. ASSUME RegisterWindows PROVE AnnouncementInv'
  <2>1. publisher' = "made" /\ reference' = (entered' # entered) /\ entered = NoEntries
    BY <1>7 DEF RegisterWindows
  <2>2. ~reference' => entered' = NoEntries
    BY <2>1
  <2> QED  BY <2>1, <2>2
<1>8. ASSUME UnregisterWindows PROVE AnnouncementInv'
  BY <1>8 DEF UnregisterWindows
<1>9. ASSUME RegisterMac PROVE AnnouncementInv'
  BY <1>9 DEF RegisterMac
<1>10. ASSUME AnswersMac PROVE AnnouncementInv'
  BY <1>10 DEF AnswersMac
<1>11. ASSUME PollMac PROVE AnnouncementInv'
  BY <1>11 DEF PollMac
<1>12. ASSUME ProcessMac PROVE AnnouncementInv'
  BY <1>12 DEF ProcessMac
<1>13. ASSUME AskMacToStop PROVE AnnouncementInv'
  BY <1>13 DEF AskMacToStop
<1>14. ASSUME UnregisterMac PROVE AnnouncementInv'
  BY <1>14 DEF UnregisterMac
<1>15. ASSUME UNCHANGED publishVars PROVE AnnouncementInv'
  BY <1>15 DEF publishVars
<1> QED  BY <1>1, <1>2, <1>3, <1>4, <1>5, <1>6, <1>7, <1>8, <1>9, <1>10, <1>11, <1>12, <1>13,
            <1>14, <1>15 DEF AnnouncementNext

-------------------------------------------------------------------------------
(* The virtual touch screen and pen of a client on Windows.                *)

Slot == [id : Pointers \cup {NoId, ThePen}, flags : SUBSET Flags]
(* The pointers in contact by the slots.                                   *)
Touching(info) == {info[i].id : i \in {j \in DOMAIN info : "INCONTACT" \in info[j].flags}}
Distinct(info) == \A i, j \in Used(info) : i # j => info[i].id # info[j].id

LEMMA SlotCountType == SlotCount \in Nat \ {0}
  BY SlotsAssumption DEF SlotCount

(* The rank of a used slot numbers them from 1.                            *)
LEMMA UsedFinite ==
  ASSUME NEW m \in Nat, NEW info \in [1..m -> Slot]
  PROVE  /\ IsFiniteSet(Used(info)) /\ Used(info) \subseteq 1..m
         /\ Cardinality(Used(info)) \in 0..m
         /\ Used(info) = {} <=> Cardinality(Used(info)) = 0
<1>1. Used(info) \subseteq 1..m
  BY DEF Used
<1>2. IsFiniteSet(1..m) /\ Cardinality(1..m) = m
  BY FS_Interval
<1>3. IsFiniteSet(Used(info)) /\ Cardinality(Used(info)) <= m
  BY <1>1, <1>2, FS_Subset
<1>4. Cardinality(Used(info)) \in Nat
  BY <1>3, FS_CardinalityType
<1> QED  BY <1>1, <1>3, <1>4, FS_EmptySet

LEMMA RanksCount ==
  ASSUME NEW m \in Nat, NEW info \in [1..m -> Slot]
  PROVE  /\ \A i \in Used(info) : Rank(info, i) \in 1..Cardinality(Used(info))
         /\ \A i, j \in Used(info) : Rank(info, i) = Rank(info, j) => i = j
         /\ \A n \in 1..Cardinality(Used(info)) : \E i \in Used(info) : Rank(info, i) = n
<1> DEFINE U == Used(info)
           k == Cardinality(U)
           Upto(i) == {j \in U : j <= i}
           rank == [i \in U |-> Rank(info, i)]
<1>1. IsFiniteSet(U) /\ U \subseteq 1..m /\ k \in Nat
  BY UsedFinite
<1>2. \A i \in U : /\ IsFiniteSet(Upto(i)) /\ Cardinality(Upto(i)) <= k
                   /\ Cardinality(Upto(i)) \in Nat /\ Cardinality(Upto(i)) # 0
  <2> TAKE i \in U
  <2>1. Upto(i) \in SUBSET U /\ i \in Upto(i)
    BY <1>1
  <2>2. IsFiniteSet(Upto(i)) /\ Cardinality(Upto(i)) <= k
    BY <1>1, <2>1, FS_Subset
  <2> QED  BY <2>1, <2>2, FS_CardinalityType, FS_EmptySet
<1>3. \A i \in U : Rank(info, i) \in 1..k
  BY <1>1, <1>2 DEF Rank
<1>4. \A i, j \in U : i < j => Rank(info, i) # Rank(info, j)
  <2> TAKE i \in U, j \in U
  <2> HAVE i < j
  <2>1. Upto(i) \in SUBSET Upto(j)
    BY <1>1
  <2>2. j \in Upto(j) /\ j \notin Upto(i)
    BY <1>1
  <2>3. Cardinality(Upto(i)) # Cardinality(Upto(j))
    BY <1>2, <2>1, <2>2, FS_Subset
  <2> QED  BY <2>3 DEF Rank
<1>5. \A i, j \in U : Rank(info, i) = Rank(info, j) => i = j
  BY <1>1, <1>4
<1>6. rank \in Injection(U, 1..k)
  BY <1>3, <1>5 DEF Injection, IsInjective
<1>7. IsFiniteSet(1..k) /\ Cardinality(1..k) = k
  BY <1>1, FS_Interval
<1>8. rank \in Surjection(U, 1..k)
  BY <1>6, <1>7, FS_Injection
<1>9. \A n \in 1..k : \E i \in U : rank[i] = n
  BY <1>8 DEF Surjection
<1> QED  BY <1>3, <1>5, <1>9

(* The used slots moved up are the first, and each is one of those before. *)
LEMMA CompactedIs ==
  ASSUME NEW m \in Nat, NEW info \in [1..m -> Slot], Distinct(info)
  PROVE  LET new == Compacted(info)
         IN /\ new \in [1..m -> Slot] /\ Distinct(new)
            /\ Used(new) = 1..Cardinality(Used(info))
            /\ Cardinality(Used(new)) = Cardinality(Used(info))
            /\ Touching(new) = Touching(info)
<1> DEFINE U == Used(info)
           k == Cardinality(U)
           new == Compacted(info)
           At(n) == CHOOSE i \in U : Rank(info, i) = n
<1>1. k \in 0..m /\ U \subseteq 1..m
  BY UsedFinite
<1>2. \A n \in 1..k : At(n) \in U /\ Rank(info, At(n)) = n
  <2> TAKE n \in 1..k
  <2>1. \E i \in U : Rank(info, i) = n
    BY RanksCount
  <2> QED  BY <2>1
<1>3. \A n \in 1..k : new[n] = info[At(n)]
  BY <1>1 DEF Compacted
<1>4. \A n \in 1..m : n \notin 1..k => new[n] = Empty
  BY <1>1 DEF Compacted
<1>5. Empty \in Slot
  BY DEF Empty, Slot
<1>6. DOMAIN new = 1..m /\ new = [n \in 1..m |-> new[n]]
  BY DEF Compacted
<1> HIDE DEF At, new
<1>7. \A n \in 1..m : new[n] \in Slot
  BY <1>1, <1>2, <1>3, <1>4, <1>5
<1>8. Used(new) = 1..k
  <2>1. \A i \in U : info[i].flags # {}
    BY DEF Used
  <2>2. \A n \in 1..k : n \in 1..m /\ new[n].flags # {}
    BY <1>1, <1>2, <1>3, <2>1
  <2>3. \A n \in 1..m : n \notin 1..k => new[n].flags = {}
    BY <1>4 DEF Empty
  <2> QED  BY <1>6, <2>2, <2>3 DEF Used
<1>9. \A i \in U : \E n \in 1..k : At(n) = i
  <2> TAKE i \in U
  <2>1. Rank(info, i) \in 1..k
    BY RanksCount
  <2>2. At(Rank(info, i)) = i
    BY <1>2, <2>1, RanksCount
  <2> QED  BY <2>1, <2>2
<1>10. Distinct(new)
  <2> SUFFICES ASSUME NEW a \in 1..k, NEW b \in 1..k, new[a].id = new[b].id PROVE a = b
    BY <1>8 DEF Distinct
  <2>1. info[At(a)].id = info[At(b)].id
    BY <1>3
  <2>2. At(a) = At(b)
    BY <1>2, <2>1 DEF Distinct
  <2> QED  BY <1>2, <2>2
<1>11. Touching(new) = Touching(info)
  <2>1. \A id : id \in Touching(new) => id \in Touching(info)
    <3> SUFFICES ASSUME NEW n \in DOMAIN new, "INCONTACT" \in new[n].flags
                 PROVE  new[n].id \in Touching(info)
      BY DEF Touching
    <3>1. n \in Used(new)
      BY DEF Used
    <3> QED  BY <1>1, <1>2, <1>3, <1>8, <3>1 DEF Touching
  <2>2. \A id : id \in Touching(info) => id \in Touching(new)
    <3> SUFFICES ASSUME NEW i \in DOMAIN info, "INCONTACT" \in info[i].flags
                 PROVE  info[i].id \in Touching(new)
      BY DEF Touching
    <3>1. i \in U
      BY DEF Used
    <3>2. PICK n \in 1..k : At(n) = i
      BY <1>9, <3>1
    <3>3. n \in DOMAIN new /\ new[n] = info[i]
      BY <1>1, <1>3, <1>6, <3>2
    <3> QED  BY <3>3 DEF Touching
  <2> QED  BY <2>1, <2>2
<1>12. Cardinality(1..k) = k
  BY <1>1, FS_Interval
<1> QED  BY <1>6, <1>7, <1>8, <1>10, <1>11, <1>12 DEF new

(* The contacts are those of the slots, and the fingers that were not      *)
(* given up; without a repetition there are none.                          *)
ContactsKept ==
  /\ contacts = Touching(touchInfo) /\ contacts = fingers \ evicted
  /\ repeat = "none" => contacts = {}
PointerInv ==
  /\ tool \in {"touch", "pen"} /\ alive \in BOOLEAN /\ unsure \in BOOLEAN
  /\ touchInfo \in [1..SlotCount -> Slot] /\ Distinct(touchInfo) /\ active \in Nat
  /\ alive /\ ~unsure => ContactsKept
  /\ tool = "pen" => evicted = {} /\ \A i \in Used(touchInfo) : touchInfo[i].id = ThePen

(* The event flags of a pointer that stays are cleared; whether it is in   *)
(* contact is as the event says.                                           *)
Contact(flags, event) ==
  event \in {"DOWN", "MOVE"} \/ (event = "BUTTON_ONLY" /\ "INCONTACT" \in flags)
LEMMA PopulatedFlags ==
  ASSUME NEW flags \in SUBSET Flags, NEW event \in PointerEvents
  PROVE  /\ Populated(flags, event) \in SUBSET Flags
         /\ "INCONTACT" \in Populated(flags, event) <=> Contact(flags, event)
         /\ Populated(flags, event) = {} => flags = {} /\ event = "BUTTON_ONLY"
<1>1. CASE event = "HOVER"
  BY <1>1 DEF Populated, Contact, Flags, Edge, Near, Clears, Sets
<1>2. CASE event = "DOWN"
  <2>1. Clears[event] = {} /\ Sets[event] = {"INCONTACT", "INRANGE", "DOWN"}
    BY <1>2 DEF Clears, Sets, Near
  <2>2. Populated(flags, event) = flags \cup {"INCONTACT", "INRANGE", "DOWN"}
    BY <1>2, <2>1 DEF Populated
  <2> QED  BY <1>2, <2>2 DEF Contact, Flags, Edge
<1>3. CASE event = "UP"
  BY <1>3 DEF Populated, Contact, Flags, Edge, Near, Clears, Sets
<1>4. CASE event = "MOVE"
  <2>1. Clears[event] = {} /\ Sets[event] = {"INCONTACT", "INRANGE", "UPDATE"}
    BY <1>4 DEF Clears, Sets, Near
  <2>2. Populated(flags, event) = flags \cup {"INCONTACT", "INRANGE", "UPDATE"}
    BY <1>4, <2>1 DEF Populated
  <2> QED  BY <1>4, <2>2 DEF Contact, Flags, Edge
<1>5. CASE event = "CANCEL"
  BY <1>5 DEF Populated, Contact, Flags, Edge, Near, Clears, Sets
<1>6. CASE event = "CANCEL_ALL"
  BY <1>6 DEF Populated, Contact, Flags, Edge, Near, Clears, Sets
<1>7. CASE event = "HOVER_LEAVE"
  BY <1>7 DEF Populated, Contact, Flags, Edge, Near, Clears, Sets
<1>8. CASE event = "BUTTON_ONLY"
  BY <1>8 DEF Populated, Contact, Flags, Edge, Near, Clears, Sets
<1> QED  BY <1>1, <1>2, <1>3, <1>4, <1>5, <1>6, <1>7, <1>8 DEF PointerEvents

LEMMA LeastSlot ==
  ASSUME NEW among, among \subseteq Nat, among # {}
  PROVE  FirstSlot(among) \in among
<1> DEFINE R == {ss \in Nat \X Nat : ss[1] < ss[2]}
<1>1. IsWellFoundedOn(R, Nat)
  BY NatLessThanWellFounded DEF OpToRel
<1> HIDE DEF R
<1>2. PICK i \in among : \A j \in among : ~ (<<j, i>> \in R)
  BY <1>1, WFMin
<1>3. \A j \in among : ~ (j < i)
  <2> TAKE j \in among
  <2>1. <<j, i>> \notin R /\ <<j, i>> \in Nat \X Nat /\ <<j, i>>[1] = j /\ <<j, i>>[2] = i
    BY <1>2
  <2> QED  BY <2>1 DEF R
<1>4. \E l \in among : \A j \in among : l <= j
  BY <1>3
<1> QED  BY <1>4 DEF FirstSlot

OnlyAt(info, k, id) == \A i \in Used(info) : i = k <=> info[i].id = id
PutAt(info, k, id, event) ==
  [info EXCEPT ![k] = [id |-> id, flags |-> Populated(info[k].flags, event)]]

(* A pointer put into its slot, or a free one: only its contact changes.   *)
LEMMA PutSlot ==
  ASSUME NEW m \in Nat, NEW info \in [1..m -> Slot], Distinct(info), NEW k \in 1..m,
         NEW id \in Pointers \cup {ThePen}, NEW event \in PointerEvents,
         OnlyAt(info, k, id), NEW put,
         put = PutAt(info, k, id, event)
  PROVE  /\ put \in [1..m -> Slot] /\ Distinct(put) /\ Used(put) \subseteq Used(info) \cup {k}
         /\ put[k].id = id
         /\ event \in {"DOWN", "MOVE"} => Touching(put) = Touching(info) \cup {id}
         /\ event = "BUTTON_ONLY" => Touching(put) = Touching(info)
         /\ event \notin {"DOWN", "MOVE", "BUTTON_ONLY"} =>
              Touching(put) = Touching(info) \ {id}
         /\ k \notin Used(put) => event = "BUTTON_ONLY"
<1> DEFINE new == [id |-> id, flags |-> Populated(info[k].flags, event)]
<1>1. /\ info[k].flags \in SUBSET Flags
      /\ \A i \in 1..m : info[i] \in Slot
  BY DEF Slot
<1>2. \A i \in Used(info) : i = k <=> info[i].id = id
  BY DEF OnlyAt
<1>3. /\ new \in Slot /\ new.id = id
      /\ "INCONTACT" \in new.flags <=> Contact(info[k].flags, event)
      /\ new.flags = {} => info[k].flags = {} /\ event = "BUTTON_ONLY"
  BY <1>1, PopulatedFlags DEF Slot
<1>4. put = [info EXCEPT ![k] = new]
  BY DEF new, PutAt
<1> HIDE DEF new
<1>5. /\ put \in [1..m -> Slot] /\ put[k] = new /\ DOMAIN put = 1..m
      /\ \A i \in 1..m : i # k => put[i] = info[i]
  BY <1>3, <1>4
<1>6. Used(put) \subseteq Used(info) \cup {k}
  BY <1>5 DEF Used
<1>7. \A i \in Used(put) : i # k => i \in Used(info) /\ put[i].id # id
  BY <1>5, <1>2 DEF Used
<1>8. Distinct(put)
  <2> SUFFICES ASSUME NEW i \in Used(put), NEW j \in Used(put), i # j
               PROVE  put[i].id # put[j].id
    BY DEF Distinct
  <2>1. CASE i = k
    BY <1>3, <1>5, <1>7, <2>1
  <2>2. CASE j = k
    BY <1>3, <1>5, <1>7, <2>2
  <2>3. CASE i # k /\ j # k
    <3>1. i \in Used(info) /\ j \in Used(info) /\ i \in 1..m /\ j \in 1..m
      BY <1>7, <2>3 DEF Used
    <3> QED  BY <1>5, <2>3, <3>1 DEF Distinct
  <2> QED  BY <2>1, <2>2, <2>3
<1>9. \A x : x # id => (x \in Touching(put) <=> x \in Touching(info))
  <2> SUFFICES ASSUME NEW x, x # id
               PROVE  x \in Touching(put) <=> x \in Touching(info)
    OBVIOUS
  <2>1. ASSUME x \in Touching(put) PROVE x \in Touching(info)
    <3>1. PICK i \in 1..m : "INCONTACT" \in put[i].flags /\ x = put[i].id
      BY <1>5, <2>1 DEF Touching
    <3>2. i # k
      BY <1>3, <1>5, <3>1
    <3> QED  BY <1>5, <3>1, <3>2 DEF Touching
  <2>2. ASSUME x \in Touching(info) PROVE x \in Touching(put)
    <3>1. PICK i \in 1..m : "INCONTACT" \in info[i].flags /\ x = info[i].id
      BY <2>2 DEF Touching
    <3>2. i # k
      <4>1. i \in Used(info)
        BY <3>1 DEF Used
      <4> QED  BY <1>2, <3>1, <4>1
    <3> QED  BY <1>5, <3>1, <3>2 DEF Touching
  <2> QED  BY <2>1, <2>2
<1>10. id \in Touching(put) <=> Contact(info[k].flags, event)
  <2>1. ASSUME id \in Touching(put) PROVE Contact(info[k].flags, event)
    <3>1. PICK i \in 1..m : "INCONTACT" \in put[i].flags /\ id = put[i].id
      BY <1>5, <2>1 DEF Touching
    <3>2. i \in Used(put)
      BY <1>5, <3>1 DEF Used
    <3>3. i = k
      BY <1>7, <3>1, <3>2
    <3> QED  BY <1>3, <1>5, <3>1, <3>3
  <2>2. ASSUME Contact(info[k].flags, event) PROVE id \in Touching(put)
    BY <1>3, <1>5, <2>2 DEF Touching
  <2> QED  BY <2>1, <2>2
<1>11. id \in Touching(info) <=> "INCONTACT" \in info[k].flags
  <2>1. ASSUME id \in Touching(info) PROVE "INCONTACT" \in info[k].flags
    <3>1. PICK i \in 1..m : "INCONTACT" \in info[i].flags /\ id = info[i].id
      BY <2>1 DEF Touching
    <3>2. i \in Used(info)
      BY <3>1 DEF Used
    <3> QED  BY <1>2, <3>1, <3>2
  <2>2. ASSUME "INCONTACT" \in info[k].flags PROVE id \in Touching(info)
    <3>1. k \in Used(info)
      BY <2>2 DEF Used
    <3>2. info[k].id = id
      BY <1>2, <3>1
    <3> QED  BY <2>2, <3>2 DEF Touching
  <2> QED  BY <2>1, <2>2
<1>12. k \notin Used(put) => event = "BUTTON_ONLY"
  BY <1>3, <1>5 DEF Used
<1>13. event \in {"DOWN", "MOVE"} => Touching(put) = Touching(info) \cup {id}
  BY <1>9, <1>10 DEF Contact
<1>14. event = "BUTTON_ONLY" => Touching(put) = Touching(info)
  <2> HAVE event = "BUTTON_ONLY"
  <2>1. Contact(info[k].flags, event) <=> "INCONTACT" \in info[k].flags
    BY DEF Contact
  <2>2. id \in Touching(put) <=> id \in Touching(info)
    BY <1>10, <1>11, <2>1
  <2>3. \A x : x \in Touching(put) <=> x \in Touching(info)
    BY <1>9, <2>2
  <2> QED  BY <2>3
<1>15. event \notin {"DOWN", "MOVE", "BUTTON_ONLY"} => Touching(put) = Touching(info) \ {id}
  BY <1>9, <1>10 DEF Contact
<1>16. put[k].id = id
  BY <1>3, <1>5
<1> QED  BY <1>5, <1>6, <1>8, <1>12, <1>13, <1>14, <1>15, <1>16

(* What the system holds are the contacts of the slots, if it differed     *)
(* from them at most in those it was told.                                 *)
LEMMA HeldIs ==
  ASSUME NEW m \in Nat, NEW info \in [1..m -> Slot], Distinct(info), NEW n \in Nat, NEW before,
         \A x : \/ x \in before <=> x \in Touching(info)
                \/ \E i \in Used(info) : i <= n /\ x = info[i].id
  PROVE  Held(before, info, n) = Touching(info)
<1> DEFINE listed == {i \in 1..n : i \in Used(info)}
<1>1. Used(info) \subseteq 1..m
  BY DEF Used
<1>2. \A i \in 1..m : i \in Used(info) /\ i <= n <=> i \in listed
  BY <1>1
<1>3. listed \subseteq Used(info)
  OBVIOUS
<1>4. Held(before, info, n) =
        (before \ {info[i].id : i \in listed})
          \cup {info[i].id : i \in {j \in listed : "INCONTACT" \in info[j].flags}}
  BY DEF Held
<1> HIDE DEF listed
<1>5. \A x : x \in {info[i].id : i \in listed} <=> \E i \in Used(info) : i <= n /\ x = info[i].id
  BY <1>1, <1>2, <1>3
<1>6. \A i \in listed : info[i].id \in Touching(info) <=> "INCONTACT" \in info[i].flags
  <2> TAKE i \in listed
  <2>1. ASSUME info[i].id \in Touching(info) PROVE "INCONTACT" \in info[i].flags
    <3>1. PICK j \in 1..m : "INCONTACT" \in info[j].flags /\ info[i].id = info[j].id
      BY <2>1 DEF Touching
    <3>2. j \in Used(info)
      BY <3>1 DEF Used
    <3>3. i = j
      BY <1>3, <3>1, <3>2 DEF Distinct
    <3> QED  BY <3>1, <3>3
  <2>2. ASSUME "INCONTACT" \in info[i].flags PROVE info[i].id \in Touching(info)
    BY <1>1, <1>3, <2>2 DEF Touching
  <2> QED  BY <2>1, <2>2
<1>7. \A x : x \in {info[i].id : i \in {j \in listed : "INCONTACT" \in info[j].flags}} <=>
              \E i \in listed : "INCONTACT" \in info[i].flags /\ x = info[i].id
  OBVIOUS
<1>8. \A x : x \in Held(before, info, n) <=> x \in Touching(info)
  <2> TAKE x
  <2>1. CASE x \in {info[i].id : i \in listed}
    <3>1. PICK i \in listed : x = info[i].id
      BY <2>1
    <3>2. x \in Held(before, info, n) <=>
            \E j \in listed : "INCONTACT" \in info[j].flags /\ x = info[j].id
      BY <1>4, <1>7, <2>1
    <3> QED  BY <1>6, <3>1, <3>2
  <2>2. CASE x \notin {info[i].id : i \in listed}
    <3>1. x \in Held(before, info, n) <=> x \in before
      BY <1>4, <2>2
    <3>2. x \in before <=> x \in Touching(info)
      BY <1>5, <2>2
    <3> QED  BY <3>1, <3>2
  <2> QED  BY <2>1, <2>2
<1> QED  BY <1>8

(* An injection, after which the contacts are those of the slots.          *)
LEMMA InjectKeeps ==
  ASSUME NEW m \in Nat, NEW put \in [1..m -> Slot], Distinct(put), NEW k \in 1..m,
         NEW n \in Nat, k <= n, NEW held, NEW doubt \in BOOLEAN, unsure \in BOOLEAN,
         n = 1 => Used(put) \subseteq {1},
         ~unsure => \A x : \/ x \in held <=> x \in Touching(put)
                           \/ k \in Used(put) /\ x = put[k].id,
         Inject(put, k, n, held, doubt)
  PROVE  /\ touchInfo' \in [1..m -> Slot] /\ Distinct(touchInfo)' /\ unsure' \in BOOLEAN
         /\ active' \in Nat /\ Used(touchInfo') \subseteq Used(put)
         /\ \A i \in 1..m : touchInfo'[i].id = put[i].id
         /\ ~unsure' => /\ ~unsure /\ contacts' = Touching(put)
                        /\ Touching(touchInfo') = Touching(put)
                        /\ repeat' = "none" => contacts' = {}
<1>1. active' \in Nat
  BY DEF Inject
<1>2. CASE touchInfo' = put /\ Known(held, TRUE)
  BY <1>2, <1>1 DEF Known, Distinct
<1>3. ASSUME touchInfo' = [put EXCEPT ![k].flags = @ \ Edge],
             Known(Held(held, put, n), doubt),
             repeat' = IF Repeats(n, put[k].flags \ Edge) THEN "pending" ELSE "none"
      PROVE  /\ touchInfo' \in [1..m -> Slot] /\ Distinct(touchInfo)' /\ unsure' \in BOOLEAN
             /\ Used(touchInfo') \subseteq Used(put)
             /\ \A i \in 1..m : touchInfo'[i].id = put[i].id
             /\ ~unsure' => /\ ~unsure /\ contacts' = Touching(put)
                            /\ Touching(touchInfo') = Touching(put)
                            /\ repeat' = "none" => contacts' = {}
  <2> DEFINE new == [put[k] EXCEPT !.flags = @ \ Edge]
  <2>1. new \in Slot /\ new.id = put[k].id /\ new.flags = put[k].flags \ Edge
    BY DEF Slot
  <2>2. touchInfo' = [put EXCEPT ![k] = new]
    BY <1>3
  <2> HIDE DEF new
  <2>3. /\ touchInfo' \in [1..m -> Slot] /\ touchInfo'[k] = new /\ DOMAIN touchInfo' = 1..m
        /\ \A i \in 1..m : i # k => touchInfo'[i] = put[i]
    BY <2>1, <2>2
  <2>4. \A i \in 1..m : /\ touchInfo'[i].id = put[i].id
                        /\ touchInfo'[i].flags \subseteq put[i].flags
                        /\ "INCONTACT" \in touchInfo'[i].flags <=> "INCONTACT" \in put[i].flags
    BY <2>1, <2>3 DEF Edge
  <2>5. Used(touchInfo') \subseteq Used(put)
    BY <2>3, <2>4 DEF Used
  <2>6. Distinct(touchInfo')
    <3>1. \A i \in Used(put) : i \in 1..m
      BY DEF Used
    <3> QED  BY <2>4, <2>5, <3>1 DEF Distinct
  <2>7. Touching(touchInfo') = Touching(put)
    <3>1. {j \in DOMAIN touchInfo' : "INCONTACT" \in touchInfo'[j].flags}
            = {j \in DOMAIN put : "INCONTACT" \in put[j].flags}
      BY <2>3, <2>4
    <3>2. \A j \in DOMAIN put : touchInfo'[j].id = put[j].id
      BY <2>4
    <3> QED  BY <3>1, <3>2 DEF Touching
  <2>8. ~unsure' => ~unsure /\ contacts' = Held(held, put, n)
    BY <1>3 DEF Known
  <2>9. ~unsure' => contacts' = Touching(put)
    BY <2>8, HeldIs
  <2>10. ASSUME ~unsure', repeat' = "none" PROVE contacts' = {}
    <3>1. n <= 1 /\ put[k].flags \ Edge = {}
      BY <1>3, <2>10 DEF Repeats
    <3>2. n = 1 /\ k = 1
      BY <3>1
    <3>3. \A i \in 1..m : "INCONTACT" \notin put[i].flags
      BY <3>1, <3>2 DEF Used, Edge
    <3>4. Touching(put) = {}
      BY <3>3 DEF Touching
    <3> QED  BY <2>9, <2>10, <3>4
  <2>11. unsure' \in BOOLEAN
    BY <1>3 DEF Known
  <2> QED  BY <2>3, <2>4, <2>5, <2>6, <2>7, <2>8, <2>9, <2>10, <2>11
<1> QED  BY <1>2, <1>3, <1>1 DEF Inject

(* Once all are cancelled nothing is in contact.                           *)
LEMMA CancelEnds ==
  ASSUME NEW m \in Nat, NEW info \in [1..m -> Slot], Distinct(info),
         Used(info) = 1..Cardinality(Used(info)), contacts = Touching(info)
  PROVE  AfterCancel(info) = {}
<1> DEFINE n == Cardinality(Used(info))
           gone == Cancelled(info)
<1>1. n \in Nat /\ Used(info) \subseteq 1..m /\ (Used(info) = {} <=> n = 0)
  BY UsedFinite
<1>2. CASE n = 0
  <2>1. Touching(info) = {}
    BY <1>1, <1>2 DEF Touching, Used
  <2> QED  BY <1>2, <2>1 DEF AfterCancel
<1>3. CASE n # 0
  <2>1. /\ DOMAIN gone = 1..m /\ gone = [i \in 1..m |-> gone[i]]
        /\ \A i \in 1..m : gone[i] = IF InUse(info[i])
                         THEN [info[i] EXCEPT !.flags = Populated(@, "CANCEL_ALL")] ELSE info[i]
    BY DEF Cancelled
  <2> HIDE DEF gone
  <2>2. \A i \in 1..m : /\ gone[i] \in Slot /\ gone[i].id = info[i].id
                        /\ "INCONTACT" \notin gone[i].flags
                        /\ gone[i].flags # {} <=> info[i].flags # {}
    <3> TAKE i \in 1..m
    <3>1. info[i] \in Slot /\ info[i].flags \in SUBSET Flags
      BY DEF Slot
    <3>2. CASE info[i].flags = {}
      BY <2>1, <3>1, <3>2 DEF InUse
    <3>3. CASE info[i].flags # {}
      <4> DEFINE flags == Populated(info[i].flags, "CANCEL_ALL")
      <4>1. flags \in SUBSET Flags /\ "INCONTACT" \notin flags /\ flags # {}
        BY <3>1, <3>3, PopulatedFlags DEF Contact, PointerEvents
      <4>2. gone[i] = [info[i] EXCEPT !.flags = flags]
        BY <2>1, <3>3 DEF InUse
      <4> HIDE DEF flags
      <4>3. gone[i] \in Slot /\ gone[i].id = info[i].id /\ gone[i].flags = flags
        BY <3>1, <4>1, <4>2 DEF Slot
      <4> QED  BY <3>3, <4>1, <4>3
    <3> QED  BY <3>2, <3>3
  <2>3. gone \in [1..m -> Slot]
    BY <2>1, <2>2
  <2>4. Used(gone) = Used(info)
    BY <2>1, <2>2 DEF Used
  <2>5. Distinct(gone)
    BY <1>1, <2>2, <2>4 DEF Distinct
  <2>6. Touching(gone) = {}
    BY <2>1, <2>2 DEF Touching
  <2>7. \A x \in Touching(info) : \E i \in Used(info) : x = info[i].id
    BY DEF Touching, Used
  <2>8. \A x \in contacts : \E i \in Used(gone) : i <= n /\ x = gone[i].id
    BY <1>1, <2>2, <2>4, <2>7
  <2>9. Held(contacts, gone, n) = {}
    BY <1>1, <2>3, <2>5, <2>6, <2>8, HeldIs
  <2> QED  BY <1>3, <2>9 DEF AfterCancel, gone
<1> QED  BY <1>2, <1>3

LEMMA BlankSlots ==
  LET blank == [i \in 1..SlotCount |-> Empty]
  IN /\ blank \in [1..SlotCount -> Slot] /\ Distinct(blank) /\ Used(blank) = {}
     /\ Touching(blank) = {}
<1>1. Empty \in Slot /\ Empty.flags = {}
  BY DEF Empty, Slot
<1> QED  BY <1>1 DEF Distinct, Used, Touching

LEMMA PointersStart == PointerInit => PointerInv
<1> SUFFICES ASSUME PointerInit PROVE PointerInv
  OBVIOUS
<1>1. touchInfo \in [1..SlotCount -> Slot] /\ Distinct(touchInfo) /\ Used(touchInfo) = {}
      /\ Touching(touchInfo) = {}
  BY BlankSlots DEF PointerInit
<1> QED  BY <1>1 DEF PointerInit, PointerInv, ContactsKept

LEMMA TouchKeeps ==
  ASSUME PointerInv, NEW id \in Pointers, NEW event \in PointerEvents, TouchUpdate(id, event)
  PROVE  PointerInv'
<1> DEFINE info == Compacted(touchInfo)
           k == SlotOf(info, id)
           blank == [i \in 1..SlotCount |-> Empty]
           Put(from, at) == [from EXCEPT ![at] = [id |-> id, flags |-> Populated(@.flags, event)]]
           n == Cardinality(Used(info))
           back == IF event = "BUTTON_ONLY" THEN {} ELSE {id}
           m == SlotCount
<1>1. /\ alive /\ tool = "touch" /\ event # "CANCEL_ALL" /\ Follow(id, event)
      /\ UNCHANGED <<tool, made, alive, orphan>>
  BY DEF TouchUpdate
<1>2. \/ /\ k > 0 /\ Inject(Put(info, k), k, Counted(k, n), contacts, FALSE)
         /\ evicted' = evicted \ back
      \/ /\ k = 0
         /\ \E doubt \in BOOLEAN : Inject(Put(blank, 1), 1, 1, AfterCancel(info), doubt)
         /\ evicted' = (evicted \cup fingers) \ back
  BY DEF TouchUpdate
<1> DEFINE put == Put(info, k)
           alone == Put(blank, 1)
<1>3. put = PutAt(info, k, id, event) /\ alone = PutAt(blank, 1, id, event)
  BY DEF PutAt
<1> HIDE DEF put, alone
<1>4. \/ k > 0 /\ Inject(put, k, Counted(k, n), contacts, FALSE) /\ evicted' = evicted \ back
      \/ /\ k = 0
         /\ \E doubt \in BOOLEAN : Inject(alone, 1, 1, AfterCancel(info), doubt)
         /\ evicted' = (evicted \cup fingers) \ back
  BY <1>2 DEF put, alone
<1>5. m \in Nat \ {0} /\ touchInfo \in [1..m -> Slot] /\ Distinct(touchInfo) /\ unsure \in BOOLEAN
  BY SlotCountType DEF PointerInv
<1>6. /\ info \in [1..m -> Slot] /\ Distinct(info) /\ Used(info) = 1..n
      /\ Touching(info) = Touching(touchInfo)
  BY <1>5, CompactedIs
<1>7. n \in 0..m
  BY <1>5, <1>6, UsedFinite
<1>8. ~unsure => /\ contacts = Touching(info) /\ contacts = fingers \ evicted
  BY <1>1, <1>6 DEF PointerInv, ContactsKept
<1> DEFINE own == {i \in Used(info) : info[i].id = id}
           free == DOMAIN info \ Used(info)
<1>9. k = IF own # {} THEN FirstSlot(own) ELSE IF free # {} THEN FirstSlot(free) ELSE 0
  BY DEF SlotOf
<1>10. Used(info) \subseteq 1..m /\ own \subseteq 1..m /\ free \subseteq 1..m
  BY <1>6 DEF Used
<1> HIDE DEF info, k, own, free, n, m
<1>11. k > 0 => k # 0
  OBVIOUS
<1>12. fingers' \ evicted' = IF k = 0 THEN (IF event \in {"DOWN", "MOVE"} THEN {id} ELSE {})
                             ELSE IF event \in {"DOWN", "MOVE"} THEN (fingers \ evicted) \cup {id}
                             ELSE IF event = "BUTTON_ONLY" THEN fingers \ evicted
                             ELSE (fingers \ evicted) \ {id}
  <2>1. evicted' = IF k = 0 THEN (evicted \cup fingers) \ back ELSE evicted \ back
    BY <1>4, <1>11, Zenon
  <2>2. CASE event \in {"DOWN", "MOVE"}
    BY <1>1, <2>1, <2>2 DEF Follow
  <2>3. CASE event = "BUTTON_ONLY"
    BY <1>1, <2>1, <2>3 DEF Follow
  <2>4. CASE event \notin {"DOWN", "MOVE", "BUTTON_ONLY"}
    BY <1>1, <2>1, <2>4 DEF Follow
  <2> QED  BY <2>2, <2>3, <2>4
<1>13. CASE k > 0
  <2>1. /\ k \in 1..m
        /\ \A i \in Used(info) : i = k <=> info[i].id = id
    <3>1. CASE own # {}
      <4>1. own \subseteq Nat
        BY <1>10
      <4>2. k \in own
        BY <1>9, <3>1, <4>1, LeastSlot
      <4> QED  BY <1>6, <1>10, <4>2 DEF own, Distinct
    <3>2. CASE own = {}
      <4>1. free # {}
        BY <1>9, <1>13, <3>2
      <4>2. free \subseteq Nat
        BY <1>10
      <4>3. k \in free
        BY <1>9, <3>2, <4>1, <4>2, LeastSlot
      <4>4. k \in 1..m /\ k \notin Used(info)
        BY <1>10, <4>3 DEF free
      <4>5. \A i \in Used(info) : info[i].id # id
        BY <3>2 DEF own
      <4> QED  BY <4>4, <4>5
    <3> QED  BY <3>1, <3>2
  <2>2. /\ put \in [1..m -> Slot] /\ Distinct(put) /\ Used(put) \subseteq Used(info) \cup {k}
        /\ put[k].id = id
        /\ event \in {"DOWN", "MOVE"} => Touching(put) = Touching(info) \cup {id}
        /\ event = "BUTTON_ONLY" => Touching(put) = Touching(info)
        /\ event \notin {"DOWN", "MOVE", "BUTTON_ONLY"} => Touching(put) = Touching(info) \ {id}
        /\ k \notin Used(put) => event = "BUTTON_ONLY"
    <3>1. m \in Nat /\ OnlyAt(info, k, id)
      BY <1>5, <2>1 DEF OnlyAt
    <3>2. k \in 1..m /\ info \in [1..m -> Slot] /\ Distinct(info)
      BY <1>6, <2>1
    <3> QED  BY <1>3, <3>1, <3>2, PutSlot
  <2>3. Inject(put, k, Counted(k, n), contacts, FALSE)
    BY <1>13, <1>4, <1>11, Zenon
  <2>4. Counted(k, n) \in Nat /\ k <= Counted(k, n) /\ n <= Counted(k, n)
    BY <1>5, <1>7, <2>1 DEF Counted
  <2>5. Counted(k, n) = 1 => Used(put) \subseteq {1}
    BY <1>5, <1>6, <1>7, <2>1, <2>2, <2>4
  <2>6. ~unsure => \A x : \/ x \in contacts <=> x \in Touching(put)
                          \/ k \in Used(put) /\ x = put[k].id
    BY <1>8, <2>2
  <2>7. /\ touchInfo' \in [1..m -> Slot] /\ Distinct(touchInfo)' /\ unsure' \in BOOLEAN
        /\ active' \in Nat
        /\ ~unsure' => /\ ~unsure /\ contacts' = Touching(put)
                       /\ Touching(touchInfo') = Touching(put)
                       /\ repeat' = "none" => contacts' = {}
    BY <1>5, <2>1, <2>2, <2>3, <2>4, <2>5, <2>6, InjectKeeps
  <2>8. ~unsure' => Touching(put) = fingers' \ evicted'
    BY <1>8, <1>12, <1>13, <2>2, <2>7
  <2>9. ~unsure' => ContactsKept'
    BY <2>7, <2>8 DEF ContactsKept
  <2>10. SlotCount' = m
    BY <1>1 DEF SlotCount, m
  <2> QED  BY <1>1, <2>7, <2>9, <2>10 DEF PointerInv, Distinct
<1>14. CASE k = 0
  <2>1. /\ blank \in [1..m -> Slot] /\ Distinct(blank) /\ Used(blank) = {}
        /\ Touching(blank) = {}
    BY BlankSlots DEF m
  <2>2. 1 \in 1..m
    BY <1>5
  <2> HIDE DEF blank
  <2>3. /\ alone \in [1..m -> Slot] /\ Distinct(alone)
        /\ Used(alone) \subseteq Used(blank) \cup {1}
        /\ alone[1].id = id
        /\ event \in {"DOWN", "MOVE"} => Touching(alone) = Touching(blank) \cup {id}
        /\ event = "BUTTON_ONLY" => Touching(alone) = Touching(blank)
        /\ event \notin {"DOWN", "MOVE", "BUTTON_ONLY"} =>
             Touching(alone) = Touching(blank) \ {id}
        /\ 1 \notin Used(alone) => event = "BUTTON_ONLY"
    <3>1. m \in Nat /\ OnlyAt(blank, 1, id)
      BY <1>5, <2>1 DEF OnlyAt
    <3> QED  BY <1>3, <2>1, <2>2, <3>1, PutSlot
  <2>4. /\ alone \in [1..m -> Slot] /\ Distinct(alone) /\ Used(alone) \subseteq {1}
        /\ alone[1].id = id
        /\ event \in {"DOWN", "MOVE"} => Touching(alone) = {id}
        /\ event \notin {"DOWN", "MOVE"} => Touching(alone) = {}
        /\ 1 \notin Used(alone) => event = "BUTTON_ONLY"
    BY <2>1, <2>3
  <2>5. PICK doubt \in BOOLEAN : Inject(alone, 1, 1, AfterCancel(info), doubt)
    BY <1>14, <1>4
  <2>6. ~unsure => AfterCancel(info) = {}
    BY <1>5, <1>6, <1>8, CancelEnds DEF n
  <2>7. ~unsure => \A x : \/ x \in AfterCancel(info) <=> x \in Touching(alone)
                          \/ 1 \in Used(alone) /\ x = alone[1].id
    BY <2>4, <2>6
  <2>8. /\ touchInfo' \in [1..m -> Slot] /\ Distinct(touchInfo)' /\ unsure' \in BOOLEAN
        /\ active' \in Nat
        /\ ~unsure' => /\ ~unsure /\ contacts' = Touching(alone)
                       /\ Touching(touchInfo') = Touching(alone)
                       /\ repeat' = "none" => contacts' = {}
    BY <1>5, <2>2, <2>4, <2>5, <2>7, InjectKeeps
  <2>9. Touching(alone) = fingers' \ evicted'
    BY <1>12, <1>14, <2>4
  <2>10. ~unsure' => ContactsKept'
    BY <2>8, <2>9 DEF ContactsKept
  <2>11. SlotCount' = m
    BY <1>1 DEF SlotCount, m
  <2> QED  BY <1>1, <2>8, <2>10, <2>11 DEF PointerInv, Distinct
<1>15. k > 0 \/ k = 0
  BY <1>4
<1> QED  BY <1>13, <1>14, <1>15

LEMMA PenKeeps ==
  ASSUME PointerInv, NEW event \in PointerEvents, PenUpdate(ThePen, event)
  PROVE  PointerInv'
<1> DEFINE put == [touchInfo EXCEPT ![1] = [id |-> ThePen, flags |-> Populated(@.flags, event)]]
<1>1. /\ alive /\ tool = "pen" /\ Follow(ThePen, event)
      /\ Inject(put, 1, 1, contacts, FALSE)
      /\ UNCHANGED <<tool, made, alive, evicted, orphan>>
  BY DEF PenUpdate
<1>2. SlotCount = 1 /\ SlotCount' = 1
  BY <1>1 DEF SlotCount
<1>3. /\ touchInfo \in [1..1 -> Slot] /\ Distinct(touchInfo) /\ unsure \in BOOLEAN
      /\ evicted = {} /\ \A i \in Used(touchInfo) : touchInfo[i].id = ThePen
      /\ ~unsure => contacts = Touching(touchInfo) /\ contacts = fingers
  BY <1>1, <1>2 DEF PointerInv, ContactsKept
<1>4. Used(touchInfo) \subseteq {1}
  BY <1>3 DEF Used
<1>5. /\ put \in [1..1 -> Slot] /\ Distinct(put)
      /\ Used(put) \subseteq Used(touchInfo) \cup {1}
      /\ put[1].id = ThePen
      /\ event \in {"DOWN", "MOVE"} => Touching(put) = Touching(touchInfo) \cup {ThePen}
      /\ event = "BUTTON_ONLY" => Touching(put) = Touching(touchInfo)
      /\ event \notin {"DOWN", "MOVE", "BUTTON_ONLY"} =>
           Touching(put) = Touching(touchInfo) \ {ThePen}
      /\ 1 \notin Used(put) => event = "BUTTON_ONLY"
  <2>1. 1 \in Nat /\ 1 \in 1..1
    OBVIOUS
  <2>2. OnlyAt(touchInfo, 1, ThePen)
    BY <1>3, <1>4 DEF OnlyAt
  <2>3. put = PutAt(touchInfo, 1, ThePen, event)
    BY DEF PutAt
  <2>4. touchInfo \in [1..SlotCount -> Slot] /\ Distinct(touchInfo) /\ SlotCount \in Nat
        /\ 1 \in 1..SlotCount
    BY <1>2, <1>3
  <2> HIDE DEF put
  <2>5. /\ put \in [1..SlotCount -> Slot] /\ Distinct(put)
        /\ Used(put) \subseteq Used(touchInfo) \cup {1}
        /\ put[1].id = ThePen
        /\ event \in {"DOWN", "MOVE"} => Touching(put) = Touching(touchInfo) \cup {ThePen}
        /\ event = "BUTTON_ONLY" => Touching(put) = Touching(touchInfo)
        /\ event \notin {"DOWN", "MOVE", "BUTTON_ONLY"} =>
             Touching(put) = Touching(touchInfo) \ {ThePen}
        /\ 1 \notin Used(put) => event = "BUTTON_ONLY"
    BY <2>2, <2>3, <2>4, PutSlot
  <2> QED  BY <1>2, <2>5
<1>6. /\ put \in [1..1 -> Slot] /\ Distinct(put) /\ Used(put) \subseteq {1}
      /\ put[1].id = ThePen
      /\ event \in {"DOWN", "MOVE"} => Touching(put) = Touching(touchInfo) \cup {ThePen}
      /\ event = "BUTTON_ONLY" => Touching(put) = Touching(touchInfo)
      /\ event \notin {"DOWN", "MOVE", "BUTTON_ONLY"} =>
           Touching(put) = Touching(touchInfo) \ {ThePen}
      /\ 1 \notin Used(put) => event = "BUTTON_ONLY"
  BY <1>4, <1>5
<1> HIDE DEF put
<1>7. ~unsure => \A x : \/ x \in contacts <=> x \in Touching(put)
                        \/ 1 \in Used(put) /\ x = put[1].id
  BY <1>3, <1>6
<1>8. /\ touchInfo' \in [1..1 -> Slot] /\ Distinct(touchInfo)' /\ unsure' \in BOOLEAN
      /\ active' \in Nat /\ Used(touchInfo') \subseteq Used(put)
      /\ \A i \in 1..1 : touchInfo'[i].id = put[i].id
      /\ ~unsure' => /\ ~unsure /\ contacts' = Touching(put)
                     /\ Touching(touchInfo') = Touching(put)
                     /\ repeat' = "none" => contacts' = {}
  <2>1. 1 \in Nat /\ 1 \in 1..1 /\ 1 <= 1 /\ FALSE \in BOOLEAN
    OBVIOUS
  <2> QED  BY <1>1, <1>3, <1>6, <1>7, <2>1, InjectKeeps
<1>9. ~unsure => fingers \subseteq {ThePen}
  <2>1. \A x \in Touching(touchInfo) : \E i \in Used(touchInfo) : x = touchInfo[i].id
    BY DEF Touching, Used
  <2> QED  BY <1>3, <2>1
<1>10. ~unsure' => Touching(put) = fingers'
  BY <1>1, <1>3, <1>6, <1>8, <1>9 DEF Follow
<1>11. ~unsure' => ContactsKept'
  BY <1>1, <1>3, <1>8, <1>10 DEF ContactsKept
<1>12. \A i \in Used(touchInfo') : touchInfo'[i].id = ThePen
  BY <1>6, <1>8
<1> QED  BY <1>1, <1>2, <1>3, <1>8, <1>11, <1>12 DEF PointerInv, Distinct, Used

LEMMA CancelKeeps ==
  ASSUME PointerInv, CancelAll
  PROVE  PointerInv'
<1>1. touchInfo' = [i \in 1..SlotCount |-> Empty] /\ SlotCount' = SlotCount
  BY DEF CancelAll, SlotCount
<1>2. touchInfo' \in [1..SlotCount -> Slot] /\ Distinct(touchInfo') /\ Touching(touchInfo') = {}
  BY <1>1, BlankSlots
<1>3. unsure' \in BOOLEAN
  BY DEF CancelAll, Known, PointerInv
<1>4. ASSUME ~unsure' PROVE contacts' = {}
  <2>1. Known(AfterCancel(Compacted(touchInfo)), FALSE) \/ Known(contacts, TRUE)
    BY DEF CancelAll
  <2>2. ~unsure /\ contacts' = AfterCancel(Compacted(touchInfo))
    BY <1>4, <2>1 DEF Known
  <2>3. contacts = Touching(touchInfo)
    BY <2>2 DEF CancelAll, PointerInv, ContactsKept
  <2>4. touchInfo \in [1..SlotCount -> Slot] /\ Distinct(touchInfo) /\ SlotCount \in Nat
    BY SlotCountType DEF PointerInv
  <2> DEFINE info == Compacted(touchInfo)
  <2>5. /\ info \in [1..SlotCount -> Slot] /\ Distinct(info)
        /\ Used(info) = 1..Cardinality(Used(info)) /\ contacts = Touching(info)
    BY <2>3, <2>4, CompactedIs
  <2> HIDE DEF info
  <2>6. AfterCancel(info) = {}
    BY <2>4, <2>5, CancelEnds
  <2> QED  BY <2>2, <2>6 DEF info
<1>5. ~unsure' => ContactsKept'
  BY <1>2, <1>4 DEF CancelAll, Follow, ContactsKept
<1> QED  BY <1>1, <1>2, <1>3, <1>5 DEF CancelAll, PointerInv, Distinct

LEMMA RepeatKeeps ==
  ASSUME PointerInv, RepeatRuns
  PROVE  PointerInv'
<1>1. UNCHANGED <<tool, made, touchInfo, active, alive, fingers, evicted, orphan>> /\ alive
  BY DEF RepeatRuns
<1>2. unsure' \in BOOLEAN
  BY DEF RepeatRuns, Known, PointerInv
<1>3. ASSUME ~unsure' PROVE ContactsKept'
  <2>1. ~unsure /\ contacts' = Held(contacts, touchInfo, active) /\ repeat' = "runs"
    BY <1>3 DEF RepeatRuns, Known
  <2>2. contacts = Touching(touchInfo) /\ contacts = fingers \ evicted
    BY <1>1, <2>1 DEF PointerInv, ContactsKept
  <2>3. touchInfo \in [1..SlotCount -> Slot] /\ Distinct(touchInfo) /\ SlotCount \in Nat
        /\ active \in Nat
    BY SlotCountType DEF PointerInv
  <2>4. Held(contacts, touchInfo, active) = Touching(touchInfo)
    BY <2>2, <2>3, HeldIs
  <2> QED  BY <1>1, <2>1, <2>2, <2>4 DEF ContactsKept, Touching
<1> QED  BY <1>1, <1>2, <1>3 DEF PointerInv, SlotCount, Distinct, Used

(* A step of a pointer device keeps the invariant.                         *)
LEMMA PointersGoOn == PointerInv /\ [PointerNext]_pointerVars => PointerInv'
<1> SUFFICES ASSUME PointerInv, [PointerNext]_pointerVars PROVE PointerInv'
  OBVIOUS
<1>1. CASE CreateDevice
  BY <1>1 DEF CreateDevice, PointerInv, ContactsKept, SlotCount, Distinct, Used, Touching
<1>2. CASE CancelAll
  BY <1>2, CancelKeeps
<1>3. CASE \E id \in Pointers, event \in PointerEvents : TouchUpdate(id, event)
  BY <1>3, TouchKeeps
<1>4. CASE \E event \in PointerEvents : PenUpdate(ThePen, event)
  BY <1>4, PenKeeps
<1>5. CASE RepeatRuns
  BY <1>5, RepeatKeeps
<1>6. CASE RepeatEnds
  BY <1>6 DEF RepeatEnds, PointerInv, ContactsKept, SlotCount, Distinct, Used, Touching
<1>7. CASE ContactsTimeOut
  BY <1>7 DEF ContactsTimeOut, PointerInv, ContactsKept, SlotCount, Distinct, Used, Touching
<1>8. CASE DestroyContext
  <2>1. /\ alive' = FALSE /\ UNCHANGED <<tool, touchInfo, active, unsure>> /\ evicted' = {}
        /\ SlotCount' = SlotCount
    BY <1>8 DEF DestroyContext, SlotCount
  <2>2. ~(alive /\ ~unsure)'
    BY <2>1
  <2>3. Distinct(touchInfo)' /\ touchInfo' \in [1..SlotCount' -> Slot] /\ active' \in Nat
    BY <2>1 DEF PointerInv, Distinct, Used
  <2>4. tool' = "pen" => \A i \in Used(touchInfo)' : touchInfo'[i].id = ThePen
    BY <2>1 DEF PointerInv, Used
  <2>5. tool' \in {"touch", "pen"} /\ alive' \in BOOLEAN /\ unsure' \in BOOLEAN
    BY <2>1 DEF PointerInv
  <2> QED  BY <2>1, <2>2, <2>3, <2>4, <2>5 DEF PointerInv
<1>9. CASE UNCHANGED pointerVars
  BY <1>9 DEF pointerVars, PointerInv, ContactsKept, SlotCount, Distinct, Used, Touching
<1> QED  BY <1>1, <1>2, <1>3, <1>4, <1>5, <1>6, <1>7, <1>8, <1>9 DEF PointerNext

(* The pointers in contact are those of the fingers, each in one slot.     *)
LEMMA PointersFollow == PointerInv => ContactsFollow /\ SlotsDistinct
  BY DEF PointerInv, ContactsKept, ContactsFollow, SlotsDistinct, Distinct

-------------------------------------------------------------------------------
(* The virtual gamepads of the clients on Windows.                         *)

PadRecord ==
  [pad : Nat, kind : {"x360", "ds4"}, attached : BOOLEAN, last : Levels,
   ids : SUBSET (Fingers \X {0, 1}), spare : SUBSET {0, 1}, pressed : SUBSET {0, 1},
   track : [1..2 -> Nat], resend : BOOLEAN]
RumbleTask == [pad : Nat, level : Levels]
PadsTyped ==
  /\ pads \in [PadSlots -> PadRecord] /\ placed \in [PadSlots -> SUBSET Fingers]
  /\ motors \in [PadSlots -> Levels] /\ told \in [PadSlots -> Levels]
  /\ given \subseteq PadSlots /\ counter \in Nat /\ rumbles \in Seq(RumbleTask)

(* A number is of one pad; a slot that is not given has nobody's.          *)
PadsNumbered ==
  /\ \A s \in PadSlots : /\ pads[s].pad <= counter
                         /\ (pads[s].attached <=> s \in given)
                         /\ s \in given => pads[s].pad # NoPad
  /\ \A s, t \in PadSlots : pads[s].pad = pads[t].pad => s = t \/ pads[s].pad = NoPad
  /\ \A i \in DOMAIN rumbles :
       /\ rumbles[i].pad # NoPad /\ rumbles[i].pad <= counter
       /\ \A s \in PadSlots \ given : rumbles[i].pad # pads[s].pad

Mine(s) == {i \in DOMAIN rumbles : rumbles[i].pad = pads[s].pad}
RumblesKnown ==
  /\ \A s \in PadSlots \ given : told[s] = 0 /\ motors[s] = 0
  /\ \A s \in given :
       /\ s \notin misled => told[s] = pads[s].last
       /\ s \notin misled /\ Mine(s) = {} => told[s] = motors[s]
       /\ \A i \in Mine(s) : (\A j \in Mine(s) : j <= i) => rumbles[i].level = motors[s]

(* The map of fingers is one to one and of those that are placed.          *)
MapOf(ids, spare, pressed, track, fs) ==
  /\ \A pair \in ids : pair[1] \in fs
  /\ \A f \in fs : \E n \in {0, 1} : <<f, n>> \in ids
  /\ \A f \in fs, n, m \in {0, 1} : <<f, n>> \in ids /\ <<f, m>> \in ids => n = m
  /\ \A f, g \in fs, n \in {0, 1} : <<f, n>> \in ids /\ <<g, n>> \in ids => f = g
  /\ \A n \in {0, 1} : n \in spare <=> \A f \in fs : <<f, n>> \notin ids
  /\ \A n \in {0, 1} : n \in pressed <=> n \notin spare /\ track[n + 1] # 0
SlotMapped(s) ==
  MapOf(pads[s].ids, pads[s].spare, pads[s].pressed, pads[s].track, placed[s])
FingersMapped ==
  /\ \A s \in PadSlots \ given : placed[s] = {}
  /\ \A s \in given : pads[s].kind = "ds4" /\ s \notin mixed => SlotMapped(s)

PadsInv == PadsTyped /\ PadsNumbered /\ RumblesKnown /\ FingersMapped /\ PadsServed

LEMMA Zeros == <<0, 0>> \in [1..2 -> Nat]
  OBVIOUS
LEMMA ResendSet ==
  ASSUME NEW p \in PadRecord, NEW b \in BOOLEAN
  PROVE  LET q == [p EXCEPT !.resend = b]
         IN /\ q \in PadRecord /\ q.pad = p.pad /\ q.kind = p.kind /\ q.attached = p.attached
            /\ q.last = p.last /\ q.ids = p.ids /\ q.spare = p.spare /\ q.pressed = p.pressed
            /\ q.track = p.track /\ q.resend = b
  BY DEF PadRecord
LEMMA LastSet ==
  ASSUME NEW p \in PadRecord, NEW b \in Levels
  PROVE  LET q == [p EXCEPT !.last = b]
         IN /\ q \in PadRecord /\ q.pad = p.pad /\ q.kind = p.kind /\ q.attached = p.attached
            /\ q.last = b /\ q.ids = p.ids /\ q.spare = p.spare /\ q.pressed = p.pressed
            /\ q.track = p.track /\ q.resend = p.resend
  BY DEF PadRecord
LEMMA PreparedPad ==
  ASSUME NEW s \in PadSlots, pads[s] \in PadRecord, counter \in Nat,
         NEW sort \in {"x360", "ds4"}, NEW b \in BOOLEAN
  PROVE  LET q == [Prepared(s, sort) EXCEPT !.attached = b]
         IN /\ q \in PadRecord /\ q.pad = counter + 1 /\ q.kind = sort /\ q.attached = b
            /\ q.last = pads[s].last /\ q.ids = pads[s].ids /\ q.resend = pads[s].resend
            /\ sort = "ds4" => q.spare = {0, 1} /\ q.pressed = {}
<1>1. Prepared(s, sort) \in PadRecord
  BY Zeros DEF PadRecord, Prepared
<1> QED  BY <1>1, Zeros DEF PadRecord, Prepared
LEMMA PreparedIs ==
  ASSUME NEW s \in PadSlots, pads[s] \in PadRecord, counter \in Nat,
         NEW sort \in {"x360", "ds4"}
  PROVE  LET q == Prepared(s, sort)
         IN /\ q \in PadRecord /\ q.pad = counter + 1 /\ q.kind = sort /\ q.attached = FALSE
            /\ q.last = pads[s].last /\ q.ids = pads[s].ids /\ q.resend = pads[s].resend
  BY Zeros DEF PadRecord, Prepared
LEMMA FreedPad ==
  ASSUME NEW s \in PadSlots, pads[s] \in PadRecord
  PROVE  LET q == Freed(s)
         IN /\ q \in PadRecord /\ q.pad = NoPad /\ q.kind = pads[s].kind /\ q.attached = FALSE
            /\ q.last = pads[s].last /\ q.ids = pads[s].ids /\ q.resend = FALSE
  BY DEF PadRecord, Freed, NoPad
LEMMA TrackedPad ==
  ASSUME NEW p \in PadRecord, NEW n \in {0, 1}
  PROVE  LET q == Tracked(p, n)
         IN /\ q \in PadRecord /\ q.pad = p.pad /\ q.kind = p.kind /\ q.attached = p.attached
            /\ q.last = p.last /\ q.ids = p.ids /\ q.spare = p.spare /\ q.resend = p.resend
            /\ \A m \in {0, 1} \ {n} : q.track[m + 1] = p.track[m + 1]
            /\ \A m \in {0, 1} \ {n} : m \in q.pressed <=> m \in p.pressed
            /\ n \in q.pressed <=> q.track[n + 1] # 0
<1> DEFINE t == (p.track[n + 1] + 1) % Tracks
           tracks == [p.track EXCEPT ![n + 1] = t]
           shown == IF t = 0 THEN p.pressed \ {n} ELSE p.pressed \cup {n}
<1>1. p.track \in [1..2 -> Nat] /\ p.pressed \in SUBSET {0, 1} /\ n + 1 \in 1..2
  BY DEF PadRecord
<1>2. t \in Nat
  BY <1>1, TracksAssumption
<1>3. tracks \in [1..2 -> Nat] /\ tracks[n + 1] = t
  BY <1>1, <1>2
<1>4. \A m \in {0, 1} \ {n} : tracks[m + 1] = p.track[m + 1]
  BY <1>1
<1>5. /\ shown \in SUBSET {0, 1}
      /\ n \in shown <=> t # 0
      /\ \A m \in {0, 1} \ {n} : m \in shown <=> m \in p.pressed
  BY <1>1
<1>6. Tracked(p, n) = [p EXCEPT !.track = tracks, !.pressed = shown]
  BY DEF Tracked
<1> DEFINE r == [p EXCEPT !.track = tracks, !.pressed = shown]
<1> HIDE DEF t, tracks, shown
<1>7. /\ r \in PadRecord /\ r.pad = p.pad /\ r.kind = p.kind /\ r.attached = p.attached
      /\ r.last = p.last /\ r.ids = p.ids /\ r.spare = p.spare /\ r.resend = p.resend
      /\ r.track = tracks /\ r.pressed = shown
  BY <1>3, <1>5 DEF PadRecord
<1> HIDE DEF r
<1>8. n \in r.pressed <=> r.track[n + 1] # 0
  BY <1>3, <1>5, <1>7
<1>9. \A m \in {0, 1} \ {n} : m \in r.pressed <=> m \in p.pressed
  BY <1>5, <1>7
<1>10. \A m \in {0, 1} \ {n} : r.track[m + 1] = p.track[m + 1]
  BY <1>4, <1>7
<1>11. Tracked(p, n) = r
  BY <1>6 DEF r
<1> QED  BY <1>7, <1>8, <1>9, <1>10, <1>11
LEMMA LiftedPad ==
  ASSUME NEW p \in PadRecord, NEW f \in Fingers
  PROVE  LET q == Lifted(p, f)
         IN /\ q \in PadRecord /\ q.pad = p.pad /\ q.kind = p.kind /\ q.attached = p.attached
            /\ q.last = p.last /\ q.ids = {pair \in p.ids : pair[1] # f}
            /\ q.pressed = p.pressed \ IndexOf(p, f) /\ q.spare = p.spare \cup IndexOf(p, f)
            /\ q.track = p.track /\ q.resend = p.resend
  BY DEF PadRecord, Lifted, IndexOf
LEMMA ClearedPad ==
  ASSUME NEW p \in PadRecord
  PROVE  LET q == [p EXCEPT !.ids = {}, !.pressed = {}, !.spare = {0, 1}]
         IN /\ q \in PadRecord /\ q.pad = p.pad /\ q.kind = p.kind /\ q.attached = p.attached
            /\ q.last = p.last /\ q.ids = {} /\ q.pressed = {} /\ q.spare = {0, 1}
            /\ q.track = p.track /\ q.resend = p.resend
  BY DEF PadRecord

(* A report changes the pad of its slot alone, and of it nothing but what  *)
(* is shown.                                                               *)
LEMMA ReportKeeps ==
  ASSUME PadsTyped, PadsNumbered, RumblesKnown, PadsServed, NEW s \in PadSlots,
         NEW p \in PadRecord, p.pad = pads[s].pad, p.kind = pads[s].kind,
         p.attached = pads[s].attached, p.last = pads[s].last,
         s \in given, p.kind = "ds4", Report(s, p),
         placed' \in [PadSlots -> SUBSET Fingers]
  PROVE  /\ PadsTyped' /\ PadsNumbered' /\ RumblesKnown' /\ PadsServed'
         /\ \A t \in PadSlots \ {s} : pads'[t] = pads[t]
         /\ pads'[s].kind = p.kind /\ pads'[s].ids = p.ids /\ pads'[s].spare = p.spare
         /\ pads'[s].pressed = p.pressed /\ pads'[s].track = p.track
<1>1. PICK b \in BOOLEAN : pads' = [pads EXCEPT ![s] = [p EXCEPT !.resend = b]]
  BY DEF Report
<1>2. UNCHANGED <<given, linked, rumbles, motors, told, counter, misled, unplugged>>
  BY DEF Report
<1> DEFINE q == [p EXCEPT !.resend = b]
<1>3. /\ q \in PadRecord /\ q.pad = p.pad /\ q.kind = p.kind /\ q.attached = p.attached
      /\ q.last = p.last /\ q.ids = p.ids /\ q.spare = p.spare /\ q.pressed = p.pressed
      /\ q.track = p.track /\ q.resend = b
  BY ResendSet
<1> HIDE DEF q
<1>4. pads' = [pads EXCEPT ![s] = q]
  BY <1>1 DEF q
<1>5. pads' \in [PadSlots -> PadRecord] /\ pads'[s] = q
      /\ \A t \in PadSlots \ {s} : pads'[t] = pads[t]
  BY <1>3, <1>4 DEF PadsTyped
<1>6. \A t \in PadSlots : /\ pads'[t].pad = pads[t].pad /\ pads'[t].kind = pads[t].kind
                          /\ pads'[t].attached = pads[t].attached
                          /\ pads'[t].last = pads[t].last
  BY <1>3, <1>5
<1>7. PadsTyped'
  BY <1>2, <1>5 DEF PadsTyped
<1>8. PadsNumbered'
  BY <1>2, <1>6 DEF PadsNumbered
<1>9. \A t \in PadSlots : Mine(t)' = Mine(t)
  BY <1>2, <1>6 DEF Mine
<1>10. RumblesKnown'
  BY <1>2, <1>6, <1>9 DEF RumblesKnown, PadsTyped
<1>11. PadsServed'
  BY <1>2, <1>3, <1>5, <1>6 DEF PadsServed
<1> QED  BY <1>3, <1>5, <1>7, <1>8, <1>10, <1>11

(* FingersMapped of the slots a step leaves alone.                         *)
LEMMA OthersMapped ==
  ASSUME FingersMapped, NEW s \in PadSlots, given' = given, given \subseteq PadSlots,
         \A t \in PadSlots \ {s} : /\ pads'[t] = pads[t] /\ placed'[t] = placed[t]
                                   /\ t \in mixed => t \in mixed',
         s \in given,
         pads'[s].kind = "ds4" /\ s \notin mixed' => SlotMapped(s)'
  PROVE  FingersMapped'
  BY DEF FingersMapped, SlotMapped

LEMMA UpdateKeeps ==
  ASSUME PadsInv, NEW s \in PadSlots, GamepadUpdate(s) \/ Resend(s)
  PROVE  PadsInv'
<1>1. /\ s \in given /\ pads[s].kind = "ds4" /\ pads[s] \in PadRecord /\ Report(s, pads[s])
      /\ UNCHANGED <<placed, mixed>>
  BY DEF PadsInv, PadsServed, PadsTyped, GamepadUpdate, Resend, Playing
<1>2. /\ PadsTyped' /\ PadsNumbered' /\ RumblesKnown' /\ PadsServed'
      /\ \A t \in PadSlots \ {s} : pads'[t] = pads[t]
      /\ pads'[s].kind = pads[s].kind /\ pads'[s].ids = pads[s].ids
      /\ pads'[s].spare = pads[s].spare
      /\ pads'[s].pressed = pads[s].pressed /\ pads'[s].track = pads[s].track
  BY <1>1, ReportKeeps DEF PadsInv, PadsTyped
<1>3. s \notin mixed' => SlotMapped(s)'
  BY <1>1, <1>2 DEF PadsInv, FingersMapped, SlotMapped
<1>4. FingersMapped'
  BY <1>1, <1>2, <1>3, OthersMapped DEF PadsInv, PadsTyped, Report
<1> QED  BY <1>2, <1>4 DEF PadsInv

LEMMA FingerDownKeeps ==
  ASSUME PadsInv, NEW s \in PadSlots, NEW f \in Fingers, FingerDown(s, f)
  PROVE  PadsInv'
<1>1. s \in given /\ pads[s].kind = "ds4" /\ pads[s].spare # {} /\ pads[s] \in PadRecord
  BY DEF PadsInv, PadsTyped, FingerDown, Playing
<1> DEFINE n == CHOOSE x \in pads[s].spare : \A y \in pads[s].spare : x <= y
           q == Tracked(pads[s], n)
           map == {pair \in q.ids : pair[1] # f} \cup {<<f, n>>}
           left == q.spare \ {n}
           p == [q EXCEPT !.ids = map, !.spare = left]
<1>2. n \in pads[s].spare /\ n \in {0, 1}
  <2>1. pads[s].spare \in SUBSET {0, 1}
    BY <1>1 DEF PadRecord
  <2>2. \E x \in pads[s].spare : \A y \in pads[s].spare : x <= y
    BY <1>1, <2>1
  <2> QED  BY <2>1, <2>2
<1>3. Report(s, p)
  BY DEF FingerDown
<1>4. placed' = [placed EXCEPT ![s] = @ \cup {f}]
      /\ mixed' = IF f \in placed[s] THEN mixed \cup {s} ELSE mixed
  BY DEF FingerDown
<1> HIDE DEF n
<1>5. /\ q \in PadRecord /\ q.pad = pads[s].pad /\ q.kind = pads[s].kind
      /\ q.attached = pads[s].attached /\ q.last = pads[s].last /\ q.ids = pads[s].ids
      /\ q.spare = pads[s].spare
  BY <1>1, <1>2, TrackedPad
<1>6. /\ \A m \in {0, 1} \ {n} : q.track[m + 1] = pads[s].track[m + 1]
      /\ \A m \in {0, 1} \ {n} : m \in q.pressed <=> m \in pads[s].pressed
      /\ n \in q.pressed <=> q.track[n + 1] # 0
  BY <1>1, <1>2, TrackedPad
<1> HIDE DEF q
<1>7. map \in SUBSET (Fingers \X {0, 1}) /\ left \in SUBSET {0, 1}
  BY <1>2, <1>5 DEF PadRecord
<1> HIDE DEF map, left
<1>8. /\ p \in PadRecord /\ p.pad = q.pad /\ p.kind = q.kind /\ p.attached = q.attached
      /\ p.last = q.last /\ p.ids = map /\ p.spare = left /\ p.pressed = q.pressed
      /\ p.track = q.track
  BY <1>5, <1>7 DEF PadRecord
<1> HIDE DEF p
<1>9. placed' \in [PadSlots -> SUBSET Fingers] /\ placed'[s] = placed[s] \cup {f}
      /\ \A t \in PadSlots \ {s} : placed'[t] = placed[t]
  BY <1>4 DEF PadsInv, PadsTyped
<1>10. /\ PadsTyped' /\ PadsNumbered' /\ RumblesKnown' /\ PadsServed'
       /\ \A t \in PadSlots \ {s} : pads'[t] = pads[t]
       /\ pads'[s].kind = p.kind /\ pads'[s].ids = p.ids /\ pads'[s].spare = p.spare
       /\ pads'[s].pressed = p.pressed /\ pads'[s].track = p.track
  BY <1>1, <1>3, <1>5, <1>8, <1>9, ReportKeeps DEF PadsInv
<1>11. ASSUME s \notin mixed'
       PROVE SlotMapped(s)'
  <2>1. f \notin placed[s] /\ MapOf(pads[s].ids, pads[s].spare, pads[s].pressed, pads[s].track, placed[s])
    BY <1>1, <1>4, <1>11 DEF PadsInv, PadsTyped, FingersMapped, SlotMapped
  <2>2. \A g, m : <<g, m>> \in map <=> <<g, m>> \in pads[s].ids \/ (g = f /\ m = n)
    BY <1>5, <2>1 DEF map, MapOf
  <2>3. \A m \in {0, 1} : <<f, m>> \notin pads[s].ids
    BY <2>1 DEF MapOf
  <2>4. \A g \in placed[s] : <<g, n>> \notin pads[s].ids
    BY <1>2, <2>1 DEF MapOf
  <2>5. \A pair \in map : pair[1] \in placed[s] \cup {f}
    BY <1>5, <2>1 DEF map, MapOf
  <2>6. \A g \in placed[s] \cup {f} : \E m \in {0, 1} : <<g, m>> \in map
    BY <1>2, <2>1, <2>2 DEF MapOf
  <2>7. \A g \in placed[s] \cup {f}, m, k \in {0, 1} :
          <<g, m>> \in map /\ <<g, k>> \in map => m = k
    BY <2>1, <2>2, <2>3 DEF MapOf
  <2>8. \A g, h \in placed[s] \cup {f}, m \in {0, 1} :
          <<g, m>> \in map /\ <<h, m>> \in map => g = h
    BY <2>1, <2>2, <2>3, <2>4 DEF MapOf
  <2>9. \A m \in {0, 1} : m \in left <=> \A g \in placed[s] \cup {f} : <<g, m>> \notin map
    <3>1. \A m : m \in left <=> m \in pads[s].spare /\ m # n
      BY <1>5 DEF left
    <3>2. \A m \in {0, 1} : m \in pads[s].spare <=> \A g \in placed[s] : <<g, m>> \notin pads[s].ids
      BY <2>1 DEF MapOf
    <3> QED  BY <2>2, <2>3, <3>1, <3>2
  <2>10. \A m \in {0, 1} : m \in q.pressed <=> m \notin left /\ q.track[m + 1] # 0
    <3>1. \A m : m \in left <=> m \in pads[s].spare /\ m # n
      BY <1>5 DEF left
    <3>2. \A m \in {0, 1} : m \in pads[s].pressed <=> m \notin pads[s].spare
                                                        /\ pads[s].track[m + 1] # 0
      BY <2>1 DEF MapOf
    <3> QED  BY <1>2, <1>6, <3>1, <3>2
  <2>11. MapOf(map, left, q.pressed, q.track, placed[s] \cup {f})
    BY <2>5, <2>6, <2>7, <2>8, <2>9, <2>10 DEF MapOf
  <2>12. /\ pads'[s].ids = map /\ pads'[s].spare = left /\ pads'[s].pressed = q.pressed
         /\ pads'[s].track = q.track
    BY <1>8, <1>10
  <2> QED  BY <1>9, <2>11, <2>12 DEF SlotMapped
<1>12. given' = given
  BY <1>3 DEF Report
<1>13. FingersMapped'
  BY <1>1, <1>4, <1>9, <1>10, <1>11, <1>12, OthersMapped DEF PadsInv, PadsTyped
<1> QED  BY <1>10, <1>13 DEF PadsInv

LEMMA FingerUpKeeps ==
  ASSUME PadsInv, NEW s \in PadSlots, NEW f \in Fingers, FingerUp(s, f)
  PROVE  PadsInv'
<1>1. s \in given /\ pads[s].kind = "ds4" /\ pads[s] \in PadRecord
  BY DEF PadsInv, PadsTyped, FingerUp, Playing
<1> DEFINE p == Lifted(pads[s], f)
           map == {pair \in pads[s].ids : pair[1] # f}
           left == pads[s].spare \cup IndexOf(pads[s], f)
           seen == pads[s].pressed \ IndexOf(pads[s], f)
<1>2. /\ Report(s, p) /\ IndexOf(pads[s], f) # {}
      /\ placed' = [placed EXCEPT ![s] = @ \ {f}] /\ mixed' = mixed
  BY DEF FingerUp
<1>3. /\ p \in PadRecord /\ p.pad = pads[s].pad /\ p.kind = pads[s].kind
      /\ p.attached = pads[s].attached /\ p.last = pads[s].last /\ p.ids = map
      /\ p.spare = left /\ p.pressed = seen /\ p.track = pads[s].track
  BY <1>1, LiftedPad
<1> HIDE DEF p
<1>4. /\ placed' \in [PadSlots -> SUBSET Fingers] /\ placed'[s] = placed[s] \ {f}
      /\ \A t \in PadSlots \ {s} : placed'[t] = placed[t]
  BY <1>2 DEF PadsInv, PadsTyped
<1>5. /\ PadsTyped' /\ PadsNumbered' /\ RumblesKnown' /\ PadsServed'
      /\ \A t \in PadSlots \ {s} : pads'[t] = pads[t]
      /\ pads'[s].kind = p.kind /\ pads'[s].ids = p.ids /\ pads'[s].spare = p.spare
      /\ pads'[s].pressed = p.pressed /\ pads'[s].track = p.track
  BY <1>1, <1>2, <1>3, <1>4, ReportKeeps DEF PadsInv
<1>6. ASSUME s \notin mixed'
      PROVE SlotMapped(s)'
  <2>1. MapOf(pads[s].ids, pads[s].spare, pads[s].pressed, pads[s].track, placed[s])
    BY <1>1, <1>2, <1>6 DEF PadsInv, PadsTyped, FingersMapped, SlotMapped
  <2>2. \A g \in Fingers, m \in {0, 1} : <<g, m>> \in map <=> <<g, m>> \in pads[s].ids /\ g # f
    <3>1. \A g \in Fingers, m \in {0, 1} : <<g, m>>[1] = g
      OBVIOUS
    <3> QED  BY <3>1
  <2>3. placed[s] \in SUBSET Fingers
    BY DEF PadsInv, PadsTyped
  <2>4. /\ f \in placed[s]
        /\ \A m \in {0, 1} : m \in IndexOf(pads[s], f) <=> <<f, m>> \in pads[s].ids
    <3>1. \A m \in {0, 1} : m \in IndexOf(pads[s], f) <=> <<f, m>> \in pads[s].ids
      BY DEF IndexOf
    <3>2. PICK m \in {0, 1} : <<f, m>> \in pads[s].ids
      BY <1>2 DEF IndexOf
    <3>3. <<f, m>>[1] = f
      OBVIOUS
    <3>4. \A pair \in pads[s].ids : pair[1] \in placed[s]
      BY <2>1 DEF MapOf
    <3> QED  BY <3>1, <3>2, <3>3, <3>4
  <2>5. \A pair \in map : pair[1] \in placed[s] \ {f}
    BY <2>1 DEF MapOf
  <2>6. \A g \in placed[s] \ {f} : \E m \in {0, 1} : <<g, m>> \in map
    BY <2>3, <2>1, <2>2 DEF MapOf
  <2>7. \A g \in placed[s] \ {f}, m, k \in {0, 1} :
          <<g, m>> \in map /\ <<g, k>> \in map => m = k
    BY <2>3, <2>1, <2>2 DEF MapOf
  <2>8. \A g, h \in placed[s] \ {f}, m \in {0, 1} :
          <<g, m>> \in map /\ <<h, m>> \in map => g = h
    BY <2>3, <2>1, <2>2 DEF MapOf
  <2>9. \A m \in {0, 1} : m \in left <=> \A g \in placed[s] \ {f} : <<g, m>> \notin map
    <3>1. \A m \in {0, 1} : m \in pads[s].spare <=> \A g \in placed[s] : <<g, m>> \notin pads[s].ids
      BY <2>1 DEF MapOf
    <3>2. \A g, h \in placed[s], m \in {0, 1} :
            <<g, m>> \in pads[s].ids /\ <<h, m>> \in pads[s].ids => g = h
      BY <2>1 DEF MapOf
    <3> HIDE DEF map
    <3> QED  BY <2>3, <2>2, <2>4, <3>1, <3>2
  <2>10. \A m \in {0, 1} : m \in seen <=> m \notin left /\ pads[s].track[m + 1] # 0
    <3>1. \A m \in {0, 1} : m \in pads[s].pressed <=> m \notin pads[s].spare
                                                        /\ pads[s].track[m + 1] # 0
      BY <2>1 DEF MapOf
    <3> QED  BY <3>1
  <2> HIDE DEF map, left, seen
  <2>11. MapOf(map, left, seen, pads[s].track, placed[s] \ {f})
    BY <2>5, <2>6, <2>7, <2>8, <2>9, <2>10 DEF MapOf
  <2> QED  BY <1>3, <1>4, <1>5, <2>11 DEF SlotMapped
<1>7. given' = given
  BY <1>2 DEF Report
<1>8. FingersMapped'
  BY <1>1, <1>2, <1>4, <1>5, <1>6, <1>7, OthersMapped DEF PadsInv, PadsTyped
<1> QED  BY <1>5, <1>8 DEF PadsInv

LEMMA CancelledKeeps ==
  ASSUME PadsInv, NEW s \in PadSlots, FingersCancelled(s)
  PROVE  PadsInv'
<1>1. s \in given /\ pads[s].kind = "ds4" /\ pads[s] \in PadRecord
  BY DEF PadsInv, PadsTyped, FingersCancelled, Playing
<1> DEFINE p == [pads[s] EXCEPT !.ids = {}, !.pressed = {}, !.spare = {0, 1}]
<1>2. /\ Report(s, p) /\ placed' = [placed EXCEPT ![s] = {}] /\ mixed' = mixed \ {s}
  BY DEF FingersCancelled
<1>3. /\ p \in PadRecord /\ p.pad = pads[s].pad /\ p.kind = pads[s].kind
      /\ p.attached = pads[s].attached /\ p.last = pads[s].last /\ p.ids = {}
      /\ p.pressed = {} /\ p.spare = {0, 1} /\ p.track = pads[s].track
  BY <1>1 DEF PadRecord
<1> HIDE DEF p
<1>4. /\ placed' \in [PadSlots -> SUBSET Fingers] /\ placed'[s] = {}
      /\ \A t \in PadSlots \ {s} : placed'[t] = placed[t]
  BY <1>2 DEF PadsInv, PadsTyped
<1>5. /\ PadsTyped' /\ PadsNumbered' /\ RumblesKnown' /\ PadsServed'
      /\ \A t \in PadSlots \ {s} : pads'[t] = pads[t]
      /\ pads'[s].kind = p.kind /\ pads'[s].ids = p.ids /\ pads'[s].spare = p.spare
      /\ pads'[s].pressed = p.pressed /\ pads'[s].track = p.track
  BY <1>1, <1>2, <1>3, <1>4, ReportKeeps DEF PadsInv
<1>6. SlotMapped(s)'
  BY <1>3, <1>4, <1>5 DEF SlotMapped, MapOf
<1>7. given' = given
  BY <1>2 DEF Report
<1>8. FingersMapped'
  BY <1>1, <1>2, <1>4, <1>5, <1>6, <1>7, OthersMapped DEF PadsInv, PadsTyped
<1> QED  BY <1>5, <1>8 DEF PadsInv

LEMMA NotifyKeeps ==
  ASSUME PadsInv, NEW s \in PadSlots, NEW level \in Levels, Notify(s, level)
  PROVE  PadsInv'
<1> DEFINE task == [pad |-> pads[s].pad, level |-> level]
<1>1. /\ pads[s].attached /\ motors' = [motors EXCEPT ![s] = level]
      /\ rumbles' = Append(rumbles, task)
      /\ UNCHANGED <<pads, given, linked, told, placed, counter, misled, mixed, unplugged>>
  BY DEF Notify
<1>2. /\ pads \in [PadSlots -> PadRecord] /\ pads[s] \in PadRecord /\ s \in given
      /\ rumbles \in Seq(RumbleTask) /\ given \subseteq PadSlots
  BY <1>1 DEF PadsInv, PadsTyped, PadsNumbered
<1>3. task \in RumbleTask /\ task.pad = pads[s].pad /\ task.level = level
  BY <1>2 DEF RumbleTask, PadRecord
<1> HIDE DEF task
<1>4. /\ rumbles' \in Seq(RumbleTask) /\ Len(rumbles') = Len(rumbles) + 1
      /\ DOMAIN rumbles = 1..Len(rumbles) /\ DOMAIN rumbles' = 1..Len(rumbles')
      /\ Len(rumbles) \in Nat
      /\ \A i \in DOMAIN rumbles : rumbles'[i] = rumbles[i]
      /\ rumbles'[Len(rumbles) + 1] = task
  BY <1>1, <1>2, <1>3
<1>5. PadsTyped'
  BY <1>1, <1>4 DEF PadsInv, PadsTyped
<1>6. \A i \in DOMAIN rumbles' : i \in DOMAIN rumbles \/ rumbles'[i] = task
  BY <1>4
<1>7. PadsNumbered'
  BY <1>1, <1>2, <1>3, <1>4, <1>6 DEF PadsInv, PadsNumbered
<1>8. \A t \in given \ {s} : Mine(t)' = Mine(t) /\ \A i \in Mine(t) : rumbles'[i] = rumbles[i]
  <2>1. ASSUME NEW t \in given, t # s PROVE pads[t].pad # task.pad
    BY <1>2, <1>3, <2>1 DEF PadsInv, PadsNumbered
  <2> QED  BY <1>1, <1>4, <1>6, <2>1 DEF Mine
<1>9. /\ Len(rumbles) + 1 \in Mine(s)'
      /\ \A i \in Mine(s)' : i \in 1..Len(rumbles) + 1
  BY <1>1, <1>3, <1>4 DEF Mine
<1>10. /\ motors'[s] = level
       /\ \A t \in PadSlots \ {s} : motors'[t] = motors[t]
  BY <1>1 DEF PadsInv, PadsTyped
<1>11. \A t \in PadSlots \ given : told[t] = 0 /\ motors'[t] = 0
  BY <1>2, <1>10 DEF PadsInv, RumblesKnown
<1>12. ASSUME NEW t \in given, t # s
       PROVE /\ t \notin misled => told[t] = pads[t].last
             /\ t \notin misled /\ Mine(t)' = {} => told[t] = motors'[t]
             /\ \A i \in Mine(t)' : (\A j \in Mine(t)' : j <= i) => rumbles'[i].level = motors'[t]
  BY <1>2, <1>8, <1>10, <1>12 DEF PadsInv, RumblesKnown
<1>13. /\ s \notin misled => told[s] = pads[s].last
       /\ Mine(s)' # {}
       /\ \A i \in Mine(s)' : (\A j \in Mine(s)' : j <= i) => rumbles'[i].level = motors'[s]
  <2>1. \A i \in Mine(s)' : (\A j \in Mine(s)' : j <= i) => i = Len(rumbles) + 1
    BY <1>4, <1>9
  <2> QED  BY <1>2, <1>3, <1>4, <1>9, <1>10, <2>1 DEF PadsInv, RumblesKnown
<1>14. RumblesKnown'
  <2>1. UNCHANGED <<told, misled, given, pads>>
    BY <1>1
  <2> QED  BY <1>11, <1>12, <1>13, <2>1 DEF RumblesKnown
<1>15. FingersMapped' /\ PadsServed'
  BY <1>1 DEF PadsInv, FingersMapped, SlotMapped, PadsServed
<1> QED  BY <1>5, <1>7, <1>14, <1>15 DEF PadsInv

LEMMA RumbleKeeps ==
  ASSUME PadsInv, Rumble
  PROVE  PadsInv'
<1> DEFINE task == Head(rumbles)
           to == {s \in Targets(task.pad) : pads[s].last # task.level}
<1>1. /\ rumbles # <<>> /\ rumbles' = Tail(rumbles)
      /\ pads' = [s \in PadSlots |->
                    IF s \in to THEN [pads[s] EXCEPT !.last = task.level] ELSE pads[s]]
      /\ told' = [s \in PadSlots |-> IF s \in to THEN task.level ELSE told[s]]
      /\ misled' = misled \ to
      /\ UNCHANGED <<given, linked, motors, placed, counter, mixed, unplugged>>
  BY DEF Rumble
<1>2. /\ pads \in [PadSlots -> PadRecord] /\ told \in [PadSlots -> Levels]
      /\ rumbles \in Seq(RumbleTask) /\ given \subseteq PadSlots
  BY DEF PadsInv, PadsTyped
<1>3. /\ Len(rumbles) \in Nat \ {0} /\ DOMAIN rumbles = 1..Len(rumbles)
      /\ DOMAIN rumbles' = 1..(Len(rumbles) - 1)
      /\ rumbles' \in Seq(RumbleTask)
      /\ \A i \in DOMAIN rumbles' : rumbles'[i] = rumbles[i + 1]
      /\ task = rumbles[1] /\ task \in RumbleTask
  BY <1>1, <1>2
<1>4. \A s \in PadSlots : s \in to <=> pads[s].pad = task.pad /\ pads[s].last # task.level
  BY DEF Targets
<1> HIDE DEF task, to
<1>5. task.level \in Levels
  BY <1>3 DEF RumbleTask
<1>6. \A s \in PadSlots :
        /\ pads'[s] \in PadRecord /\ pads'[s].pad = pads[s].pad /\ pads'[s].kind = pads[s].kind
        /\ pads'[s].attached = pads[s].attached /\ pads'[s].ids = pads[s].ids
        /\ pads'[s].spare = pads[s].spare /\ pads'[s].pressed = pads[s].pressed
        /\ pads'[s].track = pads[s].track /\ pads'[s].resend = pads[s].resend
        /\ pads'[s].last = IF s \in to THEN task.level ELSE pads[s].last
  <2> TAKE s \in PadSlots
  <2>1. pads[s] \in PadRecord
    BY <1>2
  <2>2. CASE s \in to
    <3>1. pads'[s] = [pads[s] EXCEPT !.last = task.level]
      BY <1>1, <2>2
    <3> QED  BY <1>5, <2>1, <2>2, <3>1, LastSet
  <2>3. CASE s \notin to
    BY <1>1, <2>1, <2>3
  <2> QED  BY <2>2, <2>3
<1>7. \A s \in PadSlots : told'[s] = IF s \in to THEN task.level ELSE told[s]
  BY <1>1
<1>8. PadsTyped'
  <2>1. pads' \in [PadSlots -> PadRecord]
    BY <1>1, <1>6
  <2>2. told' \in [PadSlots -> Levels]
    BY <1>1, <1>2, <1>5
  <2> QED  BY <1>1, <1>3, <2>1, <2>2 DEF PadsInv, PadsTyped
<1>9. PadsNumbered'
  BY <1>1, <1>2, <1>3, <1>6 DEF PadsInv, PadsNumbered
<1>10. \A s \in PadSlots, i \in Nat : i \in Mine(s)' <=> i # 0 /\ i + 1 \in Mine(s)
  BY <1>3, <1>6 DEF Mine
<1>11. \A s \in PadSlots :
         /\ Mine(s) \subseteq Nat \ {0} /\ Mine(s)' \subseteq Nat
         /\ 1 \in Mine(s) <=> pads[s].pad = task.pad
  BY <1>3 DEF Mine
<1>12. \A s \in PadSlots \ given : s \notin to
  BY <1>3, <1>4 DEF PadsInv, PadsNumbered
<1>13. ASSUME NEW s \in given, Mine(s)' = {}, s \in to \/ s \notin misled
       PROVE  told'[s] = motors[s]
  <2>1. s \in PadSlots
    BY <1>2
  <2>2. \A i \in Mine(s) : i = 1
    BY <1>10, <1>11, <1>13, <2>1
  <2>3. CASE 1 \in Mine(s)
    <3>1. task.level = motors[s]
      BY <1>3, <2>2, <2>3 DEF PadsInv, RumblesKnown
    <3>2. s \in to \/ told[s] = task.level
      BY <1>4, <1>11, <1>13, <2>1, <2>3 DEF PadsInv, RumblesKnown
    <3> QED  BY <1>7, <2>1, <3>1, <3>2
  <2>4. CASE 1 \notin Mine(s)
    <3>1. s \notin to
      BY <1>4, <1>11, <2>1, <2>4
    <3> QED  BY <1>7, <1>13, <2>1, <2>2, <2>4, <3>1 DEF PadsInv, RumblesKnown
  <2> QED  BY <2>3, <2>4
<1>14. ASSUME NEW s \in given, NEW i \in Mine(s)', \A j \in Mine(s)' : j <= i
       PROVE  rumbles'[i].level = motors[s]
  <2>1. s \in PadSlots /\ i \in Nat
    BY <1>2, <1>11
  <2>2. i + 1 \in Mine(s) /\ rumbles'[i] = rumbles[i + 1]
    BY <1>3, <1>10, <2>1 DEF Mine
  <2>3. \A j \in Mine(s) : j <= i + 1
    <3> TAKE j \in Mine(s)
    <3>1. j \in Nat \ {0} /\ (j - 1) + 1 = j
      BY <1>11, <2>1
    <3>2. j = 1 \/ j - 1 \in Mine(s)'
      BY <1>10, <2>1, <3>1
    <3> QED  BY <1>14, <2>1, <3>1, <3>2
  <2> QED  BY <2>2, <2>3 DEF PadsInv, RumblesKnown
<1>15. \A s \in given : s \notin misled' => told'[s] = pads'[s].last
  BY <1>1, <1>2, <1>6, <1>7 DEF PadsInv, RumblesKnown
<1>16. \A s \in PadSlots \ given : told'[s] = 0 /\ motors[s] = 0
  BY <1>7, <1>12 DEF PadsInv, RumblesKnown
<1>17. \A s \in given : s \notin misled' /\ Mine(s)' = {} => told'[s] = motors[s]
  BY <1>1, <1>13
<1>18. RumblesKnown'
  <2>1. given' = given /\ motors' = motors
    BY <1>1
  <2> QED  BY <1>14, <1>15, <1>16, <1>17, <2>1 DEF RumblesKnown
<1>19. FingersMapped'
  BY <1>1, <1>2, <1>6 DEF PadsInv, FingersMapped, SlotMapped
<1>20. PadsServed'
  BY <1>1, <1>6 DEF PadsInv, PadsServed
<1> QED  BY <1>8, <1>9, <1>18, <1>19, <1>20 DEF PadsInv

(* A slot nobody has gets a pad with a new number, attached or not.        *)
LEMMA NewPad ==
  ASSUME PadsInv, NEW s \in PadSlots \ given, NEW q \in PadRecord,
         pads' = [pads EXCEPT ![s] = q], counter' = counter + 1, q.pad = counter + 1,
         given' = IF q.attached THEN given \cup {s} ELSE given,
         UNCHANGED <<rumbles, motors, told, placed>>
  PROVE  /\ PadsTyped' /\ PadsNumbered'
         /\ pads'[s] = q /\ \A t \in PadSlots \ {s} : pads'[t] = pads[t] /\ Mine(t)' = Mine(t)
         /\ Mine(s)' = {}
<1>1. /\ counter \in Nat /\ given \subseteq PadSlots /\ q.attached \in BOOLEAN
  BY DEF PadsInv, PadsTyped, PadRecord
<1>2. /\ pads' \in [PadSlots -> PadRecord] /\ pads'[s] = q
      /\ \A t \in PadSlots \ {s} : pads'[t] = pads[t]
  BY DEF PadsInv, PadsTyped
<1>3. PadsTyped'
  BY <1>1, <1>2 DEF PadsInv, PadsTyped
<1>4. \A t \in PadSlots : pads[t].pad \in Nat /\ pads[t].pad <= counter
  <2> TAKE t \in PadSlots
  <2>1. pads[t] \in PadRecord
    BY DEF PadsInv, PadsTyped
  <2>2. pads[t].pad \in Nat
    BY <2>1 DEF PadRecord
  <2> QED  BY <2>2 DEF PadsInv, PadsNumbered
<1>5. \A i \in DOMAIN rumbles : rumbles[i].pad \in Nat
  <2>1. rumbles \in Seq(RumbleTask)
    BY DEF PadsInv, PadsTyped
  <2>2. \A i \in DOMAIN rumbles : rumbles[i] \in RumbleTask
    BY <2>1
  <2> QED  BY <2>2 DEF RumbleTask
<1>6. \A i \in DOMAIN rumbles : rumbles[i].pad <= counter /\ rumbles[i].pad # counter + 1
  BY <1>1, <1>5 DEF PadsInv, PadsNumbered
<1>7. \A t \in PadSlots :
        /\ pads'[t].pad <= counter + 1 /\ (pads'[t].attached <=> t \in given')
        /\ t \in given' => pads'[t].pad # NoPad
  BY <1>1, <1>2, <1>4 DEF PadsInv, PadsNumbered, NoPad
<1>8. \A t, u \in PadSlots : pads'[t].pad = pads'[u].pad => t = u \/ pads'[t].pad = NoPad
  BY <1>1, <1>2, <1>4 DEF PadsInv, PadsNumbered
<1>9. \A i \in DOMAIN rumbles :
        /\ rumbles[i].pad # NoPad /\ rumbles[i].pad <= counter + 1
        /\ \A t \in PadSlots \ given' : rumbles[i].pad # pads'[t].pad
  BY <1>1, <1>2, <1>5, <1>6 DEF PadsInv, PadsNumbered
<1>10. PadsNumbered'
  <2>1. rumbles' = rumbles /\ counter' = counter + 1
    OBVIOUS
  <2> QED  BY <1>7, <1>8, <1>9, <2>1 DEF PadsNumbered
<1> QED  BY <1>2, <1>3, <1>6, <1>10 DEF Mine

LEMMA AllocFailsKeeps ==
  ASSUME PadsInv, NEW s \in PadSlots, NEW sort \in {"x360", "ds4"}, AllocFails(s, sort)
  PROVE  PadsInv'
<1> DEFINE q == Prepared(s, sort)
<1>1. /\ s \notin given /\ linked' = TRUE /\ unplugged' = TRUE
      /\ pads' = [pads EXCEPT ![s] = q] /\ counter' = counter + 1
      /\ UNCHANGED <<given, rumbles, motors, told, placed, misled, mixed>>
  BY DEF AllocFails
<1>2. pads[s] \in PadRecord /\ counter \in Nat /\ given \subseteq PadSlots
  BY DEF PadsInv, PadsTyped
<1>3. /\ q \in PadRecord /\ q.pad = counter + 1 /\ q.attached = FALSE
      /\ q.resend = pads[s].resend
  BY <1>2, PreparedIs
<1> HIDE DEF q
<1>4. /\ PadsTyped' /\ PadsNumbered' /\ pads'[s] = q
      /\ \A t \in PadSlots \ {s} : pads'[t] = pads[t] /\ Mine(t)' = Mine(t)
  BY <1>1, <1>3, NewPad
<1>5. RumblesKnown'
  BY <1>1, <1>2, <1>4 DEF PadsInv, RumblesKnown
<1>6. FingersMapped'
  BY <1>1, <1>2, <1>4 DEF PadsInv, FingersMapped, SlotMapped
<1>7. PadsServed'
  BY <1>1, <1>2, <1>3, <1>4 DEF PadsInv, PadsServed
<1> QED  BY <1>4, <1>5, <1>6, <1>7 DEF PadsInv

LEMMA AllocKeeps ==
  ASSUME PadsInv, NEW s \in PadSlots, NEW sort \in {"x360", "ds4"}, Alloc(s, sort)
  PROVE  PadsInv'
<1> DEFINE q == [Prepared(s, sort) EXCEPT !.attached = TRUE]
<1>1. /\ s \notin given /\ linked' = TRUE /\ given' = given \cup {s}
      /\ counter' = counter + 1 /\ pads' = [pads EXCEPT ![s] = q]
      /\ misled' = (IF pads[s].last # 0 THEN misled \cup {s} ELSE misled)
      /\ mixed' = (IF pads[s].ids # {} THEN mixed \cup {s} ELSE mixed)
      /\ UNCHANGED <<rumbles, motors, told, placed, unplugged>>
  BY DEF Alloc
<1>2. pads[s] \in PadRecord /\ counter \in Nat /\ given \subseteq PadSlots
  BY DEF PadsInv, PadsTyped
<1>3. /\ q \in PadRecord /\ q.pad = counter + 1 /\ q.kind = sort /\ q.attached = TRUE
      /\ q.last = pads[s].last /\ q.ids = pads[s].ids /\ q.resend = pads[s].resend
      /\ sort = "ds4" => q.spare = {0, 1} /\ q.pressed = {}
  BY <1>2, PreparedPad
<1> HIDE DEF q
<1>4. /\ PadsTyped' /\ PadsNumbered' /\ pads'[s] = q /\ Mine(s)' = {}
      /\ \A t \in PadSlots \ {s} : pads'[t] = pads[t] /\ Mine(t)' = Mine(t)
  BY <1>1, <1>3, NewPad
<1>5. told[s] = 0 /\ motors[s] = 0 /\ placed[s] = {} /\ pads[s].resend = FALSE
  BY <1>1, <1>2 DEF PadsInv, RumblesKnown, FingersMapped, PadsServed, PadRecord
<1>6. RumblesKnown'
  BY <1>1, <1>2, <1>3, <1>4, <1>5 DEF PadsInv, RumblesKnown
<1>7. s \notin mixed' /\ sort = "ds4" => SlotMapped(s)'
  <2> SUFFICES ASSUME s \notin mixed', sort = "ds4" PROVE SlotMapped(s)'
    OBVIOUS
  <2>1. /\ pads'[s].ids = {} /\ pads'[s].spare = {0, 1} /\ pads'[s].pressed = {}
        /\ placed'[s] = {}
    BY <1>1, <1>3, <1>4, <1>5
  <2> QED  BY <2>1 DEF SlotMapped, MapOf
<1>8. \A t \in PadSlots \ {s} : SlotMapped(t)' = SlotMapped(t) /\ (t \in mixed => t \in mixed')
  BY <1>1, <1>4 DEF SlotMapped
<1>9. FingersMapped'
  BY <1>1, <1>2, <1>3, <1>4, <1>7, <1>8 DEF PadsInv, FingersMapped
<1>10. PadsServed'
  BY <1>1, <1>2, <1>3, <1>4, <1>5 DEF PadsInv, PadsServed
<1> QED  BY <1>4, <1>6, <1>9, <1>10 DEF PadsInv

LEMMA FreeTargetKeeps ==
  ASSUME PadsInv, NEW s \in PadSlots, FreeTarget(s)
  PROVE  PadsInv'
<1> DEFINE q == Freed(s)
<1>1. /\ s \in given /\ given' = given \ {s} /\ pads' = [pads EXCEPT ![s] = q]
      /\ linked' = (linked /\ ~LastOne(s))
      /\ motors' = [motors EXCEPT ![s] = 0] /\ told' = [told EXCEPT ![s] = 0]
      /\ placed' = [placed EXCEPT ![s] = {}]
      /\ misled' = misled \ {s} /\ mixed' = mixed \ {s}
      /\ UNCHANGED <<rumbles, counter, unplugged>>
  BY DEF FreeTarget
<1>2. pads[s] \in PadRecord /\ counter \in Nat /\ given \subseteq PadSlots
  BY DEF PadsInv, PadsTyped
<1>3. /\ q \in PadRecord /\ q.pad = NoPad /\ q.attached = FALSE /\ q.resend = FALSE
  BY <1>2, FreedPad
<1> HIDE DEF q
<1>4. /\ pads' \in [PadSlots -> PadRecord] /\ pads'[s] = q
      /\ \A t \in PadSlots \ {s} : pads'[t] = pads[t]
  BY <1>1, <1>3 DEF PadsInv, PadsTyped
<1>5. /\ motors'[s] = 0 /\ told'[s] = 0 /\ placed'[s] = {}
      /\ \A t \in PadSlots \ {s} : /\ motors'[t] = motors[t] /\ told'[t] = told[t]
                                   /\ placed'[t] = placed[t]
  BY <1>1 DEF PadsInv, PadsTyped
<1>6. PadsTyped'
  BY <1>1, <1>4, LevelsAssumption DEF PadsInv, PadsTyped
<1>7. PadsNumbered'
  <2>1. \A t \in PadSlots :
          /\ pads'[t].pad <= counter /\ (pads'[t].attached <=> t \in given')
          /\ t \in given' => pads'[t].pad # NoPad
    <3> TAKE t \in PadSlots
    <3>1. CASE t = s
      <4>1. t \notin given' /\ pads'[t].attached = FALSE
        BY <1>1, <1>3, <1>4, <3>1
      <4>2. pads'[t].pad <= counter
        BY <1>2, <1>3, <1>4, <3>1 DEF NoPad
      <4> QED  BY <4>1, <4>2
    <3>2. CASE t # s
      <4>1. (t \in given') = (t \in given) /\ pads'[t] = pads[t]
        BY <1>1, <1>4, <3>2
      <4> QED  BY <4>1 DEF PadsInv, PadsNumbered
    <3> QED  BY <3>1, <3>2
  <2>2. \A t, u \in PadSlots : pads'[t].pad = pads'[u].pad => t = u \/ pads'[t].pad = NoPad
    BY <1>3, <1>4 DEF PadsInv, PadsNumbered
  <2>3. \A i \in DOMAIN rumbles :
          /\ rumbles[i].pad # NoPad /\ rumbles[i].pad <= counter
          /\ \A t \in PadSlots \ given' : rumbles[i].pad # pads'[t].pad
    BY <1>1, <1>3, <1>4 DEF PadsInv, PadsNumbered
  <2>4. rumbles' = rumbles /\ counter' = counter
    BY <1>1
  <2> QED  BY <2>1, <2>2, <2>3, <2>4 DEF PadsNumbered
<1>8. \A t \in PadSlots \ {s} : Mine(t)' = Mine(t)
  BY <1>1, <1>4 DEF Mine
<1>9. RumblesKnown'
  BY <1>1, <1>2, <1>4, <1>5, <1>8 DEF PadsInv, RumblesKnown
<1>10. FingersMapped'
  BY <1>1, <1>2, <1>4, <1>5 DEF PadsInv, FingersMapped, SlotMapped
<1>11. LastOne(s) <=> given' = {}
  BY <1>1, <1>2 DEF PadsInv, PadsNumbered, LastOne
<1>12. PadsServed'
  BY <1>1, <1>2, <1>3, <1>4, <1>11 DEF PadsInv, PadsServed
<1> QED  BY <1>6, <1>7, <1>9, <1>10, <1>12 DEF PadsInv

LEMMA PadsStart == PadsInit => PadsInv
<1> SUFFICES ASSUME PadsInit PROVE PadsInv
  OBVIOUS
<1>1. Unused \in PadRecord /\ Unused.pad = NoPad /\ Unused.attached = FALSE /\ Unused.resend = FALSE
  BY Zeros, LevelsAssumption DEF Unused, PadRecord, NoPad
<1>2. /\ pads = [s \in PadSlots |-> Unused] /\ given = {} /\ rumbles = <<>> /\ counter = 0
      /\ motors = [s \in PadSlots |-> 0] /\ told = motors /\ placed = [s \in PadSlots |-> {}]
      /\ linked = FALSE
  BY DEF PadsInit
<1> HIDE DEF Unused
<1>3. PadsTyped
  BY <1>1, <1>2, LevelsAssumption DEF PadsTyped
<1>4. PadsNumbered
  <2>1. \A s \in PadSlots : pads[s] = Unused
    BY <1>2
  <2>2. DOMAIN rumbles = {}
    BY <1>2
  <2>3. \A s \in PadSlots : s \notin given /\ pads[s].attached = FALSE
    BY <1>1, <1>2, <2>1
  <2>4. \A s \in PadSlots : pads[s].pad <= counter /\ pads[s].pad = NoPad
    BY <1>1, <1>2, <2>1 DEF NoPad
  <2>5. \A s \in PadSlots : (pads[s].attached <=> s \in given)
    BY <2>3
  <2> QED  BY <2>2, <2>3, <2>4, <2>5 DEF PadsNumbered
<1> QED  BY <1>1, <1>2, <1>3, <1>4
  DEF PadsInv, PadsTyped, PadsNumbered, RumblesKnown, FingersMapped, PadsServed, Mine

LEMMA PadsGoOn == PadsInv /\ [PadsNext]_padVars => PadsInv'
<1> SUFFICES ASSUME PadsInv, [PadsNext]_padVars PROVE PadsInv'
  OBVIOUS
<1>1. CASE UNCHANGED padVars
  BY <1>1 DEF padVars, PadsInv, PadsTyped, PadsNumbered, RumblesKnown, FingersMapped, SlotMapped,
              PadsServed, Mine
<1>2. ASSUME NEW s \in PadSlots, NEW sort \in {"x360", "ds4"}, AllocFails(s, sort) \/ Alloc(s, sort)
      PROVE PadsInv'
  BY <1>2, AllocFailsKeeps, AllocKeeps
<1>3. ASSUME NEW s \in PadSlots, FreeTarget(s) \/ GamepadUpdate(s) \/ Resend(s)
      PROVE PadsInv'
  BY <1>3, FreeTargetKeeps, UpdateKeeps
<1>4. ASSUME NEW s \in PadSlots, NEW level \in Levels, Notify(s, level)
      PROVE PadsInv'
  BY <1>4, NotifyKeeps
<1>5. CASE Rumble
  BY <1>5, RumbleKeeps
<1>6. ASSUME NEW s \in Touched, FingersCancelled(s) \/ \E f \in Fingers : FingerDown(s, f) \/ FingerUp(s, f)
      PROVE PadsInv'
  <2>1. s \in PadSlots
    BY <1>6 DEF FingersCancelled, FingerDown, FingerUp, Playing, PadsInv, PadsTyped
  <2> QED  BY <1>6, <2>1, CancelledKeeps, FingerDownKeeps, FingerUpKeeps
<1> QED  BY <1>1, <1>2, <1>3, <1>4, <1>5, <1>6 DEF PadsNext

(* Each finger has an index of its own and is shown.                       *)
LEMMA MappedShown ==
  ASSUME PadsTyped, NEW s \in PadSlots, SlotMapped(s)
  PROVE  LET inuse == UNION {IndexOf(pads[s], f) : f \in placed[s]}
         IN /\ Cardinality(inuse) = Cardinality(placed[s])
            /\ pads[s].spare = {0, 1} \ inuse
            /\ pads[s].pressed = {n \in inuse : pads[s].track[n + 1] # 0}
<1> DEFINE fs == placed[s]
           ids == pads[s].ids
           inuse == UNION {IndexOf(pads[s], f) : f \in fs}
           FingerOf(n) == CHOOSE f \in fs : <<f, n>> \in ids
           map == [n \in inuse |-> FingerOf(n)]
<1>1. /\ \A f \in fs : \E n \in {0, 1} : <<f, n>> \in ids
      /\ \A f \in fs, n, m \in {0, 1} : <<f, n>> \in ids /\ <<f, m>> \in ids => n = m
      /\ \A n \in {0, 1} : n \in pads[s].spare <=> \A f \in fs : <<f, n>> \notin ids
      /\ \A n \in {0, 1} : n \in pads[s].pressed <=> n \notin pads[s].spare
                                                      /\ pads[s].track[n + 1] # 0
      /\ \A f, g \in fs, n \in {0, 1} : <<f, n>> \in ids /\ <<g, n>> \in ids => f = g
  BY DEF SlotMapped, MapOf
<1>2. pads[s].spare \subseteq {0, 1} /\ pads[s].pressed \subseteq {0, 1}
  BY DEF PadsTyped, PadRecord
<1>3. /\ inuse \subseteq {0, 1}
      /\ \A n \in {0, 1} : n \in inuse <=> \E f \in fs : <<f, n>> \in ids
  BY DEF IndexOf
<1> HIDE DEF inuse, ids, fs
<1>4. \A n \in inuse : FingerOf(n) \in fs /\ <<FingerOf(n), n>> \in ids
  BY <1>3
<1> HIDE DEF FingerOf
<1>5. map \in Injection(inuse, fs)
  <2>1. map \in [inuse -> fs]
    BY <1>4
  <2>2. \A n, m \in inuse : map[n] = map[m] => n = m
    BY <1>1, <1>3, <1>4
  <2> QED  BY <2>1, <2>2 DEF Injection, IsInjective
<1>6. map \in Surjection(inuse, fs)
  <2>1. map \in [inuse -> fs]
    BY <1>4
  <2>2. \A f \in fs : \E n \in inuse : map[n] = f
    <3> TAKE f \in fs
    <3>1. PICK n \in {0, 1} : <<f, n>> \in ids
      BY <1>1
    <3>2. n \in inuse
      BY <1>3, <3>1
    <3>3. FingerOf(n) = f
      BY <1>1, <1>4, <3>1, <3>2
    <3> QED  BY <3>2, <3>3
  <2> QED  BY <2>1, <2>2 DEF Surjection
<1>7. ExistsBijection(inuse, fs)
  BY <1>5, <1>6 DEF ExistsBijection, Bijection
<1>8. IsFiniteSet(inuse)
  <2>1. 0..1 = {0, 1}
    OBVIOUS
  <2>2. 0 \in Int /\ 1 \in Int
    OBVIOUS
  <2>3. IsFiniteSet(0..1)
    BY <2>2, FS_Interval
  <2> QED  BY <1>3, <2>1, <2>3, FS_Subset
<1>9. Cardinality(fs) = Cardinality(inuse)
  BY <1>7, <1>8, FS_Bijection
<1>10. \A n \in {0, 1} : n \in pads[s].spare <=> n \notin inuse
  BY <1>1, <1>3
<1>11. \A n \in {0, 1} : n \in pads[s].pressed <=> n \in inuse /\ pads[s].track[n + 1] # 0
  BY <1>1, <1>10
<1>12. pads[s].spare = {0, 1} \ inuse
  BY <1>2, <1>10
<1>13. pads[s].pressed = {n \in inuse : pads[s].track[n + 1] # 0}
  BY <1>2, <1>3, <1>11
<1> QED  BY <1>9, <1>12, <1>13 DEF inuse, fs

(* What is queued and told and what is on the pad is the client's.         *)
LEMMA PadsFollow == PadsInv => RumbleTold /\ FingersShown /\ PadsServed
<1> SUFFICES ASSUME PadsInv PROVE RumbleTold /\ FingersShown /\ PadsServed
  OBVIOUS
<1>1. RumbleTold
  BY DEF PadsInv, RumblesKnown, RumbleTold, Mine
<1>2. FingersShown
  <2> SUFFICES ASSUME NEW s \in given, pads[s].kind = "ds4" /\ s \notin mixed
               PROVE  LET inuse == UNION {IndexOf(pads[s], f) : f \in placed[s]}
                      IN /\ Cardinality(inuse) = Cardinality(placed[s])
                         /\ pads[s].spare = {0, 1} \ inuse
                         /\ pads[s].pressed = {n \in inuse : pads[s].track[n + 1] # 0}
    BY DEF FingersShown
  <2>1. SlotMapped(s) /\ s \in PadSlots /\ PadsTyped
    BY DEF PadsInv, FingersMapped, PadsTyped
  <2> QED  BY <2>1, MappedShown
<1> QED  BY <1>1, <1>2 DEF PadsInv

-------------------------------------------------------------------------------
(* Events, queues and shared posts.                                        *)

(* What is in the box is in order and newer than what was taken or lost,   *)
(* and nothing is both.                                                    *)
Increasing(s) == \A i, j \in DOMAIN s : i < j => s[i] < s[j]
InOrder ==
  /\ raised \in Nat /\ box \in Seq(Nat) /\ taken \in Seq(Nat) /\ thrown \subseteq Nat
  /\ Increasing(box) /\ Increasing(taken)
  /\ 1..raised = Range(taken) \cup thrown \cup Range(box)
  /\ Range(taken) \cap thrown = {}
  /\ \A v \in Range(taken) \cup thrown, w \in Range(box) : v < w

(* Who sleeps waits for what is to come, or was notified.                  *)
Notified ==
  /\ doing \in [Users -> {"idle", "asleep", "gone"}]
  /\ box # <<>> \/ ~goes => Asleep \subseteq notified

(* The post that is held is that of the name; who holds one is not leaving *)
(* another.                                                                *)
Posted ==
  /\ postsMade \in Nat /\ entry \in Nat
  /\ has \in [Users -> Int] /\ leaving \in [Users -> Int]
  /\ \A u, v \in Users : has[u] > 0 /\ has[v] > 0 => has[u] = has[v]
  /\ kind = "post" =>
       /\ \A u \in Users : (has[u] > 0 => has[u] = entry) /\ (has[u] # 0 => leaving[u] = 0)
       /\ entry # 0 /\ ~PostHeld(entry) => \E u \in Users : leaving[u] # 0
  /\ kind = "shared" =>
       /\ entry = 0 /\ \A u \in Users : leaving[u] = 0
       /\ built = {has[u] : u \in Holders}

MailInv == InOrder /\ Notified /\ Posted

LEMMA MailStarts == MailInit => MailInv
<1> SUFFICES ASSUME MailInit PROVE MailInv
  OBVIOUS
<1>1. InOrder
  BY DEF MailInit, InOrder, Increasing, Range
<1>2. Notified
  BY DEF MailInit, Notified, Asleep
<1>3. Posted
  BY DEF MailInit, Posted, Holders, PostHeld
<1> QED  BY <1>1, <1>2, <1>3 DEF MailInv

(* The values of a sequence that grows or is taken from.                   *)
LEMMA RangeGrows ==
  ASSUME NEW s \in Seq(Nat), NEW v \in Nat
  PROVE  /\ Range(Append(s, v)) = Range(s) \cup {v} /\ Append(s, v) \in Seq(Nat)
         /\ Range(<<v>>) = {v} /\ <<v>> \in Seq(Nat) /\ Increasing(<<v>>)
         /\ Increasing(s) /\ (\A w \in Range(s) : w < v) => Increasing(Append(s, v))
<1>1. Append(s, v) \in Seq(Nat) /\ DOMAIN Append(s, v) = 1..(Len(s) + 1)
  OBVIOUS
<1>2. \A i \in 1..Len(s) : Append(s, v)[i] = s[i]
  OBVIOUS
<1>3. Append(s, v)[Len(s) + 1] = v /\ Len(s) \in Nat /\ DOMAIN s = 1..Len(s)
  OBVIOUS
<1>4. Range(Append(s, v)) = Range(s) \cup {v}
  BY <1>1, <1>2, <1>3 DEF Range
<1>5. Range(<<v>>) = {v} /\ <<v>> \in Seq(Nat) /\ Increasing(<<v>>)
  BY DEF Range, Increasing
<1>6. ASSUME Increasing(s), \A w \in Range(s) : w < v PROVE Increasing(Append(s, v))
  <2>1. \A i \in 1..Len(s) : s[i] < v
    BY <1>3, <1>6 DEF Range
  <2> QED  BY <1>1, <1>2, <1>3, <1>6, <2>1 DEF Increasing
<1> QED  BY <1>1, <1>4, <1>5, <1>6

LEMMA RangeShrinks ==
  ASSUME NEW s \in Seq(Nat), s # <<>>, Increasing(s)
  PROVE  /\ Range(s) = {Head(s)} \cup Range(Tail(s)) /\ Tail(s) \in Seq(Nat)
         /\ Head(s) \in Nat /\ Increasing(Tail(s))
         /\ \A w \in Range(Tail(s)) : Head(s) < w
<1>1. /\ Head(s) = s[1] /\ Head(s) \in Nat /\ Len(s) \in Nat \ {0} /\ DOMAIN s = 1..Len(s)
      /\ Tail(s) \in Seq(Nat) /\ DOMAIN Tail(s) = 1..(Len(s) - 1)
  OBVIOUS
<1>2. \A i \in 1..(Len(s) - 1) : Tail(s)[i] = s[i + 1]
  OBVIOUS
<1>3. Range(s) = {Head(s)} \cup Range(Tail(s))
  <2>1. \A i \in 1..Len(s) : i = 1 \/ i - 1 \in 1..(Len(s) - 1)
    BY <1>1
  <2>2. \A i \in 1..Len(s) : s[i] = Head(s) \/ s[i] = Tail(s)[i - 1]
    BY <1>1, <1>2, <2>1
  <2>3. ASSUME NEW v \in Range(s) PROVE v \in {Head(s)} \cup Range(Tail(s))
    <3>1. PICK i \in 1..Len(s) : v = s[i]
      BY <1>1 DEF Range
    <3>2. i - 1 \in DOMAIN Tail(s) => Tail(s)[i - 1] \in Range(Tail(s))
      BY DEF Range
    <3> QED  BY <1>1, <2>1, <2>2, <3>1, <3>2
  <2>4. ASSUME NEW v \in Range(Tail(s)) PROVE v \in Range(s)
    <3>1. PICK i \in 1..(Len(s) - 1) : v = Tail(s)[i]
      BY <1>1 DEF Range
    <3>2. i + 1 \in DOMAIN s /\ v = s[i + 1]
      BY <1>1, <1>2, <3>1
    <3> QED  BY <3>2 DEF Range
  <2>5. Head(s) \in Range(s)
    BY <1>1 DEF Range
  <2> QED  BY <2>3, <2>4, <2>5
<1>4. Increasing(Tail(s))
  BY <1>1, <1>2 DEF Increasing
<1>5. \A w \in Range(Tail(s)) : Head(s) < w
  BY <1>1, <1>2 DEF Increasing, Range
<1> QED  BY <1>1, <1>3, <1>4, <1>5

(* A value raised is the newest; what it overtakes is lost.                *)
LEMMA RaiseKeepsOrder == InOrder /\ Raise => InOrder'
<1> SUFFICES ASSUME InOrder, Raise PROVE InOrder'
  OBVIOUS
<1> DEFINE v == raised + 1
<1>1. /\ raised \in Nat /\ box \in Seq(Nat) /\ taken \in Seq(Nat) /\ thrown \subseteq Nat
      /\ Increasing(box) /\ Increasing(taken) /\ Range(taken) \cap thrown = {}
      /\ 1..raised = Range(taken) \cup thrown \cup Range(box)
      /\ \A x \in Range(taken) \cup thrown, w \in Range(box) : x < w
  BY DEF InOrder
<1>2. /\ raised' = v /\ taken' = taken /\ v \in Nat
      /\ thrown' = thrown \cup (Range(box) \ Range(box'))
  BY <1>1 DEF Raise
<1>3. box' = <<v>> \/ box' = Append(box, v)
  BY <1>2 DEF Raise, Filled
<1>4. \A x \in Range(taken) \cup thrown \cup Range(box) : x \in Nat /\ x < v
  BY <1>1
<1>5. /\ box' \in Seq(Nat) /\ Increasing(box') /\ v \in Range(box')
      /\ Range(box') = {v} \/ Range(box') = Range(box) \cup {v}
  <2> HIDE DEF v
  <2>1. \A w \in Range(box) : w < v
    BY <1>4
  <2>2. CASE box' = <<v>>
    BY <1>1, <1>2, <2>2, RangeGrows
  <2>3. CASE box' = Append(box, v)
    <3>1. /\ Range(Append(box, v)) = Range(box) \cup {v} /\ Append(box, v) \in Seq(Nat)
          /\ Increasing(Append(box, v))
      BY <1>1, <1>2, <2>1, RangeGrows
    <3>2. v \in Range(box') /\ Range(box') = Range(box) \cup {v}
      BY <2>3, <3>1
    <3> QED  BY <2>3, <3>1, <3>2
  <2> QED  BY <1>3, <2>2, <2>3
<1>6. 1..v = 1..raised \cup {v}
  BY <1>1
<1> HIDE DEF v
<1>7. thrown' \subseteq Nat
  BY <1>1, <1>2, <1>4
<1>8. 1..v = Range(taken) \cup thrown' \cup Range(box')
  BY <1>1, <1>2, <1>5, <1>6
<1>9. Range(taken) \cap thrown' = {}
  <2>1. \A x \in Range(taken) : x \notin Range(box)
    BY <1>1, <1>4
  <2> QED  BY <1>1, <1>2, <2>1
<1>10. \A x \in Range(taken) \cup thrown', w \in Range(box') : x < w
  <2>1. CASE Range(box') = {v}
    BY <1>2, <1>4, <2>1
  <2>2. CASE Range(box') = Range(box) \cup {v}
    BY <1>1, <1>2, <1>4, <2>2
  <2> QED  BY <1>5, <2>1, <2>2
<1> QED  BY <1>1, <1>2, <1>5, <1>7, <1>8, <1>9, <1>10 DEF InOrder

(* A call takes the oldest value or none.                                  *)
LEMMA ReturnKeepsOrder ==
  ASSUME InOrder, NEW u, box # <<>>, ReturnWith(u) PROVE InOrder'
<1>1. /\ raised \in Nat /\ box \in Seq(Nat) /\ taken \in Seq(Nat) /\ thrown \subseteq Nat
      /\ Increasing(box) /\ Increasing(taken) /\ Range(taken) \cap thrown = {}
      /\ 1..raised = Range(taken) \cup thrown \cup Range(box)
      /\ \A x \in Range(taken) \cup thrown, w \in Range(box) : x < w
  BY DEF InOrder
<1>2. raised' = raised /\ thrown' = thrown
  BY DEF ReturnWith
<1>3. CASE how'[u] = "view"
  BY <1>1, <1>2, <1>3 DEF ReturnWith, InOrder
<1>4. CASE how'[u] # "view"
  <2> DEFINE h == Head(box)
             rest == Tail(box)
  <2>1. taken' = Append(taken, h) /\ box' = rest
    BY <1>4 DEF ReturnWith
  <2>2. /\ Range(box) = {h} \cup Range(rest) /\ rest \in Seq(Nat) /\ h \in Nat
        /\ Increasing(rest) /\ \A w \in Range(rest) : h < w
    BY <1>1, RangeShrinks
  <2> HIDE DEF h, rest
  <2>3. \A x \in Range(taken) : x < h
    BY <1>1, <2>2
  <2>4. /\ Range(taken') = Range(taken) \cup {h} /\ taken' \in Seq(Nat)
        /\ Increasing(taken')
    BY <1>1, <2>1, <2>2, <2>3, RangeGrows
  <2>5. h \notin thrown
    <3>1. \A x \in thrown : x < h /\ x \in Nat
      BY <1>1, <2>2
    <3> QED  BY <2>2, <3>1
  <2>6. 1..raised = Range(taken') \cup thrown \cup Range(rest)
    BY <1>1, <2>2, <2>4
  <2>7. Range(taken') \cap thrown = {}
    BY <1>1, <2>4, <2>5
  <2>8. \A x \in Range(taken') \cup thrown, w \in Range(rest) : x < w
    BY <1>1, <2>2, <2>4
  <2> QED  BY <1>1, <1>2, <2>1, <2>2, <2>4, <2>6, <2>7, <2>8 DEF InOrder
<1> QED  BY <1>3, <1>4

LEMMA NoneKeepsOrder == ASSUME InOrder, UNCHANGED <<box, raised, taken, thrown>> PROVE InOrder'
  BY DEF InOrder

LEMMA EmptiedKeepsOrder ==
  ASSUME InOrder, box' = <<>>, thrown' = thrown \cup Range(box), UNCHANGED <<raised, taken>>
  PROVE  InOrder'
<1>1. /\ raised \in Nat /\ box \in Seq(Nat) /\ taken \in Seq(Nat) /\ thrown \subseteq Nat
      /\ Increasing(taken)
      /\ 1..raised = Range(taken) \cup thrown \cup Range(box)
      /\ Range(taken) \cap thrown = {}
      /\ \A v \in Range(taken) \cup thrown, w \in Range(box) : v < w
  BY DEF InOrder
<1>2. Range(box') = {} /\ Increasing(box') /\ box' \in Seq(Nat)
  BY DEF Range, Increasing
<1>3. Range(box) \subseteq Nat
  BY <1>1 DEF Range
<1>4. Range(taken) \cap Range(box) = {}
  <2>1. Range(taken) \subseteq Nat
    BY <1>1 DEF Range
  <2> QED  BY <1>1, <1>3, <2>1
<1>5. thrown' \subseteq Nat /\ Range(taken) \cap thrown' = {}
  BY <1>1, <1>3, <1>4
<1>6. 1..raised = Range(taken) \cup thrown' \cup Range(box')
  BY <1>1, <1>2
<1>7. \A v \in Range(taken) \cup thrown', w \in Range(box') : v < w
  BY <1>2
<1>8. Increasing(taken')
  BY <1>1
<1> QED  BY <1>1, <1>2, <1>5, <1>6, <1>7, <1>8 DEF InOrder

(* Nobody falls asleep on what is there, and whoever sleeps is notified.   *)
LEMMA CallsAreNotified ==
  ASSUME Notified, NEW u \in Users, UNCHANGED goes,
         (box # <<>> /\ ReturnWith(u)) \/ ReturnNone(u)
  PROVE  Notified'
<1>1. /\ doing' \in [Users -> {"idle", "asleep", "gone"}] /\ doing'[u] # "asleep"
      /\ \A w \in Users \ {u} : doing'[w] = doing[w]
      /\ notified' = notified \ {u}
  BY DEF Notified, ReturnWith, ReturnNone
<1>2. box # <<>> \/ ~goes => Asleep \subseteq notified
  BY DEF Notified
<1>3. box' # <<>> => box # <<>>
  BY DEF ReturnWith, ReturnNone
<1> QED  BY <1>1, <1>2, <1>3 DEF Notified, Asleep

(* A box: what is raised, called for and stopped.                          *)
BoxStep == Raise \/ Stop \/ ResetEvent \/ \E u \in Users : Wake(u) \/ TimeOut(u)
                                            \/ \E op \in {"pop", "view"} : Call(u, op)
PostStep == \E u \in Users : Look(u) \/ LetGo(u) \/ CleanUp(u) \/ Unref(u)
                               \/ \E works \in BOOLEAN : Ref(u, works)

LEMMA BoxGoesOn == MailInv /\ BoxStep => MailInv'
<1> SUFFICES ASSUME MailInv, BoxStep PROVE MailInv'
  OBVIOUS
<1>1. InOrder /\ Notified /\ Posted
  BY DEF MailInv
<1>2. UNCHANGED <<kind, postVars>>
  BY DEF BoxStep, Raise, Stop, ResetEvent, Wake, TimeOut, Call
<1>3. Posted'
  BY <1>1, <1>2 DEF Posted, PostHeld, Holders, postVars
<1>4. CASE Raise
  <2>1. InOrder'
    BY <1>1, <1>4, RaiseKeepsOrder
  <2>2. Notified'
    BY <1>1, <1>4 DEF Raise, Notified, Told, Asleep
  <2> QED  BY <1>3, <2>1, <2>2 DEF MailInv
<1>5. CASE Stop
  <2>1. InOrder'
    BY <1>1, <1>5, NoneKeepsOrder DEF Stop
  <2>2. Notified'
    BY <1>1, <1>5 DEF Stop, Notified, Told, Asleep
  <2> QED  BY <1>3, <2>1, <2>2 DEF MailInv
<1>6. ASSUME NEW u \in Users, ReturnWith(u), box # <<>> PROVE MailInv'
  <2>1. InOrder'
    BY <1>1, <1>6, ReturnKeepsOrder
  <2>2. Notified'
    BY <1>1, <1>6, CallsAreNotified DEF ReturnWith
  <2> QED  BY <1>3, <2>1, <2>2 DEF MailInv
<1>7. ASSUME NEW u \in Users, ReturnNone(u) PROVE MailInv'
  <2>1. InOrder'
    BY <1>1, <1>7, NoneKeepsOrder DEF ReturnNone
  <2>2. Notified'
    BY <1>1, <1>7, CallsAreNotified DEF ReturnNone
  <2> QED  BY <1>3, <2>1, <2>2 DEF MailInv
<1>8. ASSUME UNCHANGED <<box, goes, raised, taken, thrown>>, Notified' PROVE MailInv'
  <2>1. InOrder'
    BY <1>1, <1>8, NoneKeepsOrder
  <2> QED  BY <1>3, <1>8, <2>1 DEF MailInv
<1>9. ASSUME NEW u \in Users, NEW op \in {"pop", "view"}, Call(u, op) PROVE MailInv'
  <2>1. CASE ~goes
    BY <1>7, <1>9, <2>1 DEF Call
  <2>2. CASE goes /\ box # <<>>
    BY <1>6, <1>9, <2>2 DEF Call
  <2>3. CASE goes /\ box = <<>>
    <3>1. /\ doing' = [doing EXCEPT ![u] = "asleep"]
          /\ UNCHANGED <<box, goes, notified, raised, taken, thrown>>
      BY <1>9, <2>3 DEF Call
    <3>2. Notified'
      BY <1>1, <2>3, <3>1 DEF Notified
    <3> QED  BY <1>8, <3>1, <3>2
  <2> QED  BY <2>1, <2>2, <2>3
<1>10. ASSUME NEW u \in Users, Wake(u) PROVE MailInv'
  <2>1. CASE ~goes
    BY <1>6, <1>7, <1>10, <2>1 DEF Wake
  <2>2. CASE goes /\ box # <<>>
    BY <1>6, <1>10, <2>2 DEF Wake
  <2>3. CASE goes /\ box = <<>>
    <3>1. UNCHANGED <<box, goes, doing, raised, taken, thrown>>
      BY <1>10, <2>3 DEF Wake
    <3>2. Notified'
      BY <1>1, <2>3, <3>1 DEF Notified
    <3> QED  BY <1>8, <3>1, <3>2
  <2> QED  BY <2>1, <2>2, <2>3
<1>11. ASSUME NEW u \in Users, TimeOut(u) PROVE MailInv'
  <2>1. CASE kind = "event" /\ how[u] = "pop" /\ goes /\ box # <<>>
    BY <1>6, <1>11, <2>1 DEF TimeOut
  <2>2. CASE ~(kind = "event" /\ how[u] = "pop" /\ goes /\ box # <<>>)
    <3>1. /\ doing' = [doing EXCEPT ![u] = "idle"] /\ notified' = notified \ {u}
          /\ UNCHANGED <<box, goes, raised, taken, thrown>>
      BY <1>11, <2>2 DEF TimeOut
    <3>2. Notified'
      BY <1>1, <3>1 DEF Notified, Asleep
    <3> QED  BY <1>8, <3>1, <3>2
  <2> QED  BY <2>1, <2>2
<1>12. CASE ResetEvent
  <2>1. /\ box' = <<>> /\ goes' = TRUE /\ thrown' = thrown \cup Range(box)
        /\ UNCHANGED <<doing, raised, taken>>
    BY <1>12 DEF ResetEvent
  <2>2. Notified'
    BY <1>1, <2>1 DEF Notified
  <2>3. InOrder'
    BY <1>1, <2>1, EmptiedKeepsOrder
  <2> QED  BY <1>3, <2>2, <2>3 DEF MailInv
<1> QED  BY <1>4, <1>5, <1>9, <1>10, <1>11, <1>12 DEF BoxStep

LEMMA PostsGoOn == MailInv /\ PostStep => MailInv'
<1> SUFFICES ASSUME MailInv, PostStep PROVE MailInv'
  OBVIOUS
<1>1. InOrder /\ Notified /\ Posted
  BY DEF MailInv
<1>2. UNCHANGED <<kind, boxVars>>
  BY DEF PostStep, Look, LetGo, CleanUp, Ref, Unref
<1>3. InOrder' /\ Notified'
  BY <1>1, <1>2 DEF InOrder, Notified, boxVars, Asleep
<1> SUFFICES Posted'
  BY <1>3 DEF MailInv
<1>4. /\ postsMade \in Nat /\ entry \in Nat
      /\ has \in [Users -> Int] /\ leaving \in [Users -> Int]
  BY <1>1 DEF Posted
<1>5. ASSUME NEW u \in Users, Look(u) PROVE Posted'
  <2>1. /\ kind = "post" /\ kind' = kind /\ has[u] = 0 /\ leaving[u] = 0 /\ UNCHANGED leaving
        /\ has' = [has EXCEPT ![u] = PostFound]
        /\ entry' = IF entry = 0 THEN PostFound ELSE entry
        /\ postsMade' = IF PostFound = postsMade + 1 THEN postsMade + 1 ELSE postsMade
    BY <1>5 DEF Look
  <2>2. /\ PostFound \in Int /\ (entry = 0 => PostFound > 0)
        /\ entry # 0 => PostFound = entry \/ PostFound = -1
    BY <1>4 DEF PostFound
  <2>3. \A w \in Users : (has[w] > 0 => has[w] = entry) /\ (has[w] # 0 => leaving[w] = 0)
    BY <1>1, <2>1 DEF Posted
  <2>4. /\ has' \in [Users -> Int] /\ has'[u] = PostFound /\ entry' \in Nat /\ postsMade' \in Nat
        /\ \A w \in Users \ {u} : has'[w] = has[w]
    BY <1>4, <2>1, <2>2
  <2>5. \A w \in Users : (has'[w] > 0 => has'[w] = entry') /\ (has'[w] # 0 => leaving'[w] = 0)
    BY <1>4, <2>1, <2>2, <2>3, <2>4
  <2>6. entry' # 0 /\ ~PostHeld(entry)' => \E w \in Users : leaving'[w] # 0
    <3>1. CASE entry = 0
      BY <2>1, <2>2, <2>4, <3>1 DEF PostHeld
    <3>2. CASE entry # 0
      <4>1. PostHeld(entry) => PostHeld(entry)'
        BY <2>1, <2>4, <3>2 DEF PostHeld
      <4> QED  BY <1>1, <2>1, <3>2, <4>1 DEF Posted
    <3> QED  BY <3>1, <3>2
  <2> QED  BY <1>4, <2>1, <2>4, <2>5, <2>6 DEF Posted
<1>6. ASSUME NEW u \in Users, LetGo(u) PROVE Posted'
  <2>1. /\ kind = "post" /\ kind' = kind /\ has[u] # 0 /\ UNCHANGED <<entry, postsMade>>
        /\ has' = [has EXCEPT ![u] = 0]
        /\ leaving' = [leaving EXCEPT
                         ![u] = IF has[u] > 0 /\ \A v \in Users \ {u} : has[v] # has[u]
                                THEN has[u] ELSE 0]
    BY <1>6 DEF LetGo
  <2>2. /\ has' \in [Users -> Int] /\ has'[u] = 0 /\ leaving' \in [Users -> Int]
        /\ \A w \in Users \ {u} : has'[w] = has[w] /\ leaving'[w] = leaving[w]
        /\ has[u] > 0 /\ (\A v \in Users \ {u} : has[v] # has[u]) => leaving'[u] = has[u]
    BY <1>4, <2>1
  <2>3. \A w \in Users : (has[w] > 0 => has[w] = entry) /\ (has[w] # 0 => leaving[w] = 0)
    BY <1>1, <2>1 DEF Posted
  <2>4. \A w \in Users : (has'[w] > 0 => has'[w] = entry') /\ (has'[w] # 0 => leaving'[w] = 0)
    BY <2>1, <2>2, <2>3
  <2>5. entry' # 0 /\ ~PostHeld(entry)' => \E w \in Users : leaving'[w] # 0
    <3> SUFFICES ASSUME entry # 0, \A w \in Users \ {u} : has[w] # entry
                 PROVE  \E w \in Users : leaving'[w] # 0
      BY <2>1, <2>2 DEF PostHeld
    <3>1. CASE has[u] = entry /\ entry > 0
      BY <2>2, <3>1
    <3>2. CASE ~(has[u] = entry /\ entry > 0)
      <4>1. \E w \in Users : leaving[w] # 0
        BY <1>1, <1>4, <2>1, <2>3, <3>2 DEF Posted, PostHeld
      <4> QED  BY <2>1, <2>2, <2>3, <4>1
    <3> QED  BY <3>1, <3>2
  <2> QED  BY <1>4, <2>1, <2>2, <2>4, <2>5 DEF Posted
<1>7. ASSUME NEW u \in Users, CleanUp(u) PROVE Posted'
  <2>1. /\ leaving[u] # 0 /\ leaving' = [leaving EXCEPT ![u] = 0]
        /\ entry' = IF entry # 0 /\ ~PostHeld(entry) THEN 0 ELSE entry
        /\ UNCHANGED <<kind, has, postsMade, built>>
    BY <1>7 DEF CleanUp
  <2>2. leaving' \in [Users -> Int] /\ \A w \in Users : leaving'[w] = leaving[w] \/ leaving'[w] = 0
    BY <1>4, <2>1
  <2>3. kind # "shared"
    BY <1>1, <2>1 DEF Posted
  <2>4. entry' # 0 => PostHeld(entry)'
    BY <2>1 DEF PostHeld
  <2>5. ASSUME kind = "post", NEW w \in Users, has[w] > 0 PROVE has[w] = entry'
    BY <1>1, <1>4, <2>1, <2>5 DEF Posted, PostHeld
  <2> QED  BY <1>1, <1>4, <2>1, <2>2, <2>3, <2>4, <2>5 DEF Posted
<1>8. ASSUME NEW u \in Users, NEW works \in BOOLEAN, Ref(u, works) PROVE Posted'
  <2>1. kind = "shared" /\ has[u] = 0 /\ UNCHANGED <<kind, entry, leaving>>
    BY <1>8 DEF Ref
  <2>2. /\ entry = 0 /\ \A w \in Users : leaving[w] = 0
        /\ built = {has[w] : w \in Holders}
        /\ \A w, x \in Users : has[w] > 0 /\ has[x] > 0 => has[w] = has[x]
    BY <1>1, <2>1 DEF Posted
  <2>3. CASE First
    <3>1. /\ postsMade' = postsMade + 1 /\ built = {}
          /\ built' = IF works THEN built \cup {postsMade + 1} ELSE built
          /\ has' = [has EXCEPT ![u] = IF works THEN postsMade + 1 ELSE -1]
      BY <1>8, <2>2, <2>3 DEF Ref, First
    <3>2. has' \in [Users -> Int] /\ \A w \in Users \ {u} : has'[w] = has[w] /\ ~(has[w] > 0)
      BY <1>4, <2>3, <3>1 DEF First, Holders
    <3>3. has'[u] = IF works THEN postsMade + 1 ELSE -1
      BY <1>4, <3>1
    <3>4. Holders' = IF works THEN {u} ELSE {}
      BY <1>4, <3>2, <3>3 DEF Holders
    <3>5. built' = {has'[w] : w \in Holders'}
      BY <3>1, <3>3, <3>4
    <3>6. \A w, x \in Users : has'[w] > 0 /\ has'[x] > 0 => has'[w] = has'[x]
      BY <3>2
    <3>7. postsMade' \in Nat
      BY <1>4, <3>1
    <3> QED  BY <1>4, <2>1, <2>2, <3>2, <3>5, <3>6, <3>7 DEF Posted
  <2>4. CASE ~First
    <3>1. PICK v \in Holders : v = CHOOSE x \in Holders : TRUE
      BY <2>4 DEF First
    <3>2. /\ has' = [has EXCEPT ![u] = has[v]] /\ UNCHANGED <<postsMade, built>>
      BY <1>8, <2>4, <3>1 DEF Ref
    <3>3. /\ v \in Users /\ has[v] > 0 /\ v # u
      BY <2>1, <3>1 DEF Holders
    <3>4. /\ has' \in [Users -> Int] /\ has'[u] = has[v]
          /\ \A w \in Users \ {u} : has'[w] = has[w]
      BY <1>4, <3>2, <3>3
    <3>5. Holders' = Holders \cup {u}
      BY <3>3, <3>4 DEF Holders
    <3>6. \A w, x \in Users : has'[w] > 0 /\ has'[x] > 0 => has'[w] = has'[x]
      BY <2>2, <3>3, <3>4
    <3>7. built' = {has'[w] : w \in Holders'}
      <4>1. u \notin Holders /\ Holders \subseteq Users
        BY <2>1 DEF Holders
      <4>2. {has'[w] : w \in Holders'} = {has[w] : w \in Holders} \cup {has[v]}
        BY <3>4, <3>5, <4>1
      <4> QED  BY <2>2, <3>1, <3>2, <4>2
    <3> QED  BY <1>4, <2>1, <2>2, <3>2, <3>4, <3>6, <3>7 DEF Posted
  <2> QED  BY <2>3, <2>4
<1>9. ASSUME NEW u \in Users, Unref(u) PROVE Posted'
  <2>1. /\ kind = "shared" /\ has[u] # 0 /\ UNCHANGED <<kind, entry, leaving, postsMade>>
        /\ has' = [has EXCEPT ![u] = 0]
        /\ built' = IF Holders = {u} THEN built \ {has[u]} ELSE built
    BY <1>9 DEF Unref
  <2>2. /\ entry = 0 /\ \A w \in Users : leaving[w] = 0
        /\ built = {has[w] : w \in Holders}
        /\ \A w, x \in Users : has[w] > 0 /\ has[x] > 0 => has[w] = has[x]
    BY <1>1, <2>1 DEF Posted
  <2>3. has' \in [Users -> Int] /\ has'[u] = 0 /\ \A w \in Users \ {u} : has'[w] = has[w]
    BY <1>4, <2>1
  <2>4. Holders' = Holders \ {u} /\ Holders \subseteq Users
    BY <2>3 DEF Holders
  <2>5. \A w, x \in Users : has'[w] > 0 /\ has'[x] > 0 => has'[w] = has'[x]
    BY <2>2, <2>3
  <2>6. built' = {has'[w] : w \in Holders'}
    <3>1. {has'[w] : w \in Holders'} = {has[w] : w \in Holders \ {u}}
      BY <2>3, <2>4
    <3>2. CASE Holders = {u}
      BY <2>1, <2>2, <3>1, <3>2
    <3>3. CASE u \notin Holders
      BY <2>1, <2>2, <3>1, <3>3
    <3>4. ASSUME u \in Holders, NEW v \in Holders, v # u PROVE built' = {has'[w] : w \in Holders'}
      <4>1. has[v] = has[u]
        BY <2>2, <2>4, <3>4 DEF Holders
      <4>2. {has[w] : w \in Holders \ {u}} = {has[w] : w \in Holders}
        BY <3>4, <4>1
      <4> QED  BY <2>1, <2>2, <3>1, <3>4, <4>2
    <3> QED  BY <3>2, <3>3, <3>4
  <2> QED  BY <1>4, <2>1, <2>2, <2>3, <2>5, <2>6 DEF Posted
<1> QED  BY <1>5, <1>6, <1>7, <1>8, <1>9 DEF PostStep

LEMMA MailGoesOn == MailInv /\ [MailNext]_mailVars => MailInv'
<1>1. MailNext => BoxStep \/ PostStep
  BY DEF MailNext, BoxStep, PostStep
<1>2. MailInv /\ UNCHANGED mailVars => MailInv'
  BY DEF MailInv, mailVars, boxVars, postVars, InOrder, Notified, Posted, Asleep, Holders,
         PostHeld, Increasing
<1> QED  BY <1>1, <1>2, BoxGoesOn, PostsGoOn

LEMMA MailIsSeen == MailInv => NobodySleepsOn /\ TakenInOrder /\ PostShared /\ SharedAlive
<1> SUFFICES ASSUME MailInv PROVE NobodySleepsOn /\ TakenInOrder /\ PostShared /\ SharedAlive
  OBVIOUS
<1>1. NobodySleepsOn
  BY DEF MailInv, Notified, NobodySleepsOn
<1>2. TakenInOrder
  BY DEF MailInv, InOrder, Increasing, TakenInOrder
<1>3. PostShared
  BY DEF MailInv, Posted, PostShared
<1>4. SharedAlive
  BY DEF MailInv, Posted, SharedAlive
<1> QED  BY <1>1, <1>2, <1>3, <1>4

-------------------------------------------------------------------------------
(* Reference frames.                                                       *)

EncoderState == [rfi : BOOLEAN, last : Nat, confirm : BOOLEAN, from : Nat, to : Nat]
(* A frame needs earlier frames only; the driver keeps some of those       *)
(* encoded; what is asked for was encoded.                                 *)
FramesKnown ==
  /\ frame \in 0..MaxFrame /\ encoder \in EncoderState
  /\ encoder.last <= frame /\ encoder.to <= encoder.last
  /\ dpb \subseteq Frames /\ \A f \in dpb : f <= encoder.last
  /\ needs \in [Frames -> SUBSET Nat] /\ \A f \in Frames : \A g \in needs[f] : 0 < g /\ g <= f
  /\ asked \subseteq 0..frame /\ fresh \subseteq 0..frame
  /\ request = NoRequest \/ (request \in (0..frame) \X (1..frame))

(* Unless the next frame is to be an IDR frame, those it may refer to need *)
(* none that was asked about or invalidated.                               *)
Voided == encoder.from..encoder.to
Untouched ==
  ~force => \A f \in dpb : needs[f] \cap asked = {} /\ needs[f] \cap Voided = {}

(* What was asked for is answered, or will be by the next frame; so is     *)
(* what is taken for already done.                                         *)
WillAnswer == force \/ encoder.confirm \/ dpb = {}
Owed ==
  /\ fresh \subseteq answered \/ WillAnswer
  /\ encoder.to = 0 \/ Voided \subseteq answered \/ (WillAnswer /\ encoder.from \in fresh)

RefInv == FramesKnown /\ Untouched /\ Owed /\ FramesRecover

LEMMA RefStarts == RefInit => RefInv
<1> SUFFICES ASSUME RefInit PROVE RefInv
  OBVIOUS
<1> USE DEF RefInit, NewEncoder, Frames
<1>1. FramesKnown
  BY FramesAssumption DEF FramesKnown, EncoderState
<1>2. Untouched
  BY DEF Untouched
<1>3. Owed
  BY DEF Owed
<1>4. FramesRecover
  BY DEF FramesRecover, Severed, Answered
<1> QED  BY <1>1, <1>2, <1>3, <1>4 DEF RefInv

(* A request is left to be taken.                                          *)
LEMMA AskingKeeps ==
  ASSUME RefInv, (\E a \in 0..frame, b \in 1..frame : Ask(a, b)) \/ AskIdr \/ Reinit
  PROVE  RefInv'
<1>1. /\ UNCHANGED <<frame, encoder, force, dpb, needs, refHistory>>
      /\ request' = request \/ request' \in (0..frame) \X (1..frame)
  BY DEF Ask, AskIdr, Reinit
<1>2. FramesKnown'
  BY <1>1 DEF RefInv, FramesKnown, refHistory
<1>3. Untouched' /\ Owed' /\ FramesRecover'
  BY <1>1 DEF RefInv, Untouched, Owed, Voided, WillAnswer, FramesRecover, Severed, Answered,
              refHistory
<1> QED  BY <1>2, <1>3 DEF RefInv

(* A new encoder has nothing to refer to.                                  *)
LEMMA CreateKeeps == RefInv /\ Create => RefInv'
<1> SUFFICES ASSUME RefInv, Create PROVE RefInv'
  OBVIOUS
<1>1. /\ UNCHANGED <<frame, needs, request, asked, fresh, answered, stale, silent>>
      /\ dpb' = {}
      /\ \E rfi \in BOOLEAN : encoder' = NewEncoder(rfi)
  BY DEF Create, refHistory
<1>2. encoder' \in EncoderState /\ encoder'.last = 0 /\ encoder'.to = 0
  BY <1>1 DEF NewEncoder, EncoderState
<1>3. FramesKnown'
  BY <1>1, <1>2 DEF RefInv, FramesKnown
<1>4. Untouched' /\ Owed' /\ FramesRecover'
  BY <1>1, <1>2 DEF RefInv, Untouched, Owed, WillAnswer, FramesRecover, Severed, Answered
<1> QED  BY <1>3, <1>4 DEF RefInv

(* What is asked for is not referred to any more: it was cut off before,   *)
(* or it is now, with all that follow it, or an IDR frame follows.         *)
LEMMA TakeRequestKeeps == RefInv /\ TakeRequest => RefInv'
<1> SUFFICES ASSUME RefInv, TakeRequest PROVE RefInv'
  OBVIOUS
<1> DEFINE first == request[1]
           last == request[2]
           e == encoder
           done == AlreadyDone(encoder, first, last)
           unasked == ~encoder.rfi
           inverted == last < first
<1>1. /\ frame \in 0..MaxFrame /\ e \in EncoderState /\ e.last <= frame /\ e.to <= e.last
      /\ dpb \subseteq Frames /\ \A f \in dpb : f <= e.last
      /\ needs \in [Frames -> SUBSET Nat]
      /\ \A f \in Frames : \A g \in needs[f] : 0 < g /\ g <= f
      /\ asked \subseteq 0..frame /\ fresh \subseteq 0..frame
  BY DEF RefInv, FramesKnown
<1>2. /\ first \in 0..frame /\ last \in 1..frame /\ first..last \subseteq 0..frame
  BY <1>1 DEF RefInv, FramesKnown, TakeRequest
<1>3. /\ request' = NoRequest /\ asked' = asked \cup (first..last)
      /\ fresh' = fresh \cup (first..last)
      /\ UNCHANGED <<frame, needs, answered, stale, silent>>
  BY DEF TakeRequest
<1>4. encoder' = IF unasked \/ done THEN e
                 ELSE IF inverted THEN [e EXCEPT !.confirm = TRUE]
                 ELSE [e EXCEPT !.confirm = TRUE, !.from = first, !.to = e.last]
  BY DEF TakeRequest, Expanded
<1>5. /\ dpb' \subseteq dpb
      /\ \/ force'
         \/ done /\ ~unasked /\ (force' <=> force)
         \/ /\ ~unasked /\ ~done /\ ~inverted /\ (force' <=> force)
            /\ dpb' = dpb \ (first..e.last)
  <2>1. CASE /\ unasked \/ done \/ inverted \/ Count(first, e.last) >= DpbSize
             /\ ForcedUnless(done /\ ~unasked) /\ dpb' = dpb
    BY <2>1 DEF ForcedUnless
  <2>2. ASSUME ~unasked, ~done, ~inverted, NEW failing \in BOOLEAN,
               NEW n \in first..e.last + 1, ~failing => n = e.last + 1,
               dpb' = dpb \ (first..n - 1), ForcedUnless(~failing)
        PROVE  <1>5!2
    <3>1. CASE failing
      BY <2>2, <3>1 DEF ForcedUnless
    <3>2. CASE ~failing
      <4>1. n - 1 = e.last
        BY <1>1, <2>2, <3>2 DEF EncoderState
      <4> QED  BY <2>2, <3>2, <4>1 DEF ForcedUnless
    <3> QED  BY <3>1, <3>2
  <2>3. dpb' \subseteq dpb
    BY DEF TakeRequest
  <2> QED  BY <2>1, <2>2, <2>3 DEF TakeRequest, Expanded
<1> HIDE DEF first, last
<1>6. /\ encoder' \in EncoderState /\ encoder'.last = e.last /\ encoder'.to <= e.last
  <2>1. first \in Nat
    BY <1>1, <1>2
  <2>2. CASE unasked \/ done
    BY <1>1, <1>4, <2>2
  <2>3. CASE ~(unasked \/ done) /\ inverted
    BY <1>1, <1>4, <2>3 DEF EncoderState
  <2>4. CASE ~(unasked \/ done) /\ ~inverted
    <3> DEFINE m == e.last
    <3>1. m \in Nat
      BY <1>1 DEF EncoderState
    <3>2. encoder' = [e EXCEPT !.confirm = TRUE, !.from = first, !.to = m]
      BY <1>4, <2>4
    <3>4. e \in EncoderState
      BY <1>1
    <3> HIDE DEF m
    <3>3. encoder' \in EncoderState /\ encoder'.last = e.last /\ encoder'.to = m
      BY <2>1, <3>1, <3>2, <3>4 DEF EncoderState
    <3> QED  BY <3>1, <3>3 DEF m
  <2> QED  BY <2>2, <2>3, <2>4
<1>7. FramesKnown'
  BY <1>1, <1>2, <1>3, <1>5, <1>6 DEF FramesKnown
<1>8. ~force => \A f \in dpb : needs[f] \cap asked = {} /\ needs[f] \cap Voided = {}
  BY DEF RefInv, Untouched
<1>9. Untouched'
  <2> SUFFICES ASSUME ~force', NEW f \in dpb'
               PROVE  needs[f] \cap asked' = {} /\ needs[f] \cap Voided' = {}
    BY <1>3 DEF Untouched
  <2>1. CASE done /\ ~unasked /\ (force' <=> force)
    <3>1. needs[f] \cap asked = {} /\ needs[f] \cap Voided = {} /\ Voided' = Voided
      BY <1>4, <1>5, <1>8, <2>1 DEF Voided
    <3>2. first..last \subseteq Voided
      BY <1>1, <1>2, <2>1 DEF AlreadyDone, Voided, EncoderState
    <3> QED  BY <1>3, <3>1, <3>2
  <2>2. CASE /\ ~unasked /\ ~done /\ ~inverted /\ (force' <=> force)
             /\ dpb' = dpb \ (first..e.last)
    <3>1. needs[f] \cap asked = {} /\ f \in dpb
      BY <1>5, <1>8, <2>2
    <3>2. f < first
      BY <1>1, <1>2, <2>2, <3>1 DEF EncoderState, Frames
    <3>3. \A g \in needs[f] : g < first
      BY <1>1, <1>2, <3>1, <3>2 DEF Frames
    <3>4. Voided' = first..e.last
      BY <1>1, <1>4, <2>2 DEF Voided, EncoderState
    <3>5. \A g \in needs[f] : g \notin first..last /\ g \notin first..e.last
      BY <1>1, <1>2, <3>3
    <3> QED  BY <1>3, <3>1, <3>4, <3>5
  <2> QED  BY <1>5, <2>1, <2>2
<1>10. Owed'
  <2>1. WillAnswer => WillAnswer'
    BY <1>1, <1>4, <1>5 DEF WillAnswer, EncoderState
  <2>2. fresh \subseteq fresh'
    BY <1>3
  <2>3. CASE unasked
    <3>1. force' /\ encoder' = encoder
      BY <1>4, <1>5, <2>3
    <3> QED  BY <1>3, <2>1, <2>2, <3>1 DEF RefInv, Owed, WillAnswer, Voided
  <2>4. CASE done
    <3>1. encoder' = encoder
      BY <1>4, <2>4
    <3>2. e.to # 0 /\ first..last \subseteq Voided
      BY <1>1, <1>2, <2>4 DEF AlreadyDone, Voided, EncoderState
    <3> QED  BY <1>3, <2>1, <2>2, <3>1, <3>2 DEF RefInv, Owed, Voided
  <2>5. CASE ~unasked /\ ~done /\ inverted
    <3>1. WillAnswer' /\ encoder'.from = e.from /\ encoder'.to = e.to
      BY <1>1, <1>4, <2>5 DEF WillAnswer, EncoderState
    <3> QED  BY <1>3, <2>1, <2>2, <3>1 DEF RefInv, Owed, Voided
  <2>6. CASE ~unasked /\ ~done /\ ~inverted
    <3>1. WillAnswer' /\ encoder'.from = first
      BY <1>1, <1>4, <2>6 DEF WillAnswer, EncoderState
    <3>2. first \in fresh'
      BY <1>2, <1>3, <2>6
    <3> QED  BY <3>1, <3>2 DEF Owed
  <2> QED  BY <2>3, <2>4, <2>5, <2>6
<1>11. FramesRecover'
  BY <1>3 DEF RefInv, FramesRecover, Severed, Answered
<1> QED  BY <1>7, <1>9, <1>10, <1>11 DEF RefInv

(* An IDR frame asked for only helps.                                      *)
LEMMA TakeIdrKeeps == RefInv /\ TakeIdr => RefInv'
<1> SUFFICES ASSUME RefInv, TakeIdr PROVE RefInv'
  OBVIOUS
<1>1. /\ UNCHANGED <<frame, encoder, dpb, needs, request, asked, fresh, answered, stale, silent>>
      /\ force => force'
  BY DEF TakeIdr, refHistory
<1> QED  BY <1>1 DEF RefInv, FramesKnown, Untouched, Owed, Voided, WillAnswer, FramesRecover,
                     Severed, Answered

(* A frame needs the frame it refers to and what that one needs, or        *)
(* nothing else; it answers for what was asked since the one before.       *)
LEMMA EncodeKeeps == RefInv /\ Encode => RefInv'
<1> SUFFICES ASSUME RefInv, Encode PROVE RefInv'
  OBVIOUS
<1> DEFINE n == frame + 1
           e == encoder
<1>1. /\ frame \in 0..MaxFrame /\ e \in EncoderState /\ e.last <= frame /\ e.to <= e.last
      /\ dpb \subseteq Frames /\ \A f \in dpb : f <= e.last
      /\ needs \in [Frames -> SUBSET Nat]
      /\ \A f \in Frames : \A g \in needs[f] : 0 < g /\ g <= f
      /\ asked \subseteq 0..frame /\ fresh \subseteq 0..frame
      /\ request = NoRequest \/ (request \in (0..frame) \X (1..frame))
  BY DEF RefInv, FramesKnown
<1>2. PICK ref \in IF force \/ dpb = {} THEN {0} ELSE dpb :
         LET key == ref = 0
             needed == {n} \cup (IF key THEN {} ELSE needs[ref])
         IN /\ dpb' = Newest((IF key THEN {} ELSE dpb) \cup {n})
            /\ needs' = [f \in Frames |-> IF f = n THEN needed ELSE IF f \in dpb' THEN needs[f] ELSE {}]
            /\ stale' = (stale \/ needed \cap asked # {})
            /\ silent' = (silent \/ (fresh \ answered # {} /\ ~key /\ ~e.confirm))
            /\ answered' = answered \cup (IF key \/ e.confirm THEN AnsweredBy(n) ELSE {})
            /\ fresh' = {}
  BY DEF Encode
<1> DEFINE key == ref = 0
           needed == {n} \cup (IF key THEN {} ELSE needs[ref])
<1>3. /\ n \in Frames /\ frame' = n /\ force' = FALSE /\ UNCHANGED <<request, asked>>
      /\ encoder' = [e EXCEPT !.last = n, !.confirm = FALSE]
  BY DEF Encode
<1>4. /\ key <=> force \/ dpb = {}
      /\ ~key => ~force /\ ref \in dpb
  BY <1>1, <1>2 DEF Frames
<1>5. /\ dpb' \subseteq {n} \cup (IF key THEN {} ELSE dpb)
      /\ needs' = [f \in Frames |-> IF f = n THEN needed ELSE IF f \in dpb' THEN needs[f] ELSE {}]
      /\ stale' <=> stale \/ needed \cap asked # {}
      /\ silent' <=> silent \/ (fresh \ answered # {} /\ ~key /\ ~e.confirm)
      /\ answered' = answered \cup (IF key \/ e.confirm THEN AnsweredBy(n) ELSE {})
      /\ fresh' = {}
  BY <1>2 DEF Newest
<1> HIDE <1>2
<1>6. /\ n \in Nat /\ n = frame + 1 /\ frame \in Nat /\ n \notin asked
      /\ \A f \in dpb : f \in Frames /\ f < n
  BY <1>1, <1>3 DEF EncoderState, Frames
<1>7. /\ encoder' \in EncoderState /\ encoder'.last = n /\ encoder'.to = e.to
      /\ encoder'.from = e.from /\ e.to \in Nat /\ e.from \in Nat /\ e.to <= frame
  <2>1. e.to \in Nat /\ e.from \in Nat /\ e.last \in Nat
    BY <1>1 DEF EncoderState
  <2>2. encoder' = [e EXCEPT !.last = n, !.confirm = FALSE] /\ e \in EncoderState /\ n \in Nat
    BY <1>1, <1>3, <1>6
  <2>3. encoder' \in EncoderState /\ encoder'.last = n /\ encoder'.to = e.to /\ encoder'.from = e.from
    BY <2>1, <2>2 DEF EncoderState
  <2> QED  BY <1>1, <1>6, <2>1, <2>3
<1>8. \A g \in needed : g \in Nat /\ 0 < g /\ g <= n
  BY <1>1, <1>4, <1>6 DEF Frames
<1>9. /\ needs' \in [Frames -> SUBSET Nat] /\ needs'[n] = needed
      /\ \A f \in Frames \ {n} : needs'[f] \in {needs[f], {}}
      /\ \A f \in dpb' \ {n} : needs'[f] = needs[f]
  <2> HIDE DEF needed
  <2>1. needed \subseteq Nat
    BY <1>8
  <2>2. dpb' \subseteq Frames
    BY <1>1, <1>3, <1>5
  <2> QED  BY <1>1, <1>3, <1>5, <2>1, <2>2
<1> HIDE DEF n
<1>10. FramesKnown'
  <2>1. frame' \in 0..MaxFrame /\ dpb' \subseteq Frames /\ \A f \in dpb' : f <= n
    BY <1>1, <1>3, <1>5, <1>6 DEF Frames
  <2>2. \A f \in Frames : \A g \in needs'[f] : 0 < g /\ g <= f
    BY <1>1, <1>8, <1>9
  <2>3. /\ asked \subseteq 0..n /\ fresh' \subseteq 0..n
        /\ request = NoRequest \/ (request \in (0..n) \X (1..n))
    BY <1>1, <1>5, <1>6
  <2>4. encoder'.last <= n /\ encoder'.to <= encoder'.last
    BY <1>6, <1>7
  <2> QED  BY <1>3, <1>7, <1>9, <2>1, <2>2, <2>3, <2>4 DEF FramesKnown
<1>11. ~key => \A f \in dpb : needs[f] \cap asked = {} /\ needs[f] \cap Voided = {}
  BY <1>4 DEF RefInv, Untouched
<1>12. Voided' = Voided /\ n \notin Voided
  BY <1>6, <1>7 DEF Voided
<1>13. needed \cap asked = {} /\ needed \cap Voided = {}
  BY <1>4, <1>6, <1>11, <1>12
<1>14. Untouched'
  <2> SUFFICES ASSUME NEW f \in dpb'
               PROVE  needs'[f] \cap asked = {} /\ needs'[f] \cap Voided = {}
    BY <1>3, <1>12 DEF Untouched
  <2>1. CASE f = n
    BY <1>9, <1>13, <2>1
  <2>2. CASE f # n
    BY <1>5, <1>9, <1>11, <2>2
  <2> QED  BY <2>1, <2>2
<1>15. key \/ e.confirm <=> WillAnswer
  BY <1>4 DEF WillAnswer
<1>16. Owed'
  <2>1. e.to = 0 \/ Voided \subseteq answered \/ (WillAnswer /\ e.from \in fresh)
    BY DEF RefInv, Owed
  <2>2. WillAnswer /\ e.from \in fresh => Voided \subseteq answered'
    <3> SUFFICES ASSUME WillAnswer, e.from \in fresh, NEW g \in Voided PROVE g \in AnsweredBy(n)
      BY <1>5, <1>15
    <3>1. g \in 0..n - 1 /\ e.from <= g
      BY <1>6, <1>7 DEF Voided
    <3> QED  BY <3>1 DEF AnsweredBy
  <2>3. answered \subseteq answered'
    BY <1>5
  <2>4. e.to = 0 \/ Voided' \subseteq answered'
    BY <1>12, <2>1, <2>2, <2>3
  <2> QED  BY <1>5, <1>7, <2>4 DEF Owed
<1>17. FramesRecover'
  <2>1. ~stale'
    BY <1>5, <1>13 DEF RefInv, FramesRecover, Severed
  <2>2. ~silent'
    BY <1>5, <1>15 DEF RefInv, FramesRecover, Answered, Owed
  <2> QED  BY <2>1, <2>2 DEF FramesRecover, Severed, Answered
<1> QED  BY <1>10, <1>14, <1>16, <1>17 DEF RefInv

(* A number is used up by a frame that was not made.                       *)
LEMMA EncodeFailsKeeps == RefInv /\ EncodeFails => RefInv'
<1> SUFFICES ASSUME RefInv, EncodeFails PROVE RefInv'
  OBVIOUS
<1>1. /\ UNCHANGED <<encoder, force, dpb, needs, request, asked, fresh, answered, stale, silent>>
      /\ frame' = frame + 1 /\ frame + 1 \in Frames
  BY DEF EncodeFails, refHistory
<1>2. /\ frame \in 0..MaxFrame /\ encoder \in EncoderState /\ encoder.last <= frame
      /\ asked \subseteq 0..frame /\ fresh \subseteq 0..frame
      /\ request = NoRequest \/ (request \in (0..frame) \X (1..frame))
  BY DEF RefInv, FramesKnown
<1>3. /\ frame' \in 0..MaxFrame /\ encoder.last <= frame' /\ 0..frame \subseteq 0..frame'
      /\ (0..frame) \X (1..frame) \subseteq (0..frame') \X (1..frame')
  BY <1>1, <1>2 DEF EncoderState, Frames
<1>4. FramesKnown'
  BY <1>1, <1>2, <1>3 DEF RefInv, FramesKnown
<1> QED  BY <1>1, <1>4 DEF RefInv, Untouched, Owed, Voided, WillAnswer, FramesRecover, Severed,
                           Answered

LEMMA RefGoesOn == RefInv /\ [RefNext]_refVars => RefInv'
<1>1. RefInv /\ UNCHANGED refVars => RefInv'
  BY DEF refVars, RefInv, FramesKnown, Untouched, Owed, Voided, WillAnswer, FramesRecover,
         Severed, Answered
<1> QED  BY <1>1, AskingKeeps, CreateKeeps, TakeRequestKeeps, TakeIdrKeeps, EncodeKeeps,
            EncodeFailsKeeps DEF RefNext

-------------------------------------------------------------------------------
(* An encode session.                                                      *)

Fixed == Flag("FIXED_GOP_SIZE")
Coded == [pts : Nat, marked : BOOLEAN, image : Nat]

(* The codec keeps at most the frame sent last.                            *)
KeptBack ==
  /\ nr \in Nat \ {0} /\ marked \in BOOLEAN /\ inCodec \subseteq Coded
  /\ \A h \in inCodec : h.pts = nr - 1
  /\ \A g, h \in inCodec : g = h

(* The context follows from the job, and the parameter sets that were      *)
(* replaced, or will be with the next packet, are those it lacks.          *)
ContextFits ==
  /\ job \in Jobs
  /\ esPhase = "open" =>
       /\ ctx = Context /\ ~DividesByZero
       /\ replaced \cup Replacements(inject) = Replacements(Injected)

(* A frame that was asked for is marked, at hand or in the codec, or the   *)
(* codec makes a key frame of the next in any case.                        *)
NextIsKey == gop = -1 /\ \A h \in inCodec : h.pts >= owed
Answering ==
  \/ NextIsKey
  \/ owed = nr /\ marked /\ esPoint = "encode"
  \/ \E h \in inCodec : h.pts = owed /\ h.marked
(* Without it the group of pictures, which counts the frames missed, ends. *)
Counting ==
  /\ missed = 0 \/ NextIsKey \/ missed <= gop
  /\ missed > 0 => \A h \in inCodec : h.pts >= owed
KeyComes ==
  /\ owed \in Nat /\ missed \in Nat /\ gop \in Int /\ gop >= -1
  /\ owed <= nr /\ (esPoint = "take" => owed < nr)
  /\ owed = NoFrame => missed = 0
  /\ Fixed => gop < FixedGop /\ missed < FixedGop
  /\ owed # NoFrame => IF Fixed THEN Counting ELSE missed = 0 /\ Answering

EncodeInv ==
  KeptBack /\ ContextFits /\ KeyComes /\ KeyOnRequest /\ ParametersShown /\ StampsTrue

(* The table: which encoders make no key frame of a marked frame.          *)
LEMMA TableIs ==
  ASSUME ContextFits
  PROVE  /\ Fixed => job.encoder = "mediafoundation"
         /\ ~Fixed => OnDemand(job.encoder, job.codec)
         /\ FixedGop \in Nat \ {0} /\ job.rates \in Rates
         /\ job.codec \in VideoFormats /\ job.encoder \in EncodersTried
         /\ job.encoder = "nvenc" => OnDevice
<1>1. /\ job.encoder \in EncodersTried /\ job.codec \in VideoFormats /\ job.rates \in Rates
      /\ job.codec \in Table[job.encoder].codecs
  BY DEF ContextFits, Jobs
<1>2. FixedGop \in Nat \ {0}
  BY EncodeAssumption
<1>3. job.encoder \in {"nvenc", "quicksync", "amdvce", "mediafoundation", "software",
                       "vaapi", "vulkan", "videotoolbox"}
  BY <1>1, EncodeAssumption
<1> DEFINE e == job.encoder
<1> USE DEF Fixed, Flag, OnDevice, OnDemand, NeedsOption, Table, Encoder, VideoFormats
<1>4. CASE e = "nvenc"
  BY <1>1, <1>2, <1>4 DEF Nvenc
<1>5. CASE e = "quicksync"
  BY <1>1, <1>2, <1>5 DEF Quicksync
<1>6. CASE e = "amdvce"
  BY <1>1, <1>2, <1>6 DEF Amdvce
<1>7. CASE e = "mediafoundation"
  BY <1>1, <1>2, <1>7 DEF MediaFoundation
<1>8. CASE e = "software"
  BY <1>1, <1>2, <1>8 DEF Software
<1>9. CASE e = "vaapi"
  BY <1>1, <1>2, <1>9 DEF Vaapi
<1>10. CASE e = "vulkan"
  BY <1>1, <1>2, <1>10 DEF Vulkan
<1>11. CASE e = "videotoolbox"
  BY <1>1, <1>2, <1>11 DEF Videotoolbox
<1> QED  BY <1>3, <1>4, <1>5, <1>6, <1>7, <1>8, <1>9, <1>10, <1>11

LEMMA EncodeStarts == EncodeInit => EncodeInv
<1> SUFFICES ASSUME EncodeInit PROVE EncodeInv
  OBVIOUS
<1> USE DEF EncodeInit
<1>7. nr = 1 /\ inCodec = {}
  OBVIOUS
<1>8. marked \in BOOLEAN
  OBVIOUS
<1>1. KeptBack
  BY <1>7, <1>8 DEF KeptBack
<1>2. ContextFits
  BY DEF ContextFits
<1>3. FixedGop \in Nat \ {0}
  BY EncodeAssumption
<1>4. KeyComes
  BY <1>3 DEF KeyComes, NoFrame
<1>5. KeyOnRequest
  BY <1>3 DEF KeyOnRequest
<1>6. ParametersShown /\ StampsTrue
  BY DEF ParametersShown, StampsTrue
<1> QED  BY <1>1, <1>2, <1>4, <1>5, <1>6 DEF EncodeInv

(* The buffer holds a frame's share.                                       *)
LEMMA Shares ==
  ASSUME NEW b \in Nat, NEW f \in Nat \ {0, 1}
  PROVE  /\ (b \div ((f * 10) \div 15)) \in Nat
         /\ ((b \div ((f * 10) \div 15)) + 1) * f > b
         /\ (b \div ((f * 10) \div 15)) * f <= 2 * b
<1> DEFINE q == (f * 10) \div 15
           c == b \div q
<1>1. q \in Nat \ {0} /\ q <= f /\ f <= 2 * q
  OBVIOUS
<1> HIDE DEF q
<1>3. c \in Nat /\ c * q <= b /\ b < (c + 1) * q
  BY <1>1
<1> HIDE DEF c
<1>4. c * f <= c * (2 * q) /\ (c + 1) * q <= (c + 1) * f
  BY <1>1, <1>3
<1>5. c * f <= 2 * b
  BY <1>1, <1>3, <1>4
<1>6. c \in Nat /\ (c + 1) * f > b
  BY <1>1, <1>3, <1>4
<1> QED  BY <1>5, <1>6 DEF c, q

(* And what is added to it is a share of it.                               *)
LEMMA SharesMore ==
  ASSUME NEW b \in Nat, NEW f \in Nat, NEW share \in Nat, NEW i \in Nat,
         (share + 1) * f > b, share * f <= b
  PROVE  LET more == (share * i) \div 100 IN
         /\ share + more \in Nat /\ (share + more + 1) * f > b
         /\ (share + more) * f <= (2 + i \div 100) * b
<1> DEFINE more == (share * i) \div 100
           n == 1 + i \div 100
<1>1. n \in Nat /\ i <= 100 * n
  OBVIOUS
<1> HIDE DEF n
<1>2. share * i <= share * (100 * n) /\ share * i \in Nat
  BY <1>1
<1>3. more \in Nat /\ 100 * more <= share * i
  BY <1>2
<1> HIDE DEF more
<1>4. share * (100 * n) = 100 * (share * n) /\ share * n \in Nat
  BY <1>1
<1>5. more <= share * n
  BY <1>2, <1>3, <1>4
<1>6. (share + more + 1) * f = (share + 1) * f + more * f /\ more * f \in Nat
  BY <1>3
<1>7. more * f <= (share * n) * f /\ (share * n) * f = n * (share * f) /\ share * f \in Nat
  BY <1>1, <1>3, <1>4, <1>5
<1>8. n * (share * f) <= n * b /\ n * b \in Nat
  BY <1>1, <1>7
<1>9. (share + more) * f = share * f + more * f /\ (n + 1) * b = n * b + b
  BY <1>1, <1>3
<1>10. (share + more) * f <= (n + 1) * b
  <2> DEFINE sf == share * f
             mf == more * f
             nb == n * b
             nsf == n * (share * f)
  <2>1. sf \in Nat /\ mf \in Nat /\ nb \in Nat /\ nsf \in Nat
    BY <1>1, <1>6, <1>7, <1>8
  <2>2. sf <= b /\ mf <= nsf /\ nsf <= nb
    BY <1>7, <1>8
  <2>3. (share + more) * f = sf + mf /\ (n + 1) * b = nb + b
    BY <1>9
  <2> HIDE DEF sf, mf, nb, nsf
  <2>4. sf + mf <= nb + b
    BY <2>1, <2>2
  <2> QED  BY <2>3, <2>4
<1>11. n + 1 = 2 + i \div 100
  BY DEF n
<1>12. (share + more) * f <= (2 + i \div 100) * b
  BY <1>10, <1>11
<1> QED  BY <1>3, <1>6, <1>12 DEF more

LEMMA ContextKept ==
  ASSUME ContextFits, ~DividesByZero
  PROVE  LET c == Context IN
         /\ c.max <= 1000 * job.rates.asked
         /\ job.rates.limit > 0 => c.max <= 1000 * job.rates.limit
         /\ c.rate <= c.max /\ (c.max > 0 => c.min <= c.rate)
         /\ Flag("NO_RC_BUF_LIMIT") \/
              ( /\ (c.buffer + 1) * job.rates.fps > c.max
                /\ c.buffer * job.rates.fps <= (2 + Increase \div 100) * c.max )
<1>1. /\ job.rates.asked \in Nat /\ job.rates.limit \in Nat /\ job.rates.fps \in Nat
      /\ VbvIncrease \in Nat
  BY TableIs, EncodeAssumption
<1>2. /\ Bitrate \in Nat /\ Bitrate <= 1000 * job.rates.asked
      /\ job.rates.limit > 0 => Bitrate <= 1000 * job.rates.limit
  BY <1>1 DEF Bitrate
<1>3. /\ Context.max = Bitrate /\ Context.buffer = Buffer
      /\ Context.rate = IF Flag("CBR_WITH_VBR") THEN Bitrate - 1 ELSE Bitrate
      /\ Context.min = IF Flag("CBR_WITH_VBR") THEN 0 ELSE Bitrate
  BY DEF Context
<1>4. Context.rate <= Context.max /\ (Context.max > 0 => Context.min <= Context.rate)
  BY <1>2, <1>3
<1>5. ASSUME ~Flag("NO_RC_BUF_LIMIT")
      PROVE  /\ (Buffer + 1) * job.rates.fps > Bitrate
             /\ Buffer * job.rates.fps <= (2 + Increase \div 100) * Bitrate
  <2> DEFINE f == job.rates.fps
             b == Bitrate
             share == b \div Divisor
  <2>1. Buffer = share + (share * Increase) \div 100 /\ Divisor # 0
    BY <1>5 DEF Buffer, DividesByZero
  <2>2. f \in Nat /\ b \in Nat
    BY <1>1, <1>2
  <2>3. CASE Enlarged
    <3>1. job.encoder # "nvenc" /\ Increase = 0
      BY <2>3, TableIs DEF Enlarged, Increase
    <3>2. Divisor = (f * 10) \div 15
      BY <2>3 DEF Divisor
    <3> HIDE DEF f, b
    <3>3. f \in Nat \ {0, 1}
      BY <2>1, <2>2, <3>2
    <3>4. share \in Nat /\ (share + 1) * f > b /\ share * f <= 2 * b
      BY <2>2, <3>2, <3>3, Shares
    <3> HIDE DEF share
    <3>5. Buffer = share /\ 2 + Increase \div 100 = 2
      BY <2>1, <3>1, <3>4
    <3> QED  BY <3>4, <3>5 DEF f, b
  <2>4. CASE ~Enlarged
    <3>1. Divisor = f /\ Increase \in Nat
      BY <1>1, <2>4 DEF Divisor, Increase
    <3> HIDE DEF f, b
    <3>2. share \in Nat /\ (share + 1) * f > b /\ share * f <= b
      BY <2>1, <2>2, <3>1
    <3> HIDE DEF share
    <3>3. LET more == (share * Increase) \div 100 IN
          /\ (share + more + 1) * f > b
          /\ (share + more) * f <= (2 + Increase \div 100) * b
      BY <2>2, <3>1, <3>2, SharesMore
    <3> QED  BY <2>1, <3>3 DEF f, b
  <2> QED  BY <2>3, <2>4
<1> QED  BY <1>2, <1>3, <1>4, <1>5

(* What follows from the job is the same in every session.                 *)
LEMMA ContextStays ==
  ASSUME job' = job
  PROVE  /\ DividesByZero' = DividesByZero
         /\ Context' = Context /\ Injected' = Injected /\ Jobs' = Jobs /\ Fixed' = Fixed
         /\ (Flag("NO_RC_BUF_LIMIT"))' = Flag("NO_RC_BUF_LIMIT")
<1>1. /\ Injected' = Injected /\ Jobs' = Jobs /\ Fixed' = Fixed
      /\ (Flag("NO_RC_BUF_LIMIT"))' = Flag("NO_RC_BUF_LIMIT")
  BY DEF Injected, Jobs, Fixed, Flag
<1>2. /\ Bitrate' = Bitrate /\ SliceCount' = SliceCount /\ OnDevice' = OnDevice
      /\ \A f : (Flag(f))' = Flag(f)
  BY DEF Bitrate, SliceCount, OnDevice, Flag
<1>5. Divisor' = Divisor /\ Increase' = Increase /\ DividesByZero' = DividesByZero
  BY <1>1, <1>2 DEF Divisor, Enlarged, Increase, DividesByZero
<1>3. Buffer' = Buffer
  BY <1>1, <1>2, <1>5 DEF Buffer
<1>4. Context' = Context
  BY <1>2, <1>3 DEF Context, Flag
<1> QED  BY <1>1, <1>4, <1>5

(* Which frames become key frames.                                         *)
LEMMA KeyFrames ==
  ASSUME ContextFits, esPhase = "open", NEW f \in Coded, NEW since \in Int
  PROVE  /\ since = -1 => IsKey(f, since)
         /\ ~Fixed /\ f.marked => IsKey(f, since)
         /\ Fixed /\ ~IsKey(f, since) => since + 1 < FixedGop
<1>1. since = -1 => IsKey(f, since)
  BY DEF IsKey
<1>2. ~Fixed /\ f.marked => IsKey(f, since)
  BY TableIs DEF IsKey
<1>3. Fixed => ctx.gop = FixedGop
  BY DEF ContextFits, Context, Fixed
<1>4. Fixed /\ ~IsKey(f, since) => since + 1 < FixedGop
  BY <1>3, TableIs DEF IsKey
<1> QED  BY <1>1, <1>2, <1>4

(* A frame sent to the codec: what comes out of it, and what is due.       *)
LEMMA FrameSent ==
  ASSUME EncodeInv, NEW image \in {NoFrame, nr}, NEW keeps \in BOOLEAN, SendFrame(image, keeps)
  PROVE  EncodeInv'
<1> DEFINE f == [pts |-> nr, marked |-> marked, image |-> image]
           before == IF inCodec = {} THEN <<>> ELSE <<CHOOSE h \in inCodec : TRUE>>
           ready == IF keeps THEN before ELSE Append(before, f)
           since(i) == IF i = 1 THEN gop
                       ELSE IF IsKey(ready[1], gop) THEN 0 ELSE gop + 1
           packet(i) == [pts |-> ready[i].pts, key |-> IsKey(ready[i], since(i)),
                         stamp |-> Stamp(ready[i], f), image |-> ready[i].image,
                         sets |-> replaced \cup Replacements(inject)]
           outputs == [i \in DOMAIN ready |-> packet(i)]
           due == {i \in DOMAIN ready : owed # NoFrame /\ outputs[i].pts >= owed}
           fulfills == \E i \in due : outputs[i].key
           final == outputs[Len(outputs)]
<1>1. /\ esPhase = "open" /\ esPoint = "encode"
      /\ esPoint' = "take" /\ nr' = nr + 1
      /\ inCodec' = IF keeps THEN {f} ELSE {}
      /\ out' = outputs
      /\ marked' = FALSE
      /\ IF ready = <<>> THEN UNCHANGED <<inject, replaced, gop, owed, missed>>
         ELSE /\ inject' = "none" /\ replaced' = replaced \cup Replacements(inject)
              /\ gop' = IF final.key THEN 0 ELSE since(Len(outputs)) + 1
              /\ owed' = IF fulfills THEN NoFrame ELSE owed
              /\ missed' = IF fulfills THEN 0 ELSE missed + Cardinality(due)
      /\ UNCHANGED <<job, esPhase, ctx, asks>>
  BY DEF SendFrame
<1>2. KeptBack /\ ContextFits /\ KeyComes
  BY DEF EncodeInv
<1>3. image \in Nat /\ f \in Coded /\ f.pts = nr /\ f.marked = marked /\ f.image = image
  BY <1>2 DEF KeptBack, Coded, NoFrame
<1> DEFINE h == CHOOSE h \in inCodec : TRUE
<1>4. inCodec # {} => h \in inCodec
  OBVIOUS
<1>5. before = IF inCodec = {} THEN <<>> ELSE <<h>>
  OBVIOUS
<1> HIDE DEF f, h
<1>6. inCodec # {} => h \in Coded /\ h.pts = nr - 1 /\ inCodec = {h}
  BY <1>2, <1>4 DEF KeptBack
<1>7. nr \in Nat \ {0} /\ nr' = nr + 1 /\ marked' = FALSE /\ esPhase = "open" /\ esPhase' = esPhase
      /\ job' = job /\ ctx' = ctx /\ esPoint' = "take" /\ esPoint = "encode"
  BY <1>1, <1>2 DEF KeptBack
<1>8. inCodec' = IF keeps THEN {f} ELSE {}
  BY <1>1
<1>9. KeptBack'
  <2>1. nr' \in Nat \ {0}
    BY <1>2, <1>7 DEF KeptBack
  <2>4. marked' \in BOOLEAN
    BY <1>7
  <2>3. \A g \in inCodec' : g = f
    BY <1>8
  <2>2. \A g \in inCodec' : g \in Coded /\ g.pts = nr' - 1
    BY <1>3, <1>7, <2>3
  <2> QED  BY <2>1, <2>2, <2>3, <2>4 DEF KeptBack
<1>21. job' = job
  BY <1>1
(* Of the parameter sets and the time stamps.                              *)
<1>22. ASSUME ready # <<>>, \A i \in DOMAIN ready : ready[i] = f \/ (ready[i] = h /\ h.pts # f.pts)
       PROVE  ContextFits' /\ ParametersShown' /\ StampsTrue'
  <2>1. replaced' = replaced \cup Replacements(inject) /\ inject' = "none"
    BY <1>1, <1>22
  <2>2. replaced \cup Replacements(inject) = Replacements(Injected) /\ ctx = Context /\ job \in Jobs
        /\ ~DividesByZero
    BY <1>2, <1>7 DEF ContextFits
  <2>3. replaced' \cup Replacements(inject') = Replacements(Injected')
    BY <1>21, <2>1, <2>2, ContextStays DEF Replacements
  <2>4. ContextFits'
    BY <1>7, <1>21, <2>2, <2>3, ContextStays DEF ContextFits
  <2>5. out' = outputs
    BY <1>1
  <2>6. /\ DOMAIN out' = DOMAIN ready
        /\ \A i \in DOMAIN ready : /\ out'[i].sets = Replacements(Injected)
                                   /\ out'[i].stamp = Stamp(ready[i], f)
                                   /\ out'[i].image = ready[i].image
    BY <2>2, <2>5
  <2> HIDE DEF ready
  <2>7. ParametersShown'
    BY <1>2, <1>21, <2>6, TableIs DEF ParametersShown, Injected, Replacements, VideoFormats
  <2>8. StampsTrue'
    BY <1>22, <2>6 DEF StampsTrue, Stamp
  <2> QED  BY <2>4, <2>7, <2>8
(* What is ready: nothing, one frame, or the one kept back and this one.   *)
<1> DEFINE k1 == IsKey(ready[1], gop)
           due1 == owed # NoFrame /\ ready[1].pts >= owed
<1>23. /\ owed \in Nat /\ missed \in Nat /\ gop \in Int /\ gop >= -1
       /\ owed <= nr /\ NoFrame = 0
       /\ owed = NoFrame => missed = 0
       /\ Fixed => gop < FixedGop /\ missed < FixedGop
       /\ owed # NoFrame => IF Fixed THEN Counting ELSE missed = 0 /\ Answering
       /\ FixedGop \in Nat \ {0} /\ Fixed' = Fixed
  BY <1>2, <1>21, ContextStays, TableIs DEF KeyComes, NoFrame
<1>24. KeyComes' => KeyOnRequest'
  BY <1>23 DEF KeyComes, KeyOnRequest, Fixed
<1>10. CASE inCodec = {} /\ keeps
  <2>1. ready = <<>>
    BY <1>5, <1>10
  <2>2. UNCHANGED <<inject, replaced, gop, owed, missed>>
    BY <1>1, <2>1
  <2>3. out' = outputs /\ DOMAIN ready = {}
    BY <1>1, <2>1
  <2>4. DOMAIN out' = {}
    BY <2>3
  <2>5. ParametersShown' /\ StampsTrue'
    BY <2>4 DEF ParametersShown, StampsTrue
  <2>6. ContextFits'
    BY <1>2, <1>7, <1>21, <2>2, ContextStays DEF ContextFits, Replacements
  <2>7. inCodec' = {f}
    BY <1>8, <1>10
  <2>8. owed' = owed /\ missed' = missed /\ gop' = gop
    BY <2>2
  <2>9. Fixed /\ owed # NoFrame => Counting'
    BY <1>3, <1>10, <1>23, <2>7, <2>8 DEF Counting, NextIsKey
  <2>10. ~Fixed /\ owed # NoFrame => Answering'
    BY <1>3, <1>7, <1>10, <1>23, <2>7, <2>8 DEF Answering, NextIsKey
  <2>11. KeyComes'
    BY <1>7, <1>23, <2>8, <2>9, <2>10 DEF KeyComes, NoFrame
  <2> QED  BY <1>9, <1>24, <2>5, <2>6, <2>11 DEF EncodeInv
<1>27. marked => f.marked
  BY <1>3
<1>29. f \in Coded /\ f.pts = nr
  BY <1>3
<1>28. Fixed' <=> Fixed
  BY <1>23
(* One packet.                                                             *)
<1>25. ASSUME ready # <<>>, DOMAIN ready = {1}, Len(ready) = 1
       PROVE  /\ gop' = IF k1 THEN 0 ELSE gop + 1
              /\ owed' = IF due1 /\ k1 THEN NoFrame ELSE owed
              /\ missed' = IF due1 /\ k1 THEN 0
                           ELSE IF due1 THEN missed + 1 ELSE missed
  <2>1. /\ gop' = IF final.key THEN 0 ELSE since(Len(outputs)) + 1
        /\ owed' = IF fulfills THEN NoFrame ELSE owed
        /\ missed' = IF fulfills THEN 0 ELSE missed + Cardinality(due)
    BY <1>1, <1>25
  <2>8. since(1) = gop
    OBVIOUS
  <2>2. DOMAIN outputs = {1} /\ outputs[1].key = k1 /\ outputs[1].pts = ready[1].pts
    <3>1. DOMAIN outputs = {1} /\ outputs[1] = packet(1)
      BY <1>25
    <3> HIDE DEF ready, since
    <3>2. packet(1).key = IsKey(ready[1], since(1)) /\ packet(1).pts = ready[1].pts
      OBVIOUS
    <3> HIDE DEF packet, outputs
    <3> QED  BY <3>1, <3>2, <2>8
  <2>3. outputs \in Seq({outputs[1]}) /\ Len(outputs) = 1
    <3> HIDE DEF ready, packet
    <3>1. outputs = [i \in 1..1 |-> packet(1)]
      BY <1>25
    <3> QED  BY <3>1
  <2>4. due = IF due1 THEN {1} ELSE {}
    BY <1>25, <2>2
  <2>5. Cardinality({1}) = 1 /\ Cardinality({}) = 0
    BY FS_EmptySet, FS_Singleton
  <2>6. final.key = k1 /\ since(Len(outputs)) = gop
    BY <2>2, <2>3
  <2>7. fulfills <=> due1 /\ k1
    BY <2>2, <2>4
  <2> HIDE DEF outputs, ready, due1, k1, due, final, fulfills, since
  <2> QED  BY <1>23, <2>1, <2>4, <2>5, <2>6, <2>7
<1>26. ASSUME ready # <<>>, DOMAIN ready = {1}, Len(ready) = 1,
              \/ ready[1] = f /\ inCodec = {} /\ inCodec' = {}
              \/ ready[1] = h /\ inCodec = {h} /\ h.pts = nr - 1 /\ h \in Coded /\ inCodec' = {f}
       PROVE  EncodeInv'
  <2>13. nr \in Nat
    BY <1>2 DEF KeptBack
  <2>15. h.pts = nr - 1 => h.pts # f.pts
    BY <1>3, <2>13
  <2>1. ready[1] \in Coded /\ (ready[1] = f \/ (ready[1] = h /\ h.pts # f.pts))
    <3> HIDE DEF ready
    <3>1. CASE ready[1] = f
      BY <1>29, <3>1
    <3>2. CASE ready[1] = h /\ h.pts = nr - 1 /\ h \in Coded
      BY <2>15, <3>2
    <3> QED  BY <1>26, <3>1, <3>2
  <2>2. \A i \in DOMAIN ready : ready[i] = f \/ (ready[i] = h /\ h.pts # f.pts)
    BY <1>26, <2>1
  <2>3. ContextFits' /\ ParametersShown' /\ StampsTrue'
    BY <1>22, <1>26, <2>2
  <2>4. /\ gop' = IF k1 THEN 0 ELSE gop + 1
        /\ owed' = IF due1 /\ k1 THEN NoFrame ELSE owed
        /\ missed' = IF due1 /\ k1 THEN 0 ELSE IF due1 THEN missed + 1 ELSE missed
    BY <1>25, <1>26
  <2>5. /\ gop = -1 => k1
        /\ ~Fixed /\ ready[1].marked => k1
        /\ Fixed /\ ~k1 => gop + 1 < FixedGop
    BY <1>2, <1>7, <1>23, <2>1, KeyFrames
  <2>6. due1 <=> owed # NoFrame /\ ready[1].pts >= owed
    OBVIOUS
  <2> HIDE DEF k1, due1, ready
  <2>7. ASSUME ~Fixed, owed' # NoFrame PROVE missed' = 0 /\ Answering'
    <3>1. Answering /\ missed = 0 /\ owed' = owed /\ ~(due1 /\ k1) /\ owed # NoFrame
      BY <1>23, <2>4, <2>7
    <3>2. ~NextIsKey
      BY <1>3, <1>23, <1>26, <2>5, <2>6, <2>13, <3>1 DEF NextIsKey
    <3>3. CASE owed = nr /\ marked
      <4>2. ready[1] # f
        <5> SUFFICES ASSUME ready[1] = f PROVE FALSE
          OBVIOUS
        <5>1. f.marked /\ f.pts = owed
          BY <1>27, <1>29, <3>3
        <5>2. ready[1].marked /\ due1
          BY <2>6, <2>13, <3>1, <3>3, <5>1
        <5> QED  BY <2>5, <2>7, <3>1, <5>2
      <4>1. ready[1] = h /\ inCodec' = {f} /\ ~due1
        BY <1>26, <2>6, <2>13, <3>1, <3>3, <4>2
      <4> QED  BY <1>3, <2>4, <3>1, <3>3, <4>1 DEF Answering
    <3>4. ~ \E g \in inCodec : g.pts = owed /\ g.marked
      BY <1>26, <2>5, <2>6, <2>7, <2>13, <3>1, <1>23
    <3> QED  BY <3>1, <3>2, <3>3, <3>4 DEF Answering
  <2>8. ASSUME Fixed, owed' # NoFrame PROVE Counting' /\ gop' >= 0
    <3>1. Counting /\ owed' = owed /\ ~(due1 /\ k1) /\ owed # NoFrame
      BY <1>23, <2>4, <2>8
    <3>2. ~NextIsKey
      BY <1>3, <1>23, <1>26, <2>5, <2>6, <2>13, <3>1 DEF NextIsKey
    <3>3. missed > 0 => due1
      BY <1>3, <1>23, <1>26, <2>6, <2>13, <3>1 DEF Counting
    <3>4. missed' = 0 \/ missed' <= gop'
      BY <1>23, <2>4, <2>5, <3>1, <3>2, <3>3 DEF Counting
    <3>5. \A g \in inCodec' : g.pts >= owed'
      BY <1>3, <1>23, <1>26, <2>13, <3>1
    <3> QED  BY <1>23, <2>4, <2>5, <3>4, <3>5 DEF Counting
  <2>9. Fixed => gop' < FixedGop
    BY <1>23, <2>4, <2>5
  <2>10. owed' = NoFrame => missed' = 0
    BY <1>23, <2>4, <2>6
  <2>11. /\ owed' \in Nat /\ missed' \in Nat /\ gop' \in Int /\ gop' >= -1 /\ owed' < nr'
    BY <1>7, <1>23, <2>4, <2>13
  <2>12. Fixed => missed' < FixedGop
    BY <1>23, <2>8, <2>9, <2>10, <2>11 DEF Counting, NextIsKey
  <2>14. KeyComes'
    <3>1. owed' <= nr'
      BY <1>7, <2>11, <2>13
    <3> QED  BY <1>28, <2>7, <2>8, <2>9, <2>10, <2>11, <2>12, <3>1 DEF KeyComes, NoFrame
  <2> QED  BY <1>9, <1>24, <2>3, <2>14 DEF EncodeInv
<1>11. CASE inCodec # {} /\ keeps
  <2>1. DOMAIN ready = {1} /\ ready[1] = h /\ Len(ready) = 1 /\ ready # <<>>
    BY <1>5, <1>11
  <2> HIDE DEF ready
  <2> QED  BY <1>6, <1>8, <1>11, <1>26, <2>1
<1>12. CASE inCodec = {} /\ ~keeps
  <2>1. before = <<>> /\ ready = Append(before, f)
    BY <1>5, <1>12
  <2> HIDE DEF before, ready
  <2>2. DOMAIN ready = {1} /\ ready[1] = f /\ Len(ready) = 1 /\ ready # <<>>
    BY <2>1
  <2>3. inCodec' = {}
    BY <1>8, <1>12
  <2> QED  BY <1>12, <1>26, <2>2, <2>3
(* Two packets: the frame sent is due if anything is owed.                 *)
<1> DEFINE s2 == IF k1 THEN 0 ELSE gop + 1
           k2 == IsKey(f, s2)
<1>30. ASSUME ready # <<>>, DOMAIN ready = {1, 2}, Len(ready) = 2, ready[2] = f
       PROVE  /\ gop' = IF k2 THEN 0 ELSE s2 + 1
              /\ owed' = IF (due1 /\ k1) \/ (owed # NoFrame /\ k2) THEN NoFrame ELSE owed
              /\ missed' = IF (due1 /\ k1) \/ (owed # NoFrame /\ k2) THEN 0
                           ELSE IF due1 THEN missed + 2
                           ELSE IF owed # NoFrame THEN missed + 1 ELSE missed
  <2>1. /\ gop' = IF final.key THEN 0 ELSE since(Len(outputs)) + 1
        /\ owed' = IF fulfills THEN NoFrame ELSE owed
        /\ missed' = IF fulfills THEN 0 ELSE missed + Cardinality(due)
    BY <1>1, <1>30
  <2>2. since(1) = gop /\ since(2) = s2
    OBVIOUS
  <2>3. /\ DOMAIN outputs = {1, 2}
        /\ outputs[1].key = k1 /\ outputs[1].pts = ready[1].pts
        /\ outputs[2].key = k2 /\ outputs[2].pts = f.pts
    <3>1. DOMAIN outputs = {1, 2} /\ outputs[1] = packet(1) /\ outputs[2] = packet(2)
      BY <1>30
    <3> HIDE DEF ready, since, s2
    <3>2. /\ packet(1).key = IsKey(ready[1], since(1)) /\ packet(1).pts = ready[1].pts
          /\ packet(2).key = IsKey(ready[2], since(2)) /\ packet(2).pts = ready[2].pts
      OBVIOUS
    <3> HIDE DEF packet, outputs
    <3> QED  BY <1>30, <3>1, <3>2, <2>2
  <2>4. Len(outputs) = 2
    <3> HIDE DEF ready, packet
    <3>1. outputs = [i \in 1..2 |-> packet(i)]
      BY <1>30
    <3>2. outputs \in Seq({packet(1), packet(2)})
      BY <3>1
    <3> QED  BY <3>1, <3>2
  <2>5. owed # NoFrame => f.pts >= owed
    BY <1>2, <1>23, <1>29 DEF KeptBack
  <2>6. due = IF due1 THEN {1, 2} ELSE IF owed # NoFrame THEN {2} ELSE {}
    <3>1. due = {i \in {1, 2} : owed # NoFrame /\ outputs[i].pts >= owed}
      BY <1>30
    <3> HIDE DEF outputs, ready, due
    <3>2. 1 \in due <=> due1
      BY <2>3, <3>1
    <3>3. 2 \in due <=> owed # NoFrame
      BY <2>3, <2>5, <3>1
    <3>4. due \subseteq {1, 2}
      BY <3>1
    <3>5. due1 => owed # NoFrame
      OBVIOUS
    <3> HIDE DEF due1
    <3> QED  BY <3>2, <3>3, <3>4, <3>5
  <2>7. Cardinality({1, 2}) = 2 /\ Cardinality({2}) = 1 /\ Cardinality({}) = 0
    <3>1. Cardinality({2}) = 1 /\ Cardinality({}) = 0 /\ IsFiniteSet({2})
      BY FS_EmptySet, FS_Singleton
    <3>2. Cardinality({2} \cup {1}) = 2
      BY <3>1, FS_AddElement
    <3>3. {2} \cup {1} = {1, 2}
      OBVIOUS
    <3> QED  BY <3>1, <3>2, <3>3
  <2>8. final.key = k2 /\ since(Len(outputs)) = s2
    <3> HIDE DEF outputs, since
    <3> QED  BY <2>2, <2>3, <2>4
  <2>9. fulfills <=> (due1 /\ k1) \/ (owed # NoFrame /\ k2)
    <3> HIDE DEF outputs, ready, due, k1, k2, due1
    <3>1. due1 => owed # NoFrame
      BY DEF due1
    <3> QED  BY <2>3, <2>6, <3>1
  <2> HIDE DEF outputs, ready, due1, k1, k2, s2, due, final, fulfills, since
  <2> QED  BY <1>23, <2>1, <2>6, <2>7, <2>8, <2>9
<1>13. CASE inCodec # {} /\ ~keeps
  <2>1. before = <<h>> /\ ready = Append(before, f)
    BY <1>5, <1>13
  <2> HIDE DEF before, ready
  <2>2. DOMAIN ready = {1, 2} /\ ready[1] = h /\ ready[2] = f /\ Len(ready) = 2 /\ ready # <<>>
    BY <2>1
  <2>3. inCodec' = {} /\ inCodec = {h} /\ h \in Coded /\ h.pts = nr - 1 /\ nr \in Nat
    BY <1>2, <1>6, <1>8, <1>13 DEF KeptBack
  <2>4. h.pts # f.pts
    BY <1>29, <2>3
  <2>5. ContextFits' /\ ParametersShown' /\ StampsTrue'
    BY <1>22, <2>2, <2>4
  <2>6. /\ gop' = IF k2 THEN 0 ELSE s2 + 1
        /\ owed' = IF (due1 /\ k1) \/ (owed # NoFrame /\ k2) THEN NoFrame ELSE owed
        /\ missed' = IF (due1 /\ k1) \/ (owed # NoFrame /\ k2) THEN 0
                     ELSE IF due1 THEN missed + 2
                     ELSE IF owed # NoFrame THEN missed + 1 ELSE missed
    BY <1>30, <2>2
  <2>7. /\ gop = -1 => k1
        /\ ~Fixed /\ h.marked => k1
        /\ Fixed /\ ~k1 => gop + 1 < FixedGop
    BY <1>2, <1>7, <1>23, <2>2, <2>3, KeyFrames
  <2>8. s2 = IF k1 THEN 0 ELSE gop + 1
    OBVIOUS
  <2>9. /\ ~Fixed /\ f.marked => k2
        /\ Fixed /\ ~k2 => s2 + 1 < FixedGop
    <3> HIDE DEF k1
    <3>1. s2 \in Int
      BY <1>23
    <3> HIDE DEF s2
    <3> QED  BY <1>2, <1>7, <1>29, <3>1, KeyFrames
  <2>10. due1 <=> owed # NoFrame /\ h.pts >= owed
    BY <2>2
  <2> HIDE DEF k1, k2, s2, due1
  <2>11. ASSUME ~Fixed PROVE owed' = NoFrame
    <3> SUFFICES ASSUME owed' # NoFrame PROVE FALSE
      OBVIOUS
    <3>1. Answering /\ owed # NoFrame /\ ~(due1 /\ k1) /\ ~k2
      BY <1>23, <2>6, <2>11
    <3>2. ~NextIsKey
      BY <2>3, <2>7, <2>10, <3>1 DEF NextIsKey
    <3>3. ~(owed = nr /\ marked)
      BY <1>27, <2>9, <2>11, <3>1
    <3>4. ~ \E g \in inCodec : g.pts = owed /\ g.marked
      BY <1>23, <2>3, <2>7, <2>10, <2>11, <3>1
    <3> QED  BY <3>1, <3>2, <3>3, <3>4 DEF Answering
  <2>12. ASSUME Fixed, owed' # NoFrame PROVE Counting'
    <3>1. Counting /\ owed' = owed /\ owed # NoFrame /\ ~(due1 /\ k1) /\ ~k2
      BY <1>23, <2>6, <2>12
    <3>2. ~NextIsKey
      BY <2>3, <2>7, <2>10, <3>1 DEF NextIsKey
    <3>3. missed > 0 => due1
      BY <2>3, <2>10, <3>1 DEF Counting
    <3>4. missed' = 0 \/ missed' <= gop'
      BY <1>23, <2>6, <2>7, <2>8, <3>1, <3>2, <3>3 DEF Counting
    <3> QED  BY <2>3, <3>4 DEF Counting
  <2>13. Fixed => gop' < FixedGop
    BY <1>23, <2>6, <2>9
  <2>14. owed' = NoFrame => missed' = 0
    BY <1>23, <2>6, <2>10
  <2>15. s2 \in Int /\ s2 >= 0
    BY <1>23, <2>7, <2>8
  <2>16. owed' \in Nat /\ missed' \in Nat /\ gop' \in Int /\ gop' >= -1 /\ owed' < nr'
    BY <1>7, <1>23, <2>3, <2>6, <2>15
  <2>17. Fixed => missed' < FixedGop
    <3>1. gop' >= 0
      BY <2>6, <2>15
    <3> QED  BY <1>23, <2>12, <2>13, <2>14, <2>16, <3>1 DEF Counting, NextIsKey
  <2>18. owed' <= nr'
    BY <1>7, <2>3, <2>16
  <2>19. KeyComes'
    BY <1>28, <2>11, <2>12, <2>13, <2>14, <2>16, <2>17, <2>18 DEF KeyComes, NoFrame
  <2> QED  BY <1>9, <1>24, <2>5, <2>19 DEF EncodeInv
<1> QED BY <1>10, <1>11, <1>12, <1>13

LEMMA EncodeGoesOn == EncodeInv /\ [EncodeNext]_esVars => EncodeInv'
<1> SUFFICES ASSUME EncodeInv, [EncodeNext]_esVars PROVE EncodeInv'
  OBVIOUS
<1>1. /\ KeptBack /\ ContextFits /\ KeyComes /\ KeyOnRequest /\ ParametersShown /\ StampsTrue
      /\ FixedGop \in Nat \ {0}
  BY EncodeAssumption DEF EncodeInv
(* What leaves the session and its packets alone.                          *)
<1>2. ASSUME job' = job, UNCHANGED <<ctx, nr, marked, inCodec, inject, replaced, gop, out, owed,
                                     missed>>, esPoint' = esPoint, esPhase = "open" \/ esPhase' # "open"
      PROVE  EncodeInv'
  <2>1. ContextFits'
    BY <1>1, <1>2, ContextStays DEF ContextFits, Replacements
  <2>2. KeptBack'
    BY <1>1, <1>2 DEF KeptBack
  <2>3. KeyComes'
    BY <1>1, <1>2, ContextStays DEF KeyComes, Counting, Answering, NextIsKey
  <2>4. KeyOnRequest'
    BY <1>1, <1>2, ContextStays DEF KeyOnRequest, Flag
  <2>5. ParametersShown' /\ StampsTrue'
    BY <1>1, <1>2 DEF ParametersShown, StampsTrue
  <2> QED  BY <2>1, <2>2, <2>3, <2>4, <2>5 DEF EncodeInv
<1>3. ASSUME CodecOpened, ~DividesByZero PROVE EncodeInv'
  <2>1. /\ esPhase' = "open" /\ ctx' = Context /\ inject' = Injected /\ replaced' = {}
        /\ marked' = FALSE /\ inCodec' = {} /\ gop' = -1 /\ out' = <<>>
        /\ job' = job /\ esPoint' = esPoint /\ nr' = nr /\ owed' = owed /\ missed' = missed
    BY <1>3 DEF CodecOpened
  <2>2. KeptBack'
    BY <1>1, <2>1 DEF KeptBack
  <2>3. ContextFits'
    BY <1>1, <1>3, <2>1, ContextStays DEF ContextFits, Replacements
  <2>4. KeyComes'
    <3>1. Fixed' <=> Fixed
      BY <2>1, ContextStays
    <3>2. NextIsKey'
      BY <2>1 DEF NextIsKey
    <3>3. Counting' /\ Answering'
      BY <2>1, <3>2 DEF Counting, Answering
    <3> QED  BY <1>1, <2>1, <3>1, <3>3 DEF KeyComes
  <2>5. KeyOnRequest'
    BY <1>1, <2>1 DEF KeyOnRequest, Flag
  <2>6. ParametersShown' /\ StampsTrue'
    BY <2>1 DEF ParametersShown, StampsTrue
  <2> QED  BY <2>2, <2>3, <2>4, <2>5, <2>6 DEF EncodeInv
<1>4. CASE Refuse
  BY <1>2, <1>4 DEF Refuse
<1>5. CASE OpenCodec
  <2>1. CASE CodecOpened
    BY <1>3, <1>5, <2>1 DEF OpenCodec
  <2>2. CASE /\ esPhase' = IF esPhase = "new" /\ job.codec \in Table[job.encoder].fallback
                           THEN "retry" ELSE "refused"
             /\ UNCHANGED <<job, ctx, esPoint, nr, marked, inCodec, asks, inject, replaced, gop,
                            out, owed, missed>>
    BY <1>2, <2>2
  <2> QED  BY <1>5, <2>1, <2>2 DEF OpenCodec
<1>6. CASE NextSession
  BY <1>1, <1>3, <1>6 DEF NextSession, ContextFits
<1>10. CASE Fault
  BY <1>2, <1>10 DEF Fault
<1>7. CASE TakeAsked
  <2>1. /\ esPhase = "open" /\ esPoint = "take" /\ esPoint' = "encode"
        /\ owed' = IF asks # {} /\ owed = NoFrame THEN nr ELSE owed
        /\ missed' = IF asks # {} /\ owed = NoFrame THEN 0 ELSE missed
        /\ UNCHANGED <<job, esPhase, ctx, nr, inCodec, inject, replaced, gop, out>>
    BY <1>7 DEF TakeAsked
  <2>2. marked' = (marked \/ RequestIdr(asks))
    BY <1>7 DEF TakeAsked
  <2>3. asks # {} => marked'
    BY <2>2 DEF RequestIdr
  <2>4. KeptBack'
    <3>1. marked' \in BOOLEAN
      BY <2>2
    <3> QED  BY <1>1, <2>1, <3>1 DEF KeptBack
  <2>5. ContextFits'
    BY <1>1, <2>1, ContextStays DEF ContextFits, Replacements
  <2>6. nr \in Nat \ {0} /\ nr' = nr
    BY <1>1, <2>1 DEF KeptBack
  <2>7. CASE asks # {} /\ owed = NoFrame
    <3>1. owed' = nr /\ missed' = 0
      BY <2>1, <2>7
    <3>2. Counting' /\ Answering'
      BY <2>1, <2>3, <2>6, <2>7, <3>1 DEF Counting, Answering
    <3>3. Fixed' <=> Fixed
      BY <2>1, ContextStays
    <3>4. KeyComes'
      BY <1>1, <2>1, <2>6, <3>1, <3>2, <3>3 DEF KeyComes, NoFrame
    <3>5. KeyOnRequest'
      BY <1>1, <3>1 DEF KeyOnRequest
    <3>6. ParametersShown' /\ StampsTrue'
      BY <1>1, <2>1 DEF ParametersShown, StampsTrue
    <3> QED  BY <2>4, <2>5, <3>4, <3>5, <3>6 DEF EncodeInv
  <2>8. CASE ~(asks # {} /\ owed = NoFrame)
    <3>1. owed' = owed /\ missed' = missed
      BY <2>1, <2>8
    <3>2. Fixed' <=> Fixed
      BY <2>1, ContextStays
    <3>3. KeyComes'
      <4>1. Counting => Counting'
        BY <2>1, <3>1 DEF Counting, NextIsKey
      <4>2. KeyComes /\ Answering => Answering'
        BY <2>1, <3>1 DEF Answering, NextIsKey
      <4> QED  BY <1>1, <2>1, <2>6, <3>1, <3>2, <4>1, <4>2 DEF KeyComes
    <3>4. KeyOnRequest'
      BY <1>1, <2>1, <3>1 DEF KeyOnRequest, Flag
    <3>5. ParametersShown' /\ StampsTrue'
      BY <1>1, <2>1 DEF ParametersShown, StampsTrue
    <3> QED  BY <2>4, <2>5, <3>3, <3>4, <3>5 DEF EncodeInv
  <2> QED  BY <2>7, <2>8
<1>8. ASSUME NEW what \in {"idr", "invalidate"}, AskFor(what) PROVE EncodeInv'
  BY <1>2, <1>8 DEF AskFor
<1>9. CASE UNCHANGED esVars
  BY <1>2, <1>9 DEF esVars
<1> QED  BY <1>4, <1>5, <1>6, <1>7, <1>8, <1>9, <1>10, FrameSent DEF EncodeNext

LEMMA EncodingIsRight ==
  EncodeInv => KeyOnRequest /\ ParametersShown /\ StampsTrue /\ RatesKept
<1> SUFFICES ASSUME EncodeInv PROVE RatesKept
  BY DEF EncodeInv
<1>1. ContextFits
  BY DEF EncodeInv
<1> QED  BY <1>1, ContextKept DEF RatesKept, ContextFits

-------------------------------------------------------------------------------
(* The choice of the encoder.                                              *)

(* What a validation finds, and what the configuration holds.              *)
Finds ==
  {g \in [AllCodecs -> SUBSET {"passed", "hdr", "yuv444"}] : "passed" \in g["h264"]}
Settings == [modes : [Codecs -> 0..3], encoder : Range(Encoders) \cup {NoEncoder}]

ProbeTyped ==
  /\ stage \in {"idle", "named", "suiting", "any", "finish"}
  /\ list \in Seq(Range(Encoders)) /\ pos \in Nat \ {0}
  /\ mode \in [Codecs -> 0..3] /\ caps \in [Range(Encoders) -> Finds \cup {Unknown}]
  /\ settings # Unknown => settings \in Settings
  /\ settings = Unknown => stage = "idle" /\ chosen = NoEncoder

(* A search has chosen nothing, and the modes are those of the user.       *)
Searching ==
  stage \in {"named", "suiting", "any"} => chosen = NoEncoder /\ mode = settings.modes
(* The encoder the user named is still to come; or it does not work.       *)
NamedFirst ==
  /\ stage = "named" =>
       /\ list = Encoders
       /\ \A e \in Range(Encoders) : caps[e] = Unknown
       /\ \A i \in DOMAIN list : i < pos => list[i] # settings.encoder
  /\ stage \in {"suiting", "any"} /\ settings.encoder # NoEncoder =>
       caps[settings.encoder] = Unknown /\ settings.encoder \notin Range(list)
(* What the second search has passed over does not suit.                   *)
PassedOver ==
  /\ stage = "suiting" =>
       /\ \A i \in DOMAIN list : i < pos => caps[list[i]] # Unknown /\ ~Meets(list[i])
       /\ \A e \in Range(Encoders) : e \notin Range(list) => caps[e] = Unknown
  /\ stage = "any" =>
       \/ \A c \in Codecs : settings.modes[c] < 2
       \/ \A e \in Range(Encoders) : ~Meets(e) /\ (e \in Range(list) => caps[e] # Unknown)
(* What is promised of an encoder, but for what clients are told.          *)
Preferred ==
  /\ settings.encoder # NoEncoder /\ caps[settings.encoder] # Unknown => chosen = settings.encoder
  /\ chosen # settings.encoder /\ (\E e \in Range(Encoders) : Meets(e)) => Meets(chosen)
  /\ Meets(chosen) => \A c \in Codecs : settings.modes[c] # 0 => mode[c] = settings.modes[c]
ChosenWell ==
  /\ stage = "finish" =>
       /\ chosen \in Range(Encoders) /\ caps[chosen] # Unknown
       /\ \A c \in Codecs : Retains(c, caps[chosen]) /\ mode[c] \in {0, settings.modes[c]}
       /\ Preferred
  /\ stage = "idle" /\ chosen # NoEncoder =>
       /\ Advertised \subseteq Encodes(chosen) \cup (Insisted \X {"passed", "hdr"})
       /\ (\A c \in Codecs : mode[c] # 0) /\ Preferred

ProbeInv == ProbeTyped /\ Searching /\ NamedFirst /\ PassedOver /\ ChosenWell

LEMMA EncoderIsFit == ProbeInv => EncoderFits
  BY DEF ProbeInv, ChosenWell, Preferred, EncoderFits

LEMMA ProbeStarts == ProbeInit => ProbeInv
<1> SUFFICES ASSUME ProbeInit PROVE ProbeInv
  OBVIOUS
<1>1. ProbeTyped
  BY DEF ProbeTyped, ProbeInit
<1> QED  BY <1>1 DEF ProbeInv, ProbeInit, Searching, NamedFirst, PassedOver, ChosenWell

(* A validation finds an encoder unable, or what it can do with each codec. *)
LEMMA FoundIs ==
  ASSUME NEW e \in Range(Encoders), NEW h \in Hardware
  PROVE  Capabilities(e, h) \in Finds \cup {Unknown}
<1> SUFFICES ASSUME Capabilities(e, h) # Unknown PROVE Capabilities(e, h) \in Finds
  OBVIOUS
<1> DEFINE able(c) ==
             IF c = "h264" THEN {"passed"} \cup Yuv444Of(e, h.h264)
             ELSE LET a == h.codecs[c] IN
                  IF ~Tested(e, c) \/ "known" \notin a THEN {}
                  ELSE IF ~Passed(a, h.h264) THEN {"hdr", "yuv444"}
                  ELSE {"passed"} \cup (a \cap {"hdr"}) \cup Yuv444Of(e, a)
<1>1. Capabilities(e, h) = [c \in AllCodecs |-> able(c)]
  BY DEF Capabilities, CodecFound
<1>2. \A a : Yuv444Of(e, a) \subseteq {"yuv444"}
  BY DEF Yuv444Of
<1>3. \A c \in AllCodecs : able(c) \subseteq {"passed", "hdr", "yuv444"}
  BY <1>2
<1>4. "h264" \in AllCodecs /\ "passed" \in able("h264")
  BY DEF AllCodecs
<1> HIDE DEF able
<1> QED  BY <1>1, <1>3, <1>4 DEF Finds

LEMMA UnknownIsNot == Unknown \notin Finds
  BY ProbeAssumption DEF Finds, AllCodecs

(* It keeps what is known of the others.                                   *)
LEMMA Validates ==
  ASSUME ProbeTyped, NEW e \in Range(Encoders), Validate(e)
  PROVE  /\ caps' \in [Range(Encoders) -> Finds \cup {Unknown}]
         /\ \A f \in Range(Encoders) : f # e => caps'[f] = caps[f]
         /\ caps[e] # Unknown => caps' = caps
<1>1. CASE caps[e] # Unknown
  BY <1>1 DEF Validate, ProbeTyped
<1>2. CASE caps[e] = Unknown
  <2>1. PICK h \in Hardware : caps' = [caps EXCEPT ![e] = Capabilities(e, h)]
    BY <1>2 DEF Validate
  <2>2. Capabilities(e, h) \in Finds \cup {Unknown}
    BY FoundIs
  <2>3. caps \in [Range(Encoders) -> Finds \cup {Unknown}]
    BY DEF ProbeTyped
  <2> QED  BY <1>2, <2>1, <2>2, <2>3
<1> QED  BY <1>1, <1>2

(* What is left of a list.                                                 *)
LEMMA Erased ==
  ASSUME ProbeTyped, pos \in DOMAIN list, list' = Erase(pos)
  PROVE  /\ list' \in Seq(Range(Encoders))
         /\ \A i \in DOMAIN list' : i < pos => i \in DOMAIN list /\ list'[i] = list[i]
         /\ \A i \in DOMAIN list' : i >= pos => i + 1 \in DOMAIN list /\ list'[i] = list[i + 1]
         /\ \A e \in Range(list) : e # list[pos] => e \in Range(list')
         /\ Range(list') \subseteq Range(list)
<1> DEFINE S == Range(Encoders)
           n == Len(list)
           a == SubSeq(list, 1, pos - 1)
           b == SubSeq(list, pos + 1, n)
<1>1. list \in Seq(S) /\ n \in Nat /\ DOMAIN list = 1..n /\ pos \in 1..n
  BY DEF ProbeTyped
<1>2. \A i \in 1..n : list[i] \in S
  BY <1>1
<1>3. a \in Seq(S) /\ Len(a) = pos - 1 /\ \A i \in 1..(pos - 1) : a[i] = list[i]
  <2>1. \A i \in 1..(pos - 1) : list[i] \in S
    BY <1>1, <1>2
  <2>2. /\ SubSeq(list, 1, pos - 1) \in Seq(S)
        /\ Len(SubSeq(list, 1, pos - 1)) = IF 1 <= pos - 1 THEN pos - 1 - 1 + 1 ELSE 0
        /\ \A i \in 1..(pos - 1 - 1 + 1) : SubSeq(list, 1, pos - 1)[i] = list[1 + i - 1]
    BY <1>1, <2>1, SubSeqProperties
  <2> QED  BY <1>1, <2>2
<1>4. b \in Seq(S) /\ Len(b) = n - pos /\ \A i \in 1..(n - pos) : b[i] = list[pos + i]
  <2>1. \A i \in (pos + 1)..n : list[i] \in S
    BY <1>1, <1>2
  <2>2. /\ SubSeq(list, pos + 1, n) \in Seq(S)
        /\ Len(SubSeq(list, pos + 1, n)) = IF pos + 1 <= n THEN n - (pos + 1) + 1 ELSE 0
        /\ \A i \in 1..(n - (pos + 1) + 1) : SubSeq(list, pos + 1, n)[i] = list[pos + 1 + i - 1]
    BY <1>1, <2>1, SubSeqProperties
  <2>3. \A i \in 1..(n - pos) : b[i] = list[pos + i]
    <3> TAKE i \in 1..(n - pos)
    <3>1. i \in 1..(n - (pos + 1) + 1) /\ pos + 1 + i - 1 = pos + i
      BY <1>1
    <3> QED  BY <2>2, <3>1
  <2> QED  BY <1>1, <2>2, <2>3
<1>5. list' = a \o b
  BY DEF Erase
<1> HIDE DEF a, b, n, S
<1>11. /\ list' \in Seq(S) /\ Len(list') = Len(a) + Len(b)
       /\ \A i \in 1..(Len(a) + Len(b)) : list'[i] = IF i <= Len(a) THEN a[i] ELSE b[i - Len(a)]
  <2>1. a \in Seq(S) /\ b \in Seq(S)
    BY <1>3, <1>4
  <2> QED  BY <1>5, <2>1, ConcatProperties
<1>12. Len(a) + Len(b) = n - 1 /\ Len(a) = pos - 1
  BY <1>1, <1>3, <1>4
<1>6. /\ list' \in Seq(S) /\ Len(list') = n - 1
      /\ \A i \in 1..(n - 1) : list'[i] = IF i <= pos - 1 THEN a[i] ELSE b[i - (pos - 1)]
  BY <1>11, <1>12
<1>7. DOMAIN list' = 1..(n - 1)
  BY <1>6
<1>8. \A i \in DOMAIN list' : i < pos => i \in DOMAIN list /\ list'[i] = list[i]
  BY <1>1, <1>3, <1>6, <1>7
<1>9. \A i \in DOMAIN list' : i >= pos => i + 1 \in DOMAIN list /\ list'[i] = list[i + 1]
  <2> TAKE i \in DOMAIN list'
  <2> HAVE i >= pos
  <2>1. list'[i] = b[i - (pos - 1)] /\ i - (pos - 1) \in 1..(n - pos)
    BY <1>1, <1>6, <1>7
  <2>2. pos + (i - (pos - 1)) = i + 1
    BY <1>1, <1>7
  <2> QED  BY <1>1, <1>4, <1>7, <2>1, <2>2
<1>10. \A e \in Range(list) : e # list[pos] => e \in Range(list')
  <2> SUFFICES ASSUME NEW i \in 1..n, i # pos PROVE \E j \in 1..(n - 1) : list'[j] = list[i]
    BY <1>1, <1>7 DEF Range
  <2>1. CASE i < pos
    BY <1>1, <1>7, <1>8, <2>1
  <2>2. CASE i > pos
    <3>1. i - 1 \in 1..(n - 1) /\ i - 1 >= pos /\ (i - 1) + 1 = i
      BY <1>1, <2>2
    <3> QED  BY <1>7, <1>9, <3>1
  <2> QED  BY <1>1, <2>1, <2>2
<1>13. Range(list') \subseteq Range(list)
  <2> SUFFICES ASSUME NEW i \in 1..(n - 1) PROVE \E j \in DOMAIN list : list'[i] = list[j]
    BY <1>7 DEF Range
  <2>1. i < pos \/ i >= pos
    BY <1>1
  <2> QED  BY <1>7, <1>8, <1>9, <2>1
<1> QED  BY <1>6, <1>8, <1>9, <1>10, <1>13 DEF S

LEMMA NamedKeeps == ASSUME ProbeInv, Named PROVE ProbeInv'
<1>1. /\ ProbeTyped /\ stage = "named" /\ chosen = NoEncoder /\ mode = settings.modes
      /\ list = Encoders /\ settings \in Settings
      /\ \A e \in Range(Encoders) : caps[e] = Unknown
      /\ \A i \in DOMAIN list : i < pos => list[i] # settings.encoder
  BY DEF ProbeInv, Searching, NamedFirst, ProbeTyped, Named
<1>2. settings' = settings /\ yuv444' = yuv444 /\ pos \in Nat \ {0} /\ DOMAIN list = 1..Len(list)
  BY <1>1 DEF Named, probing, ProbeTyped
<1> DEFINE next == IF \E c \in Codecs : mode[c] >= 2 THEN "suiting" ELSE "any"
<1>3. CASE settings.encoder = NoEncoder \/ pos > Len(list)
  <2>1. stage' = next /\ pos' = 1 /\ UNCHANGED <<list, chosen, mode, caps>>
    BY <1>1, <1>3 DEF Named, Search
  <2>2. settings.encoder = NoEncoder
    <3>1. settings.encoder \in Range(list) => \E i \in DOMAIN list : list[i] = settings.encoder
      BY DEF Range
    <3>2. Len(list) \in Nat
      BY <1>1 DEF ProbeTyped
    <3> QED  BY <1>1, <1>2, <1>3, <3>1, <3>2 DEF Settings
  <2>3. ProbeTyped'
    BY <1>1, <1>2, <2>1 DEF ProbeTyped
  <2>4. stage' = "any" => \A c \in Codecs : settings.modes[c] < 2
    BY <1>1, <2>1 DEF Settings
  <2> QED  BY <1>1, <1>2, <2>1, <2>2, <2>3, <2>4
           DEF ProbeInv, Searching, NamedFirst, PassedOver, ChosenWell
<1>4. CASE /\ ~(settings.encoder = NoEncoder \/ pos > Len(list))
           /\ list[pos] # settings.encoder
  <2>1. Skip /\ UNCHANGED <<mode, caps>>
    BY <1>1, <1>4 DEF Named
  <2>2. ProbeTyped'
    BY <1>1, <1>2, <2>1 DEF ProbeTyped, Skip
  <2> QED  BY <1>1, <1>2, <1>4, <2>1, <2>2
           DEF ProbeInv, Searching, NamedFirst, PassedOver, ChosenWell, Skip
<1>5. CASE /\ ~(settings.encoder = NoEncoder \/ pos > Len(list))
           /\ list[pos] = settings.encoder
  <2>1. /\ Validate(list[pos])
        /\ \/ ~Works(list[pos]) /\ Drop /\ Search(next) /\ UNCHANGED mode
           \/ Works(list[pos]) /\ Take(list[pos]) /\ mode' = Adjusted(caps'[list[pos]])
    BY <1>1, <1>5 DEF Named
  <2>2. pos \in DOMAIN list /\ list[pos] \in Range(Encoders) /\ list \in Seq(Range(Encoders))
    <3>1. list \in Seq(Range(Encoders)) /\ Len(list) \in Nat
      BY <1>1 DEF ProbeTyped
    <3> QED  BY <1>2, <1>5, <3>1
  <2>3. /\ caps' \in [Range(Encoders) -> Finds \cup {Unknown}]
        /\ \A f \in Range(Encoders) : f # list[pos] => caps'[f] = caps[f]
    BY <1>1, <2>1, <2>2, Validates
  <2>4. CASE ~Works(list[pos]) /\ Drop /\ Search(next) /\ UNCHANGED mode
    <3>1. list' = Erase(pos) /\ chosen' = chosen /\ stage' = next /\ pos' = 1 /\ mode' = mode
      BY <2>4 DEF Drop, Search
    <3>2. /\ list' \in Seq(Range(Encoders))
          /\ \A i \in DOMAIN list' : i < pos => i \in DOMAIN list /\ list'[i] = list[i]
          /\ \A i \in DOMAIN list' : i >= pos => i + 1 \in DOMAIN list /\ list'[i] = list[i + 1]
      BY <1>1, <2>2, <3>1, Erased
    <3>3. \A e \in Range(Encoders) : caps'[e] = Unknown
      BY <1>1, <2>3, <2>4 DEF Works
    <3>4. settings.encoder \notin Range(list')
      <4> SUFFICES ASSUME NEW i \in DOMAIN list', list'[i] = list[pos] PROVE FALSE
        BY <1>5 DEF Range
      <4>1. \A j, k \in DOMAIN list : list[j] = list[k] => j = k
        BY <1>1, ProbeAssumption DEF IsInjective
      <4>2. i \in Nat
        BY <3>2
      <4> QED  BY <1>2, <2>2, <3>2, <4>1, <4>2
    <3>5. ProbeTyped'
      BY <1>1, <1>2, <2>3, <3>1, <3>2 DEF ProbeTyped
    <3>6. stage' = "any" => \A c \in Codecs : settings.modes[c] < 2
      BY <1>1, <3>1 DEF Settings
    <3>7. settings.encoder \in Range(Encoders)
      BY <1>5, <2>2
    <3>8. NamedFirst'
      BY <1>2, <3>1, <3>3, <3>4, <3>7 DEF NamedFirst
    <3> QED  BY <1>1, <1>2, <3>1, <3>3, <3>5, <3>6, <3>8
             DEF ProbeInv, Searching, PassedOver, ChosenWell
  <2>5. CASE Works(list[pos]) /\ Take(list[pos]) /\ mode' = Adjusted(caps'[list[pos]])
    <3>1. /\ chosen' = settings.encoder /\ stage' = "finish" /\ list' = list /\ pos' = pos
          /\ caps'[settings.encoder] # Unknown /\ settings.encoder \in Range(Encoders)
          /\ mode' = Adjusted(caps'[settings.encoder])
      BY <1>5, <2>2, <2>5 DEF Works, Take
    <3>2. mode' = [c \in Codecs |-> IF Retains(c, caps'[settings.encoder]) THEN mode[c] ELSE 0]
      BY <3>1 DEF Adjusted
    <3>3. mode \in [Codecs -> 0..3]
      BY <1>1 DEF ProbeTyped
    <3>4. mode' \in [Codecs -> 0..3]
      BY <3>2, <3>3
    <3>5. ProbeTyped'
      BY <1>1, <1>2, <2>2, <2>3, <3>1, <3>4 DEF ProbeTyped
    <3>6. \A c \in Codecs : (Retains(c, caps[chosen]) /\ mode[c] \in {0, settings.modes[c]})'
      BY <1>1, <1>2, <3>1, <3>2, <3>3 DEF Retains
    <3>7. Preferred'
      BY <1>1, <1>2, <3>1, <3>2, <3>3 DEF Preferred, Meets, Retains
    <3> QED  BY <3>1, <3>5, <3>6, <3>7
             DEF ProbeInv, Searching, NamedFirst, PassedOver, ChosenWell
  <2> QED  BY <2>1, <2>4, <2>5
<1> QED  BY <1>3, <1>4, <1>5

LEMMA SuitingKeeps == ASSUME ProbeInv, Suiting PROVE ProbeInv'
<1>1. /\ ProbeTyped /\ stage = "suiting" /\ chosen = NoEncoder /\ mode = settings.modes
      /\ settings \in Settings
      /\ settings.encoder # NoEncoder =>
           caps[settings.encoder] = Unknown /\ settings.encoder \notin Range(list)
      /\ \A i \in DOMAIN list : i < pos => caps[list[i]] # Unknown /\ ~Meets(list[i])
      /\ \A e \in Range(Encoders) : e \notin Range(list) => caps[e] = Unknown
  BY DEF ProbeInv, Searching, NamedFirst, PassedOver, ProbeTyped, Suiting
<1>2. /\ settings' = settings /\ yuv444' = yuv444 /\ mode' = mode
      /\ pos \in Nat \ {0} /\ DOMAIN list = 1..Len(list) /\ Len(list) \in Nat
      /\ list \in Seq(Range(Encoders))
      /\ settings.encoder \in Range(Encoders) \cup {NoEncoder}
  BY <1>1 DEF Suiting, probing, ProbeTyped, Settings
<1>3. CASE pos > Len(list)
  <2>1. stage' = "any" /\ pos' = 1 /\ UNCHANGED <<list, chosen, caps>>
    BY <1>1, <1>3 DEF Suiting, Search
  <2>2. \A e \in Range(list) : caps[e] # Unknown /\ ~Meets(e)
    BY <1>1, <1>2, <1>3 DEF Range
  <2>3. \A e \in Range(Encoders) : ~Meets(e) /\ (e \in Range(list) => caps[e] # Unknown)
    BY <1>1, <2>2 DEF Meets
  <2>4. ProbeTyped'
    BY <1>1, <1>2, <2>1 DEF ProbeTyped
  <2>5. PassedOver'
    BY <1>2, <2>1, <2>3 DEF PassedOver, Meets
  <2> QED  BY <1>1, <1>2, <2>1, <2>4, <2>5 DEF ProbeInv, Searching, NamedFirst, ChosenWell
<1>4. CASE pos <= Len(list)
  <2> DEFINE e == list[pos]
  <2>1. /\ Validate(e)
        /\ \/ ~Works(e) /\ Drop /\ UNCHANGED <<pos, stage>>
           \/ Works(e) /\ ~Suits(caps'[e]) /\ Skip
           \/ Works(e) /\ Suits(caps'[e]) /\ Take(e)
    BY <1>1, <1>2, <1>4 DEF Suiting
  <2>2. pos \in DOMAIN list /\ e \in Range(Encoders) /\ e \in Range(list)
    BY <1>2, <1>4 DEF Range
  <2> HIDE DEF e
  <2>3. /\ caps' \in [Range(Encoders) -> Finds \cup {Unknown}]
        /\ \A f \in Range(Encoders) : f # e => caps'[f] = caps[f]
        /\ caps[e] # Unknown => caps' = caps
    BY <1>1, <2>1, <2>2, Validates
  <2>4. settings.encoder # NoEncoder =>
          caps'[settings.encoder] = Unknown /\ settings.encoder # e
    BY <1>1, <1>2, <2>2, <2>3
  <2>9. \A i \in DOMAIN list : i < pos => caps'[list[i]] = caps[list[i]]
    BY <1>1, <1>2, <2>2, <2>3
  <2>5. CASE ~Works(e) /\ Drop /\ UNCHANGED <<pos, stage>>
    <3>1. list' = Erase(pos) /\ chosen' = chosen /\ stage' = stage /\ pos' = pos
          /\ caps'[e] = Unknown
      BY <2>5 DEF Drop, Works
    <3>2. /\ list' \in Seq(Range(Encoders))
          /\ \A i \in DOMAIN list' : i < pos => i \in DOMAIN list /\ list'[i] = list[i]
          /\ \A f \in Range(list) : f # e => f \in Range(list')
          /\ Range(list') \subseteq Range(list)
      BY <1>1, <2>2, <3>1, Erased DEF e
    <3>3. ProbeTyped'
      BY <1>1, <1>2, <2>3, <3>1, <3>2 DEF ProbeTyped
    <3>4. \A i \in DOMAIN list' : i < pos => caps'[list'[i]] # Unknown /\ ~(Meets(list[i]))'
      BY <1>1, <1>2, <2>9, <3>1, <3>2 DEF Meets
    <3>5. \A f \in Range(Encoders) : f \notin Range(list') => caps'[f] = Unknown
      BY <1>1, <2>3, <3>1, <3>2
    <3>6. PassedOver'
      BY <1>1, <1>2, <3>1, <3>2, <3>4, <3>5 DEF PassedOver, Meets
    <3>7. NamedFirst'
      BY <1>1, <1>2, <2>4, <3>1, <3>2 DEF NamedFirst
    <3> QED  BY <1>1, <1>2, <3>1, <3>3, <3>6, <3>7 DEF ProbeInv, Searching, ChosenWell
  <2>6. CASE Works(e) /\ ~Suits(caps'[e]) /\ Skip
    <3>1. list' = list /\ chosen' = chosen /\ stage' = stage /\ pos' = pos + 1
          /\ caps'[e] # Unknown
      BY <2>6 DEF Skip, Works
    <3>2. ~(\A c \in Codecs : Satisfies(c, caps'[e]))
      BY <2>6 DEF Suits
    <3>3. ~(/\ caps'[e] # Unknown
            /\ \A c \in Codecs : /\ settings.modes[c] >= 2 => "passed" \in caps'[e][c]
                                 /\ settings.modes[c] = 3 => "hdr" \in caps'[e][c])
      BY <1>1, <3>2 DEF Satisfies
    <3>4. ProbeTyped'
      BY <1>1, <1>2, <2>3, <3>1 DEF ProbeTyped
    <3>5. \A i \in DOMAIN list : i < pos + 1 => i < pos \/ list[i] = e
      BY <1>2 DEF e
    <3>6. \A i \in DOMAIN list : i < pos + 1 =>
            /\ caps'[list[i]] # Unknown
            /\ ~(/\ caps'[list[i]] # Unknown
                 /\ \A c \in Codecs : /\ settings.modes[c] >= 2 => "passed" \in caps'[list[i]][c]
                                      /\ settings.modes[c] = 3 => "hdr" \in caps'[list[i]][c])
      BY <1>1, <2>9, <3>1, <3>3, <3>5 DEF Meets
    <3>7. \A f \in Range(Encoders) : f \notin Range(list) => caps'[f] = Unknown
      BY <1>1, <2>2, <2>3
    <3>8. PassedOver'
      BY <1>1, <1>2, <3>1, <3>6, <3>7 DEF PassedOver, Meets
    <3>9. NamedFirst'
      BY <1>1, <1>2, <2>4, <3>1 DEF NamedFirst
    <3> QED  BY <1>1, <1>2, <3>1, <3>4, <3>8, <3>9 DEF ProbeInv, Searching, ChosenWell
  <2>7. CASE Works(e) /\ Suits(caps'[e]) /\ Take(e)
    <3>1. /\ chosen' = e /\ stage' = "finish" /\ list' = list /\ pos' = pos
          /\ caps'[e] # Unknown /\ \A c \in Codecs : Satisfies(c, caps'[e])
      BY <2>7 DEF Works, Take, Suits
    <3>2. ProbeTyped'
      BY <1>1, <1>2, <2>2, <2>3, <3>1 DEF ProbeTyped
    <3>3. \A c \in Codecs : (Retains(c, caps[chosen]) /\ mode[c] \in {0, settings.modes[c]})'
      BY <1>1, <1>2, <3>1 DEF Satisfies, Retains
    <3>4. (Meets(chosen))'
      BY <1>1, <1>2, <3>1 DEF Meets, Satisfies
    <3>5. Preferred'
      BY <1>1, <1>2, <2>4, <3>1, <3>4 DEF Preferred
    <3> QED  BY <2>2, <3>1, <3>2, <3>3, <3>5
             DEF ProbeInv, Searching, NamedFirst, PassedOver, ChosenWell
  <2> QED  BY <2>1, <2>5, <2>6, <2>7
<1> QED  BY <1>2, <1>3, <1>4

LEMMA AnyKeeps == ASSUME ProbeInv, AnyWorking PROVE ProbeInv'
<1> DEFINE Undemanding == \A c \in Codecs : settings.modes[c] < 2
           e == list[pos]
<1>1. /\ ProbeTyped /\ stage = "any" /\ chosen = NoEncoder /\ mode = settings.modes
      /\ settings \in Settings
      /\ settings.encoder # NoEncoder =>
           caps[settings.encoder] = Unknown /\ settings.encoder \notin Range(list)
      /\ \/ Undemanding
         \/ \A f \in Range(Encoders) : ~Meets(f) /\ (f \in Range(list) => caps[f] # Unknown)
  BY DEF ProbeInv, Searching, NamedFirst, PassedOver, ProbeTyped, AnyWorking
<1>2. /\ settings' = settings /\ yuv444' = yuv444
      /\ pos \in Nat \ {0} /\ DOMAIN list = 1..Len(list) /\ Len(list) \in Nat
      /\ list \in Seq(Range(Encoders))
      /\ settings.encoder \in Range(Encoders) \cup {NoEncoder}
      /\ mode \in [Codecs -> 0..3]
  BY <1>1 DEF AnyWorking, probing, ProbeTyped, Settings
<1>3. /\ pos <= Len(list) /\ Validate(e)
      /\ \/ ~Works(e) /\ Drop /\ UNCHANGED <<pos, stage, mode>>
         \/ Works(e) /\ Take(e) /\ mode' = Adjusted(caps'[e])
  BY DEF AnyWorking
<1>4. pos \in DOMAIN list /\ e \in Range(Encoders) /\ e \in Range(list)
  BY <1>2, <1>3 DEF Range
<1>5. list' = Erase(pos) => Range(list') \subseteq Range(list) /\ list' \in Seq(Range(Encoders))
  BY <1>1, <1>4, Erased
<1> HIDE DEF e, Undemanding
<1>6. /\ caps' \in [Range(Encoders) -> Finds \cup {Unknown}]
      /\ \A f \in Range(Encoders) : f # e => caps'[f] = caps[f]
      /\ caps[e] # Unknown => caps' = caps
  BY <1>1, <1>3, <1>4, Validates
<1>7. settings.encoder # NoEncoder => caps'[settings.encoder] = Unknown /\ settings.encoder # e
  BY <1>1, <1>2, <1>4, <1>6
<1>8. CASE ~Works(e) /\ Drop /\ UNCHANGED <<pos, stage, mode>>
  <2>1. /\ list' = Erase(pos) /\ chosen' = chosen /\ stage' = stage /\ pos' = pos /\ mode' = mode
        /\ caps'[e] = Unknown
    BY <1>8 DEF Drop, Works
  <2>2. ProbeTyped'
    BY <1>1, <1>2, <1>5, <1>6, <2>1 DEF ProbeTyped
  <2>3. Undemanding
    BY <1>1, <1>4, <1>6, <2>1
  <2>4. PassedOver'
    BY <1>1, <1>2, <2>1, <2>3 DEF PassedOver, Undemanding
  <2>5. NamedFirst'
    BY <1>1, <1>2, <1>5, <1>7, <2>1 DEF NamedFirst
  <2> QED  BY <1>1, <1>2, <2>1, <2>2, <2>4, <2>5 DEF ProbeInv, Searching, ChosenWell
<1>9. CASE Works(e) /\ Take(e) /\ mode' = Adjusted(caps'[e])
  <2>1. /\ chosen' = e /\ stage' = "finish" /\ list' = list /\ pos' = pos /\ caps'[e] # Unknown
        /\ mode' = [c \in Codecs |-> IF Retains(c, caps'[e]) THEN mode[c] ELSE 0]
    BY <1>9 DEF Works, Take, Adjusted
  <2>2. mode' \in [Codecs -> 0..3]
    BY <1>2, <2>1
  <2>3. ProbeTyped'
    BY <1>1, <1>2, <1>4, <1>6, <2>1, <2>2 DEF ProbeTyped
  <2>4. \A c \in Codecs : (Retains(c, caps[chosen]) /\ mode[c] \in {0, settings.modes[c]})'
    BY <1>1, <1>2, <2>1 DEF Retains
  <2>5. (Meets(chosen))' =>
          \A c \in Codecs : settings'.modes[c] # 0 => mode'[c] = settings'.modes[c]
    BY <1>1, <1>2, <2>1 DEF Meets, Retains
  <2>6. (\E f \in Range(Encoders) : (Meets(f))') => (Meets(chosen))'
    <3>1. CASE Undemanding
      <4>1. settings.modes \in [Codecs -> 0..3]
        BY <1>1 DEF Settings
      <4>2. \A c \in Codecs : ~(settings.modes[c] >= 2) /\ settings.modes[c] # 3
        BY <3>1, <4>1 DEF Undemanding
      <4> QED  BY <1>2, <2>1, <4>2 DEF Meets
    <3>2. CASE \A f \in Range(Encoders) : ~Meets(f) /\ (f \in Range(list) => caps[f] # Unknown)
      <4>1. caps' = caps
        BY <1>4, <1>6, <3>2
      <4> QED  BY <1>2, <3>2, <4>1 DEF Meets
    <3> QED  BY <1>1, <3>1, <3>2
  <2>7. Preferred'
    BY <1>2, <1>7, <2>1, <2>5, <2>6 DEF Preferred
  <2> QED  BY <1>4, <2>1, <2>3, <2>4, <2>7
           DEF ProbeInv, Searching, NamedFirst, PassedOver, ChosenWell
<1> QED  BY <1>3, <1>8, <1>9

LEMMA FinishKeeps == ASSUME ProbeInv, Finish PROVE ProbeInv'
<1> DEFINE g == caps[chosen]
<1>1. /\ ProbeTyped /\ chosen \in Range(Encoders) /\ g # Unknown
      /\ \A c \in Codecs : Retains(c, g) /\ mode[c] \in {0, settings.modes[c]}
      /\ Preferred
      /\ mode \in [Codecs -> 0..3] /\ g \in Finds
      /\ settings # Unknown
  BY DEF ProbeInv, ProbeTyped, ChosenWell, Finish
<1>2. /\ stage' = "idle" /\ list' = <<>> /\ pos' = 1
      /\ yuv444' = {c \in AllCodecs : {"passed", "yuv444"} \subseteq g[c]}
      /\ settings' = settings /\ chosen' = chosen /\ caps' = caps
  BY DEF Finish
<1>3. mode' = [c \in Codecs |->
                IF mode[c] # 0 THEN mode[c]
                ELSE IF "passed" \notin g[c] THEN 1 ELSE IF "hdr" \in g[c] THEN 3 ELSE 2]
  BY DEF Finish, Resolved
<1> HIDE DEF g
<1>4. mode' \in [Codecs -> 0..3] /\ \A c \in Codecs : mode'[c] # 0
  BY <1>1, <1>3
<1>5. \A c \in Codecs : /\ mode[c] # 0 => mode'[c] = mode[c]
                        /\ mode'[c] >= 2 => \/ "passed" \in g[c]
                                            \/ settings.modes[c] = 3
                        /\ mode'[c] = 3 => "hdr" \in g[c]
  BY <1>1, <1>3 DEF Retains
<1>6. ProbeTyped'
  BY <1>1, <1>2, <1>4 DEF ProbeTyped
<1>7. Preferred'
  BY <1>1, <1>2, <1>5 DEF Preferred, Meets
<1>8. (Advertised \subseteq Encodes(chosen) \cup (Insisted \X {"passed", "hdr"}))'
  <2> DEFINE All == (Encodes(chosen) \cup (Insisted \X {"passed", "hdr"}))'
  <2> SUFFICES ASSUME NEW x \in Advertised' PROVE x \in All
    OBVIOUS
  <2>1. (Encodes(chosen))' =
          {y \in AllCodecs \X {"passed", "hdr", "yuv444"} : {"passed", y[2]} \subseteq g[y[1]]}
    BY <1>2 DEF Encodes, g
  <2>2. \A c \in AllCodecs, a \in {"passed", "hdr", "yuv444"} :
          "passed" \in g[c] /\ a \in g[c] => <<c, a>> \in All
    BY <2>1
  <2>7. \A c \in Codecs, a \in {"passed", "hdr"} :
          settings.modes[c] = 3 /\ "passed" \notin g[c] => <<c, a>> \in All
    <3>1. Insisted' = {c \in Codecs : settings.modes[c] = 3 /\ "passed" \notin g[c]}
      BY <1>2 DEF Insisted, g
    <3> QED  BY <3>1
  <2> HIDE DEF All
  <2>3. CASE x = <<"h264", "passed">>
    BY <1>1, <2>2, <2>3 DEF Finds, AllCodecs
  <2>4. CASE x = <<"h264", "yuv444">> /\ "h264" \in yuv444'
    BY <1>2, <2>2, <2>4 DEF AllCodecs
  <2>5. ASSUME NEW c \in Codecs, mode'[c] >= 2,
               \/ x = <<c, "passed">>
               \/ mode'[c] = 3 /\ x = <<c, "hdr">>
               \/ c \in yuv444' /\ x = <<c, "yuv444">>
        PROVE  x \in All
    <3>1. c \in AllCodecs
      BY DEF AllCodecs
    <3>2. CASE "passed" \in g[c]
      BY <1>2, <1>5, <2>2, <2>5, <3>1, <3>2
    <3>3. CASE "passed" \notin g[c]
      <4>1. settings.modes[c] = 3 /\ c \notin yuv444'
        BY <1>2, <1>5, <2>5, <3>3
      <4> QED  BY <2>5, <2>7, <3>3, <4>1
    <3> QED  BY <3>2, <3>3
  <2>6. \/ x = <<"h264", "passed">>
        \/ x = <<"h264", "yuv444">> /\ "h264" \in yuv444'
        \/ \E c \in Codecs : /\ mode'[c] >= 2
                             /\ \/ x = <<c, "passed">>
                                \/ mode'[c] = 3 /\ x = <<c, "hdr">>
                                \/ c \in yuv444' /\ x = <<c, "yuv444">>
    <3> DEFINE Says(c) ==
                 IF mode'[c] >= 2
                 THEN {<<c, "passed">>} \cup (IF mode'[c] = 3 THEN {<<c, "hdr">>} ELSE {})
                        \cup (IF c \in yuv444' THEN {<<c, "yuv444">>} ELSE {})
                 ELSE {}
    <3> DEFINE Basic == {<<"h264", "passed">>}
               Second == IF "h264" \in yuv444' THEN {<<"h264", "yuv444">>} ELSE {}
    <3>3. Advertised' = (UNION {Says(c) : c \in Codecs}) \cup Basic \cup Second
      BY DEF Advertised
    <3>4. Basic = {<<"h264", "passed">>} /\ \A y \in Second : y = <<"h264", "yuv444">> /\ "h264" \in yuv444'
      OBVIOUS
    <3> HIDE DEF Says, Basic, Second
    <3>5. x \in Advertised'
      OBVIOUS
    <3>6. x \in (UNION {Says(c) : c \in Codecs}) \cup Basic \cup Second
      BY <3>3, <3>5, Zenon
    <3>7. x \in (UNION {Says(c) : c \in Codecs}) => \E c \in Codecs : x \in Says(c)
      OBVIOUS
    <3>1. (\E c \in Codecs : x \in Says(c)) \/ x \in Basic \/ x \in Second
      BY <3>6, <3>7, Zenon
    <3> USE DEF Says
    <3>2. \A c \in Codecs : x \in Says(c) =>
            /\ mode'[c] >= 2
            /\ \/ x = <<c, "passed">>
               \/ mode'[c] = 3 /\ x = <<c, "hdr">>
               \/ c \in yuv444' /\ x = <<c, "yuv444">>
      OBVIOUS
    <3> HIDE DEF Says
    <3> QED  BY <3>1, <3>2, <3>4
  <2> QED  BY <2>3, <2>4, <2>5, <2>6
<1> QED  BY <1>1, <1>2, <1>4, <1>6, <1>7, <1>8
         DEF ProbeInv, Searching, NamedFirst, PassedOver, ChosenWell

LEMMA ProbeGoesOn == ProbeInv /\ [ProbeNext]_probeVars => ProbeInv'
<1> SUFFICES ASSUME ProbeInv, [ProbeNext]_probeVars PROVE ProbeInv'
  OBVIOUS
<1>1. ProbeTyped
  BY DEF ProbeInv
<1>2. CASE ReadSettings
  <2>1. /\ stage = "idle" /\ chosen = NoEncoder
        /\ UNCHANGED <<stage, list, pos, chosen, mode, caps, yuv444>>
    BY <1>1, <1>2 DEF ReadSettings, ProbeTyped
  <2>2. settings' \in Settings
    <3>1. PICK m \in [Codecs -> Modes], e \in Range(Encoders) \cup {NoEncoder} :
            settings' = [modes |-> m, encoder |-> e]
      BY <1>2 DEF ReadSettings
    <3>2. m \in [Codecs -> 0..3]
      BY ProbeAssumption
    <3> QED  BY <3>1, <3>2 DEF Settings
  <2>3. ProbeTyped'
    BY <1>1, <2>1, <2>2 DEF ProbeTyped
  <2> QED  BY <2>1, <2>3 DEF ProbeInv, Searching, NamedFirst, PassedOver, ChosenWell
<1>3. CASE Probe
  <2>1. /\ settings \in Settings /\ stage' = "named" /\ list' = Encoders /\ pos' = 1
        /\ chosen' = NoEncoder /\ mode' = settings.modes /\ settings' = settings
        /\ caps' = [e \in Range(Encoders) |-> Unknown] /\ settings # Unknown
    BY <1>1, <1>3 DEF Probe, ProbeTyped
  <2>2. ProbeTyped'
    BY <2>1, ProbeAssumption DEF ProbeTyped, Settings
  <2>3. \A i \in DOMAIN Encoders : ~(i < 1)
    <3>1. DOMAIN Encoders = 1..Len(Encoders) /\ Len(Encoders) \in Nat
      BY ProbeAssumption
    <3> QED  BY <3>1
  <2> QED  BY <2>1, <2>2, <2>3 DEF ProbeInv, Searching, NamedFirst, PassedOver, ChosenWell
<1>4. CASE NoneWorks
  <2>1. /\ stage = "any" /\ stage' = "idle" /\ list' = <<>> /\ pos' = 1
        /\ UNCHANGED <<settings, yuv444, chosen, mode, caps>>
    BY <1>4 DEF NoneWorks, probing
  <2>2. chosen = NoEncoder
    BY <2>1 DEF ProbeInv, Searching
  <2>3. ProbeTyped'
    BY <1>1, <2>1 DEF ProbeTyped
  <2> QED  BY <2>1, <2>2, <2>3 DEF ProbeInv, Searching, NamedFirst, PassedOver, ChosenWell
<1>5. CASE UNCHANGED probeVars
  <2>1. UNCHANGED <<settings, stage, list, pos, chosen, mode, caps, yuv444>>
    BY <1>5 DEF probeVars
  <2>2. ProbeTyped'
    BY <1>1, <2>1 DEF ProbeTyped
  <2>3. Preferred' <=> Preferred
    BY <2>1 DEF Preferred, Meets
  <2>4. ASSUME chosen # NoEncoder PROVE Advertised' = Advertised
    BY <2>1, ZenonT(30) DEF Advertised
  <2>5. Encodes(chosen)' = Encodes(chosen) /\ Insisted' = Insisted
    BY <2>1, ZenonT(30) DEF Encodes, Insisted
  <2>6. \A c \in Codecs : Retains(c, caps[chosen])' <=> Retains(c, caps[chosen])
    BY <2>1 DEF Retains
  <2>7. ChosenWell
    BY DEF ProbeInv
  <2>8. ChosenWell'
    BY <2>1, <2>3, <2>4, <2>5, <2>6, <2>7 DEF ChosenWell
  <2> QED  BY <2>1, <2>2, <2>8 DEF ProbeInv, Searching, NamedFirst, PassedOver, Meets
<1> QED  BY <1>2, <1>3, <1>4, <1>5, NamedKeeps, SuitingKeeps, AnyKeeps, FinishKeeps DEF ProbeNext

-------------------------------------------------------------------------------
(* Packets and blocks of a frame.                                          *)

LEMMA CeilIs ==
  ASSUME NEW a \in Nat, NEW b \in Nat \ {0}
  PROVE  /\ CeilDiv(a, b) \in Nat
         /\ (CeilDiv(a, b) - 1) * b < a /\ a <= CeilDiv(a, b) * b
<1> DEFINE c == (a + b - 1) \div b
<1>1. c \in Nat /\ c * b <= a + b - 1 /\ a + b - 1 < (c + 1) * b
  OBVIOUS
<1> HIDE DEF c
<1>2. (c - 1) * b = c * b - b /\ (c + 1) * b = c * b + b
  BY <1>1
<1>3. c * b \in Nat
  BY <1>1
<1>4. c \in Nat /\ (c - 1) * b < a /\ a <= c * b
  BY <1>1, <1>2, <1>3
<1> QED  BY <1>4 DEF CeilDiv, c

LEMMA CeilUnique ==
  ASSUME NEW a \in Nat, NEW b \in Nat \ {0}, NEW c \in Nat, (c - 1) * b < a, a <= c * b
  PROVE  CeilDiv(a, b) = c
<1> DEFINE d == CeilDiv(a, b)
<1>1. d \in Nat /\ (d - 1) * b < a /\ a <= d * b
  BY CeilIs
<1> HIDE DEF d
<1>2. c <= d
  <2> SUFFICES ASSUME d <= c - 1 PROVE FALSE
    BY <1>1
  <2>1. d * b <= (c - 1) * b
    BY <1>1
  <2>2. d * b \in Int /\ (c - 1) * b \in Int
    BY <1>1
  <2> QED  BY <1>1, <2>1, <2>2
<1>3. d <= c
  <2> SUFFICES ASSUME c <= d - 1 PROVE FALSE
    BY <1>1
  <2>1. c * b <= (d - 1) * b
    BY <1>1
  <2>2. c * b \in Int /\ (d - 1) * b \in Int
    BY <1>1
  <2> QED  BY <1>1, <2>1, <2>2
<1> QED  BY <1>1, <1>2, <1>3 DEF d

(* A packet header per slice: the last packet is full, or holds more than  *)
(* its header, and its payload is what clients are told.                   *)
LEMMA WireIs ==
  ASSUME NEW payload \in Nat \ {0}, NEW ps \in Nat, ps > 16
  PROVE  LET size == OnWire(payload, ps)
             bs == BlockSize(ps)
             n == CeilDiv(size, bs) IN
         /\ size \in Nat \ {0} /\ bs \in Nat /\ bs > 32 /\ n \in Nat \ {0}
         /\ size = n * bs \/ size > (n - 1) * bs + 32
         /\ LastPayloadLen(payload, ps) = size - (n - 1) * bs - PacketHeader
<1> DEFINE framed == payload + 8
           sl == ps - 16
           q == framed \div sl
           t == framed % sl
           bs == ps + 16
<1>1. sl \in Nat \ {0} /\ bs = sl + 32 /\ framed \in Nat \ {0} /\ bs \in Nat /\ bs > 32
  OBVIOUS
<1>2. q \in Nat /\ t \in Nat /\ t < sl /\ framed = q * sl + t
  BY <1>1
<1>3. /\ OnWire(payload, ps) = framed + CeilDiv(framed, sl) * 32
      /\ BlockSize(ps) = bs /\ PacketHeader = 32
      /\ LastPayloadLen(payload, ps) = IF t = 0 THEN sl ELSE t
  <2>1. BlockSize(ps) - PacketHeader = sl
    BY DEF BlockSize, PacketHeader, RtpHeader
  <2> QED  BY <2>1 DEF OnWire, Slices, BlockSize, RtpHeader, PacketHeader, FrameHeader, NvHeader, LastPayloadLen
<1> HIDE DEF framed, sl, q, t, bs
<1>4. q * bs = q * sl + 32 * q /\ q * sl \in Nat /\ q * bs \in Nat
  BY <1>1, <1>2
<1>5. CASE t = 0
  <2>1. (q - 1) * sl = q * sl - sl /\ (q - 1) * bs = q * bs - bs
    BY <1>1, <1>2
  <2>2. (q - 1) * sl < framed /\ framed <= q * sl
    BY <1>1, <1>2, <1>4, <1>5, <2>1
  <2>3. CeilDiv(framed, sl) = q
    BY <1>1, <1>2, <2>2, CeilUnique
  <2>4. OnWire(payload, ps) = q * bs
    BY <1>2, <1>3, <1>4, <1>5, <2>3
  <2>5. q # 0
    BY <1>1, <1>2, <1>5
  <2>6. CeilDiv(q * bs, bs) = q
    BY <1>1, <1>2, <1>4, <2>1, CeilUnique
  <2>7. q * bs - (q - 1) * bs - 32 = sl
    BY <1>1, <1>4, <2>1
  <2>8. q * bs # 0
    BY <1>1, <1>2, <2>5
  <2> QED  BY <1>1, <1>2, <1>3, <1>4, <1>5, <2>4, <2>5, <2>6, <2>7, <2>8
<1>6. CASE t # 0
  <2>1. (q + 1) * sl = q * sl + sl /\ (q + 1) * bs = q * bs + bs /\ (q + 1) - 1 = q
    BY <1>1, <1>2
  <2>2. q * sl < framed /\ framed <= (q + 1) * sl
    BY <1>1, <1>2, <1>4, <1>6, <2>1
  <2>3. CeilDiv(framed, sl) = q + 1
    BY <1>1, <1>2, <2>1, <2>2, CeilUnique
  <2>4. OnWire(payload, ps) = q * bs + t + 32
    BY <1>2, <1>3, <1>4, <2>3
  <2>5. q * bs + t + 32 <= (q + 1) * bs /\ q * bs + t + 32 \in Nat \ {0}
    BY <1>1, <1>2, <1>4, <2>1
  <2>6. q * bs < q * bs + t + 32
    BY <1>1, <1>2, <1>4
  <2>7. CeilDiv(q * bs + t + 32, bs) = q + 1
    BY <1>1, <1>2, <2>1, <2>5, <2>6, CeilUnique
  <2>8. q * bs + t + 32 > q * bs + 32 /\ q * bs + t + 32 - q * bs - 32 = t
    BY <1>2, <1>4, <1>6
  <2>9. q + 1 \in Nat \ {0}
    BY <1>2
  <2> DEFINE size == OnWire(payload, ps)
             n == CeilDiv(size, BlockSize(ps))
  <2>10. n = q + 1
    BY <1>3, <2>4, <2>7
  <2>11. LastPayloadLen(payload, ps) = t /\ size = q * bs + t + 32
    BY <1>3, <1>6, <2>4
  <2> HIDE DEF size, n
  <2>12. (n - 1) * bs = q * bs
    BY <1>2, <2>10
  <2>13. size > (n - 1) * bs + 32 /\ size - (n - 1) * bs - 32 = t
    <3>1. q * bs \in Nat /\ t \in Nat /\ (n - 1) * bs \in Int
      BY <1>2, <1>4, <2>12
    <3> QED  BY <2>8, <2>11, <2>12, <3>1
  <2>14. size \in Nat \ {0} /\ n \in Nat \ {0}
    BY <2>5, <2>9, <2>10, <2>11
  <2>15. /\ size \in Nat \ {0} /\ BlockSize(ps) \in Nat /\ BlockSize(ps) > 32 /\ n \in Nat \ {0}
         /\ size = n * BlockSize(ps) \/ size > (n - 1) * BlockSize(ps) + 32
         /\ LastPayloadLen(payload, ps) = size - (n - 1) * BlockSize(ps) - PacketHeader
    BY <1>1, <1>3, <2>11, <2>13, <2>14
  <2> QED  BY <2>15 DEF size, n
<1> QED  BY <1>5, <1>6

(* How a frame is cut: a block but the last has a whole number of shards,  *)
(* the last no more than the others, and none is empty; with parity there  *)
(* is room for all shards of a block.                                      *)
CutInto(size, p, bs) ==
  LET needed == BlocksNeeded(size, p, bs)
      blocks == Least(needed, MaxBlocks)
      each == CeilDiv(size \div blocks, bs) IN
  /\ needed \in Nat \ {0} /\ blocks \in 1..4 /\ each \in Nat \ {0}
  /\ (blocks - 1) * (each * bs) < size /\ size <= blocks * (each * bs)
  /\ needed <= 4 => each * (100 + p) <= 25500

LEMMA CutIs ==
  ASSUME NEW size \in Nat \ {0}, NEW bs \in Nat, bs > 32, NEW p \in 1..255,
         LET n == CeilDiv(size, bs) IN size = n * bs \/ size > (n - 1) * bs + 32
  PROVE  CutInto(size, p, bs)
<1> DEFINE M == 25500 \div (100 + p)
           needed == CeilDiv(size, M * bs)
           blocks == Least(needed, 4)
           s0 == size \div blocks
           each == CeilDiv(s0, bs)
           n == CeilDiv(size, bs)
<1>1. /\ BlocksNeeded(size, p, bs) = needed /\ MaxBlocks = 4
  BY DEF BlocksNeeded, MaxData, MaxShards, MaxBlocks
<1>2. M \in Nat /\ M >= 71 /\ M * (100 + p) <= 25500
  OBVIOUS
<1> HIDE DEF M
<1>3. M * bs \in Nat \ {0} /\ M * bs >= 71 * bs
  BY <1>2
<1>4. needed \in Nat /\ (needed - 1) * (M * bs) < size /\ size <= needed * (M * bs)
  BY <1>3, CeilIs
<1>5. n \in Nat /\ (n - 1) * bs < size /\ size <= n * bs
  BY CeilIs
<1>6. size = n * bs \/ size > (n - 1) * bs + 32
  OBVIOUS
<1> HIDE DEF needed, n
<1>7. needed # 0
  <2> SUFFICES ASSUME needed = 0 PROVE FALSE
    OBVIOUS
  <2>1. needed * (M * bs) = 0
    BY <1>3
  <2> QED  BY <1>4, <2>1
<1>8. blocks \in 1..4 /\ blocks <= needed /\ (needed <= 4 => blocks = needed)
  BY <1>4, <1>7 DEF Least
<1> HIDE DEF blocks
<1>9. s0 \in Nat /\ blocks * s0 <= size /\ size < blocks * s0 + blocks
  <2>1. CASE blocks = 1
    BY <2>1
  <2>2. CASE blocks = 2
    BY <2>2
  <2>3. CASE blocks = 3
    BY <2>3
  <2>4. CASE blocks = 4
    BY <2>4
  <2> QED  BY <1>8, <2>1, <2>2, <2>3, <2>4
<1> HIDE DEF s0
<1>10. (blocks - 1) * (71 * bs) < size
  <2>1. (blocks - 1) * (71 * bs) <= (blocks - 1) * (M * bs)
    BY <1>3, <1>8
  <2>2. (blocks - 1) * (M * bs) <= (needed - 1) * (M * bs)
    BY <1>3, <1>4, <1>8
  <2>3. /\ (blocks - 1) * (71 * bs) \in Int /\ (blocks - 1) * (M * bs) \in Int
        /\ (needed - 1) * (M * bs) \in Int
    BY <1>3, <1>4, <1>8
  <2> QED  BY <1>4, <2>1, <2>2, <2>3
<1>11. each \in Nat /\ (each - 1) * bs < s0 /\ s0 <= each * bs
  BY <1>9, CeilIs
<1> HIDE DEF each
<1> DEFINE X == each * bs
<1>12. X \in Nat /\ (each - 1) * bs = X - bs
  BY <1>11
<1>13. s0 # 0
  BY <1>8, <1>9, <1>10
<1>14. each # 0
  <2> SUFFICES ASSUME each = 0 PROVE FALSE
    OBVIOUS
  <2>1. each * bs = 0
    OBVIOUS
  <2> QED  BY <1>9, <1>11, <1>13, <2>1
<1>15. (blocks - 1) * X < size
  <2> HIDE DEF X
  <2>1. X < s0 + bs
    BY <1>9, <1>11, <1>12 DEF X
  <2>2. CASE blocks = 1
    BY <1>12, <2>2
  <2>3. CASE blocks = 2
    BY <1>9, <1>10, <1>12, <2>1, <2>3
  <2>4. CASE blocks = 3
    BY <1>9, <1>10, <1>12, <2>1, <2>4
  <2>5. CASE blocks = 4
    BY <1>9, <1>10, <1>12, <2>1, <2>5
  <2> QED  BY <1>8, <2>2, <2>3, <2>4, <2>5
(* The last packet holds a header, so what is left over is none of it.     *)
<1>16. size <= blocks * X
  <2> SUFFICES ASSUME size > blocks * X PROVE FALSE
    BY <1>8, <1>12
  <2>1. blocks * X = (blocks * each) * bs /\ blocks * each \in Nat
    BY <1>8, <1>11
  <2>2. size < (blocks * each) * bs + 4 /\ size > (blocks * each) * bs
    <3>1. blocks * s0 <= blocks * X
      BY <1>8, <1>9, <1>11, <1>12
    <3>2. blocks * s0 \in Nat /\ blocks * X \in Nat
      BY <1>8, <1>9, <1>12
    <3> QED  BY <1>8, <1>9, <2>1, <3>1, <3>2
  <2> DEFINE k == blocks * each
  <2>3. k \in Nat /\ size < k * bs + 4 /\ size > k * bs
    BY <2>1, <2>2
  <2> HIDE DEF k
  <2>4. (k + 1) * bs = k * bs + bs /\ (k + 1) - 1 = k
    BY <2>3
  <2>5. k * bs < size /\ size <= (k + 1) * bs
    BY <2>3, <2>4
  <2>6. n = k + 1
    <3>1. k + 1 \in Nat /\ ((k + 1) - 1) * bs < size
      BY <2>3, <2>4, <2>5
    <3>2. CeilDiv(size, bs) = k + 1
      BY <2>5, <3>1, CeilUnique
    <3> QED  BY <3>2 DEF n
  <2>7. n * bs = k * bs + bs /\ (n - 1) * bs = k * bs
    BY <2>3, <2>4, <2>6
  <2>8. k * bs \in Nat
    BY <2>3
  <2> QED  BY <1>6, <2>3, <2>7, <2>8
<1>17. needed <= 4 => each * (100 + p) <= 25500
  <2> SUFFICES ASSUME needed <= 4 PROVE each <= M
    BY <1>2, <1>11
  <2> SUFFICES ASSUME M <= each - 1 PROVE FALSE
    BY <1>2, <1>11
  <2>1. M * bs <= (each - 1) * bs
    BY <1>2, <1>11
  <2>2. M * bs < s0
    BY <1>3, <1>9, <1>11, <1>12, <2>1
  <2>3. blocks * (M * bs) < blocks * s0
    BY <1>3, <1>8, <1>9, <2>2
  <2>4. blocks * (M * bs) \in Nat /\ blocks * s0 \in Nat /\ blocks = needed
    BY <1>3, <1>8, <1>9
  <2> QED  BY <1>4, <1>9, <2>3, <2>4
<1>18. /\ needed \in Nat \ {0} /\ blocks \in 1..4 /\ each \in Nat \ {0}
       /\ (blocks - 1) * (each * bs) < size /\ size <= blocks * (each * bs)
       /\ needed <= 4 => each * (100 + p) <= 25500
  BY <1>4, <1>7, <1>8, <1>11, <1>14, <1>15, <1>16, <1>17
<1> QED  BY <1>1, <1>18 DEF CutInto, needed, blocks, each, s0

(* The parity shards are those the client computes, and fit.               *)
Coding(length, bs, pct, least) ==
  LET s == FecEncode(length, bs, pct, least) IN
  /\ s.data = CeilDiv(length, bs) /\ s.data \in Nat \ {0} /\ s.shards \in Nat
  /\ s.shards - s.data = CeilDiv(s.data * s.percentage, 100)
  /\ pct = 0 => s.percentage = 0 /\ s.shards = s.data
  /\ pct # 0 /\ s.data * (100 + pct) <= 25500 =>
       s.shards <= 255 /\ s.data <= 255 /\ s.percentage < 256
  /\ s.percentage # 0 => pct # 0

(* Whatever parity is asked for, the data of a block is all of it.         *)
LEMMA FecCounts ==
  ASSUME NEW length \in Nat \ {0}, NEW bs \in Nat \ {0}, NEW pct \in 0..255, NEW least \in Nat
  PROVE  LET s == FecEncode(length, bs, pct, least) IN
         s.data = CeilDiv(length, bs) /\ s.data \in Nat \ {0} /\ s.shards \in Nat
<1> DEFINE data == CeilDiv(length, bs)
           wants == CeilDiv(data * pct, 100)
           s == FecEncode(length, bs, pct, least)
<1>1. data \in Nat \ {0}
  <2>1. data \in Nat /\ length <= data * bs
    BY CeilIs
  <2>2. 0 * bs = 0
    OBVIOUS
  <2> HIDE DEF data
  <2> QED  BY <2>1, <2>2
<1>2. s.data = data /\ s.shards = data + (IF wants < least /\ pct # 0 THEN least ELSE wants)
  BY DEF FecEncode
<1> HIDE DEF data, s
<1>3. data * pct \in Nat
  BY <1>1
<1>4. wants \in Nat
  BY <1>3, CeilIs
<1> HIDE DEF wants
<1>5. s.shards \in Nat
  BY <1>1, <1>2, <1>4
<1> QED  BY <1>1, <1>2, <1>5 DEF data, s

LEMMA FecIs ==
  ASSUME NEW length \in Nat \ {0}, NEW bs \in Nat \ {0}, NEW pct \in 0..255, NEW least \in 0..2
  PROVE  Coding(length, bs, pct, least)
<1> DEFINE data == CeilDiv(length, bs)
           wants == CeilDiv(data * pct, 100)
           lifted == wants < least /\ pct # 0
           q == (100 * least) \div data
           s == FecEncode(length, bs, pct, least)
<1>1. data \in Nat \ {0}
  <2>1. data \in Nat /\ length <= data * bs
    BY CeilIs
  <2>2. 0 * bs = 0
    OBVIOUS
  <2> HIDE DEF data
  <2> QED  BY <2>1, <2>2
<1>2. s = [data |-> data, shards |-> data + (IF lifted THEN least ELSE wants),
           percentage |-> IF lifted THEN q ELSE pct]
  BY DEF FecEncode
<1> HIDE DEF data, s
<1>3. data * pct \in Nat
  BY <1>1
<1>4. wants \in Nat /\ (wants - 1) * 100 < data * pct /\ data * pct <= wants * 100
  BY <1>3, CeilIs
<1> HIDE DEF wants
<1>5. CASE lifted
  <2>1. wants <= 1 /\ pct >= 1 /\ least \in 1..2 /\ wants < least
    BY <1>4, <1>5
  <2>2. data * pct >= data
    BY <1>1, <2>1
  <2>3. data <= 100
    BY <1>1, <1>3, <1>4, <2>1, <2>2
  <2>4. q \in Nat /\ q * data <= 100 * least /\ 100 * least < (q + 1) * data
    BY <1>1
  <2> HIDE DEF q
  <2>5. data * q = q * data /\ (q + 1) * data = q * data + data /\ q * data \in Nat
    BY <1>1, <2>4
  <2>6. (least - 1) * 100 < data * q /\ data * q <= least * 100 /\ data * q \in Nat
    BY <1>1, <2>3, <2>4, <2>5
  <2>7. CeilDiv(data * q, 100) = least
    BY <2>6, CeilUnique
  <2>8. q <= q * data
    BY <1>1, <2>4
  <2>9. q <= 200
    BY <2>4, <2>5, <2>8
  <2>10. s.data = data /\ s.shards = data + least /\ s.percentage = q
    BY <1>2, <1>5
  <2>11. pct # 0
    BY <2>1
  <2> HIDE DEF lifted
  <2>12. s.shards - s.data = CeilDiv(s.data * s.percentage, 100)
    BY <1>1, <2>7, <2>10
  <2>13. s.shards <= 255 /\ s.data <= 255 /\ s.percentage < 256 /\ s.shards \in Nat
    BY <1>1, <2>3, <2>4, <2>9, <2>10
  <2> QED  BY <1>1, <2>10, <2>11, <2>12, <2>13 DEF Coding, s, data
<1>6. CASE ~lifted
  <2>1. s.data = data /\ s.shards = data + wants /\ s.percentage = pct
    BY <1>2, <1>6
  <2>2. s.shards - s.data = CeilDiv(s.data * s.percentage, 100)
    BY <1>1, <1>4, <2>1 DEF wants
  <2>3. pct = 0 => s.shards = s.data
    <3> SUFFICES ASSUME pct = 0 PROVE wants = 0
      BY <1>1, <2>1
    <3>1. data * pct = 0
      BY <1>1
    <3> QED  BY <1>4, <3>1
  <2>4. ASSUME pct # 0, s.data * (100 + pct) <= 25500
        PROVE  s.shards <= 255 /\ s.data <= 255 /\ s.percentage < 256
    <3>1. data * (100 + pct) = 100 * data + data * pct
      BY <1>1
    <3> QED  BY <1>1, <1>3, <1>4, <2>1, <2>4, <3>1
  <2>5. s.shards \in Nat
    BY <1>1, <1>4, <2>1
  <2> QED  BY <1>1, <2>1, <2>2, <2>3, <2>4, <2>5 DEF Coding, s, data
<1> QED  BY <1>5, <1>6

-----------------------------------------------------------------------------
StreamTyped ==
  stream # NoConfig =>
    stream \in [packetsize : PacketSizes, percentage : Percentages, minimum : MinParities,
                cipher : BOOLEAN]

(* A frame is cut into shards, each block but the last into as many.       *)
Bytes == BlockSize(stream.packetsize)
Each == cut.aligned \div Bytes
WellCut ==
  /\ stream # NoConfig /\ stream.packetsize > 16
  /\ cut.size \in Nat \ {0} /\ Each \in Nat \ {0}
  /\ cut.aligned = Each * Bytes /\ cut.percentage \in 0..255
  /\ (cut.blocks - 1) * (Each * Bytes) < cut.size /\ cut.size <= cut.blocks * (Each * Bytes)
  /\ cut.percentage # 0 => Each * (100 + cut.percentage) <= 25500
  /\ cut.last = cut.size - (CeilDiv(cut.size, Bytes) - 1) * Bytes - PacketHeader
FrameCut ==
  /\ cut.blocks \in 0..4 /\ "blocks" \in DOMAIN cut
  /\ cut.blocks > 0 => WellCut

(* The packets of the blocks sent so far are counted.                      *)
InFlight ==
  /\ block \in 0..cut.blocks /\ {seq, lowseq, packets} \subseteq Nat
  /\ block < cut.blocks => packets = block * Each
  /\ cut.blocks = 0 => sent = NoBlock
  /\ frames \in Nat /\ (stream = NoConfig => frames = 0)
IvsCount == iv \in Nat /\ spent = iv

(* The slots of a block of audio hold the packets from its first on.       *)
Collected ==
  /\ audioSeq \in 0..(SeqWrap - 1) /\ slots \in [0..3 -> Nat] /\ base \in Nat
  /\ \A k \in 0..3 : k < (audioSeq % 4) => slots[k] = (audioSeq - (audioSeq % 4)) + k
  /\ (audioSeq % 4) > 0 => base = audioSeq - (audioSeq % 4)

PacketInv ==
  /\ StreamTyped /\ FrameCut /\ InFlight /\ IvsCount /\ Collected
  /\ BlockIsDecodable /\ FrameIsWhole /\ IvsAreFresh /\ ParityOfItsBlock

LEMMA FramesDoArrive == PacketInv => FramesArrive
  BY DEF PacketInv, FramesArrive

LEMMA PacketsStart == PacketInit => PacketInv
<1> SUFFICES ASSUME PacketInit PROVE PacketInv
  OBVIOUS
<1> USE DEF PacketInit
<1>1. StreamTyped /\ IvsCount /\ IvsAreFresh
  BY DEF StreamTyped, IvsCount, IvsAreFresh
<1>2. FrameCut /\ InFlight
  BY DEF FrameCut, InFlight
<1>3. Collected
  BY WrapAssumption DEF Collected
<1>4. BlockIsDecodable /\ FrameIsWhole
  BY DEF BlockIsDecodable, FrameIsWhole
<1>5. ParityOfItsBlock
  <2>1. 0..3 = {0 + k : k \in 0..3}
    OBVIOUS
  <2> QED  BY <2>1 DEF ParityOfItsBlock
<1> QED  BY <1>1, <1>2, <1>3, <1>4, <1>5 DEF PacketInv

LEMMA AudioKeeps == ASSUME PacketInv, SendAudio PROVE PacketInv'
<1> DEFINE slot == audioSeq % 4
<1>1. /\ audioSeq \in 0..(SeqWrap - 1) /\ slots \in [0..3 -> Nat] /\ base \in Nat
      /\ \A k \in 0..3 : k < slot => slots[k] = (audioSeq - slot) + k
      /\ slot > 0 => base = audioSeq - slot
      /\ SeqWrap \in Nat /\ SeqWrap > 0 /\ SeqWrap % 4 = 0
  BY WrapAssumption DEF PacketInv, Collected
<1>2. /\ slots' = [slots EXCEPT ![slot] = audioSeq]
      /\ audioSeq' = (audioSeq + 1) % SeqWrap
      /\ base' = IF slot = 0 THEN audioSeq ELSE base
      /\ parity' = IF (audioSeq + 1) % 4 = 0
                   THEN [base |-> base', shards |-> {slots'[k] : k \in 0..3}] ELSE parity
      /\ UNCHANGED videoVars
  BY DEF SendAudio
<1>3. slot \in 0..3 /\ audioSeq \in Nat /\ audioSeq >= slot
  BY <1>1
<1>4. slot = 3 <=> (audioSeq + 1) % 4 = 0
  BY <1>1
<1>5. slot < 3 => (audioSeq + 1) % 4 = slot + 1 /\ audioSeq + 1 < SeqWrap
  BY <1>1
<1>6. (audioSeq + 1) % SeqWrap = IF audioSeq + 1 = SeqWrap THEN 0 ELSE audioSeq + 1
  <2>1. CASE audioSeq + 1 = SeqWrap
    BY <1>1, <2>1
  <2>2. CASE audioSeq + 1 < SeqWrap
    <3>1. (audioSeq + 1) \div SeqWrap = 0
      BY <1>1, <2>2
    <3> QED  BY <1>1, <2>2, <3>1
  <2> QED  BY <1>1, <2>1, <2>2
<1> HIDE DEF slot
<1>7. /\ base' = audioSeq - slot /\ base' \in Nat /\ slots' \in [0..3 -> Nat]
      /\ \A k \in 0..3 : k <= slot => slots'[k] = (audioSeq - slot) + k
  BY <1>1, <1>2, <1>3
<1>8. Collected'
  <2>1. CASE slot < 3
    <3>1. audioSeq' = audioSeq + 1 /\ audioSeq' % 4 = slot + 1
      BY <1>1, <1>2, <1>5, <1>6, <2>1
    <3>2. audioSeq' \in 0..(SeqWrap - 1)
      BY <1>1, <1>5, <2>1, <3>1
    <3> QED  BY <1>1, <1>3, <1>7, <2>1, <3>1, <3>2 DEF Collected
  <2>2. CASE slot = 3
    <3>1. audioSeq' % 4 = 0 /\ audioSeq' \in 0..(SeqWrap - 1)
      BY <1>1, <1>2, <1>4, <1>6, <2>2
    <3> DEFINE r == audioSeq' % 4
    <3>2. r = 0
      BY <3>1
    <3> HIDE DEF r
    <3>3. (\A k \in 0..3 : ~(k < r)) /\ ~(r > 0)
      BY <3>2
    <3> QED  BY <1>7, <3>1, <3>3 DEF Collected, r
  <2> QED  BY <1>3, <2>1, <2>2
<1>9. ParityOfItsBlock'
  <2>1. CASE slot = 3
    <3>1. parity'.base = base' /\ parity'.shards = {slots'[k] : k \in 0..3}
      BY <1>2, <1>4, <2>1
    <3>2. \A k \in 0..3 : slots'[k] = base' + k
      BY <1>3, <1>7, <2>1
    <3>3. {slots'[k] : k \in 0..3} = {base' + k : k \in 0..3}
      BY <3>2
    <3> QED  BY <3>1, <3>3 DEF ParityOfItsBlock
  <2>2. CASE slot # 3
    <3>1. parity' = parity
      BY <1>2, <1>4, <2>2
    <3> QED  BY <3>1 DEF PacketInv, ParityOfItsBlock
  <2> QED  BY <2>1, <2>2
<1>10. UNCHANGED <<stream, cut, block, seq, lowseq, iv, sent, packets, spent, reused, frames>>
  BY <1>2 DEF videoVars
<1>11. StreamTyped' /\ InFlight' /\ IvsCount' /\ IvsAreFresh'
  BY <1>10 DEF PacketInv, StreamTyped, InFlight, Each, Bytes, IvsCount, IvsAreFresh
<1>12. FrameCut'
  BY <1>10 DEF PacketInv, FrameCut, WellCut, Bytes, Each
<1>13. BlockIsDecodable' /\ FrameIsWhole'
  BY <1>10 DEF PacketInv, BlockIsDecodable, FrameIsWhole, Idle
<1> QED  BY <1>8, <1>9, <1>11, <1>12, <1>13 DEF PacketInv

(* What a step leaves as it is.                                            *)
LEMMA AudioRests ==
  ASSUME PacketInv, UNCHANGED audioVars
  PROVE  Collected' /\ ParityOfItsBlock'
  BY DEF audioVars, PacketInv, Collected, ParityOfItsBlock

(* No initialization vector is used twice.                                 *)
LEMMA IvsKept ==
  ASSUME PacketInv, NEW n \in Nat, UseIvs(n)
  PROVE  IvsCount' /\ IvsAreFresh'
<1>1. iv \in Nat /\ spent = iv /\ ~reused
  BY DEF PacketInv, IvsCount, IvsAreFresh
<1>2. CASE stream.cipher
  <2>1. /\ iv' = iv + n
        /\ spent' = IF iv + n > spent THEN iv + n ELSE spent
    BY <1>2 DEF UseIvs
  <2>2. reused' = (reused \/ iv < spent)
    BY <1>2 DEF UseIvs
  <2>3. ~(reused \/ iv < spent)
    BY <1>1
  <2>4. ~reused'
    BY <2>2, <2>3
  <2> QED  BY <1>1, <2>1, <2>4 DEF IvsCount, IvsAreFresh
<1>3. CASE ~stream.cipher
  BY <1>1, <1>3 DEF UseIvs, IvsCount, IvsAreFresh
<1> QED  BY <1>2, <1>3

LEMMA ChooseKeeps == ASSUME PacketInv, ChooseStream PROVE PacketInv'
<1>1. /\ stream = NoConfig
      /\ UNCHANGED <<cut, block, seq, lowseq, iv, sent, packets, spent, reused, frames, audioVars>>
  BY DEF ChooseStream
<1>2. StreamTyped'
  BY DEF ChooseStream, StreamTyped
<1>3. cut.blocks = 0 /\ sent = NoBlock /\ FrameCut /\ InFlight /\ IvsCount /\ IvsAreFresh
  BY <1>1 DEF PacketInv, FrameCut, WellCut, InFlight
<1>4. FrameCut'
  BY <1>1, <1>3 DEF FrameCut
<1>5. InFlight'
  BY <1>1, <1>3 DEF InFlight
<1>6. BlockIsDecodable' /\ FrameIsWhole' /\ IvsCount' /\ IvsAreFresh'
  BY <1>1, <1>3 DEF BlockIsDecodable, FrameIsWhole, IvsCount, IvsAreFresh
<1> QED  BY <1>1, <1>2, <1>4, <1>5, <1>6, AudioRests DEF PacketInv

LEMMA ThrowKeeps == ASSUME PacketInv, Throw PROVE PacketInv'
<1>1. /\ cut' = [cut EXCEPT !.blocks = 0] /\ block' = 0 /\ packets' = 0 /\ sent' = NoBlock
      /\ UNCHANGED <<stream, seq, lowseq, frames, audioVars>>
  BY DEF Throw
<1>2. PICK n \in {0, 1} : UseIvs(n)
  BY DEF Throw
<1>3. IvsCount' /\ IvsAreFresh'
  BY <1>2, IvsKept
<1>4. "blocks" \in DOMAIN cut /\ StreamTyped /\ InFlight
  BY DEF PacketInv, FrameCut
<1>5. cut'.blocks = 0 /\ "blocks" \in DOMAIN cut'
  BY <1>1, <1>4
<1>6. FrameCut' /\ StreamTyped'
  BY <1>1, <1>4, <1>5 DEF FrameCut, StreamTyped
<1>7. InFlight'
  BY <1>1, <1>4, <1>5 DEF InFlight
<1>8. BlockIsDecodable' /\ FrameIsWhole'
  BY <1>1 DEF BlockIsDecodable, FrameIsWhole
<1> QED  BY <1>1, <1>3, <1>6, <1>7, <1>8, AudioRests DEF PacketInv

(* The stream of a client.                                                 *)
LEMMA StreamIs ==
  ASSUME PacketInv, stream # NoConfig
  PROVE  /\ stream.packetsize \in Int /\ stream.percentage \in 1..255
         /\ stream.minimum \in Nat
         /\ stream.packetsize > 16 => Bytes \in Nat /\ Bytes > 32
         /\ Bytes = BlockSize(stream.packetsize)
<1>1. /\ stream.packetsize \in PacketSizes /\ stream.percentage \in Percentages
      /\ stream.minimum \in MinParities
  BY DEF PacketInv, StreamTyped
<1>2. /\ stream.packetsize \in Int /\ stream.percentage \in 1..255
      /\ stream.minimum \in Nat
  BY <1>1, SizesAssumption
<1> QED  BY <1>2 DEF Bytes, BlockSize, RtpHeader

LEMMA TakeKeeps ==
  ASSUME PacketInv, NEW payload \in Payloads, TakeFrame(payload) PROVE PacketInv'
<1> DEFINE bs == BlockSize(stream.packetsize)
           size == OnWire(payload, stream.packetsize)
           needed == BlocksNeeded(size, stream.percentage, bs)
           blocks == Least(needed, MaxBlocks)
           each == CeilDiv(size \div blocks, bs)
           percentage == IF needed > MaxBlocks THEN 0 ELSE stream.percentage
           aligned == AlignedSize(size, blocks, bs)
           last == LastPayloadLen(payload, stream.packetsize)
<1>1. /\ stream # NoConfig /\ stream.packetsize > 16
      /\ cut' = [payload |-> payload, size |-> size, blocks |-> blocks,
                 percentage |-> percentage, aligned |-> aligned, last |-> last]
      /\ block' = 0 /\ seq' = lowseq /\ packets' = 0 /\ sent' = NoBlock
      /\ frames' = frames + 1
      /\ UNCHANGED <<stream, lowseq, iv, spent, reused, audioVars>>
  BY DEF TakeFrame, NvHeader
<1>2. /\ stream.packetsize \in Nat /\ stream.packetsize > 16 /\ stream.percentage \in 1..255
      /\ bs \in Nat /\ bs > 32 /\ Bytes = bs
  BY <1>1, StreamIs
<1>3. payload \in Nat \ {0}
  BY SizesAssumption
<1>4. /\ size \in Nat \ {0} /\ CeilDiv(size, bs) \in Nat \ {0}
      /\ size = CeilDiv(size, bs) * bs \/ size > (CeilDiv(size, bs) - 1) * bs + 32
      /\ last = size - (CeilDiv(size, bs) - 1) * bs - PacketHeader
  BY <1>2, <1>3, WireIs
<1>5. aligned = each * bs
  BY DEF AlignedSize
<1> HIDE DEF bs, size, last, aligned
<1>6. /\ needed \in Nat \ {0} /\ blocks \in 1..4 /\ each \in Nat \ {0}
      /\ (blocks - 1) * (each * bs) < size /\ size <= blocks * (each * bs)
      /\ needed <= 4 => each * (100 + stream.percentage) <= 25500
  <2>1. size \in Nat \ {0} /\ bs \in Nat /\ bs > 32 /\ stream.percentage \in 1..255
    BY <1>2, <1>4
  <2>2. LET n == CeilDiv(size, bs) IN size = n * bs \/ size > (n - 1) * bs + 32
    BY <1>4
  <2>3. CutInto(size, stream.percentage, bs)
    BY <2>1, <2>2, CutIs
  <2> QED  BY <2>3 DEF CutInto
<1> HIDE DEF needed, blocks, each
<1>7. /\ percentage \in 0..255
      /\ percentage # 0 => each * (100 + percentage) <= 25500
  BY <1>2, <1>6 DEF MaxBlocks
<1> HIDE DEF percentage
<1>8. /\ cut'.size = size /\ cut'.blocks = blocks /\ cut'.percentage = percentage
      /\ cut'.aligned = aligned /\ cut'.last = last /\ "blocks" \in DOMAIN cut'
  BY <1>1
<1>9. Bytes' = bs /\ stream' = stream
  BY <1>1, <1>2 DEF Bytes
<1>10. Each' = each
  <2>1. (each * bs) \div bs = each
    BY <1>2, <1>6
  <2> QED  BY <1>5, <1>8, <1>9, <2>1 DEF Each
<1>11. FrameCut'
  BY <1>1, <1>4, <1>5, <1>6, <1>7, <1>8, <1>9, <1>10 DEF FrameCut, WellCut
<1>12. StreamTyped' /\ IvsCount' /\ IvsAreFresh'
  BY <1>1 DEF PacketInv, StreamTyped, IvsCount, IvsAreFresh
<1>13. InFlight'
  <2>1. 0 * each = 0 /\ seq' \in Nat /\ lowseq' \in Nat /\ frames' \in Nat
    BY <1>1, <1>6 DEF PacketInv, InFlight
  <2> QED  BY <1>1, <1>6, <1>8, <1>10, <2>1 DEF InFlight
<1>14. BlockIsDecodable' /\ FrameIsWhole'
  BY <1>1 DEF BlockIsDecodable, FrameIsWhole
<1> QED  BY <1>1, <1>11, <1>12, <1>13, <1>14, AudioRests DEF PacketInv

LEMMA SendKeeps == ASSUME PacketInv, SendBlock PROVE PacketInv'
<1> DEFINE bs == BlockSize(stream.packetsize)
           length == BlockLength(cut, block)
           s == FecEncode(length, bs, cut.percentage, stream.minimum)
<1>1. /\ block # cut.blocks
      /\ sent' = [data |-> s.data, shards |-> s.shards, percentage |-> s.percentage,
                  index |-> block, blocks |-> cut.blocks, seq |-> seq]
      /\ packets' = packets + s.data /\ UseIvs(s.shards)
      /\ block' = block + 1 /\ seq' = seq + s.shards
      /\ lowseq' = IF block + 1 = cut.blocks THEN seq' ELSE lowseq
      /\ UNCHANGED <<stream, cut, frames, audioVars>>
  BY DEF SendBlock, Idle
<1>2. /\ block \in Nat /\ block < cut.blocks /\ cut.blocks \in 1..4 /\ WellCut
      /\ seq \in Nat /\ lowseq \in Nat /\ packets = block * Each /\ frames \in Nat
      /\ (stream = NoConfig => frames = 0) /\ "blocks" \in DOMAIN cut
  BY <1>1 DEF PacketInv, FrameCut, InFlight
<1>3. /\ stream # NoConfig /\ stream.packetsize > 16 /\ cut.size \in Nat \ {0} /\ Each \in Nat \ {0}
      /\ cut.aligned = Each * bs /\ cut.percentage \in 0..255
      /\ (cut.blocks - 1) * (Each * bs) < cut.size /\ cut.size <= cut.blocks * (Each * bs)
      /\ cut.percentage # 0 => Each * (100 + cut.percentage) <= 25500
      /\ cut.last = cut.size - (CeilDiv(cut.size, bs) - 1) * bs - PacketHeader
  BY <1>2 DEF WellCut, Bytes
<1>4. bs \in Nat \ {0} /\ bs > 32 /\ stream.minimum \in Nat /\ Bytes = bs
  BY <1>3, StreamIs
<1> HIDE DEF bs
<1> DEFINE e == Each
<1>5. e = cut.aligned \div bs /\ e \in Nat \ {0}
  BY <1>3, <1>4 DEF Each
<1> HIDE DEF e
<1>6. /\ length \in Nat \ {0} /\ length <= e * bs
      /\ block + 1 # cut.blocks => length = e * bs
      /\ block + 1 = cut.blocks => cut.size = block * (e * bs) + length
  <2>1. length = IF block = cut.blocks - 1 THEN cut.size - block * (e * bs) ELSE e * bs
    BY <1>3 DEF BlockLength, e
  <2> HIDE DEF length
  <2> DEFINE X == e * bs
  <2>2. X \in Nat \ {0}
    BY <1>4, <1>5
  <2>3. (cut.blocks - 1) * X < cut.size /\ cut.size <= cut.blocks * X
    BY <1>3 DEF e
  <2> HIDE DEF X
  <2>4. CASE block = cut.blocks - 1
    <3>1. cut.blocks * X = block * X + X /\ block * X \in Nat
      BY <1>2, <2>2, <2>4
    <3>2. length = cut.size - block * X
      BY <2>1, <2>4 DEF X
    <3>3. block * X < cut.size
      BY <2>3, <2>4
    <3>4. length \in Nat \ {0} /\ length <= X /\ cut.size = block * X + length
      BY <1>3, <2>2, <2>3, <3>1, <3>2, <3>3
    <3> QED  BY <1>2, <2>4, <3>4 DEF X
  <2>5. CASE block # cut.blocks - 1
    BY <1>2, <2>1, <2>2, <2>5 DEF X
  <2> QED  BY <2>4, <2>5
<1> HIDE DEF length
<1>7. /\ s.data = CeilDiv(length, bs) /\ s.data \in Nat \ {0} /\ s.shards \in Nat
      /\ stream.minimum <= 2 =>
           /\ s.shards - s.data = CeilDiv(s.data * s.percentage, 100)
           /\ cut.percentage = 0 => s.percentage = 0 /\ s.shards = s.data
           /\ cut.percentage # 0 /\ s.data * (100 + cut.percentage) <= 25500 =>
                s.shards <= 255 /\ s.data <= 255 /\ s.percentage < 256
           /\ s.percentage # 0 => cut.percentage # 0
  <2>1. length \in Nat \ {0} /\ bs \in Nat \ {0} /\ cut.percentage \in 0..255
        /\ stream.minimum \in Nat
    BY <1>3, <1>4, <1>6
  <2>2. CASE stream.minimum <= 2
    <3>1. stream.minimum \in 0..2
      BY <2>1, <2>2
    <3>2. Coding(length, bs, cut.percentage, stream.minimum)
      BY <2>1, <3>1, FecIs
    <3> QED  BY <3>2 DEF Coding
  <2>3. CASE ~(stream.minimum <= 2)
    <3>1. s.data = CeilDiv(length, bs) /\ s.data \in Nat \ {0} /\ s.shards \in Nat
      BY <2>1, FecCounts
    <3> HIDE DEF s
    <3> QED  BY <2>3, <3>1
  <2> QED  BY <2>2, <2>3
<1> HIDE DEF s
<1>8. (s.data - 1) * bs < length /\ length <= s.data * bs
  BY <1>4, <1>6, <1>7, CeilIs
<1>9. s.data <= e
  <2> SUFFICES ASSUME e <= s.data - 1 PROVE FALSE
    BY <1>5, <1>7
  <2>1. e * bs <= (s.data - 1) * bs
    BY <1>4, <1>5, <1>7
  <2>2. e * bs \in Nat /\ (s.data - 1) * bs \in Int
    BY <1>4, <1>5, <1>7
  <2> QED  BY <1>6, <1>8, <2>1, <2>2
<1>10. cut.percentage # 0 => s.data * (100 + cut.percentage) <= 25500
  <2> SUFFICES ASSUME cut.percentage # 0 PROVE s.data * (100 + cut.percentage) <= 25500
    OBVIOUS
  <2>1. e * (100 + cut.percentage) <= 25500
    BY <1>3 DEF e
  <2>2. s.data * (100 + cut.percentage) <= e * (100 + cut.percentage)
    BY <1>3, <1>5, <1>7, <1>9
  <2>3. e * (100 + cut.percentage) \in Nat /\ s.data * (100 + cut.percentage) \in Nat
    BY <1>3, <1>5, <1>7
  <2> QED  BY <2>1, <2>2, <2>3
<1>11. block + 1 # cut.blocks => s.data = e
  <2> SUFFICES ASSUME block + 1 # cut.blocks PROVE s.data = e
    OBVIOUS
  <2>1. length = e * bs
    BY <1>6
  <2>2. (e - 1) * bs = e * bs - bs /\ e * bs \in Nat
    BY <1>4, <1>5
  <2>3. (e - 1) * bs < length /\ length <= e * bs
    BY <1>4, <2>1, <2>2
  <2>4. CeilDiv(length, bs) = e
    BY <1>4, <1>5, <1>6, <2>3, CeilUnique
  <2> QED  BY <1>7, <2>4
<1>12. block + 1 = cut.blocks => block * e + s.data = CeilDiv(cut.size, bs)
  <2> SUFFICES ASSUME block + 1 = cut.blocks PROVE block * e + s.data = CeilDiv(cut.size, bs)
    OBVIOUS
  <2> DEFINE n == block * e + s.data
  <2> DEFINE k == block * e
             d == s.data
  <2>5. k \in Nat /\ d \in Nat \ {0} /\ k * bs = block * (e * bs)
    BY <1>2, <1>4, <1>5, <1>7
  <2> HIDE DEF k, d
  <2>6. (k + d) * bs = k * bs + d * bs /\ (k + d - 1) * bs = k * bs + (d - 1) * bs
    BY <1>4, <2>5
  <2>1. n \in Nat /\ n * bs = block * (e * bs) + s.data * bs
        /\ (n - 1) * bs = block * (e * bs) + (s.data - 1) * bs
    BY <2>5, <2>6 DEF k, d
  <2> HIDE DEF n
  <2>2. block * (e * bs) \in Nat /\ s.data * bs \in Nat /\ (s.data - 1) * bs \in Nat
    BY <1>2, <1>4, <1>5, <1>7
  <2>3. (n - 1) * bs < cut.size /\ cut.size <= n * bs
    BY <1>6, <1>8, <2>1, <2>2
  <2>4. CeilDiv(cut.size, bs) = n
    BY <1>3, <1>4, <2>1, <2>3, CeilUnique
  <2> QED  BY <2>4 DEF n
<1>13. /\ sent'.data = s.data /\ sent'.shards = s.shards /\ sent'.percentage = s.percentage
       /\ sent'.seq = seq /\ seq' = seq + s.shards /\ cut' = cut /\ stream' = stream
       /\ block' = block + 1 /\ packets' = packets + s.data /\ frames' = frames
       /\ lowseq' = IF block + 1 = cut.blocks THEN seq' ELSE lowseq
  BY <1>1
<1>14. BlockIsDecodable'
  <2>1. stream.minimum <= 2 => s.shards - s.data = (ClientParity(sent))'
    BY <1>7, <1>13 DEF ClientParity
  <2>2. stream.minimum <= 2 /\ s.percentage # 0 => s.shards <= MaxShards
    BY <1>7, <1>10 DEF MaxShards
  <2>3. ASSUME stream.minimum <= 2
        PROVE  ~(TooLarge(cut, BlockSize(stream.packetsize)))' => (FecInfoFits(sent))'
    <3>1. ~(TooLarge(cut, BlockSize(stream.packetsize)))' => e < 1024
      BY <1>5, <1>13 DEF TooLarge, bs
    <3>2. CASE cut.percentage = 0
      BY <1>5, <1>7, <1>9, <1>13, <2>3, <3>1, <3>2 DEF FecInfoFits
    <3>3. CASE cut.percentage # 0
      BY <1>7, <1>10, <1>13, <2>3, <3>3 DEF FecInfoFits
    <3> QED  BY <3>2, <3>3
  <2> QED  BY <1>7, <1>13, <2>1, <2>2, <2>3 DEF BlockIsDecodable
<1>15. FrameIsWhole'
  <2> SUFFICES ASSUME block + 1 = cut.blocks
               PROVE  /\ packets' = CeilDiv(cut.size, bs)
                      /\ cut.last = cut.size - (packets' - 1) * bs - PacketHeader
                      /\ lowseq' = seq'
    BY <1>13 DEF FrameIsWhole, Idle, bs
  <2>1. packets' = CeilDiv(cut.size, bs)
    BY <1>2, <1>12, <1>13 DEF e
  <2> QED  BY <1>3, <1>13, <2>1
<1>16. Each' = Each /\ Bytes' = Bytes
  BY <1>13 DEF Each, Bytes
<1>17. FrameCut'
  BY <1>2, <1>13, <1>16 DEF FrameCut, WellCut
<1>18. InFlight'
  <2>1. packets' \in Nat /\ seq' \in Nat /\ lowseq' \in Nat /\ block' \in 0..cut.blocks
    <3>1. seq' \in Nat /\ lowseq' \in Nat /\ block' \in 0..cut.blocks
      BY <1>2, <1>7, <1>13
    <3>2. block * e \in Nat /\ packets = block * e
      BY <1>2, <1>5 DEF e
    <3>3. packets' \in Nat
      BY <1>7, <1>13, <3>2
    <3> QED  BY <3>1, <3>3
  <2>2. block' < cut.blocks => packets' = block' * Each
    <3> SUFFICES ASSUME block + 1 < cut.blocks PROVE packets + s.data = (block + 1) * e
      BY <1>13 DEF e
    <3>1. s.data = e
      BY <1>2, <1>11
    <3>2. (block + 1) * e = block * e + e
      BY <1>2, <1>5
    <3> QED  BY <1>2, <3>1, <3>2 DEF e
  <2> QED  BY <1>2, <1>13, <1>16, <2>1, <2>2 DEF InFlight
<1>19. StreamTyped' /\ IvsCount' /\ IvsAreFresh'
  <2>1. StreamTyped'
    BY <1>13 DEF PacketInv, StreamTyped
  <2> QED  BY <1>1, <1>7, <2>1, IvsKept
<1> QED  BY <1>1, <1>14, <1>15, <1>17, <1>18, <1>19, AudioRests DEF PacketInv

LEMMA PacketsGoOn == PacketInv /\ [PacketNext]_packetVars => PacketInv'
<1> SUFFICES ASSUME PacketInv, [PacketNext]_packetVars PROVE PacketInv'
  OBVIOUS
<1>1. CASE UNCHANGED packetVars
  <2>1. UNCHANGED <<stream, cut, block, seq, lowseq, iv, sent, packets, spent, reused, frames>>
    BY <1>1 DEF packetVars, videoVars
  <2>2. Collected' /\ ParityOfItsBlock'
    BY <1>1, AudioRests DEF packetVars
  <2>3. StreamTyped' /\ InFlight' /\ IvsCount' /\ IvsAreFresh'
    BY <2>1 DEF PacketInv, StreamTyped, InFlight, Each, Bytes, IvsCount, IvsAreFresh
  <2>4. FrameCut'
    BY <2>1 DEF PacketInv, FrameCut, WellCut, Bytes, Each
  <2>5. BlockIsDecodable' /\ FrameIsWhole'
    BY <2>1 DEF PacketInv, BlockIsDecodable, FrameIsWhole, Idle
  <2> QED  BY <2>2, <2>3, <2>4, <2>5 DEF PacketInv
<1> QED  BY <1>1, ChooseKeeps, TakeKeeps, SendKeeps, ThrowKeeps, AudioKeeps DEF PacketNext
===============================================================================
