------------------------------- MODULE PulseSound --------------------------------
(***************************************************************************)
(* The control of the sound on Linux (platform/linux/audio.cpp) and the    *)
(* capture of a session that uses it (audio.cpp): null sinks are loaded    *)
(* into the PulseAudio server, one of them or the configured sink is made  *)
(* the default, and its monitor is recorded.  The server keeps modules and *)
(* default when the host dies, so the next host must find what is there.   *)
(*                                                                         *)
(* Every call waits for its answer: it is one step, and a connection lost  *)
(* meanwhile leaves the caller waiting.  External: the server and the user.*)
(***************************************************************************)
EXTENDS Naturals, FiniteSets

CONSTANTS
  NullSinks,      (* stereo, 5.1 and 7.1                                    *)
  UserSinks,      (* the devices there are                                  *)
  NoSink,         (* the empty name                                         *)
  MaxShortLists   (* bound: incomplete lists of sinks that are gone by      *)

ASSUME PulseAssumption ==
  /\ NullSinks \cap UserSinks = {} /\ NoSink \notin NullSinks \cup UserSinks
  /\ NullSinks # {} /\ UserSinks # {} /\ MaxShortLists \in Nat

VARIABLES
  modules,     (* external: how many modules of a null sink are loaded      *)
  defaultSink, (* external: the default sink                                *)
  reported,    (* external: the default sink the server tells of            *)
  link,        (* the state of the context                                  *)
  raisedEvent, (* events: the last one not popped                           *)
  call,        (* where the thread that uses the control is                 *)
  sinksLeft,   (* the null sinks it has not come to                         *)
  index,       (* the null sinks whose module it knows                      *)
  virtual,     (* sink.null was given                                       *)
  hostDefault, (* sink.host                                                 *)
  requested,   (* requested_sink                                            *)
  restoring,   (* restore_sink                                              *)
  listening,   (* the sink whose monitor is recorded                        *)
  sinkSetting, (* config::audio.sink                                        *)
  foundDefault,(* history: the default when the control was made            *)
  shortLists,  (* history: how often an incomplete list was gone by         *)
  unrefused    (* history: no call failed since, and nobody else meddled    *)

serverVars == <<modules, defaultSink, reported>>
pulseControlVars == <<sinksLeft, index, virtual, hostDefault, requested, restoring, listening>>
pulseVars ==
  <<serverVars, link, raisedEvent, call, pulseControlVars, sinkSetting, foundDefault, shortLists,
    unrefused>>

-----------------------------------------------------------------------------
(* The server.  A sink that goes is not the default any more.              *)
Present == UserSinks \cup {n \in NullSinks : modules[n] > 0}
Fallback(sink) == IF sink \in NullSinks THEN UserSinks ELSE {sink}
Gone(n) ==
  /\ modules' = [modules EXCEPT ![n] = @ - 1]
  /\ defaultSink' \in IF defaultSink = n /\ modules[n] = 1 THEN UserSinks ELSE {defaultSink}
  /\ reported' = defaultSink'

(* A call that is refused, or whose object is not there any more.          *)
IsRefused == unrefused' = FALSE

(* The connection is lost, with the server or without it.                  *)
Restarted ==
  \/ /\ modules' = [n \in NullSinks |-> 0]
     /\ defaultSink' \in Fallback(defaultSink) /\ reported' = defaultSink'
  \/ UNCHANGED serverVars
LoseLink ==
  /\ link = "ready" /\ link' = "failed" /\ raisedEvent' = "failed" /\ unrefused' = FALSE
  /\ Restarted
  /\ UNCHANGED <<call, pulseControlVars, sinkSetting, foundDefault, shortLists>>

(* Calls that wait for their answer; it does not come from a lost          *)
(* connection.                                                             *)
Asking == {"list", "default", "load", "set", "microphone", "restore", "unload"}
LoseAnswer ==
  /\ link = "ready" /\ call \in Asking
  /\ call' = "waits forever" /\ link' = "failed" /\ raisedEvent' = "failed"
  /\ unrefused' = FALSE
  /\ Restarted
  /\ UNCHANGED <<pulseControlVars, sinkSetting, foundDefault, shortLists>>

(* What is asked of a lost connection without a look at the operation.     *)
Unanswered ==
  /\ link # "ready" /\ call' = "waits forever" /\ unrefused' = FALSE
  /\ UNCHANGED <<serverVars, link, raisedEvent, pulseControlVars>>

-----------------------------------------------------------------------------
(* server_t::init(): the first event says whether there is a connection;   *)
(* one refused at once changes nothing.                                    *)
FreshControl ==
  /\ sinksLeft' = {} /\ index' = {} /\ virtual' = FALSE /\ hostDefault' = NoSink
  /\ requested' = NoSink /\ restoring' = FALSE /\ listening' = NoSink
OpenPulse ==
  /\ call = "none"
  /\ FreshControl
  /\ foundDefault' = defaultSink /\ unrefused' = TRUE /\ reported' = defaultSink
  /\ call' = "init" /\ link' = "connecting" /\ raisedEvent' = "none"
  /\ UNCHANGED <<modules, defaultSink, sinkSetting, shortLists>>
Connect ==
  /\ link = "connecting"
  /\ link' \in {"ready", "failed"} /\ raisedEvent' = link'
  /\ unrefused' = (unrefused /\ link' = "ready")
  /\ UNCHANGED <<serverVars, call, pulseControlVars, sinkSetting, foundDefault, shortLists>>
PulseInitialised ==
  /\ call = "init" /\ raisedEvent # "none" /\ raisedEvent' = "none"
  /\ IF raisedEvent = "failed"
     THEN call' = "unload" /\ sinksLeft' = NullSinks
     ELSE call' = "list" /\ UNCHANGED sinksLeft
  /\ UNCHANGED <<serverVars, link, index, virtual, hostDefault, requested, restoring, listening,
                 sinkSetting, foundDefault, shortLists, unrefused>>

(* sink_info(): which null sinks there are.  Without an operation the      *)
(* control is given up.  An error in the midst of the list rings -1, if    *)
(* it is told with an eol of 0, and 0 at once after it: the waiter gives   *)
(* up, or goes by the sinks it has been told of.                           *)
GiveUpControl == call' = "unload" /\ sinksLeft' = NullSinks /\ UNCHANGED shortLists
ToldOf(sinks) == index' = sinks /\ call' = "default" /\ UNCHANGED sinksLeft
NullSinksThere == {n \in NullSinks : modules[n] > 0}
ListSinks ==
  /\ call = "list"
  /\ \/ link # "ready" /\ GiveUpControl /\ IsRefused /\ UNCHANGED index
     \/ link = "ready" /\ GiveUpControl /\ IsRefused /\ index' \in SUBSET NullSinksThere
     \/ /\ link = "ready" /\ shortLists < MaxShortLists /\ shortLists' = shortLists + 1 /\ IsRefused
        /\ \E sinks \in SUBSET NullSinksThere : ToldOf(sinks)
     \/ link = "ready" /\ ToldOf(NullSinksThere) /\ UNCHANGED <<shortLists, unrefused>>
  /\ UNCHANGED <<serverVars, link, raisedEvent, virtual, hostDefault, requested, restoring,
                 listening, sinkSetting, foundDefault>>
(* get_default_sink_name(): a server without a default gives no name.      *)
AskDefault ==
  /\ call = "default"
  /\ \/ Unanswered
     \/ /\ link = "ready" /\ call' = "load" /\ sinksLeft' = NullSinks
        /\ \/ hostDefault' = reported /\ UNCHANGED unrefused
           \/ hostDefault' = NoSink /\ IsRefused
        /\ UNCHANGED <<serverVars, link, raisedEvent, index, virtual, requested, restoring,
                       listening>>
  /\ UNCHANGED <<sinkSetting, foundDefault, shortLists>>

(* Variant: a null sink is loaded without a look whether it is there.      *)
LoadNullBug(n) ==
  /\ call = "load" /\ link = "ready" /\ n \in sinksLeft /\ sinksLeft' = sinksLeft \ {n}
  /\ modules' = [modules EXCEPT ![n] = @ + 1] /\ index' = index \cup {n}
  /\ UNCHANGED <<defaultSink, reported, link, raisedEvent, call, virtual, hostDefault,
                 requested, restoring, listening, sinkSetting, foundDefault, shortLists, unrefused>>

(* load_null(), for each that was not found.                               *)
LoadNull(n) ==
  /\ call = "load" /\ n \in sinksLeft
  /\ \/ n \notin index /\ Unanswered
     \/ /\ sinksLeft' = sinksLeft \ {n}
        /\ \/ n \in index /\ UNCHANGED <<modules, index, unrefused>>
           \/ /\ n \notin index /\ link = "ready"
              /\ modules' = [modules EXCEPT ![n] = @ + 1] /\ index' = index \cup {n}
              /\ UNCHANGED unrefused
           \/ n \notin index /\ link = "ready" /\ IsRefused /\ UNCHANGED <<modules, index>>
        /\ UNCHANGED <<defaultSink, reported, link, raisedEvent, call, virtual, hostDefault,
                       requested, restoring, listening>>
  /\ UNCHANGED <<sinkSetting, foundDefault, shortLists>>
(* All three, or none is offered.                                          *)
SinksKnown ==
  /\ call = "load" /\ sinksLeft = {}
  /\ call' = "opened" /\ virtual' = (index = NullSinks)
  /\ UNCHANGED <<serverVars, link, raisedEvent, sinksLeft, index, hostDefault, requested,
                 restoring, listening, sinkSetting, foundDefault, shortLists, unrefused>>

-----------------------------------------------------------------------------
(* capture(): the first session chooses the sink, the virtual one if the   *)
(* client does not want the host to play or there is no other.             *)
Usual == IF sinkSetting # NoSink THEN sinkSetting ELSE hostDefault
SinkChoices(playsOnHost) ==
  IF virtual /\ (~playsOnHost \/ Usual = NoSink) THEN NullSinks ELSE {Usual}
Swap(sink, next) ==
  \/ /\ link = "ready" /\ sink \in Present /\ call' = next
     /\ defaultSink' = sink /\ requested' = sink /\ UNCHANGED unrefused
  \/ /\ call' = IF next = "microphone" THEN "deaf" ELSE next
     /\ IsRefused /\ UNCHANGED <<defaultSink, requested>>
ChooseDefault ==
  /\ call = "opened"
  /\ \E playsOnHost \in BOOLEAN : \E sink \in SinkChoices(playsOnHost) :
       /\ restoring' = (hostDefault # sink)
       /\ IF hostDefault # sink THEN Swap(sink, "microphone")
          ELSE call' = "microphone" /\ UNCHANGED <<defaultSink, requested, unrefused>>
  /\ UNCHANGED <<modules, reported, link, raisedEvent, sinksLeft, index, virtual, hostDefault,
                 listening, sinkSetting, foundDefault, shortLists>>

(* Variant: the default is asked for instead.                              *)
SinkHeardBug == IF sinkSetting # NoSink THEN sinkSetting ELSE reported

(* microphone(): the configured sink, else the one swapped to, since the   *)
(* server may still tell of the old one, else the default.                 *)
SinkHeard ==
  IF sinkSetting # NoSink THEN sinkSetting
  ELSE IF requested # NoSink THEN requested ELSE reported
ListenToMonitor ==
  /\ call = "microphone"
  /\ \/ Unanswered
     \/ /\ link = "ready"
        /\ \/ call' = "captures" /\ SinkHeard \in Present /\ listening' = SinkHeard
           \/ call' = "deaf" /\ UNCHANGED listening
        /\ UNCHANGED <<serverVars, link, raisedEvent, sinksLeft, index, virtual, hostDefault,
                       requested, restoring, unrefused>>
  /\ UNCHANGED <<sinkSetting, foundDefault, shortLists>>
(* Another session, or the same one again, finds the sink chosen.          *)
ListenToMonitorAgain ==
  /\ call \in {"captures", "deaf"} /\ call' = "microphone" /\ listening' = NoSink
  /\ UNCHANGED <<serverVars, link, raisedEvent, sinksLeft, index, virtual, hostDefault,
                 requested, restoring, sinkSetting, foundDefault, shortLists, unrefused>>

(* The last reference goes: stop_audio_control(), then ~server_t.          *)
StopControl ==
  /\ call \in {"opened", "captures", "deaf"}
  /\ listening' = NoSink
  /\ IF restoring THEN call' = "restore" /\ UNCHANGED sinksLeft
     ELSE call' = "unload" /\ sinksLeft' = NullSinks
  /\ UNCHANGED <<serverVars, link, raisedEvent, index, virtual, hostDefault, requested,
                 restoring, sinkSetting, foundDefault, shortLists, unrefused>>
SinkBefore == IF hostDefault = NoSink THEN sinkSetting ELSE hostDefault
RestoreDefault ==
  /\ call = "restore" /\ sinksLeft' = NullSinks
  /\ IF SinkBefore # NoSink THEN Swap(SinkBefore, "unload")
     ELSE call' = "unload" /\ UNCHANGED <<defaultSink, requested, unrefused>>
  /\ UNCHANGED <<modules, reported, link, raisedEvent, index, virtual, hostDefault, restoring,
                 listening, sinkSetting, foundDefault, shortLists>>

(* unload_null().                                                          *)
UnloadNull(n) ==
  /\ call = "unload" /\ n \in sinksLeft
  /\ \/ n \in index /\ Unanswered
     \/ /\ sinksLeft' = sinksLeft \ {n}
        /\ \/ n \notin index /\ UNCHANGED <<serverVars, unrefused>>
           \/ n \in index /\ link = "ready" /\ modules[n] > 0 /\ Gone(n) /\ UNCHANGED unrefused
           \/ n \in index /\ link = "ready" /\ IsRefused /\ UNCHANGED serverVars
        /\ UNCHANGED <<link, raisedEvent, call, index, virtual, hostDefault, requested,
                       restoring, listening>>
  /\ UNCHANGED <<sinkSetting, foundDefault, shortLists>>
(* The context tells once that it is terminated, unless it has failed.     *)
Disconnect ==
  /\ call = "unload" /\ sinksLeft = {}
  /\ call' = "ends"
  /\ IF link = "ready" THEN link' = "terminated" /\ raisedEvent' = "terminated"
     ELSE UNCHANGED <<link, raisedEvent>>
  /\ UNCHANGED <<serverVars, pulseControlVars, sinkSetting, foundDefault, shortLists, unrefused>>
EndControl ==
  /\ call = "ends" /\ raisedEvent \in {"terminated", "failed"}
  /\ call' = "none" /\ link' = "none" /\ raisedEvent' = "none" /\ FreshControl
  /\ UNCHANGED <<serverVars, sinkSetting, foundDefault, shortLists, unrefused>>

(* The host dies; get_default_sink_name() also looks into an answer that   *)
(* is not there.                                                           *)
PulseHostDies ==
  /\ call # "none" /\ call' = "none" /\ link' = "none" /\ raisedEvent' = "none" /\ FreshControl
  /\ unrefused' = FALSE
  /\ UNCHANGED <<serverVars, sinkSetting, foundDefault, shortLists>>

(* External: the server tells of the new default; the user chooses another *)
(* one, or unloads a module.                                               *)
ReportDefault ==
  /\ reported # defaultSink /\ reported' = defaultSink
  /\ UNCHANGED <<modules, defaultSink, link, raisedEvent, call, pulseControlVars, sinkSetting,
                 foundDefault, shortLists, unrefused>>
UserMeddles ==
  /\ unrefused' = FALSE
  /\ \/ \E sink \in Present : defaultSink' = sink /\ reported' = sink /\ UNCHANGED modules
     \/ \E n \in NullSinks : modules[n] > 0 /\ Gone(n)
  /\ UNCHANGED <<link, raisedEvent, call, pulseControlVars, sinkSetting, foundDefault, shortLists>>

PulseInit ==
  /\ modules = [n \in NullSinks |-> 0] /\ defaultSink \in UserSinks /\ reported = defaultSink
  /\ link = "none" /\ raisedEvent = "none" /\ call = "none"
  /\ sinksLeft = {} /\ index = {} /\ virtual = FALSE
  /\ hostDefault = NoSink /\ requested = NoSink /\ restoring = FALSE /\ listening = NoSink
  /\ sinkSetting \in UserSinks \cup {NoSink} /\ foundDefault = defaultSink
  /\ shortLists = 0 /\ unrefused = TRUE

PulseNext ==
  \/ LoseLink \/ LoseAnswer \/ OpenPulse \/ Connect \/ PulseInitialised
  \/ ListSinks \/ AskDefault \/ SinksKnown
  \/ \E n \in NullSinks : LoadNull(n) \/ UnloadNull(n)
  \/ ChooseDefault \/ ListenToMonitor \/ ListenToMonitorAgain \/ StopControl \/ RestoreDefault
  \/ Disconnect \/ EndControl \/ PulseHostDies \/ ReportDefault \/ UserMeddles

-----------------------------------------------------------------------------
Places ==
  {"none", "init", "list", "default", "load", "opened", "microphone", "captures", "deaf",
   "restore", "unload", "ends", "waits forever"}
SinkNames == NullSinks \cup UserSinks \cup {NoSink}
PulseTypeOK ==
  /\ modules \in [NullSinks -> Nat]
  /\ defaultSink \in NullSinks \cup UserSinks /\ reported \in NullSinks \cup UserSinks
  /\ link \in {"none", "connecting", "ready", "failed", "terminated"}
  /\ raisedEvent \in {"none", "ready", "failed", "terminated"} /\ call \in Places
  /\ sinksLeft \subseteq NullSinks /\ index \subseteq NullSinks
  /\ hostDefault \in SinkNames /\ requested \in SinkNames
  /\ listening \in SinkNames /\ foundDefault \in SinkNames
  /\ shortLists \in Nat /\ virtual \in BOOLEAN /\ restoring \in BOOLEAN /\ unrefused \in BOOLEAN

(* A null sink is never loaded twice, also when a host that died left it,  *)
(* but for once more each time an incomplete list of sinks was gone by;    *)
(* and the default is a sink there is.                                     *)
NullSinksOnce == (\A n \in NullSinks : modules[n] <= 1 + shortLists) /\ defaultSink \in Present

(* After a run of the host without a failed call no null sink is left, not *)
(* even one of an earlier host that died, but for those loaded twice; and  *)
(* the default is what it was, or a device if it was a null sink.          *)
SinksUnloaded ==
  call = "none" /\ unrefused =>
    /\ \A n \in NullSinks : modules[n] <= shortLists
    /\ defaultSink \in Fallback(foundDefault) \cup {n \in NullSinks : modules[n] > 0}

(* The sink the host swapped to is the one it listens to; without one that *)
(* is configured it is the default, though the server may tell of the old. *)
HearsItsSink ==
  listening # NoSink /\ unrefused =>
    listening = IF sinkSetting = NoSink THEN defaultSink ELSE sinkSetting
===============================================================================
