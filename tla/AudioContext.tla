----------------------------- MODULE AudioContext ------------------------------
(***************************************************************************)
(* The audio control shared by the sessions' capture threads (audio.cpp)   *)
(* and by the display manager, which keeps it while it turns devices off   *)
(* (display_device.cpp, sunshine_audio_context_t).  The first session may  *)
(* change the system's default sink; who drops the last reference puts the *)
(* old one back.                                                           *)
(*                                                                         *)
(* External: the sinks.  The user's own can go with a display and return;  *)
(* the system then falls back to another.  Setting a virtual sink may fail,*)
(* setting another fails while it is away.                                 *)
(***************************************************************************)
EXTENDS Integers, FiniteSets

CONSTANTS
  AudioStreams,          (* sessions                                       *)
  Virtuals,              (* the virtual sinks                              *)
  UserSink, OtherSink,   (* the user's, and the one the system falls to    *)
  AudioSinks,            (* what audio.sink may name, if it is set          *)
  MaxChecks,             (* retry_counter, 15 in the code                  *)
  NoContext

Sinks == Virtuals \cup {UserSink, OtherSink}
Contexts == [control : BOOLEAN, host : Sinks, flag : BOOLEAN, restore : BOOLEAN]

ASSUME AudioAssumption ==
  /\ UserSink # OtherSink /\ Virtuals \cap {UserSink, OtherSink} = {} /\ MaxChecks \in Nat
  /\ AudioSinks \subseteq Sinks
  /\ "display" \notin AudioStreams /\ NoContext \notin Contexts

VARIABLES
  context,    (* audio_ctx_t: control, sink.host, sink_flag, restore_sink   *)
  holders,    (* references of it                                          *)
  sink,       (* external: the system's default sink                       *)
  there,      (* external: the user's sink is                              *)
  phase,      (* where capture() of each session is                        *)
  kept,       (* audio_context_t of the display manager                    *)
  pending,    (* a release is scheduled to be tried again                  *)
  lost,       (* history: putting the sink back failed, it is taken for    *)
              (* the user's since                                          *)
  early,      (* history: a context was given up before its release        *)
  excused     (* history: it was captured while one was being released     *)

contextVars == <<context, holders, sink, there, phase, kept, pending, lost, early, excused>>

-----------------------------------------------------------------------------
(* The shared reference, with what goes with it.                           *)
Shared(c, h, s, l) == [context |-> c, holders |-> h, sink |-> s, lost |-> l]
Now == Shared(context, holders, sink, lost)
ContextBecomes(x) ==
  /\ context' = x.context /\ holders' = x.holders /\ sink' = x.sink
  /\ lost' = /\ x.lost
             /\ x.sink \in Virtuals \/ (x.context # NoContext /\ x.context.host \in Virtuals)

(* start_audio_control(): without a control, or without knowing its sinks, *)
(* there is no audio.                                                      *)
Acquired(x, who) ==
  {Shared(c, x.holders \cup {who}, x.sink, x.lost) :
     c \in IF x.holders # {} THEN {x.context}
           ELSE {[control |-> b, host |-> x.sink, flag |-> FALSE, restore |-> FALSE] : b \in BOOLEAN}}

Settable(s) == s # UserSink \/ there
(* stop_audio_control(), under the lock of the last reference.             *)
Dropped(x, who) ==
  LET last == x.holders = {who}
      back == last /\ x.context.restore
  IN Shared(IF last THEN NoContext ELSE x.context, x.holders \ {who},
            IF back /\ Settable(x.context.host) THEN x.context.host ELSE x.sink,
            x.lost \/ (back /\ ~Settable(x.context.host)))

-----------------------------------------------------------------------------
(* capture() of a session.                                                 *)
Hold(s) ==
  /\ phase[s] = "idle"
  /\ \E x \in Acquired(Now, s) : ContextBecomes(x)
  /\ phase' = [phase EXCEPT ![s] = "held"]
  /\ UNCHANGED <<there, kept, pending, early, excused>>

(* Variant: every session may change the default sink.                     *)
ChooseSinkBug(s) ==
  /\ phase[s] = "held" /\ context.control
  /\ \E want \in {context.host} \cup AudioSinks \cup Virtuals :
       /\ context' = [context EXCEPT !.flag = TRUE, !.restore = context.host # want]
       /\ sink' = IF want # context.host THEN want ELSE sink
  /\ phase' = [phase EXCEPT ![s] = "microphone"]
  /\ UNCHANGED <<holders, lost, there, kept, pending, early, excused>>

(* "Only the first to start a session may change the default sink": to the *)
(* configured one or, unless the client wants the host to play on, to a    *)
(* virtual one.                                                            *)
ChooseSink(s) ==
  /\ phase[s] = "held"
  /\ \/ /\ ~context.control
        /\ phase' = [phase EXCEPT ![s] = "deaf"] /\ UNCHANGED <<context, sink>>
     \/ /\ context.control /\ context.flag
        /\ phase' = [phase EXCEPT ![s] = "microphone"] /\ UNCHANGED <<context, sink>>
     \/ /\ context.control /\ ~context.flag
        /\ \E want \in {context.host} \cup AudioSinks \cup Virtuals :
             LET changes == want # context.host IN
             /\ context' = [control |-> TRUE, host |-> context.host, flag |-> TRUE,
                            restore |-> changes]
             /\ \/ /\ sink' = IF changes THEN want ELSE sink
                   /\ phase' = [phase EXCEPT ![s] = "microphone"]
                \/ /\ changes /\ sink' = sink
                   /\ phase' = [phase EXCEPT ![s] = "deaf"]
  /\ UNCHANGED <<holders, lost, there, kept, pending, early, excused>>

(* microphone(); samples are captured until they cannot be any more.  A    *)
(* failed start and a failed capture both wait for the end of the session. *)
Microphone(s) ==
  /\ phase[s] = "microphone" /\ phase' = [phase EXCEPT ![s] = "sampling"]
  /\ UNCHANGED <<context, holders, sink, there, kept, pending, lost, early, excused>>
Fail(s) ==
  /\ phase[s] \in {"microphone", "sampling"} /\ phase' = [phase EXCEPT ![s] = "deaf"]
  /\ UNCHANGED <<context, holders, sink, there, kept, pending, lost, early, excused>>

(* The session's shutdown event was raised: the encoder thread is joined   *)
(* and the reference dropped.                                              *)
Leave(s) ==
  /\ phase[s] \in {"sampling", "deaf"}
  /\ ContextBecomes(Dropped(Now, s))
  /\ phase' = [phase EXCEPT ![s] = "idle"]
  /\ UNCHANGED <<there, kept, pending, early, excused>>

-----------------------------------------------------------------------------
(* The display manager turns devices off: capture(), where isCaptured() is *)
(* false.  A retry of the last release stays scheduled.                    *)
NotKept == [held |-> FALSE]
Capture ==
  /\ (kept.held => kept.released)
  /\ \E x \in Acquired(IF kept.held THEN Dropped(Now, "display") ELSE Now, "display") :
       ContextBecomes(x)
  /\ kept' = [held |-> TRUE, released |-> FALSE, checks |-> MaxChecks]
  /\ excused' = kept.held
  /\ UNCHANGED <<there, phase, pending, early>>

Available == context.control /\ Settable(context.host)
(* The task of release(), at once and again.                               *)
TryRelease ==
  IF kept.held /\ ~Available /\ kept.checks > 0
  THEN /\ kept' = [held |-> TRUE, released |-> TRUE, checks |-> kept.checks - 1]
       /\ pending' = TRUE /\ UNCHANGED <<context, holders, sink, lost>>
  ELSE /\ IF kept.held THEN ContextBecomes(Dropped(Now, "display"))
          ELSE UNCHANGED <<context, holders, sink, lost>>
       /\ kept' = NotKept /\ pending' = FALSE

ReleaseCaptured ==
  /\ kept.held /\ ~kept.released
  /\ TryRelease
  /\ UNCHANGED <<there, phase, early, excused>>

(* Variant: the task goes on after it is done.                             *)
RetryReleaseBug ==
  /\ pending /\ pending' = TRUE
  /\ kept' = NotKept
  /\ IF kept.held THEN ContextBecomes(Dropped(Now, "display")) ELSE UNCHANGED <<context, holders, sink, lost>>
  /\ early' = (early \/ (kept.held /\ ~kept.released /\ ~excused))
  /\ UNCHANGED <<there, phase, excused>>

RetryRelease ==
  /\ pending /\ TryRelease
  /\ early' = (early \/ (kept.held /\ ~kept.released /\ ~excused))
  /\ UNCHANGED <<there, phase, excused>>

(* The device of the user's sink is turned off and on.                     *)
SinkGoes ==
  /\ there /\ there' = FALSE
  /\ sink' = IF sink = UserSink THEN OtherSink ELSE sink
  /\ UNCHANGED <<context, holders, phase, kept, pending, lost, early, excused>>
SinkReturns ==
  /\ ~there /\ there' = TRUE
  /\ UNCHANGED <<context, holders, sink, phase, kept, pending, lost, early, excused>>

AudioInit ==
  /\ context = NoContext /\ holders = {} /\ sink = UserSink /\ there = TRUE
  /\ phase = [s \in AudioStreams |-> "idle"]
  /\ kept = NotKept /\ pending = FALSE
  /\ lost = FALSE /\ early = FALSE /\ excused = FALSE

AudioNext ==
  \/ \E s \in AudioStreams : Hold(s) \/ ChooseSink(s) \/ Microphone(s) \/ Fail(s) \/ Leave(s)
  \/ Capture \/ ReleaseCaptured \/ RetryRelease \/ SinkGoes \/ SinkReturns

-----------------------------------------------------------------------------
AudioTypeOK ==
  /\ (context = NoContext) = (holders = {}) /\ holders \subseteq AudioStreams \cup {"display"}
  /\ sink \in Sinks
  /\ {there, pending, lost, early, excused} \subseteq BOOLEAN
  /\ phase \in [AudioStreams -> {"idle", "held", "microphone", "sampling", "deaf"}]
  /\ kept = NotKept \/ (kept.checks \in 0..MaxChecks /\ "display" \in holders)

(* A virtual sink is the default only while someone is bound to put the    *)
(* old one back, or if that was tried in vain.                             *)
SinkGivenBack ==
  sink \in Virtuals => lost \/ (context # NoContext /\ context.restore)

(* A context captured when no other was being released stays until its own *)
(* release.                                                                *)
KeptUntilReleased == ~early

SoundGivenBack == SinkGivenBack /\ KeptUntilReleased
===============================================================================
