-------------------------- MODULE LaunchHandshake --------------------------
(***************************************************************************)
(* The hand-over of a launch from the HTTPS server to a streaming session. *)
(* /launch and /resume raise a launch_session_t in the one-place event     *)
(* rtsp_server_t::launch_event and arm raised_timer; the RTSP thread gives *)
(* the pending launch to every connection it accepts and discards it when  *)
(* the timer expires; the control thread clears it when the client of its  *)
(* session connects.  None of the three holds a lock across its steps: the *)
(* event and the timer are each used from all three threads.               *)
(*                                                                         *)
(* Each action is one use of the event, the timer or the session list.     *)
(***************************************************************************)
EXTENDS Naturals, FiniteSets

CONSTANTS
  Launches,    (* launch_session_t objects; each has an id of its own      *)
  Conns,       (* RTSP connections that may carry an ANNOUNCE              *)
  NoLaunch     (* a null launch_session_t pointer                          *)

ASSUME LaunchAssumption == NoLaunch \notin Launches

VARIABLES
  event,       (* launch_event                                             *)
  raising,     (* the launch session_raise() is at work on                 *)
  raised,      (* it is in the event, the timer is not armed yet           *)
  timer,       (* the launch whose wait on raised_timer is outstanding     *)
  queued,      (* launches whose wait is over, its handler not run yet:    *)
               (* cancel() no longer reaches it, it runs without error     *)
  stage,       (* how far the session of a connection has come             *)
  launchOf,    (* the launch a connection was given                        *)
  fate,        (* what became of each launch                               *)
  fired        (* history: launches whose own wait on the timer ended      *)

vars == <<event, raising, raised, timer, queued, stage, launchOf, fate, fired>>

Stages == {"new", "open", "starting", "waiting", "cancelling", "popping",
           "established", "closed"}

Maybe == Launches \cup {NoLaunch}

TypeOK ==
  /\ event \in Maybe /\ raising \in Maybe /\ timer \in Maybe
  /\ raised \in BOOLEAN
  /\ queued \subseteq Launches /\ fired \subseteq Launches
  /\ stage \in [Conns -> Stages]
  /\ launchOf \in [Conns -> Maybe]
  /\ fate \in [Launches -> {"new", "refused", "raised", "discarded", "cleared"}]

Init ==
  /\ event = NoLaunch /\ raising = NoLaunch /\ timer = NoLaunch
  /\ raised = FALSE
  /\ queued = {} /\ fired = {}
  /\ stage = [c \in Conns |-> "new"]
  /\ launchOf = [c \in Conns |-> NoLaunch]
  /\ fate = [l \in Launches |-> "new"]

(* cmd_announce runs on the RTSP thread and keeps it from other handlers.  *)
RtspFree == \A c \in Conns : stage[c] # "starting"

(* get_session() holds _sessions until the launch is cleared.              *)
CtlFree == \A c \in Conns : stage[c] \notin {"cancelling", "popping"}

Advance(c, to) == stage' = [stage EXCEPT ![c] = to]

----------------------------------------------------------------------------
(* The HTTPS thread: session_raise().                                      *)

(* A launch is pending: the new one is dropped, its client told 200.       *)
Refuse(l) ==
  /\ raising = NoLaunch /\ fate[l] = "new"
  /\ event # NoLaunch
  /\ fate' = [fate EXCEPT ![l] = "refused"]
  /\ UNCHANGED <<event, raising, raised, timer, queued, stage, launchOf, fired>>

(* Mutant: the check for a pending launch is dropped.                      *)
UncheckedBug == TRUE

SeesNonePending == event = NoLaunch

Accepted(l) ==
  /\ raising = NoLaunch /\ fate[l] = "new"
  /\ SeesNonePending
  /\ raising' = l
  /\ fate' = [fate EXCEPT ![l] = "raised"]
  /\ UNCHANGED <<event, raised, timer, queued, stage, launchOf, fired>>

(* event_t::raise overwrites what is there.                                *)
Raise ==
  /\ raising # NoLaunch /\ ~raised
  /\ event' = raising
  /\ raised' = TRUE
  /\ UNCHANGED <<raising, timer, queued, stage, launchOf, fate, fired>>

(* Mutant: the timer is never armed.                                       *)
ArmForgottenBug ==
  /\ raised
  /\ raising' = NoLaunch /\ raised' = FALSE
  /\ UNCHANGED <<event, timer, queued, stage, launchOf, fate, fired>>

(* expires_after() cancels an outstanding wait, never a queued handler.    *)
Arm ==
  /\ raised
  /\ timer' = raising
  /\ raising' = NoLaunch /\ raised' = FALSE
  /\ UNCHANGED <<event, queued, stage, launchOf, fate, fired>>

----------------------------------------------------------------------------
(* The RTSP thread: the io_context.                                        *)

(* The reactor finds the wait over and queues its handler.                 *)
TimerFires ==
  /\ timer # NoLaunch /\ RtspFree
  /\ queued' = queued \cup {timer}
  /\ fired' = fired \cup {timer}
  /\ timer' = NoLaunch
  /\ UNCHANGED <<event, raising, raised, stage, launchOf, fate>>

(* Mutant: the handler uses what it popped without looking for null.       *)
DiscardedNullBug(e) ==
  fate' = [l \in Launches \cup {e} |-> IF l = e THEN "discarded" ELSE fate[l]]

Discarded(e) ==
  fate' = [l \in Launches |-> IF l = e THEN "discarded" ELSE fate[l]]

(* The handler pops whatever is pending.                                   *)
Expire(l) ==
  /\ l \in queued /\ RtspFree
  /\ queued' = queued \ {l}
  /\ event' = NoLaunch
  /\ Discarded(event)
  /\ UNCHANGED <<raising, raised, timer, stage, launchOf, fired>>

(* handle_accept(): the connection gets the pending launch, or is closed.  *)
Accept(c) ==
  /\ stage[c] = "new" /\ RtspFree
  /\ launchOf' = [launchOf EXCEPT ![c] = event]
  /\ Advance(c, IF event = NoLaunch THEN "closed" ELSE "open")
  /\ UNCHANGED <<event, raising, raised, timer, queued, fate, fired>>

(* The client closes it, or sends what the server refuses.                 *)
Drop(c) ==
  /\ stage[c] = "open" /\ RtspFree
  /\ Advance(c, "closed")
  /\ UNCHANGED <<event, raising, raised, timer, queued, launchOf, fate, fired>>

(* cmd_announce: the session is allocated for the connection's launch ...  *)
Announce(c) ==
  /\ stage[c] = "open" /\ RtspFree
  /\ Advance(c, "starting")
  /\ UNCHANGED <<event, raising, raised, timer, queued, launchOf, fate, fired>>

(* ... and start() puts it in the control server's list.                   *)
Listed(c) ==
  /\ stage[c] = "starting" /\ CtlFree
  /\ Advance(c, "waiting")
  /\ UNCHANGED <<event, raising, raised, timer, queued, launchOf, fate, fired>>

----------------------------------------------------------------------------
(* The control thread.                                                     *)

(* The client stayed silent for ping_timeout.                              *)
GiveUp(c) ==
  /\ stage[c] = "waiting" /\ CtlFree
  /\ Advance(c, "closed")
  /\ UNCHANGED <<event, raising, raised, timer, queued, launchOf, fate, fired>>

(* Mutant: whatever is pending is cleared.                                 *)
IdIgnoredBug(c) == TRUE

IdMatches(c) == event = launchOf[c]

(* Mutant: the timer is cancelled before the ids are compared.             *)
ConnectCancelsBug(c) ==
  /\ stage[c] = "waiting" /\ CtlFree
  /\ timer' = NoLaunch
  /\ Advance(c, IF event # NoLaunch /\ IdMatches(c) THEN "popping"
                ELSE "established")
  /\ UNCHANGED <<event, raising, raised, queued, launchOf, fate, fired>>

(* get_session() found the session; session_clear() views the event.       *)
Connect(c) ==
  /\ stage[c] = "waiting" /\ CtlFree
  /\ Advance(c, IF event # NoLaunch /\ IdMatches(c) THEN "cancelling"
                ELSE "established")
  /\ UNCHANGED <<event, raising, raised, timer, queued, launchOf, fate, fired>>

(* raised_timer.cancel()                                                   *)
ClearCancel(c) ==
  /\ stage[c] = "cancelling"
  /\ timer' = NoLaunch
  /\ Advance(c, "popping")
  /\ UNCHANGED <<event, raising, raised, queued, launchOf, fate, fired>>

(* Mutant: the launch is viewed and left in the event.                     *)
ClearViewBug(c) ==
  /\ stage[c] = "popping"
  /\ event # NoLaunch
  /\ fate' = [fate EXCEPT ![event] = "cleared"]
  /\ Advance(c, "established")
  /\ UNCHANGED <<event, raising, raised, timer, queued, launchOf, fired>>

(* launch_event.pop() waits until something is pending and takes it.       *)
ClearPop(c) ==
  /\ stage[c] = "popping"
  /\ event # NoLaunch
  /\ fate' = [fate EXCEPT ![event] = "cleared"]
  /\ event' = NoLaunch
  /\ Advance(c, "established")
  /\ UNCHANGED <<raising, raised, timer, queued, launchOf, fired>>

----------------------------------------------------------------------------
HttpsNext == Raise \/ Arm \/ \E l \in Launches : Refuse(l) \/ Accepted(l)

RtspNext ==
  \/ TimerFires
  \/ \E l \in Launches : Expire(l)
  \/ \E c \in Conns : Accept(c) \/ Drop(c) \/ Announce(c) \/ Listed(c)

CtlNext ==
  \E c \in Conns : GiveUp(c) \/ Connect(c) \/ ClearCancel(c) \/ ClearPop(c)

Next == HttpsNext \/ RtspNext \/ CtlNext

Spec == Init /\ [][Next]_vars

(* A call that began goes on, an armed timer ends, a queued handler runs.  *)
(* Nothing forces a client to launch, to connect or to announce.           *)
Fairness ==
  /\ WF_vars(Raise \/ Arm)
  /\ WF_vars(TimerFires)
  /\ \A l \in Launches : WF_vars(Expire(l))
  /\ \A c \in Conns : WF_vars(Listed(c)) /\ WF_vars(ClearCancel(c) \/ ClearPop(c))

FairSpec == Spec /\ Fairness

----------------------------------------------------------------------------
(* A pending launch is always on its way out: its timer runs or is about   *)
(* to be armed, an expiry handler is queued, or the control thread is in   *)
(* session_clear() past the cancel, about to pop it.                       *)
PendingIsTimed ==
  event # NoLaunch =>
    \/ timer # NoLaunch \/ queued # {} \/ raised
    \/ \E c \in Conns : stage[c] = "popping"

(* A pending launch is discarded or cleared, never overwritten by another  *)
(* one: rtsp.cpp:500 "If a launch event is still pending, don't overwrite  *)
(* it", although the check and the raise are two uses of the event.        *)
NeverOverwritten ==
  [][event # NoLaunch => event' \in {event, NoLaunch}]_vars

(* stream.cpp:515: once a control stream is connected, the launch it came  *)
(* from is not pending any more, whatever the other threads did meanwhile. *)
EstablishedIsNotPending ==
  \A c \in Conns : stage[c] = "established" => event # launchOf[c]

(* session_clear() compares an id and pops later.  What it pops, or waits  *)
(* for, is another launch only when its own was discarded in between.      *)
ClearsItsOwn ==
  \A c \in Conns :
    stage[c] \in {"cancelling", "popping"} /\ event # launchOf[c] =>
      fate[launchOf[c]] = "discarded"

(* A launch that was raised does not stay pending for ever: the next       *)
(* client can always be served in the end.                                 *)
PendingEnds == \A l \in Launches : event = l ~> event # l
----------------------------------------------------------------------------
(* The inductive invariant.                                                *)

(* session_raise() saw no pending launch, and nobody else raises one.      *)
RaisingOK ==
  /\ raised => raising # NoLaunch
  /\ raising # NoLaunch /\ ~raised => event = NoLaunch /\ fate[raising] = "raised"

EventOK == event # NoLaunch => fate[event] = "raised"

Gone(l) == fate[l] \in {"discarded", "cleared"}

(* A connection's launch was pending once: it still is, or it is gone.     *)
ConnOK ==
  \A c \in Conns :
    /\ stage[c] \notin {"new", "closed"} =>
         launchOf[c] \in Launches /\ (event = launchOf[c] \/ Gone(launchOf[c]))
    /\ stage[c] = "established" => Gone(launchOf[c])
    /\ stage[c] \in {"cancelling", "popping"} =>
         event = launchOf[c] \/ fate[launchOf[c]] = "discarded"

(* _sessions lets one session_clear() run at a time.                       *)
OneClears ==
  \A c, d \in Conns :
    stage[c] \in {"cancelling", "popping"} /\ stage[d] \in {"cancelling", "popping"}
      => c = d

IInv == TypeOK /\ RaisingOK /\ EventOK /\ ConnOK /\ OneClears /\ PendingIsTimed
=============================================================================
