--------------------------- MODULE StreamSession ---------------------------
(***************************************************************************)
(* The life of a streaming session: created by the RTSP thread in          *)
(* cmd_announce, run by its media threads, watched by the control thread   *)
(* of the shared broadcast, and stopped, joined and freed by whichever     *)
(* thread calls rtsp_server_t::clear().                                    *)
(*                                                                         *)
(* Each action is one thread's run between two points at which another     *)
(* thread can see or change what it reads: a lock taken or released, an    *)
(* atomic, an event, a thread started or joined.                           *)
(***************************************************************************)
EXTENDS Naturals, FiniteSets

CONSTANTS
  Sessions,      (* session_t objects, each allocated at most once        *)
  Media,         (* the media threads of one session: video and audio     *)
  Rtsp,          (* the "rtsp::handler" thread                            *)
  Http,          (* threads that call session_count/terminate_sessions    *)
  NoSession,     (* a null session pointer                                *)
  NoThread,      (* an unlocked mutex                                     *)
  Wrap,          (* 2^32 in the code: running_sessions is an atomic_uint  *)
  AppMayExit,    (* environment: the launched application may end         *)
  MayTerminate,  (* environment: an HTTP handler may terminate_sessions() *)
  MayFail,       (* environment: start_broadcast or a broadcast thread    *)
                 (* may fail                                              *)
  MayShutdown    (* environment: the host may be asked to shut down       *)

ASSUME SessionAssumption ==
  /\ NoSession \notin Sessions
  /\ Rtsp \notin Http
  /\ NoThread \notin Http \cup {Rtsp}
  /\ "self" \notin Media
  /\ Media # {}
  /\ Wrap \in Nat /\ Wrap > 1
  /\ {AppMayExit, MayTerminate, MayFail, MayShutdown} \subseteq BOOLEAN

Threads == Http \cup {Rtsp}
Holders == Sessions \X (Media \cup {"self"})

VARIABLES
  obj,         (* is the session_t unallocated, live or freed              *)
  state,       (* session_t::state                                         *)
  media,       (* where each media thread of a session is                  *)
  shutdownEv,  (* sessions whose shutdown_event is raised                  *)
  controlEnd,  (* sessions whose controlEnd is raised                      *)
  expired,     (* sessions whose pingTimeout lies in the past              *)
  peer,        (* sessions whose control.peer is set                       *)
  slots,       (* rtsp_server_t::_session_slots                            *)
  slotsLock,   (* the thread that holds its mutex                          *)
  bstate,      (* the shared broadcast_ctx_t: down, up, or being destroyed *)
  bref,        (* who holds a reference to it                              *)
  bshutdown,   (* the broadcast_shutdown event                             *)
  list,        (* control_server_t::_sessions                              *)
  ctl,         (* where the control thread is; "off" when there is none    *)
  scan,        (* sessions its current pass over list has yet to visit     *)
  exam,        (* the session it is looking at                             *)
  awaiting,    (* has_session_awaiting_peer                                *)
  pc,          (* where each thread of Threads is                          *)
  cur,         (* the session that thread is joining or starting           *)
  todo,        (* slots its clear() has yet to visit                       *)
  all,         (* clear()'s argument                                       *)
  local,       (* cmd_announce's own shared_ptr to the session             *)
  running,     (* running_sessions                                         *)
  platform,    (* streaming_will_start called, streaming_will_stop not yet *)
  app,         (* proc::proc.running() # 0                                 *)
  shutdown     (* the global shutdown event                                *)

sessionVars == <<obj, state, media, shutdownEv, controlEnd, expired, peer>>
slotVars == <<slots, slotsLock>>
bcastVars == <<bstate, bref, bshutdown>>
ctlVars == <<list, ctl, scan, exam, awaiting>>
threadVars == <<pc, cur, todo, all, local>>
platVars == <<running, platform>>
envVars == <<app, shutdown>>

vars == <<sessionVars, slotVars, bcastVars, ctlVars, threadVars, platVars,
          envVars>>

ObjState == {"new", "live", "freed"}
SessionState == {"STOPPED", "RUNNING", "STOPPING"}
MediaState == {"none", "ref", "ping", "capture", "tell", "done"}
ClearPC == {"visit", "tell", "join", "stopcb", "erase", "ending"}
StartPC == {"ref", "remove", "push", "spawn", "run", "count", "startcb",
            "reply", "unref", "tick"}
CtlPC == {"off", "top", "scan", "timeout", "tell", "check", "exitcheck",
          "iterate", "hangup", "sweep", "done"}

Goto(t, l) == pc' = [pc EXCEPT ![t] = l]

(* The control thread holds the mutex of _sessions for a whole pass. *)
ListLocked == ctl \in {"scan", "timeout", "tell", "check", "sweep"}

ShuttingDown == shutdown \/ bshutdown

----------------------------------------------------------------------------
(* Definitions named ...Bug are what a slip in the code would make of the   *)
(* definition that follows them; no specification here uses them.           *)

SlotsFreeBug == TRUE
SlotsFree == slotsLock = NoThread

(* session::join, its waits: both media threads, then controlEnd.           *)
JoinableNoControlBug(t) == \A m \in Media : media[cur[t]][m] = "done"
JoinableNoMediaBug(t) == cur[t] \in controlEnd
Joinable(t) ==
  /\ \A m \in Media : media[cur[t]][m] = "done"
  /\ cur[t] \in controlEnd

(* --running_sessions, on an unsigned integer.                              *)
OneLessUnwrappedBug == running - 1
OneLessClampedBug == IF running = 0 THEN 0 ELSE running - 1
OneLess == (running + Wrap - 1) % Wrap

PastDeadlinePeerBug(s) == s \in expired /\ s \in peer
PastDeadline(s) == s \in expired

(* Process terminated and nobody about to connect.                          *)
MayLeaveLoopBug == ~awaiting
MayLeaveLoop == ~app /\ ~awaiting

EndControlPeerBug(s) ==
  controlEnd' = IF s \in peer THEN controlEnd \cup {s} ELSE controlEnd
EndControl(s) == controlEnd' = controlEnd \cup {s}

(* session::stop: only RUNNING moves to STOPPING, and the caller that moved *)
(* it goes on to raise shutdown_event; the exchange is one step and the     *)
(* raise another.  (STARTING is never stored, so while_starting_do_nothing  *)
(* returns at once.)                                                        *)
WinsStop(s) == state[s] = "RUNNING"
Stop(s) ==
  state' = [state EXCEPT ![s] = IF WinsStop(s) THEN "STOPPING" ELSE @]

TellNobodyBug(s) == UNCHANGED shutdownEv
Tell(s) == shutdownEv' = shutdownEv \cup {s}

(* safe::shared_t release: the last holder runs end_broadcast, which raises *)
(* broadcast_shutdown and then waits, the shared_t's mutex still held.      *)
ReleaseEagerBug(h) ==
  /\ bref' = bref \ {h}
  /\ bstate' = "ending" /\ bshutdown' = TRUE
Release(h) ==
  /\ bref' = bref \ {h}
  /\ IF bref = {h}
     THEN bstate' = "ending" /\ bshutdown' = TRUE
     ELSE UNCHANGED <<bstate, bshutdown>>

(* The last shared_ptr to s goes: ~session_t releases its broadcast_ref.    *)
Free(s) ==
  /\ obj' = [obj EXCEPT ![s] = "freed"]
  /\ Release(<<s, "self">>)

IsLast(s) == bref = {<<s, "self">>}

(* end_broadcast joins the control thread and destroys the context.         *)
EndBroadcast ==
  /\ ctl = "done"
  /\ bstate' = "down"
  /\ bshutdown' = FALSE
  /\ ctl' = "off"
  /\ list' = {}

----------------------------------------------------------------------------
(* cmd_announce and session::start, on the RTSP thread.                     *)

(* session::alloc: STOPPED, no peer, and a pingTimeout of zero, long past.  *)
Alloc(s) ==
  /\ obj[s] = "new"
  /\ obj' = [obj EXCEPT ![s] = "live"]
  /\ expired' = expired \cup {s}

(* The session goes into the slots before it is started.                    *)
Announce(s) ==
  /\ pc[Rtsp] = "idle"
  /\ ~shutdown
  /\ SlotsFree
  /\ Alloc(s)
  /\ slots' = slots \cup {s}
  /\ local' = s
  /\ Goto(Rtsp, "ref")
  /\ UNCHANGED <<state, media, shutdownEv, controlEnd, peer, slotsLock,
                 bcastVars, ctlVars, cur, todo, all, platVars, envVars>>

(* broadcast.ref(): constructs the context and its threads when nobody has  *)
(* it; waits while another thread destroys it.                              *)
StartRef ==
  /\ pc[Rtsp] = "ref"
  /\ \/ bstate = "up" /\ UNCHANGED <<bstate, ctl>>
     \/ bstate = "down" /\ bstate' = "up" /\ ctl' = "top"
  /\ bref' = bref \cup {<<local, "self">>}
  /\ Goto(Rtsp, "push")
  /\ UNCHANGED <<sessionVars, slotVars, bshutdown, list, scan, exam,
                 awaiting, cur, todo, all, local, platVars, envVars>>

(* start_broadcast failed: start returns -1 ...                             *)
StartRefFails ==
  /\ pc[Rtsp] = "ref"
  /\ MayFail
  /\ bstate = "down"
  /\ Goto(Rtsp, "remove")
  /\ UNCHANGED <<sessionVars, slotVars, bcastVars, ctlVars, cur, todo, all,
                 local, platVars, envVars>>

(* ... and cmd_announce removes the slot; its shared_ptr is the last.       *)
StartRemove ==
  /\ pc[Rtsp] = "remove"
  /\ SlotsFree
  /\ slots' = slots \ {local}
  /\ obj' = [obj EXCEPT ![local] = "freed"]
  /\ local' = NoSession
  /\ Goto(Rtsp, "tick")
  /\ UNCHANGED <<state, media, shutdownEv, controlEnd, expired, peer,
                 slotsLock, bcastVars, ctlVars, cur, todo, all, platVars,
                 envVars>>

(* Into the control server's list, before the ping deadline is set.         *)
StartPush ==
  /\ pc[Rtsp] = "push"
  /\ ~ListLocked
  /\ list' = list \cup {local}
  /\ Goto(Rtsp, "spawn")
  /\ UNCHANGED <<sessionVars, slotVars, bcastVars, ctl, scan, exam, awaiting,
                 cur, todo, all, local, platVars, envVars>>

(* The ping deadline, then the two threads.                                 *)
StartSpawn ==
  /\ pc[Rtsp] = "spawn"
  /\ expired' = expired \ {local}
  /\ media' = [media EXCEPT ![local] = [m \in Media |-> "ref"]]
  /\ Goto(Rtsp, "run")
  /\ UNCHANGED <<obj, state, shutdownEv, controlEnd, peer, slotVars,
                 bcastVars, ctlVars, cur, todo, all, local, platVars, envVars>>

StartRun ==
  /\ pc[Rtsp] = "run"
  /\ state' = [state EXCEPT ![local] = "RUNNING"]
  /\ Goto(Rtsp, "count")
  /\ UNCHANGED <<obj, media, shutdownEv, controlEnd, expired, peer, slotVars,
                 bcastVars, ctlVars, cur, todo, all, local, platVars, envVars>>

StartCount ==
  /\ pc[Rtsp] = "count"
  /\ running' = (running + 1) % Wrap
  /\ Goto(Rtsp, IF running' = 1 THEN "startcb" ELSE "reply")
  /\ UNCHANGED <<sessionVars, slotVars, bcastVars, ctlVars, cur, todo, all,
                 local, platform, envVars>>

StartCallback ==
  /\ pc[Rtsp] = "startcb"
  /\ platform' = TRUE
  /\ Goto(Rtsp, "reply")
  /\ UNCHANGED <<sessionVars, slotVars, bcastVars, ctlVars, cur, todo, all,
                 local, running, envVars>>

(* cmd_announce returns: its shared_ptr goes, and with it the session when  *)
(* another thread has already erased the slot.                              *)
StartReply ==
  /\ pc[Rtsp] = "reply"
  /\ local' = NoSession
  /\ IF local \in slots
     THEN UNCHANGED <<obj, bcastVars>> /\ Goto(Rtsp, "tick")
     ELSE Free(local) /\ Goto(Rtsp, IF IsLast(local) THEN "unref" ELSE "tick")
  /\ UNCHANGED <<state, media, shutdownEv, controlEnd, expired, peer,
                 slotVars, ctlVars, cur, todo, all, platVars, envVars>>

StartEnding ==
  /\ pc[Rtsp] = "unref"
  /\ EndBroadcast
  /\ Goto(Rtsp, "tick")
  /\ UNCHANGED <<sessionVars, slotVars, bref, scan, exam, awaiting, cur, todo,
                 all, local, platVars, envVars>>

----------------------------------------------------------------------------
(* rtsp_server_t::clear, on the RTSP thread after every handler or 500 ms,  *)
(* and on HTTP threads through session_count() and terminate_sessions().    *)
(* The mutex of the slots is held from BeginClear to EndClear.              *)
BeginClear(t, a) ==
  /\ pc[t] \in {"idle", "tick"}
  /\ SlotsFree
  /\ slotsLock' = t
  /\ todo' = [todo EXCEPT ![t] = slots]
  /\ all' = [all EXCEPT ![t] = a]
  /\ Goto(t, "visit")
  /\ UNCHANGED <<sessionVars, slots, bcastVars, ctlVars, cur, local, platVars,
                 envVars>>

(* The server loop: clear() once a shutdown is under way, else clear(false) *)
RtspTick ==
  \/ BeginClear(Rtsp, bshutdown)
  \/ shutdown /\ BeginClear(Rtsp, TRUE)

SessionCount(t) == BeginClear(t, FALSE)

(* terminate_sessions(), or server.stop() once the host shuts down.         *)
TerminateSessions(t) ==
  /\ MayTerminate \/ shutdown
  /\ BeginClear(t, TRUE)

Skip(t, s) ==
  /\ pc[t] = "visit"
  /\ s \in todo[t]
  /\ ~all[t] /\ state[s] # "STOPPING"
  /\ todo' = [todo EXCEPT ![t] = @ \ {s}]
  /\ UNCHANGED <<sessionVars, slotVars, bcastVars, ctlVars, pc, cur, all,
                 local, platVars, envVars>>

StopSlot(t, s) ==
  /\ pc[t] = "visit"
  /\ s \in todo[t]
  /\ all[t] \/ state[s] = "STOPPING"
  /\ Stop(s)
  /\ cur' = [cur EXCEPT ![t] = s]
  /\ Goto(t, IF WinsStop(s) THEN "tell" ELSE "join")
  /\ UNCHANGED <<obj, media, shutdownEv, controlEnd, expired, peer, slotVars,
                 bcastVars, ctlVars, todo, all, local, platVars, envVars>>

TellSlot(t) ==
  /\ pc[t] = "tell"
  /\ Tell(cur[t])
  /\ Goto(t, "join")
  /\ UNCHANGED <<obj, state, media, controlEnd, expired, peer, slotVars,
                 bcastVars, ctlVars, cur, todo, all, local, platVars, envVars>>

(* std::thread::join of a thread start has not created yet throws: clear()  *)
(* is left by an exception, which its lock_guard survives.                  *)
JoinThrows(t) ==
  /\ pc[t] = "join"
  /\ \E m \in Media : media[cur[t]][m] = "none"
  /\ slotsLock' = NoThread
  /\ todo' = [todo EXCEPT ![t] = {}]
  /\ cur' = [cur EXCEPT ![t] = NoSession]
  /\ all' = [all EXCEPT ![t] = FALSE]
  /\ Goto(t, "idle")
  /\ UNCHANGED <<sessionVars, slots, bcastVars, ctlVars, local, platVars,
                 envVars>>

(* session::join: both media threads, then controlEnd, then the count.      *)
Join(t) ==
  /\ pc[t] = "join"
  /\ Joinable(t)
  /\ running' = OneLess
  /\ Goto(t, IF running' = 0 THEN "stopcb" ELSE "erase")
  /\ UNCHANGED <<sessionVars, slotVars, bcastVars, ctlVars, cur, todo, all,
                 local, platform, envVars>>

StopCallback(t) ==
  /\ pc[t] = "stopcb"
  /\ platform' = FALSE
  /\ Goto(t, "erase")
  /\ UNCHANGED <<sessionVars, slotVars, bcastVars, ctlVars, cur, todo, all,
                 local, running, envVars>>

(* The slot goes, and with it the session unless cmd_announce still has it. *)
Erase(t) ==
  LET s == cur[t] IN
  /\ pc[t] = "erase"
  /\ slots' = slots \ {s}
  /\ todo' = [todo EXCEPT ![t] = @ \ {s}]
  /\ cur' = [cur EXCEPT ![t] = NoSession]
  /\ IF local = s
     THEN UNCHANGED <<obj, bcastVars>> /\ Goto(t, "visit")
     ELSE Free(s) /\ Goto(t, IF IsLast(s) THEN "ending" ELSE "visit")
  /\ UNCHANGED <<state, media, shutdownEv, controlEnd, expired, peer,
                 slotsLock, ctlVars, all, local, platVars, envVars>>

Ending(t) ==
  /\ pc[t] = "ending"
  /\ EndBroadcast
  /\ Goto(t, "visit")
  /\ UNCHANGED <<sessionVars, slotVars, bref, scan, exam, awaiting, cur, todo,
                 all, local, platVars, envVars>>

EndClear(t) ==
  /\ pc[t] = "visit"
  /\ todo[t] = {}
  /\ slotsLock' = NoThread
  /\ all' = [all EXCEPT ![t] = FALSE]
  /\ Goto(t, "idle")
  /\ UNCHANGED <<sessionVars, slots, bcastVars, ctlVars, cur, todo, local,
                 platVars, envVars>>

----------------------------------------------------------------------------
(* videoThread and audioThread.                                             *)

(* The thread takes a broadcast reference of its own.                       *)
MediaRef(s, m) ==
  /\ media[s][m] = "ref"
  /\ bstate = "up"
  /\ bref' = bref \cup {<<s, m>>}
  /\ media' = [media EXCEPT ![s][m] = "ping"]
  /\ UNCHANGED <<obj, state, shutdownEv, controlEnd, expired, peer, slotVars,
                 bstate, bshutdown, ctlVars, threadVars, platVars, envVars>>

(* recv_ping sees the client's ping: capture starts.                        *)
MediaPing(s, m) ==
  /\ media[s][m] = "ping"
  /\ media' = [media EXCEPT ![s][m] = "capture"]
  /\ UNCHANGED <<obj, state, shutdownEv, controlEnd, expired, peer, slotVars,
                 bcastVars, ctlVars, threadVars, platVars, envVars>>

(* Every way out: the reference is released, then the fail guard stops the  *)
(* session.                                                                 *)
MediaReturn(s, m) ==
  /\ media' = [media EXCEPT ![s][m] = IF WinsStop(s) THEN "tell" ELSE "done"]
  /\ Release(<<s, m>>)
  /\ Stop(s)
  /\ UNCHANGED <<obj, shutdownEv, controlEnd, expired, peer, slotVars,
                 ctlVars, threadVars, platVars, envVars>>

MediaTell(s, m) ==
  /\ media[s][m] = "tell"
  /\ Tell(s)
  /\ media' = [media EXCEPT ![s][m] = "done"]
  /\ UNCHANGED <<obj, state, controlEnd, expired, peer, slotVars, bcastVars,
                 ctlVars, threadVars, platVars, envVars>>

(* recv_ping heard nothing within ping_timeout (it does not look at         *)
(* shutdown_event), capture saw shutdown_event, or capture failed.          *)
MediaPingTimeout(s, m) == media[s][m] = "ping" /\ MediaReturn(s, m)
MediaShutdown(s, m) ==
  media[s][m] = "capture" /\ s \in shutdownEv /\ MediaReturn(s, m)
MediaFail(s, m) == media[s][m] = "capture" /\ MediaReturn(s, m)

----------------------------------------------------------------------------
(* controlBroadcastThread.                                                  *)

CtlTop ==
  /\ ctl = "top"
  /\ scan' = list
  /\ awaiting' = FALSE
  /\ ctl' = IF ShuttingDown THEN "sweep" ELSE "scan"
  /\ UNCHANGED <<sessionVars, slotVars, bcastVars, list, exam, threadVars,
                 platVars, envVars>>

(* One session of the pass: is its deadline over?                           *)
CtlExamine(s) ==
  /\ ctl = "scan"
  /\ ~ShuttingDown
  /\ s \in scan
  /\ exam' = s
  /\ ctl' = IF PastDeadline(s) THEN "timeout" ELSE "check"
  /\ UNCHANGED <<sessionVars, slotVars, bcastVars, list, scan, awaiting,
                 threadVars, platVars, envVars>>

(* "Ping Timeout": stop, on the word of the deadline read before.           *)
CtlTimeout ==
  /\ ctl = "timeout"
  /\ Stop(exam)
  /\ ctl' = IF WinsStop(exam) THEN "tell" ELSE "check"
  /\ UNCHANGED <<obj, media, shutdownEv, controlEnd, expired, peer, slotVars,
                 bcastVars, list, scan, exam, awaiting, threadVars, platVars,
                 envVars>>

CtlTell ==
  /\ ctl = "tell"
  /\ Tell(exam)
  /\ ctl' = "check"
  /\ UNCHANGED <<obj, state, media, controlEnd, expired, peer, slotVars,
                 bcastVars, list, scan, exam, awaiting, threadVars, platVars,
                 envVars>>

(* A stopping session leaves the list and its controlEnd is raised; any     *)
(* other is remembered when its client has yet to connect.                  *)
CtlCheck ==
  /\ ctl = "check"
  /\ IF state[exam] = "STOPPING"
     THEN /\ list' = list \ {exam}
          /\ peer' = peer \ {exam}
          /\ EndControl(exam)
          /\ UNCHANGED awaiting
     ELSE /\ awaiting' = (awaiting \/ exam \notin peer)
          /\ UNCHANGED <<list, peer, controlEnd>>
  /\ scan' = scan \ {exam}
  /\ exam' = NoSession
  /\ ctl' = "scan"
  /\ UNCHANGED <<obj, state, media, shutdownEv, expired, slotVars, bcastVars,
                 threadVars, platVars, envVars>>

CtlPassDone ==
  /\ ctl = "scan"
  /\ scan = {} \/ ShuttingDown
  /\ scan' = {}
  /\ ctl' = "exitcheck"
  /\ UNCHANGED <<sessionVars, slotVars, bcastVars, list, exam, awaiting,
                 threadVars, platVars, envVars>>

(* Process terminated and nobody about to connect: leave the loop.          *)
CtlExitCheck ==
  /\ ctl = "exitcheck"
  /\ IF MayLeaveLoop
     THEN ctl' = "sweep" /\ scan' = list
     ELSE ctl' = "iterate" /\ UNCHANGED scan
  /\ UNCHANGED <<sessionVars, slotVars, bcastVars, list, exam, awaiting,
                 threadVars, platVars, envVars>>

(* control_server_t::iterate: no event within 150 ms ...                    *)
CtlIdle ==
  /\ ctl = "iterate"
  /\ ctl' = "top"
  /\ UNCHANGED <<sessionVars, slotVars, bcastVars, list, scan, exam, awaiting,
                 threadVars, platVars, envVars>>

(* ... or one from the client of s, which get_session finds by its peer or, *)
(* on the first event, among the sessions without one.  Its deadline moves. *)
(* (ENet reuses a peer for a later connection, so events may follow a       *)
(* DISCONNECT.)                                                             *)
CtlEvent(s) ==
  /\ ctl = "iterate"
  /\ s \in list
  /\ peer' = peer \cup {s}
  /\ expired' = expired \ {s}
  /\ ctl' = "top"
  /\ UNCHANGED <<obj, state, media, shutdownEv, controlEnd, slotVars,
                 bcastVars, list, scan, exam, awaiting, threadVars, platVars,
                 envVars>>

CtlDisconnect(s) ==
  /\ ctl = "iterate"
  /\ s \in list \cap peer
  /\ expired' = expired \ {s}
  /\ Stop(s)
  /\ IF WinsStop(s)
     THEN ctl' = "hangup" /\ exam' = s
     ELSE ctl' = "top" /\ UNCHANGED exam
  /\ UNCHANGED <<obj, media, shutdownEv, controlEnd, peer, slotVars,
                 bcastVars, list, scan, awaiting, threadVars, platVars,
                 envVars>>

CtlHangup ==
  /\ ctl = "hangup"
  /\ Tell(exam)
  /\ exam' = NoSession
  /\ ctl' = "top"
  /\ UNCHANGED <<obj, state, media, controlEnd, expired, peer, slotVars,
                 bcastVars, list, scan, awaiting, threadVars, platVars,
                 envVars>>

(* After the loop: every session still listed is told, its state is not     *)
(* touched and it stays in the list.                                        *)
CtlSweep(s) ==
  /\ ctl = "sweep"
  /\ s \in scan
  /\ scan' = scan \ {s}
  /\ shutdownEv' = shutdownEv \cup {s}
  /\ controlEnd' = controlEnd \cup {s}
  /\ UNCHANGED <<obj, state, media, expired, peer, slotVars, bcastVars, list,
                 ctl, exam, awaiting, threadVars, platVars, envVars>>

CtlDone ==
  /\ ctl = "sweep"
  /\ scan = {}
  /\ ctl' = "done"
  /\ UNCHANGED <<sessionVars, slotVars, bcastVars, list, scan, exam, awaiting,
                 threadVars, platVars, envVars>>

----------------------------------------------------------------------------
(* What happens around these threads.                                       *)

(* ping_timeout has passed since the last event of the client of s.         *)
DeadlinePasses(s) ==
  /\ s \in list \ expired
  /\ expired' = expired \cup {s}
  /\ UNCHANGED <<obj, state, media, shutdownEv, controlEnd, peer, slotVars,
                 bcastVars, ctlVars, threadVars, platVars, envVars>>

AppExits ==
  /\ AppMayExit
  /\ app
  /\ app' = FALSE
  /\ UNCHANGED <<sessionVars, slotVars, bcastVars, ctlVars, threadVars,
                 platVars, shutdown>>

AppLaunched ==
  /\ ~app
  /\ app' = TRUE
  /\ UNCHANGED <<sessionVars, slotVars, bcastVars, ctlVars, threadVars,
                 platVars, shutdown>>

(* The video or audio broadcast thread leaves its loop because its packet   *)
(* queue was stopped, and raises broadcast_shutdown.                        *)
BroadcastThreadEnds ==
  /\ MayFail
  /\ bstate = "up"
  /\ bshutdown' = TRUE
  /\ UNCHANGED <<sessionVars, slotVars, bstate, bref, ctlVars, threadVars,
                 platVars, envVars>>

ShutdownRaised ==
  /\ MayShutdown
  /\ ~shutdown
  /\ shutdown' = TRUE
  /\ UNCHANGED <<sessionVars, slotVars, bcastVars, ctlVars, threadVars,
                 platVars, app>>

----------------------------------------------------------------------------
Init ==
  /\ obj = [s \in Sessions |-> "new"]
  /\ state = [s \in Sessions |-> "STOPPED"]
  /\ media = [s \in Sessions |-> [m \in Media |-> "none"]]
  /\ shutdownEv = {} /\ controlEnd = {} /\ expired = {} /\ peer = {}
  /\ slots = {} /\ slotsLock = NoThread
  /\ bstate = "down" /\ bref = {} /\ bshutdown = FALSE
  /\ list = {} /\ ctl = "off" /\ scan = {} /\ exam = NoSession
  /\ awaiting = FALSE
  /\ pc = [t \in Threads |-> "idle"]
  /\ cur = [t \in Threads |-> NoSession]
  /\ todo = [t \in Threads |-> {}]
  /\ all = [t \in Threads |-> FALSE]
  /\ local = NoSession
  /\ running = 0 /\ platform = FALSE
  /\ app = TRUE /\ shutdown = FALSE

StartStep ==
  \/ StartRef \/ StartRefFails \/ StartRemove \/ StartPush \/ StartSpawn
  \/ StartRun \/ StartCount \/ StartCallback \/ StartReply \/ StartEnding

ClearStep(t) ==
  \/ \E s \in Sessions : Skip(t, s) \/ StopSlot(t, s)
  \/ TellSlot(t) \/ JoinThrows(t) \/ Join(t) \/ StopCallback(t) \/ Erase(t) \/ Ending(t)
  \/ EndClear(t)

HttpCall(t) == SessionCount(t) \/ TerminateSessions(t)

MediaStep(s, m) ==
  \/ MediaRef(s, m) \/ MediaPing(s, m) \/ MediaPingTimeout(s, m)
  \/ MediaShutdown(s, m) \/ MediaFail(s, m) \/ MediaTell(s, m)

CtlStep ==
  \/ CtlTop \/ CtlTimeout \/ CtlTell \/ CtlCheck \/ CtlPassDone
  \/ CtlExitCheck \/ CtlIdle \/ CtlHangup \/ CtlDone
  \/ \E s \in Sessions : CtlExamine(s) \/ CtlEvent(s) \/ CtlDisconnect(s)
                           \/ CtlSweep(s)

EnvStep ==
  \/ \E s \in Sessions : DeadlinePasses(s)
  \/ AppExits \/ AppLaunched \/ BroadcastThreadEnds \/ ShutdownRaised

Next ==
  \/ \E s \in Sessions : Announce(s)
  \/ StartStep
  \/ RtspTick
  \/ \E t \in Threads : ClearStep(t)
  \/ \E t \in Http : HttpCall(t)
  \/ \E s \in Sessions, m \in Media : MediaStep(s, m)
  \/ CtlStep
  \/ EnvStep

Spec == Init /\ [][Next]_vars

----------------------------------------------------------------------------
(* Safety.                                                                  *)

SessionTypeOK ==
  /\ obj \in [Sessions -> ObjState]
  /\ state \in [Sessions -> SessionState]
  /\ media \in [Sessions -> [Media -> MediaState]]
  /\ shutdownEv \subseteq Sessions /\ controlEnd \subseteq Sessions
  /\ expired \subseteq Sessions /\ peer \subseteq Sessions

SharedTypeOK ==
  /\ slots \subseteq Sessions /\ slotsLock \in Threads \cup {NoThread}
  /\ bstate \in {"down", "up", "ending"}
  /\ bref \subseteq Holders /\ bshutdown \in BOOLEAN
  /\ list \subseteq Sessions /\ scan \subseteq Sessions /\ ctl \in CtlPC
  /\ exam \in Sessions \cup {NoSession} /\ awaiting \in BOOLEAN

ThreadTypeOK ==
  /\ pc \in [Threads -> {"idle"} \cup ClearPC \cup StartPC]
  /\ cur \in [Threads -> Sessions \cup {NoSession}]
  /\ todo \in [Threads -> SUBSET Sessions]
  /\ all \in [Threads -> BOOLEAN]
  /\ local \in Sessions \cup {NoSession}

HostTypeOK ==
  /\ running \in 0..(Wrap - 1) /\ platform \in BOOLEAN
  /\ app \in BOOLEAN /\ shutdown \in BOOLEAN

(* Type correctness of every variable; running_sessions stays an unsigned   *)
(* integer whatever order join and start count in.                          *)
TypeOK == SessionTypeOK /\ SharedTypeOK /\ ThreadTypeOK /\ HostTypeOK

MediaAlive(s, m) == media[s][m] \in {"ref", "ping", "capture", "tell"}

(* A freed session_t is out of reach: no media thread of it runs, no slot,  *)
(* no thread's local pointer and no pass of the control thread leads to it. *)
(* (The list of a control thread that has left its loop may still hold it:  *)
(* nobody reads that list again.)                                           *)
NoDangling ==
  \A s \in Sessions : obj[s] = "freed" =>
    /\ \A m \in Media : ~MediaAlive(s, m)
    /\ s \notin slots /\ local # s /\ \A t \in Threads : cur[t] # s
    /\ s \notin scan /\ exam # s
    /\ ctl \notin {"sweep", "done"} => s \notin list

(* session::join runs at most once at a time for a session, on a session    *)
(* that is still allocated: std::thread::join twice is an error.            *)
JoinedByOne ==
  \A t1, t2 \in Threads :
    t1 # t2 => cur[t1] = NoSession \/ cur[t1] # cur[t2]

(* The broadcast context exists exactly while somebody refers to it, and a  *)
(* media thread only runs inside its session's own reference, so that it is *)
(* never the one to destroy the context whose threads it would have to join *)
BroadcastReferenced ==
  /\ (bstate = "up") = (bref # {})
  /\ (ctl = "off") = (bstate = "down")
  /\ \A s \in Sessions, m \in Media :
       MediaAlive(s, m) => <<s, "self">> \in bref

(* A caller of stop(s) that won the exchange and has yet to raise.          *)
Telling(s) ==
  \/ \E t \in Threads : pc[t] = "tell" /\ cur[t] = s
  \/ \E m \in Media : media[s][m] = "tell"
  \/ ctl \in {"tell", "hangup"} /\ exam = s

(* The control thread may end a session between the exchange of stop() and  *)
(* its raise, on another thread.  Yet whatever is stopping or ended was     *)
(* told or is about to be, by a caller of stop() that waits for nobody:     *)
(* join never waits for media threads that nobody will ask to leave.  And   *)
(* what join has got past was told: no raise is left to run after it.       *)
EndedWasTold ==
  /\ \A s \in Sessions :
       state[s] = "STOPPING" \/ s \in controlEnd =>
         s \in shutdownEv \/ Telling(s)
  /\ \A t \in Threads :
       pc[t] \in {"stopcb", "erase"} =>
         cur[t] \in shutdownEv /\ ~Telling(cur[t])

Counted(s) == state[s] # "STOPPED" /\ ~(pc[Rtsp] = "count" /\ local = s)

(* join has taken s out of the count: it is erased, or about to be.         *)
Uncounted(s) ==
  /\ media[s] # [m \in Media |-> "none"]
  /\ \/ obj[s] # "live" \/ s \notin slots
     \/ \E t \in Threads : cur[t] = s /\ pc[t] \in {"stopcb", "erase"}

(* running_sessions is the number of sessions that start has counted less   *)
(* those that join has uncounted, modulo its width: a join that overtakes   *)
(* the end of start borrows, and start pays back.                           *)
RunningExact ==
  running = (Wrap + Cardinality({s \in Sessions : Counted(s)})
                  - Cardinality({s \in Sessions : Uncounted(s)})) % Wrap

(* The abstract host: a session is attached while it refers to the          *)
(* broadcast and stopping once its shutdown_event is raised.                *)
Phase(s) ==
  IF obj[s] = "new" THEN "none"
  ELSE IF obj[s] = "freed" THEN "freed"
  ELSE IF s \in shutdownEv THEN "stopping"
  ELSE IF state[s] # "STOPPED" THEN "streaming"
  ELSE IF <<s, "self">> \in bref THEN "attached"
  ELSE "starting"

Promise == INSTANCE SessionPromise
  WITH phase <- [s \in Sessions |-> Phase(s)], up <- bstate = "up"

(* The threads of this module keep the promise. *)
KeepsPromise == Promise!PSpec

----------------------------------------------------------------------------
(* Liveness.  Threads run; mutexes are not starved; recv_ping and the ping  *)
(* deadline of a client that does not connect time out.  Clients, HTTP      *)
(* calls, captures and applications owe nothing.                            *)
Fairness ==
  /\ WF_vars(StartStep) /\ SF_vars(StartPush)
  /\ SF_vars(RtspTick)
  /\ \A t \in Threads : WF_vars(ClearStep(t))
  /\ \A s \in Sessions, m \in Media :
       /\ WF_vars(MediaRef(s, m))
       /\ WF_vars(MediaPingTimeout(s, m))
       /\ WF_vars(MediaShutdown(s, m))
       /\ WF_vars(MediaTell(s, m))
  /\ WF_vars(CtlStep)
  /\ \A s \in Sessions : WF_vars(s \notin peer /\ DeadlinePasses(s))

FairSpec == Spec /\ Fairness

(* Listed with a control thread that is past its last look at the list.     *)
Orphans == {s \in list \ controlEnd : ctl = "done"}

(* Its media threads are done, the control thread has let go of it, and it  *)
(* is RUNNING: they stopped it before start stored RUNNING.                 *)
Zombies ==
  {s \in controlEnd :
    state[s] = "RUNNING" /\ \A m \in Media : media[s][m] = "done"}

(* Every way in which the clean-up of a session can stall: joining a        *)
(* session the control thread will never end, joining one that stop() did   *)
(* not stop because start had yet to store RUNNING, and a session nobody    *)
(* will stop any more.                                                      *)
Wedged ==
  \/ Orphans \cup Zombies # {}
  \/ \E t \in Threads : pc[t] = "join" /\ state[cur[t]] # "STOPPING"

(* Nothing of the kind happens while the application runs on, nobody calls  *)
(* terminate_sessions(), and no shutdown or failure intervenes.             *)
NeverWedged == ~Wedged

(* A session that was stopped, or whose client does not connect to the      *)
(* control stream, is joined and freed, unless clean-up wedged.             *)
SessionsEnd ==
  \A s \in Sessions :
    /\ state[s] = "STOPPING" ~> obj[s] = "freed" \/ []Wedged
    /\ s \in list /\ s \notin peer
         ~> s \in peer \/ obj[s] = "freed" \/ []Wedged

(* The same without the exception: what rtsp.cpp says of a client that does *)
(* not begin streaming within the ping timeout.                             *)
SilentIsDiscarded ==
  \A s \in Sessions :
    s \in list /\ s \notin peer ~> s \in peer \/ obj[s] = "freed"
=============================================================================
