--------------------------------- MODULE HostLife ---------------------------------
(***************************************************************************)
(* The life of the host's process: main(), its signal handlers, the tray, *)
(* quitting and restarting (main.cpp, entry_handler.cpp, system_tray.cpp, *)
(* misc.cpp of the platforms), and on Windows the service that keeps it   *)
(* running in the active console session (tools/sunshinesvc.cpp).         *)
(***************************************************************************)
EXTENDS Naturals

CONSTANTS
  Platforms,  (* "service": Windows, run by the service; "console":      *)
              (* Windows, run by the user; "unix"                        *)
  Consoles,   (* the sessions that may be at the console                 *)
  MaxHosts,   (* bound: hosts hostsStarted                               *)
  MaxAsks,    (* bound: signals, quits and restarts, of all hosts        *)
  MaxChanges  (* bound: times another session is at the console          *)

ASSUME HostLifeAssumption ==
  /\ Platforms \subseteq {"service", "console", "unix"} /\ "none" \notin Consoles
  /\ {MaxHosts, MaxAsks, MaxChanges} \subseteq Nat

VARIABLES
  platform,   (* where a behaviour takes place                           *)
  svc,        (* ServiceMain: "waiting", "supervising", "terminating",   *)
              (* "killing", "stopped"                                    *)
  stopEvent, changeEvent,  (* stop_event, session_change_event           *)
  stopAsked,  (* history: the system told the service to stop            *)
  console,    (* external: the active console session, or "none"         *)
  childSession,  (* console_session_id                                   *)
  switched,   (* history: the service ended this host itself             *)
  mainAt,     (* where main() is; "off": there is no host                *)
  hostExit,   (* the exit code of the last host, or "killed", "trapped"  *)
  desired,    (* desired_exit_code: "0" or "quit"                        *)
  atExit,     (* restart_on_exit is registered                           *)
  toRaise,    (* calls of exit_sunshine() that have yet to raise SIGINT  *)
  down,       (* shutdown_event is raised                                *)
  handler,    (* the signal handler: "none", "raised", "done"            *)
  tray,       (* "none", "on", "failed", "off", "unwanted"              *)
  userAsked,  (* history: what the user asked of this host               *)
  restartFailed,  (* history: restart_on_exit() started no other host    *)
  trayMissed,  (* history: the tray came up after the handler ended it   *)
  forcedAt,   (* history: where main() was when it was forced down       *)
  hostsStarted, lifeAsks, changes  (* counted up to the bounds                    *)

lifeVars ==
  <<platform, svc, stopEvent, changeEvent, stopAsked, console, childSession, switched, mainAt,
    hostExit, desired, atExit, toRaise, down, handler, tray, userAsked, restartFailed, trayMissed,
    forcedAt, hostsStarted, lifeAsks, changes>>
serviceVars == <<platform, svc, stopEvent, changeEvent, stopAsked, console, childSession,
                 switched, changes>>
Windows == platform # "unix"

-----------------------------------------------------------------------------
(* A new process of the host.                                             *)
NewHost ==
  /\ mainAt' = "start" /\ desired' = "0" /\ atExit' = FALSE /\ down' = FALSE
  /\ toRaise' = 0 /\ handler' = "none" /\ tray' = "none" /\ userAsked' = {}
  /\ restartFailed' = FALSE /\ trayMissed' = FALSE
  /\ hostsStarted' = hostsStarted + 1
EndedBy(how) ==
  /\ mainAt' = "off" /\ hostExit' = how
  /\ UNCHANGED <<desired, atExit, toRaise, down, handler, tray, userAsked, restartFailed,
                 trayMissed, hostsStarted>>

(* main() returns: restart_on_exit() starts another one, if readlink(),   *)
(* execv() or CreateProcess() do not fail.                                *)
Returns(code) ==
  /\ hostExit' = code
  /\ \/ atExit /\ NewHost
     \/ /\ mainAt' = "off" /\ restartFailed' = atExit
        /\ UNCHANGED <<desired, atExit, toRaise, down, handler, tray, userAsked, trayMissed,
                       hostsStarted>>

UserStarts ==
  /\ platform # "service" /\ mainAt = "off" /\ hostsStarted < MaxHosts /\ NewHost
  /\ UNCHANGED <<platform, svc, stopEvent, changeEvent, stopAsked, console, childSession,
                 switched, hostExit, forcedAt, lifeAsks, changes>>

(* main(): the guard of the display and the driver's settings come first  *)
(* (DisplayDevice, NvPrefs), then the handlers of the signals.            *)
InstallSignals ==
  /\ mainAt = "start" /\ mainAt' = "signals"
  /\ UNCHANGED <<platform, svc, stopEvent, changeEvent, stopAsked, console, childSession,
                 switched, hostExit, desired, atExit, toRaise, down, handler, tray,
                 userAsked, restartFailed, trayMissed, forcedAt, hostsStarted,
                 lifeAsks, changes>>
(* http::init() may fail.                                                 *)
Initialised ==
  /\ mainAt = "signals" /\ mainAt' = "inits"
  /\ UNCHANGED <<platform, svc, stopEvent, changeEvent, stopAsked, console, childSession,
                 switched, hostExit, desired, atExit, toRaise, down, handler, tray,
                 userAsked, restartFailed, trayMissed, forcedAt, hostsStarted,
                 lifeAsks, changes>>
NotInitialised ==
  /\ mainAt = "signals" /\ Returns("failed")
  /\ UNCHANGED <<platform, svc, stopEvent, changeEvent, stopAsked, console, childSession,
                 switched, forcedAt, lifeAsks, changes>>
StartThreads ==
  /\ mainAt = "inits" /\ ~down /\ mainAt' = "threads"
  /\ UNCHANGED <<platform, svc, stopEvent, changeEvent, stopAsked, console, childSession,
                 switched, hostExit, desired, atExit, toRaise, down, handler, tray,
                 userAsked, restartFailed, trayMissed, forcedAt, hostsStarted,
                 lifeAsks, changes>>
ShutBefore ==
  /\ mainAt = "inits" /\ down /\ Returns(desired)
  /\ UNCHANGED <<platform, svc, stopEvent, changeEvent, stopAsked, console, childSession,
                 switched, forcedAt, lifeAsks, changes>>
(* system_tray may be off in the configuration.                           *)
StartTray(outcome) ==
  /\ mainAt = "threads" /\ mainAt' = "loop"
  /\ tray' = outcome /\ trayMissed' = (outcome = "on" /\ handler = "done")
  /\ UNCHANGED <<platform, svc, stopEvent, changeEvent, stopAsked, console, childSession,
                 switched, hostExit, desired, atExit, toRaise, down, handler, userAsked,
                 restartFailed, forcedAt, hostsStarted, lifeAsks, changes>>

(* mainThreadLoop(): on Unix the loop of the tray, which is over at once   *)
(* when the tray failed; else main() waits for the event.  Variant: the   *)
(* loop is run for a tray that is not wanted.                             *)
WaitsForEvent == Windows \/ tray = "unwanted"
LoopOverBug == IF Windows THEN down ELSE tray \in {"off", "failed"}
LoopOver == IF WaitsForEvent THEN down ELSE tray \in {"off", "failed"}
LeaveLoop ==
  /\ mainAt = "loop" /\ LoopOver /\ mainAt' = "joining"
  /\ UNCHANGED <<platform, svc, stopEvent, changeEvent, stopAsked, console, childSession,
                 switched, hostExit, desired, atExit, toRaise, down, handler, tray,
                 userAsked, restartFailed, trayMissed, forcedAt, hostsStarted,
                 lifeAsks, changes>>
ThreadsJoined ==
  /\ mainAt = "joining" /\ down /\ mainAt' = "joined"
  /\ UNCHANGED <<platform, svc, stopEvent, changeEvent, stopAsked, console, childSession,
                 switched, hostExit, desired, atExit, toRaise, down, handler, tray,
                 userAsked, restartFailed, trayMissed, forcedAt, hostsStarted,
                 lifeAsks, changes>>

(* The tasks are stopped, the driver's settings restored (NvPrefs).       *)
MainReturns ==
  /\ mainAt = "joined" /\ Returns(desired)
  /\ UNCHANGED <<platform, svc, stopEvent, changeEvent, stopAsked, console, childSession,
                 switched, forcedAt, lifeAsks, changes>>

-----------------------------------------------------------------------------
(* SIGINT and SIGTERM: a task that forces the end in ten seconds, the     *)
(* event, then the tray is ended and the display guard dropped.  Before   *)
(* the handler is installed, and on Windows after it ran once, the signal *)
(* ends the process.                                                      *)
Unhandled == mainAt = "start" \/ (Windows /\ handler # "none")
Signalled ==
  IF Unhandled THEN mainAt' = "off" /\ hostExit' = "killed" /\ UNCHANGED <<down, handler>>
  ELSE down' = TRUE /\ handler' = "raised" /\ UNCHANGED <<mainAt, hostExit>>
EndTray ==
  /\ mainAt # "off" /\ handler = "raised" /\ handler' = "done"
  /\ tray' = IF tray = "on" THEN "off" ELSE tray
  /\ UNCHANGED <<platform, svc, stopEvent, changeEvent, stopAsked, console, childSession,
                 switched, mainAt, hostExit, desired, atExit, toRaise, down, userAsked,
                 restartFailed, trayMissed, forcedAt, hostsStarted, lifeAsks,
                 changes>>

(* exit_sunshine() keeps the first code that is not 0.  Variant: the last *)
(* one.                                                                   *)
ExitCodeBug(code) == code
ExitCode(code) == IF desired = "0" THEN code ELSE desired
(* restart(): the service starts another host; others do it themselves.   *)
(* Variant: nobody does.                                                  *)
RestartsItselfBug == FALSE
RestartsItself == platform # "service"

Interrupt ==
  /\ mainAt # "off" /\ lifeAsks < MaxAsks /\ lifeAsks' = lifeAsks + 1 /\ Signalled
  /\ UNCHANGED <<platform, svc, stopEvent, changeEvent, stopAsked, console, childSession,
                 switched, desired, atExit, toRaise, tray, userAsked, restartFailed, trayMissed,
                 forcedAt, hostsStarted, changes>>
RaiseSignal ==
  /\ mainAt # "off" /\ toRaise > 0 /\ toRaise' = toRaise - 1 /\ Signalled
  /\ UNCHANGED <<platform, svc, stopEvent, changeEvent, stopAsked, console, childSession,
                 switched, desired, atExit, tray, userAsked, restartFailed, trayMissed,
                 forcedAt, hostsStarted, lifeAsks, changes>>
TrayQuit ==
  /\ mainAt # "off" /\ tray = "on" /\ lifeAsks < MaxAsks /\ lifeAsks' = lifeAsks + 1
  /\ desired' = ExitCode(IF platform = "service" THEN "quit" ELSE "0")
  /\ userAsked' = userAsked \cup {"quit"} /\ toRaise' = toRaise + 1
  /\ UNCHANGED <<platform, svc, stopEvent, changeEvent, stopAsked, console, childSession,
                 switched, mainAt, hostExit, atExit, down, handler, tray, restartFailed,
                 trayMissed, forcedAt, hostsStarted, changes>>
RestartHost ==
  /\ mainAt \in {"threads", "loop", "joining"} /\ lifeAsks < MaxAsks /\ lifeAsks' = lifeAsks + 1
  /\ desired' = ExitCode("0") /\ atExit' = (atExit \/ RestartsItself)
  /\ userAsked' = userAsked \cup {"restart"} /\ toRaise' = toRaise + 1
  /\ UNCHANGED <<platform, svc, stopEvent, changeEvent, stopAsked, console, childSession,
                 switched, mainAt, hostExit, down, handler, tray, restartFailed, trayMissed,
                 forcedAt, hostsStarted, changes>>

(* Ten seconds after a signal main() has not come to stop the tasks.      *)
ForceShutdown ==
  /\ handler # "none" /\ mainAt \in {"signals", "inits", "threads", "loop", "joining"}
  /\ mainAt = "loop" => ~LoopOver /\ handler = "done"
  /\ forcedAt' = mainAt /\ EndedBy("trapped")
  /\ UNCHANGED <<platform, svc, stopEvent, changeEvent, stopAsked, console, childSession,
                 switched, lifeAsks, changes>>
HostDies ==
  /\ mainAt # "off" /\ EndedBy("killed")
  /\ UNCHANGED <<platform, svc, stopEvent, changeEvent, stopAsked, console, childSession,
                 switched, forcedAt, lifeAsks, changes>>

-----------------------------------------------------------------------------
(* ServiceMain(): every three seconds.                                    *)
Spawn ==
  /\ svc = "waiting" /\ ~stopEvent /\ console # "none" /\ hostsStarted < MaxHosts
  /\ svc' = "supervising" /\ childSession' = console /\ switched' = FALSE /\ NewHost
  /\ UNCHANGED <<platform, stopEvent, changeEvent, stopAsked, console, hostExit, forcedAt,
                 lifeAsks, changes>>
ServiceEnds ==
  /\ svc = "waiting" /\ stopEvent /\ svc' = "stopped"
  /\ UNCHANGED <<platform, stopEvent, changeEvent, stopAsked, console, childSession,
                 switched, mainAt, hostExit, desired, atExit, toRaise, down, handler, tray,
                 userAsked, restartFailed, trayMissed, forcedAt, hostsStarted,
                 lifeAsks, changes>>

(* The events are looked at in this order.  Variants: a host that ended   *)
(* well ends the service; the host stays when another session came.       *)
MeansStopBug(code) == code \in {"0", "quit"}
MeansStop(code) == code = "quit"
StaysBug == console # childSession
Stays == console = childSession
SawStop ==
  /\ svc = "supervising" /\ stopEvent /\ svc' = "terminating"
  /\ UNCHANGED <<platform, stopEvent, changeEvent, stopAsked, console, childSession,
                 switched, mainAt, hostExit, desired, atExit, toRaise, down, handler, tray,
                 userAsked, restartFailed, trayMissed, forcedAt, hostsStarted,
                 lifeAsks, changes>>
SawExit ==
  /\ svc = "supervising" /\ ~stopEvent /\ mainAt = "off" /\ svc' = "waiting"
  /\ stopEvent' = MeansStop(hostExit)
  /\ UNCHANGED <<platform, changeEvent, stopAsked, console, childSession, switched, mainAt,
                 hostExit, desired, atExit, toRaise, down, handler, tray, userAsked,
                 restartFailed, trayMissed, forcedAt, hostsStarted, lifeAsks,
                 changes>>
SawChange ==
  /\ svc = "supervising" /\ ~stopEvent /\ mainAt # "off" /\ changeEvent
  /\ changeEvent' = FALSE /\ svc' = IF Stays THEN "supervising" ELSE "terminating"
  /\ UNCHANGED <<platform, stopEvent, stopAsked, console, childSession, switched, mainAt,
                 hostExit, desired, atExit, toRaise, down, handler, tray, userAsked,
                 restartFailed, trayMissed, forcedAt, hostsStarted, lifeAsks,
                 changes>>

(* RunTerminationHelper() sends Ctrl-C; a host that does not end in time  *)
(* is killed.                                                             *)
SendCtrlC ==
  /\ svc = "terminating" /\ svc' = "killing" /\ switched' = TRUE
  /\ \/ mainAt # "off" /\ Signalled
     \/ mainAt = "off" /\ UNCHANGED <<mainAt, hostExit, down, handler>>
  /\ UNCHANGED <<platform, stopEvent, changeEvent, stopAsked, console, childSession,
                 desired, atExit, toRaise, tray, userAsked, restartFailed, trayMissed, forcedAt,
                 hostsStarted, lifeAsks, changes>>
HasEnded ==
  /\ svc = "killing" /\ mainAt = "off" /\ svc' = "waiting"
  /\ UNCHANGED <<platform, stopEvent, changeEvent, stopAsked, console, childSession,
                 switched, mainAt, hostExit, desired, atExit, toRaise, down, handler, tray,
                 userAsked, restartFailed, trayMissed, forcedAt, hostsStarted,
                 lifeAsks, changes>>
KillHost ==
  /\ svc \in {"terminating", "killing"} /\ mainAt # "off"
  /\ svc' = "waiting" /\ switched' = TRUE /\ EndedBy("killed")
  /\ UNCHANGED <<platform, stopEvent, changeEvent, stopAsked, console, childSession,
                 forcedAt, lifeAsks, changes>>

(* HandlerEx(), from the system.                                          *)
ControlStop ==
  /\ svc # "stopped" /\ platform = "service" /\ ~stopAsked
  /\ stopAsked' = TRUE /\ stopEvent' = TRUE
  /\ UNCHANGED <<platform, svc, changeEvent, console, childSession, switched, mainAt,
                 hostExit, desired, atExit, toRaise, down, handler, tray, userAsked,
                 restartFailed, trayMissed, forcedAt, hostsStarted, lifeAsks,
                 changes>>
SessionChange(s) ==
  /\ platform = "service" /\ changes < MaxChanges /\ changes' = changes + 1 /\ s # console
  /\ console' = s /\ changeEvent' = (changeEvent \/ s # "none")
  /\ UNCHANGED <<platform, svc, stopEvent, stopAsked, childSession, switched, mainAt,
                 hostExit, desired, atExit, toRaise, down, handler, tray, userAsked,
                 restartFailed, trayMissed, forcedAt, hostsStarted, lifeAsks>>

-----------------------------------------------------------------------------
LifeInit ==
  /\ platform \in Platforms /\ svc = IF platform = "service" THEN "waiting" ELSE "stopped"
  /\ stopEvent = FALSE /\ changeEvent = FALSE /\ stopAsked = FALSE /\ switched = FALSE
  /\ console = (CHOOSE s \in Consoles : TRUE) /\ childSession = "none"
  /\ mainAt = "off" /\ hostExit = "failed" /\ desired = "0" /\ atExit = FALSE /\ down = FALSE
  /\ toRaise = 0 /\ handler = "none" /\ tray = "none" /\ userAsked = {}
  /\ restartFailed = FALSE /\ trayMissed = FALSE
  /\ forcedAt = "off" /\ hostsStarted = 0 /\ lifeAsks = 0 /\ changes = 0

LifeNext ==
  \/ UserStarts \/ InstallSignals \/ Initialised \/ NotInitialised
  \/ StartThreads \/ ShutBefore \/ \E o \in {"on", "failed", "unwanted"} : StartTray(o)
  \/ LeaveLoop \/ ThreadsJoined \/ MainReturns
  \/ EndTray \/ Interrupt \/ RaiseSignal \/ TrayQuit \/ RestartHost \/ ForceShutdown \/ HostDies
  \/ Spawn \/ ServiceEnds \/ SawStop \/ SawExit \/ SawChange \/ SendCtrlC \/ HasEnded
  \/ KillHost \/ ControlStop \/ \E s \in Consoles \cup {"none"} : SessionChange(s)

-----------------------------------------------------------------------------
(* The domains of the variables.                                          *)
LifeTypeOK ==
  /\ svc \in {"waiting", "supervising", "terminating", "killing", "stopped"}
  /\ mainAt \in {"off", "start", "signals", "inits", "threads", "loop", "joining",
                 "joined"}
  /\ hostExit \in {"0", "quit", "failed", "killed", "trapped"}
  /\ handler \in {"none", "raised", "done"} /\ tray \in {"none", "on", "failed", "off", "unwanted"}

EndedItself == mainAt = "off" /\ hostExit \in {"0", "quit"}

(* When the user quits a host of the service from the tray the service    *)
(* ends too, whatever else was asked; unless the host was forced to end,  *)
(* or ended by the service for another session.                           *)
QuitIsHeeded ==
  platform = "service" /\ svc = "waiting" /\ EndedItself /\ "quit" \in userAsked /\ ~switched
    => stopEvent

(* After a restart that ended the host well there is another host, or the *)
(* service is about to start one, unless it was told to stop; unless the  *)
(* other host could not be started by the one that ended.                 *)
RestartIsHeeded ==
  mainAt = "off" /\ hostExit = "0" /\ "restart" \in userAsked
    => IF platform = "service" THEN stopEvent => stopAsked ELSE restartFailed

(* The host runs in the console session, or the service is about to see   *)
(* that it does not.                                                      *)
InConsoleSession ==
  svc = "supervising" /\ console \notin {childSession, "none"} => changeEvent

(* The main loop is left in time after a signal; unless the tray was      *)
(* hostsStarted when the handler had already ended it.                    *)
LoopLeftInTime == hostExit = "trapped" /\ mainAt = "off" /\ forcedAt = "loop" => trayMissed
=============================================================================
