----------------------------- MODULE AppProcess -----------------------------
(***************************************************************************)
(* proc::proc, the one application the host runs: its prep commands, its   *)
(* process, and the handlers that call execute(), running(), terminate()   *)
(* and refresh() on it.  proc_t has no lock: the calls interleave as the   *)
(* threads that make them do, and torn remembers that two of them were     *)
(* changing proc at once.                                                  *)
(*                                                                         *)
(* Each action is one thread's run between two places where it waits (for  *)
(* a child to exit, for a process group to close) or leaves a function.    *)
(***************************************************************************)
EXTENDS Integers

CONSTANTS
  Https,      (* the thread of the GameStream HTTPS server                 *)
  Config,     (* the thread of the web UI server                           *)
  Pollers,    (* threads that only call running(): the control thread, the *)
              (* GameStream HTTP thread                                    *)
  Games,      (* apps with a command of their own                          *)
  Desktops,   (* apps without one                                          *)
  NoApp,      (* no app; also what an unknown appid finds                  *)
  NumPreps    (* prep commands of each app                                 *)

Apps == Games \cup Desktops
Threads == Pollers \cup {Https, Config}
Preps == 1..NumPreps

ASSUME AppAssumption ==
  /\ NumPreps \in Nat
  /\ Games \cap Desktops = {}
  /\ NoApp \notin Apps /\ "none" \notin Apps /\ "fresh" \notin Apps
  /\ Https # Config /\ Https \notin Pollers /\ Config \notin Pollers

VARIABLES
  appId,      (* _app_id: an app, "none" for -1, "fresh" for 0             *)
  app,        (* _app: the app whose commands are at hand                  *)
  it,         (* _app_prep_it - _app_prep_begin                            *)
  placebo,    (* placebo                                                   *)
  process,    (* _process with its group, as running() sees it             *)
  applied,    (* prep commands of app taken for done and not undone,       *)
              (* counted                                                   *)
  denied,     (* those of them that were not run for want of permission    *)
  display,    (* the display settings: the user's own, or a client's       *)
  pc,         (* where each thread is                                      *)
  op,         (* the handler it runs                                       *)
  then,       (* where it goes on when terminate() returns                 *)
  want,       (* the app a launch asks for                                 *)
  mine,       (* revert_display_configuration of launch()                  *)
  torn        (* two calls were changing proc at once                      *)

procVars == <<appId, app, it, placebo, process>>
prepVars == <<applied, denied>>
handlerVars == <<op, want, mine>>
vars == <<appId, app, it, placebo, process, applied, denied, display,
          pc, op, then, want, mine, torn>>

(* "finish" and "failed" are the ends of handlers that may still restore   *)
(* the display.                                                            *)
Locations == {"idle", "running", "prepare", "terminate", "kill", "undo", "back",
              "find", "do", "advance", "finish", "failed"}

(* Inside execute() or terminate(), or about to call execute().            *)
Changing == {"prepare", "terminate", "kill", "undo", "back", "find", "do",
             "advance"}

Ops == {"query", "launch", "cancel", "close", "disable"}

(* Every variable has its type; the iterator stays within the commands and *)
(* no command is done or undone twice unless two calls changed proc at     *)
(* once.                                                                   *)
TypeOK ==
  /\ appId \in Apps \cup {"none", "fresh"}
  /\ app \in Apps \cup {NoApp}
  /\ ~torn => /\ it \in 0..NumPreps /\ applied \in [Preps -> {0, 1}]
              /\ denied \subseteq Preps
  /\ placebo \in BOOLEAN
  /\ process \in {"none", "running", "quick", "exited"}
  /\ display \in {"own", "client"}
  /\ pc \in [Threads -> Locations]
  /\ op \in [Threads -> Ops]
  /\ then \in [Threads -> Locations]
  /\ want \in Apps \cup {NoApp}
  /\ mine \in BOOLEAN /\ torn \in BOOLEAN

Init ==
  /\ appId = "fresh" /\ app = NoApp /\ it = 0
  /\ placebo = FALSE /\ process = "none"
  /\ applied = [i \in Preps |-> 0] /\ denied = {}
  /\ display = "own"
  /\ pc = [t \in Threads |-> "idle"]
  /\ op = [t \in Threads |-> "query"]
  /\ then = [t \in Threads |-> "idle"]
  /\ want = NoApp /\ mine = FALSE /\ torn = FALSE

----------------------------------------------------------------------------
Collides(t) == \E u \in Threads \ {t} : pc[u] \in Changing

Goto(t, l) ==
  /\ pc' = [pc EXCEPT ![t] = l]
  /\ torn' = (torn \/ (l \in Changing /\ Collides(t)))

Call(t, o, l) ==
  /\ pc[t] = "idle"
  /\ op' = [op EXCEPT ![t] = o]
  /\ Goto(t, l)
  /\ UNCHANGED <<procVars, prepVars, display, mine>>

(* serverinfo, resume, the control thread's loop, join(): running() only.  *)
Query(t) ==
  /\ t # Config
  /\ Call(t, "query", "running")
  /\ UNCHANGED <<then, want>>

(* /launch of an app; NoApp stands for an appid the host does not know.    *)
Launch(a) ==
  /\ Call(Https, "launch", "running")
  /\ want' = a
  /\ UNCHANGED then

(* /cancel, after terminate_sessions().                                    *)
Cancel == Call(Https, "cancel", "running") /\ UNCHANGED <<then, want>>

(* closeApp, unpairAll, unpair of the last client.                         *)
Close ==
  /\ Call(Config, "close", "terminate")
  /\ then' = [then EXCEPT ![Config] = "idle"]
  /\ UNCHANGED want

(* updateClient: the client was disabled and no session is left.           *)
Disable == Call(Config, "disable", "running") /\ UNCHANGED <<then, want>>

(* saveApp, deleteApp: proc = std::move(what the file says).  The position *)
(* in the commands is lost: those in effect will never be undone.          *)
Refresh ==
  /\ pc[Config] = "idle"
  /\ appId' = "fresh" /\ app' = NoApp /\ it' = 0
  /\ placebo' = FALSE /\ process' = "none"
  /\ applied' = [i \in Preps |-> 0] /\ denied' = {}
  /\ torn' = (torn \/ Collides(Config))
  /\ UNCHANGED <<display, pc, handlerVars, then>>

----------------------------------------------------------------------------
(* running()                                                               *)

(* Mutant: a launch does not mind a running app.                           *)
WhenUpBug(o) ==
  IF o = "cancel" \/ o = "disable" THEN "terminate"
  ELSE IF o = "launch" THEN "prepare" ELSE "idle"

(* What the handler does with the result.                                  *)
WhenUp(o) == IF o = "cancel" \/ o = "disable" THEN "terminate" ELSE "idle"

WhenDown(o) == IF o = "launch" THEN "prepare"
               ELSE IF o = "cancel" THEN "finish" ELSE "idle"

(* After the terminate() of a handler that found the app running.          *)
WhenStopped(o) == IF o = "cancel" THEN "finish" ELSE "idle"

Onward(t) == IF appId \in Apps THEN WhenUp(op[t]) ELSE WhenDown(op[t])

Alive == placebo \/ process = "running"

SeesAlive(t) ==
  /\ pc[t] = "running" /\ Alive
  /\ Goto(t, Onward(t))
  /\ then' = [then EXCEPT ![t] = WhenStopped(op[t])]
  /\ UNCHANGED <<procVars, prepVars, display, handlerVars>>

(* auto_detach: an exit with code 0 within five seconds.                   *)
SeesQuickExit(t) ==
  /\ pc[t] = "running" /\ ~Alive /\ process = "quick"
  /\ placebo' = TRUE
  /\ pc' = [pc EXCEPT ![t] = Onward(t)]
  /\ torn' = (torn \/ Collides(t))
  /\ then' = [then EXCEPT ![t] = WhenStopped(op[t])]
  /\ UNCHANGED <<appId, app, it, process, prepVars, display, handlerVars>>

SeesExit(t) ==
  /\ pc[t] = "running" /\ ~Alive /\ process = "exited"
  /\ Goto(t, "terminate")
  /\ then' = [then EXCEPT ![t] = WhenDown(op[t])]
  /\ UNCHANGED <<procVars, prepVars, display, handlerVars>>

SeesNothing(t) ==
  /\ pc[t] = "running" /\ ~Alive /\ process = "none"
  /\ Goto(t, WhenDown(op[t]))
  /\ UNCHANGED <<procVars, prepVars, display, handlerVars, then>>

----------------------------------------------------------------------------
(* terminate()                                                             *)

Terminate(t) ==
  /\ pc[t] = "terminate"
  /\ placebo' = FALSE
  /\ Goto(t, "kill")
  /\ UNCHANGED <<appId, app, it, process, prepVars, display,
                 handlerVars, then>>

(* terminate_process_group() waits up to exit_timeout before this.         *)
Kill(t) ==
  /\ pc[t] = "kill"
  /\ process' = "none"
  /\ Goto(t, "undo")
  /\ UNCHANGED <<appId, app, it, placebo, prepVars, display,
                 handlerVars, then>>

(* Mutant: the undo commands run in the order of the do commands.          *)
UndoForwardBug(t) ==
  /\ pc[t] = "undo" /\ it \in Preps
  /\ applied' = [applied EXCEPT ![NumPreps + 1 - it] = @ - 1]
  /\ Goto(t, "back")
  /\ UNCHANGED <<procVars, denied, display, handlerVars, then>>

(* The undo command of the prep command before the iterator runs.  An      *)
(* iterator outside the commands is undefined behaviour: not followed.     *)
Undo(t) ==
  /\ pc[t] = "undo" /\ it \in Preps
  /\ applied' = [applied EXCEPT ![it] = @ - 1]
  /\ Goto(t, "back")
  /\ UNCHANGED <<procVars, denied, display, handlerVars, then>>

Back(t) ==
  /\ pc[t] = "back"
  /\ it' = it - 1
  /\ Goto(t, "undo")
  /\ UNCHANGED <<appId, app, placebo, process, prepVars, display,
                 handlerVars, then>>

EndTerminate(t) ==
  /\ pc[t] = "undo" /\ it = 0
  /\ display' = IF appId \in Apps THEN "own" ELSE display
  /\ appId' = "none"
  /\ denied' = {}
  /\ Goto(t, then[t])
  /\ UNCHANGED <<app, it, placebo, process, applied, handlerVars, then>>

----------------------------------------------------------------------------
(* launch() and execute()                                                  *)

(* The display is prepared when there is no session; then the encoders are *)
(* probed and the encryption mode is checked, and either may end the call. *)
(* An appid of 0 starts no app: the call ends well without execute().      *)
Prepare(first, next) ==
  /\ pc[Https] = "prepare"
  /\ next = "idle" => want = NoApp
  /\ mine' = first
  /\ display' = IF first THEN "client" ELSE display
  /\ Goto(Https, next)
  /\ then' = [then EXCEPT ![Https] = "find"]
  /\ UNCHANGED <<procVars, prepVars, op, want>>

(* execute() returns 404.                                                  *)
NotFound ==
  /\ pc[Https] = "find" /\ want = NoApp
  /\ Goto(Https, "failed")
  /\ UNCHANGED <<procVars, prepVars, display, handlerVars, then>>

Find ==
  /\ pc[Https] = "find" /\ want \in Apps
  /\ appId' = want /\ app' = want /\ it' = 0
  /\ then' = [then EXCEPT ![Https] = "failed"]
  /\ Goto(Https, "do")
  /\ UNCHANGED <<placebo, process, prepVars, display, handlerVars>>

(* Mutant: the loop runs once too often.                                   *)
MorePrepsBug == it <= NumPreps

MorePreps == it < NumPreps

(* One prep command runs to its end and succeeds.                          *)
Do ==
  /\ pc[Https] = "do" /\ MorePreps
  /\ applied' = [applied EXCEPT ![it + 1] = @ + 1]
  /\ Goto(Https, "advance")
  /\ UNCHANGED <<procVars, denied, display, handlerVars, then>>

Advance ==
  /\ pc[Https] = "advance"
  /\ it' = it + 1
  /\ Goto(Https, "do")
  /\ UNCHANGED <<appId, app, placebo, process, prepVars, display,
                 handlerVars, then>>

(* Mutant: the error is only logged.                                       *)
DoFailsIgnoredBug ==
  /\ pc[Https] = "do" /\ MorePreps
  /\ Goto(Https, "advance")
  /\ UNCHANGED <<procVars, prepVars, display, handlerVars, then>>

(* It cannot be run, or its wait fails, or it exits with an error: the     *)
(* guard terminates.                                                       *)
DoFails ==
  /\ pc[Https] = "do" /\ MorePreps
  /\ Goto(Https, "terminate")
  /\ UNCHANGED <<procVars, prepVars, display, handlerVars, then>>

(* Mutant: the check does not ask which app it is.                         *)
DoDeniedBug ==
  /\ pc[Https] = "do" /\ MorePreps
  /\ applied' = [applied EXCEPT ![it + 1] = @ + 1]
  /\ denied' = denied \cup {it + 1}
  /\ Goto(Https, "advance")
  /\ UNCHANGED <<procVars, display, handlerVars, then>>

(* "We don't want any prep commands failing launch of the desktop": one    *)
(* that is denied permission does not end the launch there, and the loop   *)
(* goes on to wait for a child that is none.  What boost makes of that     *)
(* wait is its own: an error (DoFails), or nothing, and the command is     *)
(* taken for done, its undo command included.                              *)
DoDenied ==
  /\ pc[Https] = "do" /\ MorePreps
  /\ app \in Desktops
  /\ applied' = [applied EXCEPT ![it + 1] = @ + 1]
  /\ denied' = denied \cup {it + 1}
  /\ Goto(Https, "advance")
  /\ UNCHANGED <<procVars, display, handlerVars, then>>

SpawnDesktop ==
  /\ pc[Https] = "do" /\ ~MorePreps /\ app \in Desktops
  /\ placebo' = TRUE
  /\ Goto(Https, "idle")
  /\ UNCHANGED <<appId, app, it, process, prepVars, display,
                 handlerVars, then>>

SpawnGame ==
  /\ pc[Https] = "do" /\ ~MorePreps /\ app \in Games
  /\ process' = "running"
  /\ Goto(Https, "idle")
  /\ UNCHANGED <<appId, app, it, placebo, prepVars, display,
                 handlerVars, then>>

(* Mutant: the guard does not cover the command itself.                    *)
SpawnFailsBug ==
  /\ pc[Https] = "do" /\ ~MorePreps /\ app \in Games
  /\ process' = "none"
  /\ Goto(Https, "failed")
  /\ UNCHANGED <<appId, app, it, placebo, prepVars, display,
                 handlerVars, then>>

SpawnFails ==
  /\ pc[Https] = "do" /\ ~MorePreps /\ app \in Games
  /\ process' = "none"
  /\ Goto(Https, "terminate")
  /\ UNCHANGED <<appId, app, it, placebo, prepVars, display,
                 handlerVars, then>>

(* The end of a launch() that failed, with its fail_guard.                 *)
Failed ==
  /\ pc[Https] = "failed"
  /\ display' = IF mine THEN "own" ELSE display
  /\ Goto(Https, "idle")
  /\ UNCHANGED <<procVars, prepVars, handlerVars, then>>

(* The end of cancel().                                                    *)
Finish ==
  /\ pc[Https] = "finish"
  /\ display' = "own"
  /\ Goto(Https, "idle")
  /\ UNCHANGED <<procVars, prepVars, handlerVars, then>>

----------------------------------------------------------------------------
(* The application itself.                                                 *)

Exits(how) ==
  /\ process = "running"
  /\ process' = how
  /\ UNCHANGED <<appId, app, it, placebo, prepVars, display, pc,
                 handlerVars, then, torn>>

FiveSecondsPass ==
  /\ process = "quick"
  /\ process' = "exited"
  /\ UNCHANGED <<appId, app, it, placebo, prepVars, display, pc,
                 handlerVars, then, torn>>

Handlers ==
  \/ \E t \in Threads : Query(t)
  \/ \E a \in Apps \cup {NoApp} : Launch(a)
  \/ Cancel \/ Close \/ Disable \/ Refresh

Execute ==
  \/ \E first \in BOOLEAN, next \in {"terminate", "failed", "idle"} :
       Prepare(first, next)
  \/ NotFound \/ Find \/ Do \/ Advance \/ DoFails \/ DoDenied
  \/ SpawnDesktop \/ SpawnGame \/ SpawnFails \/ Failed \/ Finish

Running(t) == SeesAlive(t) \/ SeesQuickExit(t) \/ SeesExit(t) \/ SeesNothing(t)

Terminating(t) == Terminate(t) \/ Kill(t) \/ Undo(t) \/ Back(t) \/ EndTerminate(t)

Environment == Exits("quick") \/ Exits("exited") \/ FiveSecondsPass

Next ==
  \/ Handlers \/ Execute \/ Environment
  \/ \E t \in Threads : Running(t) \/ Terminating(t)

Spec == Init /\ [][Next]_vars

----------------------------------------------------------------------------
Quiet == \A t \in Threads : pc[t] = "idle"

(* Between the calls, running() returns the app if anything runs:          *)
(* process.h:88 "@return `_app_id` if a process is running, otherwise      *)
(* returns `0`".                                                           *)
RunningIsKnown == Quiet /\ Alive => appId \in Apps

(* Unless two calls were changing proc at once, whatever calls to          *)
(* running() happened meanwhile: what runs is the app that was launched,   *)
(* with every prep command done once and none undone (process.h:32         *)
(* "guaranteed to be executed unless any of the commands fail"); only an   *)
(* app without a command may run with one that was denied permission.      *)
RunningIsPrepared ==
  Quiet /\ Alive /\ ~torn =>
    /\ appId \in Apps /\ appId = app
    /\ \A i \in Preps : applied[i] = 1
    /\ denied # {} => app \in Desktops

(* When no process is left and no call is being made, whichever prep       *)
(* command or spawn failed, every prep command that was done was undone    *)
(* (or forgotten by refresh()), and no app id is left for the next         *)
(* terminate() to act on.                                                  *)
StoppedIsUndone ==
  Quiet /\ ~Alive /\ process = "none" =>
    appId \notin Apps /\ \A i \in Preps : applied[i] = 0

(* At every moment the prep commands in effect are the first few: they are *)
(* undone in the opposite order, and one whose do command failed never is. *)
UndoneInReverse ==
  \A i, j \in Preps : i < j /\ applied[j] = 1 => applied[i] = 1

(* Whatever fails on the way, exactly the prep commands that were done are *)
(* undone, last first, before the app counts as stopped, unless two calls  *)
(* were changing proc at once.                                             *)
PrepsUndone == ~torn => StoppedIsUndone /\ UndoneInReverse

(* The terminate() that opens execute() finds nothing to do: it neither    *)
(* undoes commands nor restores the display launch() has just prepared.    *)
CleanSlate ==
  ~torn /\ pc[Https] \in {"terminate", "kill", "undo", "back"}
        /\ then[Https] = "find" =>
    appId \notin Apps /\ it = 0

(* Bound of the runs: nothing is said of what follows a torn proc.         *)
Whole == ~torn
=============================================================================
