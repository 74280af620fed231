------------------------- MODULE AppProcessProofs -------------------------
(***************************************************************************)
(* The application process for any apps, threads and number of prep        *)
(* commands, in every interleaving of the calls on proc up to the moment   *)
(* when two of them change it at once.  Known says for every place a call  *)
(* can be at which prep commands are in effect: while no call changes proc *)
(* all of them or none, inside execute() and terminate() the first ones,   *)
(* up to the iterator.                                                     *)
(***************************************************************************)
EXTENDS AppProcess, TLAPS

(* One call changes proc at a time.                                        *)
OneCall ==
  \A t, u \in Threads : pc[t] \in Changing /\ pc[u] \in Changing => t = u

Settled == \A t \in Threads : pc[t] \notin Changing

(* The prep commands in effect are the first k.                            *)
First(k) == \A i \in Preps : applied[i] = IF i <= k THEN 1 ELSE 0

Down ==
  /\ appId \notin Apps /\ it = 0 /\ First(0) /\ denied = {}
  /\ ~placebo /\ process = "none"

DeniedToDesktop == denied # {} => app \in Desktops

Started ==
  /\ appId \in Apps /\ appId = app /\ it = NumPreps /\ First(NumPreps)
  /\ DeniedToDesktop
  /\ placebo \/ process # "none"

Executing ==
  /\ appId \in Apps /\ appId = app /\ DeniedToDesktop
  /\ ~placebo /\ process = "none"

(* Where a call may be after terminate(): each finds the app down.         *)
AfterTerminate == {"idle", "prepare", "finish", "find", "failed"}
InTerminate == {"terminate", "kill", "undo", "back"}

(* What holds while thread t is at location l.                             *)
At(t, l) ==
  /\ l \in {"prepare", "find"} => Down
  /\ l \in InTerminate => then[t] \in AfterTerminate /\ (then[t] = "find" => Down)
  /\ l \in {"terminate", "kill", "undo"} => First(it)
  /\ l \in {"kill", "undo", "back"} => ~placebo
  /\ l \in {"undo", "back"} => process = "none"
  /\ l = "back" => it \in Preps /\ First(it - 1)
  /\ l \in {"do", "advance"} => Executing /\ then[t] = "failed"
  /\ l = "do" => First(it)
  /\ l = "advance" => it < NumPreps /\ First(it + 1)

Known ==
  /\ OneCall
  /\ Settled => Down \/ Started
  /\ \A t \in Threads : At(t, pc[t])

Inv == TypeOK /\ (~torn => Known)

----------------------------------------------------------------------------
(* Before the first call nothing runs and no prep command is in effect.    *)
LEMMA InitInv == Init => Inv
<1> SUFFICES ASSUME Init PROVE Inv
  OBVIOUS
<1> USE DEF Init
<1>1. \A t \in Threads : pc[t] = "idle"
  OBVIOUS
<1>2. TypeOK
  <2>1. it \in 0..NumPreps /\ applied \in [Preps -> {0, 1}]
    BY AppAssumption
  <2>2. /\ pc \in [Threads -> Locations] /\ op \in [Threads -> Ops]
        /\ then \in [Threads -> Locations]
    BY DEF Locations, Ops
  <2> QED BY <2>1, <2>2 DEF TypeOK
<1>3. Down
  BY AppAssumption DEF Down, First, Preps
<1> QED BY <1>1, <1>2, <1>3 DEF Inv, Known, OneCall, At, InTerminate, Changing

(* A step of the only call that changes proc needs to be right about the   *)
(* place it moves to.                                                      *)
LEMMA OneMoves ==
  ASSUME Inv, TypeOK', NEW t \in Threads, NEW l \in Locations,
         ~torn' => \A u \in Threads \ {t} : pc[u] \notin Changing,
         pc' = [pc EXCEPT ![t] = l],
         ~torn' => At(t, l)',
         ~torn' /\ l \notin Changing => (Down \/ Started)'
  PROVE  Inv'
<1> SUFFICES ASSUME ~torn' PROVE Known'
  BY DEF Inv
<1>1. /\ pc'[t] = l
      /\ \A u \in Threads \ {t} : pc'[u] \notin Changing
  BY DEF Inv, TypeOK
<1>2. OneCall'
  BY <1>1 DEF OneCall
<1>3. (Settled => Down \/ Started)'
  BY <1>1 DEF Settled
<1>4. ASSUME NEW u \in Threads PROVE At(u, pc[u])'
  <2>1. CASE u = t
    BY <1>1, <2>1
  <2>2. CASE u # t
    <3>1. pc'[u] \notin Changing
      BY <1>1, <2>2
    <3> QED BY <3>1 DEF At, InTerminate, Changing
  <2> QED BY <2>1, <2>2
<1> QED BY <1>2, <1>3, <1>4 DEF Known

(* A call that changes proc neither before nor after its step, nor in it.  *)
LEMMA Passes ==
  ASSUME Inv, TypeOK', NEW t \in Threads, NEW l \in Locations,
         pc[t] \notin Changing, l \notin Changing, Goto(t, l),
         UNCHANGED procVars, UNCHANGED prepVars,
         \A u \in Threads \ {t} : then'[u] = then[u]
  PROVE  Inv'
<1> SUFFICES ASSUME ~torn' PROVE Known'
  BY DEF Inv
<1>1. Known
  BY DEF Goto, Inv
<1>2. /\ pc'[t] = l
      /\ \A u \in Threads \ {t} : pc'[u] = pc[u]
  BY DEF Goto, Inv, TypeOK
<1>3. /\ (Down => Down') /\ (Started => Started') /\ (Executing => Executing')
      /\ UNCHANGED <<it, placebo, process, applied>>
  BY DEF procVars, prepVars, Down, Started, Executing, First, DeniedToDesktop
<1>4. OneCall'
  BY <1>1, <1>2 DEF Known, OneCall
<1>5. (Settled => Down \/ Started)'
  BY <1>1, <1>2, <1>3 DEF Known, Settled
<1>6. ASSUME NEW u \in Threads PROVE At(u, pc[u])'
  <2>1. CASE u = t
    BY <1>2, <2>1 DEF At, InTerminate, Changing
  <2>2. CASE u # t
    BY <1>1, <1>2, <1>3, <2>2 DEF Known, At, First
  <2> QED BY <2>1, <2>2
<1> QED BY <1>4, <1>5, <1>6 DEF Known

(* While proc is whole, a call that changes it is the only one.            *)
LEMMA Alone ==
  ASSUME Inv, NEW t \in Threads, pc[t] \in Changing, ~torn
  PROVE  At(t, pc[t]) /\ \A u \in Threads \ {t} : pc[u] \notin Changing
  BY DEF Inv, Known, OneCall

(* A call that begins to change proc, and leaves it whole, finds it        *)
(* settled.                                                                *)
LEMMA Enters ==
  ASSUME Inv, NEW t \in Threads, pc[t] \notin Changing, ~Collides(t), ~torn
  PROVE  /\ Down \/ Started
         /\ \A u \in Threads \ {t} : pc[u] \notin Changing
  BY DEF Inv, Known, Settled, Collides

(* A call begins.                                                          *)
LEMMA CallKeeps ==
  ASSUME Inv, NEW t \in Threads, NEW o \in Ops, Call(t, o, "running"),
         UNCHANGED then, want' \in Apps \cup {NoApp}
  PROVE  Inv'
<1>1. TypeOK'
  BY DEF Call, Goto, procVars, prepVars, Inv, TypeOK, Locations
<1> QED BY <1>1, Passes DEF Call, Locations, Changing

(* The steps of the handlers between their calls of proc keep the          *)
(* invariant; closeApp goes straight to terminate().                       *)
LEMMA HandlersKeep == ASSUME Inv, Handlers PROVE Inv'
<1> USE DEF Ops
<1>1. Https \in Threads /\ Config \in Threads
  BY DEF Threads
<1>2. want \in Apps \cup {NoApp}
  BY DEF Inv, TypeOK
<1>3. ASSUME NEW t \in Threads, Query(t) PROVE Inv'
  BY <1>2, <1>3, CallKeeps DEF Query
<1>4. ASSUME NEW a \in Apps \cup {NoApp}, Launch(a) PROVE Inv'
  BY <1>1, <1>4, CallKeeps DEF Launch
<1>5. CASE Cancel
  BY <1>1, <1>2, <1>5, CallKeeps DEF Cancel
<1>6. CASE Close
  <2>1. /\ pc[Config] = "idle" /\ pc' = [pc EXCEPT ![Config] = "terminate"]
        /\ torn' = (torn \/ Collides(Config))
        /\ then' = [then EXCEPT ![Config] = "idle"]
        /\ UNCHANGED <<appId, app, it, placebo, process, applied, denied>>
    BY <1>6 DEF Close, Call, Goto, Changing, procVars, prepVars
  <2>2. TypeOK'
    BY <1>6 DEF Close, Call, Goto, procVars, prepVars, Inv, TypeOK, Locations
  <2>3. ASSUME ~torn'
        PROVE  /\ At(Config, "terminate")'
               /\ \A u \in Threads \ {Config} : pc[u] \notin Changing
    <3>1. /\ Down \/ Started
          /\ \A u \in Threads \ {Config} : pc[u] \notin Changing
      BY <1>1, <2>1, <2>3, Enters DEF Changing
    <3>2. First(it)'
      BY <2>1, <3>1 DEF Down, Started, First
    <3>3. then'[Config] = "idle"
      BY <1>1, <2>1 DEF Inv, TypeOK
    <3> QED BY <3>1, <3>2, <3>3 DEF At, InTerminate, AfterTerminate
  <2> QED BY <1>1, <2>1, <2>2, <2>3, OneMoves DEF Locations, Changing
<1>7. CASE Disable
  BY <1>1, <1>2, <1>7, CallKeeps DEF Disable
<1>8. CASE Refresh
  <2>1. /\ appId' = "fresh" /\ app' = NoApp /\ it' = 0 /\ placebo' = FALSE
        /\ process' = "none" /\ applied' = [i \in Preps |-> 0] /\ denied' = {}
        /\ pc[Config] = "idle" /\ torn' = (torn \/ Collides(Config))
        /\ UNCHANGED <<display, pc, op, want, mine, then>>
    BY <1>8 DEF Refresh, handlerVars
  <2>2. TypeOK'
    <3>1. it' \in 0..NumPreps /\ applied' \in [Preps -> {0, 1}] /\ denied' \subseteq Preps
      BY <2>1, AppAssumption
    <3> QED BY <2>1, <3>1 DEF Inv, TypeOK
  <2>3. First(0)'
    BY <2>1 DEF First, Preps
  <2>4. Down'
    BY <2>1, <2>3, AppAssumption DEF Down
  <2>5. ASSUME ~torn' PROVE \A u \in Threads : pc'[u] \notin Changing
    BY <1>1, <2>1, <2>5, Enters DEF Changing
  <2>6. ASSUME ~torn' PROVE Known'
    BY <2>4, <2>5, <2>6 DEF Known, OneCall, At, InTerminate, Changing
  <2> QED BY <2>2, <2>6 DEF Inv
<1> QED BY <1>3, <1>4, <1>5, <1>6, <1>7, <1>8 DEF Handlers

----------------------------------------------------------------------------
(* running() leaves an app that is up alone, whatever the handler then does *)
(* with it, and begins terminate() for one that has exited.                *)
LEMMA RunningKeeps == ASSUME Inv, NEW t \in Threads, Running(t) PROVE Inv'
<1>1. pc[t] = "running" /\ pc[t] \notin Changing
  BY DEF Running, SeesAlive, SeesQuickExit, SeesExit, SeesNothing, Changing
<1>2. PICK l \in {"idle", "terminate", "prepare", "finish"} : l = Onward(t)
  BY DEF Onward, WhenUp, WhenDown
<1>3. PICK n \in {"idle", "finish"} : n = WhenStopped(op[t])
  BY DEF WhenStopped
<1>4. PICK d \in {"idle", "prepare", "finish"} : d = WhenDown(op[t])
  BY DEF WhenDown
<1> USE DEF Locations
<1>5. ASSUME l = "prepare", Started PROVE FALSE
  BY <1>2, <1>5 DEF Onward, WhenUp, Started
<1>6. CASE SeesAlive(t)
  <2>1. /\ pc' = [pc EXCEPT ![t] = l] /\ Goto(t, l) /\ Alive
        /\ then' = [then EXCEPT ![t] = n]
        /\ UNCHANGED <<appId, app, it, placebo, process, applied, denied, procVars, prepVars>>
    BY <1>2, <1>3, <1>6 DEF SeesAlive, Goto, procVars, prepVars
  <2>2. TypeOK'
    BY <1>6, <2>1 DEF SeesAlive, Goto, handlerVars, Inv, TypeOK
  <2>3. CASE l \notin Changing
    BY <1>1, <2>1, <2>2, <2>3, Passes DEF Inv, TypeOK
  <2>4. CASE l \in Changing
    <3>1. ASSUME ~torn'
          PROVE  /\ At(t, l)'
                 /\ \A u \in Threads \ {t} : pc[u] \notin Changing
      <4>1. /\ Down \/ Started
            /\ \A u \in Threads \ {t} : pc[u] \notin Changing
        BY <1>1, <2>1, <2>4, <3>1, Enters DEF Goto
      <4>2. Started
        BY <2>1, <4>1 DEF Alive, Down
      <4>3. l = "terminate"
        BY <1>5, <2>4, <4>2 DEF Changing
      <4>4. First(it)' /\ then'[t] = n
        BY <2>1, <4>2 DEF Started, First, Inv, TypeOK
      <4> QED BY <4>1, <4>3, <4>4 DEF At, InTerminate, AfterTerminate
    <3> QED BY <2>1, <2>2, <2>4, <3>1, OneMoves
  <2> QED BY <2>3, <2>4
<1>7. CASE SeesQuickExit(t)
  <2>1. /\ pc' = [pc EXCEPT ![t] = l] /\ torn' = (torn \/ Collides(t))
        /\ placebo' = TRUE /\ process = "quick"
        /\ then' = [then EXCEPT ![t] = n]
        /\ UNCHANGED <<appId, app, it, process, applied, denied>>
    BY <1>2, <1>3, <1>7 DEF SeesQuickExit, prepVars
  <2>2. TypeOK'
    BY <1>7, <2>1 DEF SeesQuickExit, handlerVars, Inv, TypeOK
  <2>3. ASSUME ~torn'
        PROVE  /\ At(t, l)' /\ Started'
               /\ \A u \in Threads \ {t} : pc[u] \notin Changing
    <3>1. /\ Down \/ Started
          /\ \A u \in Threads \ {t} : pc[u] \notin Changing
      BY <1>1, <2>1, <2>3, Enters
    <3>2. Started
      BY <2>1, <3>1 DEF Down
    <3>3. Started'
      BY <2>1, <3>2 DEF Started, First, DeniedToDesktop
    <3>4. First(it)' /\ then'[t] = n
      BY <2>1, <3>2 DEF Started, First, Inv, TypeOK
    <3>5. l \in {"idle", "terminate", "finish"}
      BY <1>5, <3>2
    <3> QED BY <3>1, <3>3, <3>4, <3>5 DEF At, InTerminate, AfterTerminate
  <2> QED BY <2>1, <2>2, <2>3, OneMoves
<1>8. CASE SeesExit(t)
  <2>1. /\ pc' = [pc EXCEPT ![t] = "terminate"] /\ then' = [then EXCEPT ![t] = d]
        /\ torn' = (torn \/ Collides(t))
        /\ UNCHANGED <<appId, app, it, placebo, process, applied, denied>>
    BY <1>4, <1>8 DEF SeesExit, Goto, procVars, prepVars, Changing
  <2>2. TypeOK'
    BY <1>8, <2>1 DEF SeesExit, handlerVars, Inv, TypeOK
  <2>3. ASSUME ~torn'
        PROVE  /\ At(t, "terminate")'
               /\ \A u \in Threads \ {t} : pc[u] \notin Changing
    <3>1. /\ Down \/ Started
          /\ \A u \in Threads \ {t} : pc[u] \notin Changing
      BY <1>1, <2>1, <2>3, Enters
    <3>2. First(it)' /\ then'[t] = d
      BY <2>1, <3>1 DEF Down, Started, First, Inv, TypeOK
    <3> QED BY <3>1, <3>2 DEF At, InTerminate, AfterTerminate
  <2> QED BY <2>1, <2>2, <2>3, OneMoves DEF Changing
<1>9. CASE SeesNothing(t)
  <2>1. /\ pc' = [pc EXCEPT ![t] = d] /\ Goto(t, d) /\ ~Alive /\ process = "none"
        /\ UNCHANGED <<appId, app, it, placebo, process, applied, denied, then,
                       procVars, prepVars>>
    BY <1>4, <1>9 DEF SeesNothing, Goto, procVars, prepVars
  <2>2. TypeOK'
    BY <1>9, <2>1 DEF SeesNothing, Goto, handlerVars, Inv, TypeOK
  <2>3. CASE d \notin Changing
    BY <1>1, <2>1, <2>2, <2>3, Passes
  <2>4. CASE d \in Changing
    <3>1. ASSUME ~torn'
          PROVE  /\ At(t, d)'
                 /\ \A u \in Threads \ {t} : pc[u] \notin Changing
      <4>1. /\ Down \/ Started
            /\ \A u \in Threads \ {t} : pc[u] \notin Changing
        BY <1>1, <2>1, <2>4, <3>1, Enters DEF Goto
      <4>2. Down'
        BY <2>1, <4>1 DEF Alive, Down, Started, First
      <4> QED BY <4>1, <4>2 DEF At, InTerminate
    <3> QED BY <2>1, <2>2, <2>4, <3>1, OneMoves
  <2> QED BY <2>3, <2>4
<1> QED BY <1>6, <1>7, <1>8, <1>9 DEF Running

----------------------------------------------------------------------------
(* terminate() undoes the commands one by one, the last first, and leaves  *)
(* the app down wherever the call goes on.                                 *)
LEMMA TerminatingKeeps == ASSUME Inv, NEW t \in Threads, Terminating(t) PROVE Inv'
<1> USE DEF InTerminate
<1>1. pc[t] \in InTerminate /\ pc[t] \in Changing /\ (~torn' => ~torn)
  BY DEF Terminating, Terminate, Kill, Undo, Back, EndTerminate, Goto, Changing
<1>2. ~torn' => \A u \in Threads \ {t} : pc[u] \notin Changing
  BY <1>1, Alone
<1>3. ASSUME ~torn'
      PROVE  /\ At(t, pc[t])
             /\ then[t] \in AfterTerminate /\ (then[t] = "find" => Down)
  BY <1>1, <1>3, Alone DEF At
<1>4. CASE Terminate(t)
  <2>1. TypeOK'
    BY <1>4 DEF Terminate, Goto, handlerVars, prepVars, Inv, TypeOK, Locations
  <2>2. ~torn' => At(t, "kill")'
    BY <1>3, <1>4 DEF Terminate, prepVars, At, First, Down
  <2> QED BY <1>2, <1>4, <2>1, <2>2, OneMoves DEF Terminate, Goto, Locations, Changing
<1>5. CASE Kill(t)
  <2>1. TypeOK'
    BY <1>5 DEF Kill, Goto, handlerVars, prepVars, Inv, TypeOK, Locations
  <2>2. ~torn' => At(t, "undo")'
    BY <1>3, <1>5 DEF Kill, prepVars, At, First, Down
  <2> QED BY <1>2, <1>5, <2>1, <2>2, OneMoves DEF Kill, Goto, Locations, Changing
<1>6. CASE Undo(t)
  <2>1. ASSUME ~torn'
        PROVE  First(it) /\ ~placebo /\ process = "none" /\ then[t] # "find"
    <3>1. First(it) /\ ~placebo /\ process = "none"
      BY <1>3, <1>6, <2>1 DEF Undo, At
    <3>2. then[t] # "find"
      BY <1>3, <1>6, <2>1 DEF Undo, Down, Preps
    <3> QED BY <3>1, <3>2
  <2>2. ASSUME ~torn'
        PROVE  applied' = [applied EXCEPT ![it] = applied[it] - 1] /\ applied[it] = 1
    BY <1>6, <2>1, <2>2 DEF Undo, First, Preps
  <2>3. ASSUME ~torn' PROVE First(it - 1)'
    <3>3. applied' = [applied EXCEPT ![it] = 0]
      BY <2>2, <2>3
    <3>1. applied' = [applied EXCEPT ![it] = 0] /\ it' = it /\ First(it) /\ it \in Preps
      BY <1>6, <2>1, <2>3, <3>3 DEF Undo, procVars
    <3>2. applied \in [Preps -> {0, 1}] /\ it \in Int
      BY <1>1, <2>3, AppAssumption DEF Inv, TypeOK
    <3> QED BY <3>1, <3>2, AppAssumption DEF First, Preps
  <2>4. TypeOK'
    <3>1. ASSUME ~torn' PROVE applied' \in [Preps -> {0, 1}] /\ it' \in 0..NumPreps
      <4>1. applied' = [applied EXCEPT ![it] = 0]
        BY <2>2, <3>1
      <4> QED BY <1>1, <1>6, <3>1, <4>1 DEF Undo, procVars, Inv, TypeOK
    <3> QED BY <1>6, <3>1 DEF Undo, Goto, procVars, handlerVars, Inv, TypeOK, Locations
  <2>5. ~torn' => At(t, "back")'
    BY <1>3, <1>6, <2>1, <2>3 DEF Undo, procVars, handlerVars, At
  <2> QED BY <1>2, <1>6, <2>4, <2>5, OneMoves DEF Undo, Goto, Locations, Changing
<1>7. CASE Back(t)
  <2>1. ASSUME ~torn'
        PROVE  it \in Preps /\ First(it - 1) /\ ~placebo /\ process = "none" /\ it' = it - 1
    BY <1>3, <1>7, <2>1 DEF Back, At
  <2>2. ~torn' => it' \in 0..NumPreps
    BY <2>1, AppAssumption DEF Preps
  <2>3. TypeOK'
    BY <1>1, <1>7, <2>2 DEF Back, Goto, handlerVars, prepVars, Inv, TypeOK, Locations
  <2>4. ASSUME ~torn' PROVE First(it)' /\ then[t] # "find"
    <3>1. First(it)'
      BY <1>7, <2>1, <2>4 DEF Back, prepVars, First
    <3>2. then[t] # "find"
      BY <1>3, <2>1, <2>4 DEF Down, Preps
    <3> QED BY <3>1, <3>2
  <2>5. ~torn' => At(t, "undo")'
    BY <1>3, <1>7, <2>1, <2>4 DEF Back, At
  <2> QED BY <1>2, <1>7, <2>3, <2>5, OneMoves DEF Back, Goto, Locations, Changing
<1>8. CASE EndTerminate(t)
  <2>1. ASSUME ~torn' PROVE First(it) /\ ~placebo /\ process = "none" /\ it = 0
    BY <1>3, <1>8, <2>1 DEF EndTerminate, At
  <2>2. ~torn' => Down'
    BY <1>8, <2>1, AppAssumption DEF EndTerminate, Down, First
  <2>3. TypeOK'
    BY <1>1, <1>8 DEF EndTerminate, Goto, handlerVars, Inv, TypeOK, Locations
  <2>4. PICK l \in Locations : l = then[t]
    BY DEF Inv, TypeOK
  <2>5. ~torn' => l \in AfterTerminate
    BY <1>3, <2>4
  <2>6. ~torn' => At(t, l)'
    BY <2>2, <2>5 DEF At, AfterTerminate
  <2> QED BY <1>2, <1>8, <2>2, <2>3, <2>4, <2>6, OneMoves DEF EndTerminate, Goto
<1> QED BY <1>4, <1>5, <1>6, <1>7, <1>8 DEF Terminating

----------------------------------------------------------------------------
(* launch() and execute(): the app is down until execute() has found it,   *)
(* then one more prep command is in effect at each turn, and a failure     *)
(* leaves to terminate() exactly the ones before the iterator.             *)
LEMMA PrepareKeeps ==
  ASSUME Inv, NEW first \in BOOLEAN, NEW next \in {"terminate", "failed", "idle"},
         Prepare(first, next)
  PROVE  Inv'
<1>1. pc[Https] = "prepare" /\ Https \in Threads /\ pc[Https] \in Changing /\ (~torn' => ~torn)
  BY DEF Prepare, Threads, Changing, Goto
<1>2. ~torn' => \A u \in Threads \ {Https} : pc[u] \notin Changing
  BY <1>1, Alone
<1>3. ASSUME ~torn' PROVE Down'
  <2>1. Down
    BY <1>1, <1>3, Alone DEF At
  <2> QED BY <2>1 DEF Prepare, procVars, prepVars, Down, First
<1>4. TypeOK'
  BY <1>1 DEF Prepare, Goto, procVars, prepVars, Inv, TypeOK, Locations
<1>5. then'[Https] = "find"
  BY <1>1 DEF Prepare, Inv, TypeOK
<1>6. ~torn' => First(it)'
  BY <1>3 DEF Down
<1>7. ~torn' => At(Https, next)'
  BY <1>3, <1>5, <1>6 DEF At, InTerminate, AfterTerminate
<1> QED BY <1>1, <1>2, <1>3, <1>4, <1>7, OneMoves DEF Prepare, Goto, Locations

(* So do the steps of execute().                                           *)
LEMMA ExecuteKeeps == ASSUME Inv, Execute PROVE Inv'
<1>1. Https \in Threads
  BY DEF Threads
<1>2. ASSUME NEW first \in BOOLEAN, NEW next \in {"terminate", "failed", "idle"},
             Prepare(first, next)
      PROVE  Inv'
  BY <1>2, PrepareKeeps
<1>3. CASE NotFound
  <2>1. pc[Https] = "find" /\ pc[Https] \in Changing /\ (~torn' => ~torn)
    BY <1>3 DEF NotFound, Goto, Changing
  <2>2. TypeOK'
    BY <1>3, <2>1 DEF NotFound, Goto, procVars, prepVars, handlerVars, Inv, TypeOK, Locations
  <2>3. ASSUME ~torn'
        PROVE Down' /\ \A u \in Threads \ {Https} : pc[u] \notin Changing
    <3>1. Down /\ \A u \in Threads \ {Https} : pc[u] \notin Changing
      BY <1>1, <2>1, <2>3, Alone DEF At
    <3> QED BY <1>3, <3>1 DEF NotFound, procVars, prepVars, Down, First
  <2>4. ~torn' => At(Https, "failed")'
    BY DEF At, InTerminate
  <2> QED BY <1>1, <1>3, <2>2, <2>3, <2>4, OneMoves DEF NotFound, Goto, Locations
<1>4. CASE Find
  <2>1. pc[Https] = "find" /\ pc[Https] \in Changing /\ (~torn' => ~torn)
    BY <1>4 DEF Find, Goto, Changing
  <2>2. TypeOK'
    <3>1. it' \in 0..NumPreps
      BY <1>4, AppAssumption DEF Find
    <3> QED BY <1>4, <2>1, <3>1 DEF Find, Goto, prepVars, handlerVars, Inv, TypeOK, Locations
  <2>3. ~torn' => Down /\ \A u \in Threads \ {Https} : pc[u] \notin Changing
    BY <1>1, <2>1, Alone DEF At
  <2>4. then'[Https] = "failed"
    BY <1>1, <1>4 DEF Find, Inv, TypeOK
  <2>5. ~torn' => At(Https, "do")'
    BY <1>4, <2>3, <2>4
    DEF Find, prepVars, Down, First, Executing, DeniedToDesktop, At, InTerminate
  <2> QED BY <1>1, <1>4, <2>2, <2>3, <2>5, OneMoves DEF Find, Goto, Locations, Changing
<1>5. CASE Advance
  <2>1. pc[Https] = "advance" /\ pc[Https] \in Changing /\ (~torn' => ~torn)
    BY <1>5 DEF Advance, Goto, Changing
  <2>2. ASSUME ~torn'
        PROVE  /\ Executing /\ then[Https] = "failed" /\ it < NumPreps /\ First(it + 1)
               /\ \A u \in Threads \ {Https} : pc[u] \notin Changing
    BY <1>1, <2>1, <2>2, Alone DEF At
  <2>3. TypeOK'
    <3>1. ~torn' => it' \in 0..NumPreps
      BY <1>5, <2>1, <2>2, AppAssumption DEF Advance, Inv, TypeOK
    <3> QED BY <1>5, <2>1, <3>1 DEF Advance, Goto, prepVars, handlerVars, Inv, TypeOK, Locations
  <2>4. ~torn' => At(Https, "do")'
    BY <1>5, <2>2 DEF Advance, prepVars, First, Executing, DeniedToDesktop, At, InTerminate
  <2> QED BY <1>1, <1>5, <2>2, <2>3, <2>4, OneMoves DEF Advance, Goto, Locations, Changing
<1>6. CASE Failed
  <2>1. TypeOK'
    BY <1>6 DEF Failed, Goto, procVars, prepVars, handlerVars, Inv, TypeOK, Locations
  <2> QED BY <1>1, <1>6, <2>1, Passes DEF Failed, Locations, Changing
<1>7. CASE Finish
  <2>1. TypeOK'
    BY <1>7 DEF Finish, Goto, procVars, prepVars, handlerVars, Inv, TypeOK, Locations
  <2> QED BY <1>1, <1>7, <2>1, Passes DEF Finish, Locations, Changing
<1>8. ASSUME pc[Https] = "do", ~torn PROVE
        /\ \A u \in Threads \ {Https} : pc[u] \notin Changing
        /\ Executing /\ then[Https] = "failed" /\ First(it) /\ it \in 0..NumPreps
  <2>1. At(Https, "do") /\ \A u \in Threads \ {Https} : pc[u] \notin Changing
    BY <1>1, <1>8, Alone DEF Changing
  <2> QED BY <1>8, <2>1 DEF Inv, At, TypeOK
<1>9. ASSUME pc[Https] = "do", MorePreps,
             applied' = [applied EXCEPT ![it + 1] = applied[it + 1] + 1],
             denied' = denied \/ (denied' = denied \cup {it + 1} /\ app \in Desktops),
             Goto(Https, "advance"),
             UNCHANGED <<procVars, display, handlerVars, then>>
      PROVE  Inv'
  <2>1. ASSUME ~torn'
        PROVE  /\ ~torn /\ it + 1 \in Preps /\ it < NumPreps
               /\ Executing /\ then[Https] = "failed" /\ First(it)
               /\ \A u \in Threads \ {Https} : pc[u] \notin Changing
               /\ applied \in [Preps -> {0, 1}]
    <3>1. ~torn
      BY <1>9, <2>1 DEF Goto
    <3> QED BY <1>8, <1>9, <3>1, AppAssumption DEF MorePreps, Preps, Inv, TypeOK
  <2>2. ASSUME ~torn' PROVE applied' = [applied EXCEPT ![it + 1] = 1]
    <3>1. ~(it + 1 <= it)
      <4>1. it \in 0..NumPreps
        BY <1>8, <1>9, <2>1, <2>2
      <4> QED BY <4>1, AppAssumption
    <3>2. applied[it + 1] = 0
      BY <2>1, <2>2, <3>1 DEF First
    <3> QED BY <1>9, <3>2
  <2>3. TypeOK'
    <3>1. ~torn' => applied' \in [Preps -> {0, 1}] /\ it' \in 0..NumPreps
      BY <1>8, <1>9, <2>1, <2>2 DEF procVars
    <3>3. ~torn' => denied' \subseteq Preps
      BY <1>9, <2>1 DEF Inv, TypeOK
    <3>2. UNCHANGED <<appId, app, it, placebo, process, display, op, want, mine, then>>
      BY <1>9 DEF procVars, handlerVars
    <3> QED BY <1>9, <3>1, <3>2, <3>3 DEF Goto, Inv, TypeOK, Locations
  <2>4. ASSUME ~torn' PROVE First(it + 1)'
    <3>1. it' = it /\ it \in 0..NumPreps
      BY <1>8, <1>9, <2>1, <2>4 DEF procVars
    <3> QED BY <2>1, <2>2, <2>4, <3>1, AppAssumption DEF First, Preps
  <2>5. ~torn' => Executing'
    BY <1>9, <2>1 DEF procVars, Executing, DeniedToDesktop
  <2>6. ~torn' => At(Https, "advance")'
    BY <1>9, <2>1, <2>4, <2>5 DEF procVars, At, InTerminate
  <2> QED BY <1>1, <1>9, <2>1, <2>3, <2>6, OneMoves DEF Goto, Locations, Changing
<1>10. CASE Do
  <2>1. /\ pc[Https] = "do" /\ MorePreps /\ Goto(Https, "advance")
        /\ applied' = [applied EXCEPT ![it + 1] = applied[it + 1] + 1]
        /\ denied' = denied
        /\ UNCHANGED <<procVars, display, handlerVars, then>>
    BY <1>10 DEF Do, procVars, handlerVars
  <2> QED BY <1>9, <2>1
<1>11. CASE DoDenied
  <2>1. denied' = denied \cup {it + 1} /\ app \in Desktops
    BY <1>11 DEF DoDenied
  <2> QED BY <1>9, <1>11, <2>1 DEF DoDenied
<1>12. ASSUME pc[Https] = "do", Goto(Https, "terminate"), process' \in {process, "none"},
              UNCHANGED <<appId, app, it, placebo, prepVars, handlerVars, then, display>>
       PROVE  Inv'
  <2>1. ~torn' => ~torn
    BY <1>12 DEF Goto
  <2>2. TypeOK'
    BY <1>12, <2>1 DEF Goto, prepVars, handlerVars, Inv, TypeOK, Locations
  <2>3. ~torn' => At(Https, "terminate")'
    BY <1>8, <1>12, <2>1 DEF prepVars, First, At, InTerminate, AfterTerminate
  <2> QED BY <1>1, <1>8, <1>12, <2>1, <2>2, <2>3, OneMoves DEF Goto, Locations, Changing
<1>13. CASE DoFails
  BY <1>12, <1>13 DEF DoFails, procVars
<1>14. CASE SpawnFails
  BY <1>12, <1>14 DEF SpawnFails
<1>15. ASSUME SpawnDesktop \/ SpawnGame PROVE Inv'
  <2>1. pc[Https] = "do" /\ ~MorePreps /\ pc' = [pc EXCEPT ![Https] = "idle"]
        /\ (~torn' => ~torn)
    BY <1>15 DEF SpawnDesktop, SpawnGame, Goto
  <2>2. ~torn' => it = NumPreps
    BY <1>8, <2>1, AppAssumption DEF MorePreps
  <2>3. ~torn' => Started'
    BY <1>8, <1>15, <2>1, <2>2
    DEF SpawnDesktop, SpawnGame, prepVars, Executing, Started, First, DeniedToDesktop
  <2>4. TypeOK'
    BY <1>15, <2>1
    DEF SpawnDesktop, SpawnGame, Goto, prepVars, handlerVars, Inv, TypeOK, Locations
  <2>5. At(Https, "idle")'
    BY DEF At, InTerminate
  <2> QED BY <1>1, <1>8, <2>1, <2>3, <2>4, <2>5, OneMoves DEF Locations
<1> QED
  BY <1>2, <1>3, <1>4, <1>5, <1>6, <1>7, <1>10, <1>11, <1>13, <1>14, <1>15 DEF Execute

(* The app may end at any moment it runs: then it was started, or is being *)
(* terminated.                                                             *)
LEMMA EnvironmentKeeps == ASSUME Inv, Environment PROVE Inv'
<1>1. /\ process # "none" /\ process' \in {"quick", "exited"}
      /\ UNCHANGED <<appId, app, it, placebo, applied, denied, display, pc, op, want, mine,
                     then, torn>>
  BY DEF Environment, Exits, FiveSecondsPass, handlerVars, prepVars
<1>2. TypeOK'
  BY <1>1 DEF Inv, TypeOK
<1> SUFFICES ASSUME ~torn' PROVE Known'
  BY <1>2 DEF Inv
<1>3. OneCall' /\ ~Down
  BY <1>1 DEF Inv, Known, OneCall, Down
<1>4. Started => Started'
  BY <1>1 DEF Started, First, DeniedToDesktop
<1>5. (Settled => Down \/ Started)'
  BY <1>1, <1>3, <1>4 DEF Inv, Known, Settled
<1>6. ASSUME NEW t \in Threads PROVE At(t, pc[t])'
  BY <1>1, <1>3, <1>4 DEF Inv, Known, At, Executing, First, InTerminate
<1> QED BY <1>3, <1>5, <1>6 DEF Known

----------------------------------------------------------------------------
(* Unless two calls were changing proc at once, what is known at each      *)
(* place of a call holds whenever the call is there.                       *)
THEOREM Inductive == Spec => []Inv
<1>1. Init => Inv
  BY InitInv
<1>2. Inv /\ [Next]_vars => Inv'
  <2> SUFFICES ASSUME Inv, [Next]_vars PROVE Inv'
    OBVIOUS
  <2>1. CASE Handlers
    BY <2>1, HandlersKeep
  <2>2. CASE Execute
    BY <2>2, ExecuteKeeps
  <2>3. CASE Environment
    BY <2>3, EnvironmentKeeps
  <2>4. ASSUME NEW t \in Threads, Running(t) \/ Terminating(t) PROVE Inv'
    BY <2>4, RunningKeeps, TerminatingKeeps
  <2>5. CASE UNCHANGED vars
    BY <2>5 DEF vars, Inv, Known, TypeOK, OneCall, Settled, At, Down, Started,
      Executing, DeniedToDesktop, First
  <2> QED BY <2>1, <2>2, <2>3, <2>4, <2>5 DEF Next
<1> QED BY <1>1, <1>2, PTL DEF Spec

(* Every variable of proc_t keeps its type in every interleaving of its    *)
(* callers; the iterator keeps its range until two of them change proc at  *)
(* once.                                                                   *)
THEOREM TypeCorrect == Spec => []TypeOK
<1>1. Inv => TypeOK
  BY DEF Inv
<1> QED BY <1>1, Inductive, PTL

(* What counts as running between two calls is the app that was launched,  *)
(* with all its prep commands in effect, whatever calls to running()       *)
(* happened meanwhile; only the desktop may do with one that was denied.   *)
THEOREM RunningAppIsPrepared == Spec => []RunningIsPrepared
<1>1. Inv => RunningIsPrepared
  <2> SUFFICES ASSUME Inv, Quiet, Alive, ~torn
               PROVE  /\ appId \in Apps /\ appId = app
                      /\ \A i \in Preps : applied[i] = 1
                      /\ denied # {} => app \in Desktops
    BY DEF RunningIsPrepared
  <2>1. Settled
    BY DEF Quiet, Settled, Changing
  <2>2. Started
    BY <2>1 DEF Inv, Known, Alive, Down
  <2> QED BY <2>2, AppAssumption DEF Started, First, Preps, DeniedToDesktop
<1> QED BY <1>1, Inductive, PTL

(* Whatever command fails, the prep commands in effect are the first few at *)
(* every moment, and none is when the app is down.                         *)
THEOREM PrepsAreUndone == Spec => []PrepsUndone
<1>1. ASSUME Inv, ~torn PROVE StoppedIsUndone
  <2>1. Quiet => Settled
    BY DEF Quiet, Settled, Changing
  <2>2. Settled => Down \/ Started
    BY <1>1 DEF Inv, Known
  <2> QED BY <2>1, <2>2, AppAssumption DEF StoppedIsUndone, Alive, Down, Started, First, Preps
<1>2. ASSUME Inv, ~torn PROVE UndoneInReverse
  <2>1. Down \/ Started \/ \E t \in Threads : pc[t] \in Changing
    BY <1>2 DEF Inv, Known, Settled
  <2>2. \E k \in Int : First(k)
    <3>1. CASE Down \/ Started
      BY <3>1, AppAssumption DEF Down, Started
    <3>2. ASSUME NEW t \in Threads, pc[t] \in Changing PROVE \E k \in Int : First(k)
      <4>1. it \in Int /\ At(t, pc[t])
        BY <1>2 DEF Inv, Known, TypeOK
      <4>2. First(0) \/ First(it) \/ First(it - 1) \/ First(it + 1)
        BY <3>2, <4>1 DEF At, Down, InTerminate, Changing
      <4> QED BY <4>1, <4>2
    <3> QED BY <2>1, <3>1, <3>2
  <2> QED BY <2>2 DEF UndoneInReverse, First, Preps
<1>3. Inv => PrepsUndone
  BY <1>1, <1>2 DEF PrepsUndone
<1> QED BY <1>3, Inductive, PTL

(* The terminate() that opens execute() has nothing to undo.               *)
THEOREM SlateIsClean == Spec => []CleanSlate
<1>1. Inv => CleanSlate
  BY DEF Inv, Known, CleanSlate, At, InTerminate, Down, Threads
<1> QED BY <1>1, Inductive, PTL
=============================================================================
