------------------------------- MODULE Input -------------------------------
(***************************************************************************)
(* Input of the streaming sessions (input.cpp) on the task pool            *)
(* (task_pool.h, thread_pool.h) with its one worker.                       *)
(*                                                                         *)
(* The control thread queues a session's messages and resets it; the       *)
(* worker takes tasks and tells the operating system.  Which keys and      *)
(* buttons are pressed, the key that repeats and the mask of gamepads are  *)
(* globals all sessions share.                                             *)
(***************************************************************************)
EXTENDS TaskPool, InputBatch, FiniteSets

CONSTANTS
  Sessions,
  Keys,         (* keys that are no modifiers                              *)
  Shortcuts,    (* those of them that make a shortcut (F1..F13, N)         *)
  Mod,          (* Ctrl+Alt+Shift, pressed and released as one key         *)
  Codes,        (* what the operating system knows keys by                 *)
  Keybindings,  (* config::input.keybindings, as a function on all keys    *)
  Pads,         (* controller numbers a client uses                        *)
  MaxPads,      (* platf::MAX_GAMEPADS                                     *)
  Pointers,     (* fingers on a client's screen                            *)
  Mixes,        (* bound: sets of kinds of messages clients send together  *)
  Steps,        (* bound: distances of relative mouse movement             *)
  MaxMessages,  (* bound: messages of all sessions                         *)
  Ids,          (* bound: addresses tasks are allocated at                 *)
  None          (* a null id; also nobody                                  *)

AllKeys == Keys \cup {Mod}

ASSUME InputAssumption ==
  /\ None \notin Ids
  /\ MaxPads \in Nat /\ MaxMessages \in Nat
  /\ Steps \subseteq Int16
  /\ AllKeys \subseteq Codes /\ Keybindings \in [AllKeys -> Codes]

(* Delays in steps of the clock, in the order of their lengths.            *)
LeftDelay == 1      (* 10 ms                                               *)
RepeatPeriod == 1   (* key_repeat_period                                   *)
RepeatDelay == 2    (* key_repeat_delay                                    *)
BackTimeout == 2    (* back_button_timeout                                 *)
NudgeDelay == 1     (* 100 ms                                              *)

PadIds == 0..MaxPads - 1

AllMessages ==
  [kind : {"relative"}, dx : Steps, dy : Steps]
    \cup [kind : {"absolute"}, size : {1}]
    \cup [kind : {"button"}, button : {"left", "right"}, down : BOOLEAN]
    \cup [kind : {"key"}, key : Keys, down : {TRUE}, mod : BOOLEAN]
    \cup [kind : {"key"}, key : {Mod}, down : {TRUE}, mod : {FALSE}]
    \cup [kind : {"key"}, key : AllKeys, down : {FALSE}, mod : {FALSE}]
    \cup [kind : {"pad"}, pad : Pads, mask : SUBSET Pads, buttons : SUBSET {"BACK"}]
    \cup [kind : {"arrival"}, pad : Pads]
    \cup [kind : {"touch"}, pointer : Pointers, event : {"DOWN", "MOVE", "UP"}]

(* What is sent: merged movements are sums.                                *)
Sendable == AllMessages \cup [kind : {"relative"}, dx : Int16, dy : Int16]

VARIABLES
  session,    (* "new", "open", "closed" (reset) or "gone" (destroyed)     *)
  queue,      (* input_queue of each session                               *)
  tasks,      (* _tasks: what each is to do                                *)
  timers,     (* _timer_tasks                                              *)
  worker,     (* where the worker is                                       *)
  hand,       (* the task it runs                                          *)
  message,    (* the message it merges others into, and sends              *)
  at,         (* where in the queue it looks for one to merge              *)
  keyPress, mousePress,   (* key_press, mouse_press                        *)
  repeatId,               (* key_press_repeat_id                           *)
  shortcut,               (* shortcutFlags, all or nothing                 *)
  leftTimeout,            (* mouse_left_button_timeout                     *)
  pad,                    (* gamepads[].id of each session                 *)
  back,                   (* gamepads[].back_button_state and BACK as sent *)
  backTimeout,            (* gamepads[].back_timeout_id                    *)
  mask,                   (* gamepadMask                                   *)
  os,         (* what the operating system has been told                   *)
  asked,      (* history: relative movement clients sent                   *)
  touched,    (* history: the last event a client sent of each finger      *)
  ignored,    (* history: the last event of each finger, if it was ignored *)
  abandoned,  (* history: codes a reset left pressed                       *)
  lost,       (* history: a delayed release of the left button was         *)
              (* cancelled                                                 *)
  mix,        (* the kinds of messages of this behaviour                   *)
  sent        (* messages clients sent so far                              *)

pool == <<tasks, timers>>
mouse == <<mousePress, leftTimeout>>
keyboard == <<keyPress, repeatId, shortcut>>
pads == <<pad, back, backTimeout, mask>>
faults == <<ignored, abandoned, lost>>
history == <<asked, touched, faults, mix, sent>>
batch == <<message, at>>
vars == <<session, queue, pool, worker, hand, batch, keyboard, mouse, pads, os, history>>

(* DISABLE_LEFT_BUTTON_DELAY is the address 1.                             *)
Disabled == "disabled"
Idle == [do |-> "nothing"]
BackStates == [state : {"NONE", "UP"}, down : BOOLEAN]

Task(do, x) == [do |-> do, of |-> x]

(* What tasks are for: a session, a gamepad's id, a key or a controller.   *)
Undelayed ==
  [do : {"next"}, of : Sessions] \cup [do : {"release"}, of : {None}]
    \cup [do : {"free"}, of : PadIds]
Delayed ==
  [do : {"left"}, of : Sessions, in : Nat, id : Ids]
    \cup [do : {"repeat"}, of : [key : AllKeys, mod : BOOLEAN], in : Nat, id : Ids]
    \cup [do : {"home"}, of : Sessions \X Pads, in : Nat, id : Ids]
    \cup [do : {"nudge"}, of : {None}, in : Nat, id : Ids]
Running ==
  {[do |-> t.do, of |-> t.of, id |-> None] : t \in Undelayed}
    \cup [do : {"left"}, of : Sessions, id : Ids]
    \cup [do : {"repeat"}, of : [key : AllKeys, mod : BOOLEAN], id : Ids]
    \cup [do : {"home"}, of : Sessions \X Pads, id : Ids]
    \cup [do : {"nudge"}, of : {None}, id : Ids]

(* No task that waits or runs is at the address of another.                *)
FreshIds == {i \in Ids : Find(timers, i) = {} /\ (hand # Idle => hand.id # i)}

Shown ==
  [keys : SUBSET Codes, buttons : SUBSET {"left", "right"}, pads : SUBSET PadIds,
   moved : Int, touch : [Sessions \X Pointers -> {"DOWN", "MOVE", "UP"}]]

TypeOK ==
  /\ session \in [Sessions -> {"new", "open", "closed", "gone"}]
  /\ queue \in [Sessions -> Seq(AllMessages)]
  /\ tasks \in Seq(Undelayed) /\ timers \in Seq(Delayed)
  /\ InOrder(timers) /\ OneEach(timers)
  /\ worker \in {"pop", "lock", "wait", "run", "merge", "send", "repeat"}
  /\ hand \in Running \cup {Idle} /\ message \in Sendable \cup {Idle} /\ at \in Nat
  /\ keyPress \in [AllKeys -> BOOLEAN] /\ mousePress \in [{"left", "right"} -> BOOLEAN]
  /\ repeatId \in Ids \cup {None} /\ shortcut \in [Sessions -> BOOLEAN]
  /\ leftTimeout \in [Sessions -> Ids \cup {None, Disabled}]
  /\ pad \in [Sessions \X Pads -> PadIds \cup {-1}]
  /\ back \in [Sessions \X Pads -> BackStates]
  /\ backTimeout \in [Sessions \X Pads -> Ids \cup {None}]
  /\ mask \subseteq PadIds /\ os \in Shown
  /\ asked \in Int /\ touched \in [Sessions \X Pointers -> {"DOWN", "MOVE", "UP"}]
  /\ ignored \in [Sessions \X Pointers -> {"DOWN", "MOVE", "UP", "none"}]
  /\ abandoned \subseteq Codes /\ lost \in BOOLEAN /\ mix \in Mixes
  /\ sent \in 0..MaxMessages

Init ==
  /\ session = [s \in Sessions |-> "new"] /\ queue = [s \in Sessions |-> <<>>]
  /\ tasks = <<>> /\ timers = <<>> /\ worker = "pop" /\ hand = Idle
  /\ message = Idle /\ at = 0
  /\ keyPress = [k \in AllKeys |-> FALSE]
  /\ mousePress = [b \in {"left", "right"} |-> FALSE]
  /\ repeatId = None /\ shortcut = [s \in Sessions |-> FALSE]
  /\ leftTimeout = [s \in Sessions |-> None]
  /\ pad = [x \in Sessions \X Pads |-> -1]
  /\ back = [x \in Sessions \X Pads |-> [state |-> "NONE", down |-> FALSE]]
  /\ backTimeout = [x \in Sessions \X Pads |-> None]
  /\ mask = {}
  /\ touched = [x \in Sessions \X Pointers |-> "UP"]
  /\ os = [keys |-> {}, buttons |-> {}, pads |-> {}, moved |-> 0,
           touch |-> touched]
  /\ ignored = [x \in Sessions \X Pointers |-> "none"] /\ abandoned = {}
  /\ asked = 0 /\ lost = FALSE /\ sent = 0
  /\ mix \in Mixes

-----------------------------------------------------------------------------
(* The pool.  A push wakes the worker (notify_one under _lock).            *)
Woken == IF worker = "wait" THEN "pop" ELSE worker
Push(ts) == tasks' = tasks \o ts

(* A new delayed task at some free address, which becomes its id.          *)
After(list, do, x, in, id) ==
  timers' = PushDelayed(list, [do |-> do, of |-> x, in |-> in, id |-> id])

(* Cancelling by an id that is out of date may hit any task there.         *)
LosesLeft(id) == \E i \in Find(timers, id) : timers[i].do = "left"

(* Nothing to pop: _lock is taken, ready() asked once more, and the worker *)
(* waits.                                                                  *)
Ready == tasks # <<>> \/ Due(timers)

(* Mutant: ready() is not asked under _lock.                               *)
LockBlindBug ==
  /\ worker = "lock"
  /\ worker' = "wait"
  /\ UNCHANGED <<session, queue, pool, hand, batch, keyboard, mouse, pads, os, history>>

Lock ==
  /\ worker = "lock"
  /\ worker' = IF Ready THEN "pop" ELSE "wait"
  /\ UNCHANGED <<session, queue, pool, hand, batch, keyboard, mouse, pads, os, history>>

Pop ==
  /\ worker = "pop"
  /\ \/ /\ tasks # <<>>
        /\ hand' = [do |-> Head(tasks).do, of |-> Head(tasks).of, id |-> None]
        /\ tasks' = Tail(tasks)
        /\ worker' = "run" /\ UNCHANGED timers
     \/ /\ tasks = <<>> /\ Due(timers)
        /\ LET t == timers[Len(timers)]
           IN hand' = [do |-> t.do, of |-> t.of, id |-> t.id]
        /\ timers' = SubSeq(timers, 1, Len(timers) - 1)
        /\ worker' = "run" /\ UNCHANGED tasks
     \/ /\ ~Ready
        /\ worker' = "lock" /\ UNCHANGED <<hand, pool>>
  /\ UNCHANGED <<session, queue, batch, keyboard, mouse, pads, os, history>>

(* The clock; wait_until wakes the worker when the first task is due.      *)
Tick ==
  /\ timers # <<>> /\ ~Due(timers)
  /\ timers' = Passed(timers)
  /\ worker' = IF Due(timers') THEN Woken ELSE worker
  /\ UNCHANGED <<session, queue, tasks, hand, batch, keyboard, mouse, pads, os, history>>

Done == worker' = "pop" /\ hand' = Idle
Runs(do) == worker = "run" /\ hand.do = do

-----------------------------------------------------------------------------
(* The control thread and the sessions.                                    *)

Alloc(s) ==
  /\ session[s] = "new"
  /\ session' = [session EXCEPT ![s] = "open"]
  /\ \E id \in FreshIds : After(timers, "nudge", None, NudgeDelay, id)
  /\ worker' = Woken
  /\ UNCHANGED <<queue, tasks, hand, batch, keyboard, mouse, pads, os, history>>

(* While the worker merges it holds input_queue_lock.                     *)
Locked(s) == worker = "merge" /\ hand.of = s

Passthrough(s) ==
  /\ session[s] = "open" /\ ~Locked(s) /\ sent < MaxMessages
  /\ \E m \in {n \in AllMessages : n.kind \in mix} :
       /\ queue' = [queue EXCEPT ![s] = Append(@, m)]
       /\ asked' = IF m.kind = "relative" THEN asked + m.dx ELSE asked
       /\ touched' = IF m.kind = "touch" THEN [touched EXCEPT ![<<s, m.pointer>>] = m.event]
                     ELSE touched
  /\ sent' = sent + 1
  /\ Push(<<Task("next", s)>>)
  /\ worker' = Woken
  /\ UNCHANGED <<session, timers, hand, batch, keyboard, mouse, pads, os, faults, mix>>

(* The ids stay as they are.                                               *)
Reset(s) ==
  /\ session[s] = "open"
  /\ session' = [session EXCEPT ![s] = "closed"]
  /\ timers' = Cancel(Cancel(timers, repeatId), leftTimeout[s])
  /\ lost' = (lost \/ LosesLeft(repeatId) \/ LosesLeft(leftTimeout[s]))
  /\ Push(<<Task("release", None)>>)
  /\ worker' = Woken
  /\ UNCHANGED <<queue, hand, batch, keyboard, mouse, pads, os, asked, touched, ignored,
                 abandoned, mix, sent>>

(* The last reference to a session's input goes.                           *)
Holds(t, s) ==
  \/ t.do \in {"next", "left"} /\ t.of = s
  \/ t.do = "home" /\ t.of[1] = s
Referenced(s) ==
  \/ \E i \in DOMAIN tasks : Holds(tasks[i], s)
  \/ \E i \in DOMAIN timers : Holds(timers[i], s)
  \/ hand # Idle /\ Holds(hand, s)

Destroy(s) ==
  /\ session[s] = "closed" /\ ~Referenced(s)
  /\ session' = [session EXCEPT ![s] = "gone"]
  /\ UNCHANGED <<queue, pool, worker, hand, batch, keyboard, mouse, pads, os, history>>

(* ~gamepad_t gives each gamepad back through the pool.                    *)
GiveBack(s, c) ==
  /\ session[s] = "gone" /\ pad[<<s, c>>] >= 0
  /\ Push(<<Task("free", pad[<<s, c>>])>>)
  /\ pad' = [pad EXCEPT ![<<s, c>>] = -1]
  /\ worker' = Woken
  /\ UNCHANGED <<session, queue, timers, hand, batch, keyboard, mouse, back,
                 backTimeout, mask, os, history>>

-----------------------------------------------------------------------------
(* Tasks of the worker.                                                    *)

(* passthrough_next_message() takes and merges under input_queue_lock.     *)
NextMessage ==
  /\ Runs("next")
  /\ IF queue[hand.of] = <<>> THEN Done /\ UNCHANGED <<queue, batch>>
     ELSE /\ message' = Head(queue[hand.of]) /\ at' = 1
          /\ queue' = [queue EXCEPT ![hand.of] = Tail(@)]
          /\ worker' = "merge" /\ UNCHANGED hand
  /\ UNCHANGED <<session, pool, keyboard, mouse, pads, os, history>>

(* The batch ends with the queue at the latest.                            *)
Outcome ==
  IF at > Len(queue[hand.of]) THEN Terminate ELSE Batch(message, queue[hand.of][at])

Merge ==
  /\ worker = "merge"
  /\ \/ /\ Outcome.result = "terminate_batch"
        /\ worker' = "send" /\ at' = 0
        /\ UNCHANGED <<queue, message>>
     \/ /\ Outcome.result = "batched"
        /\ message' = Outcome.message
        /\ queue' = [queue EXCEPT ![hand.of] = RemoveAt(@, at)]
        /\ UNCHANGED <<worker, at>>
     \/ /\ Outcome.result = "not_batchable"
        /\ at' = at + 1
        /\ UNCHANGED <<worker, queue, message>>
  /\ UNCHANGED <<session, pool, hand, keyboard, mouse, pads, os, history>>

Sends(kind) ==
  /\ worker = "send" /\ message.kind = kind
  /\ Done /\ message' = Idle /\ UNCHANGED at
  /\ UNCHANGED <<session, queue, tasks, asked, touched, mix, sent>>

SendRelative ==
  /\ Sends("relative")
  /\ leftTimeout' = [leftTimeout EXCEPT ![hand.of] = Disabled]
  /\ os' = [os EXCEPT !.moved = @ + message.dx]
  /\ UNCHANGED <<timers, keyboard, mousePress, pads, faults>>

SendAbsolute ==
  /\ Sends("absolute")
  /\ leftTimeout' = [leftTimeout EXCEPT ![hand.of] = IF @ = Disabled THEN None ELSE @]
  /\ UNCHANGED <<timers, keyboard, mousePress, pads, os, faults>>

(* Ignored while the video threads have raised no touch port, or one       *)
(* without dimensions; they may raise another at any moment.               *)
SendTouch ==
  LET x == <<hand.of, message.pointer>> IN
  /\ Sends("touch")
  /\ \/ /\ os' = [os EXCEPT !.touch[x] = message.event]
        /\ ignored' = [ignored EXCEPT ![x] = "none"]
     \/ /\ ignored' = [ignored EXCEPT ![x] = message.event]
        /\ UNCHANGED os
  /\ UNCHANGED <<timers, keyboard, mouse, pads, abandoned, lost>>

Presses(b) == os' = [os EXCEPT !.buttons = @ \cup {b}]
Releases(b) == os' = [os EXCEPT !.buttons = @ \ {b}]

(* A left release after absolute movement waits a little; a right press in *)
(* the meantime is a click at once.                                        *)
SendButton ==
  LET b == message.button
      s == hand.of
      delayed == b = "left" /\ ~message.down /\ leftTimeout[s] = None
      click == b = "right" /\ message.down /\ leftTimeout[s] \in Ids
  IN
  /\ Sends("button")
  /\ UNCHANGED <<keyboard, pads, faults>>
  /\ IF mousePress[b] = message.down
     THEN UNCHANGED <<mousePress, leftTimeout, timers, os>>
     ELSE /\ mousePress' = [mousePress EXCEPT ![b] = message.down /\ ~click]
          /\ IF delayed
             THEN \E id \in FreshIds :
                    /\ leftTimeout' = [leftTimeout EXCEPT ![s] = id]
                    /\ After(timers, "left", s, LeftDelay, id)
                    /\ UNCHANGED os
             ELSE /\ IF message.down /\ ~click THEN Presses(b) ELSE Releases(b)
                  /\ UNCHANGED <<leftTimeout, timers>>

(* Mutant: the release is given up whenever it has been recorded.          *)
LeftReleaseForgottenBug ==
  /\ Runs("left")
  /\ IF ~mousePress["left"] THEN UNCHANGED <<mousePress, leftTimeout, os>>
     ELSE /\ Releases("left")
          /\ mousePress' = [mousePress EXCEPT !["left"] = FALSE]
          /\ leftTimeout' = [leftTimeout EXCEPT ![hand.of] = None]
  /\ Done
  /\ UNCHANGED <<session, queue, pool, batch, keyboard, pads, history>>

(* The delayed release; given up when the button was pressed again.        *)
LeftRelease ==
  /\ Runs("left")
  /\ IF mousePress["left"] THEN UNCHANGED <<mousePress, leftTimeout, os>>
     ELSE /\ Releases("left")
          /\ mousePress' = [mousePress EXCEPT !["left"] = FALSE]
          /\ leftTimeout' = [leftTimeout EXCEPT ![hand.of] = None]
  /\ Done
  /\ UNCHANGED <<session, queue, pool, batch, keyboard, pads, history>>

MapKeycode(k) == Keybindings[k]

(* Modifiers the packet asks for and the client has not pressed are        *)
(* pressed around the key, and let go, as they are: only the key itself is *)
(* mapped.                                                                 *)
Struck(k, down, synthetic) ==
  LET keys == IF synthetic THEN os.keys \ {Mod} ELSE os.keys
      code == MapKeycode(k)
  IN /\ os' = [os EXCEPT !.keys = IF down THEN keys \cup {code} ELSE keys \ {code}]
     /\ abandoned' = IF down THEN abandoned ELSE abandoned \ {code}

(* Mutant: the task that repeats the last key is not cancelled.            *)
UnrepeatedBug == timers

(* A new key takes the place of the one that repeats.                      *)
Unrepeated == IF repeatId = None THEN timers ELSE Cancel(timers, repeatId)

SendKey ==
  LET s == hand.of
      k == message.key
      synthetic == message.down /\ k # Mod /\ ~shortcut[s] /\ message.mod
      combo == message.down /\ shortcut[s] /\ k \in Shortcuts
  IN
  /\ Sends("key")
  /\ UNCHANGED <<mouse, pads, ignored>>
  /\ IF keyPress[k] = message.down \/ combo
     THEN UNCHANGED <<timers, keyboard, os, abandoned, lost>>
     ELSE /\ keyPress' = [keyPress EXCEPT ![k] = message.down]
          /\ Struck(k, message.down, synthetic)
          /\ shortcut' = IF k = Mod THEN [shortcut EXCEPT ![s] = message.down] ELSE shortcut
          /\ IF message.down
             THEN \E id \in FreshIds :
                    /\ After(Unrepeated, "repeat", [key |-> k, mod |-> synthetic], RepeatDelay, id)
                    /\ repeatId' = id
                    /\ lost' = (lost \/ LosesLeft(repeatId))
             ELSE UNCHANGED <<timers, repeatId, lost>>

(* repeat_key(): the key is struck, and then the next repeat is pushed.    *)
Repeat ==
  /\ Runs("repeat")
  /\ IF keyPress[hand.of.key]
     THEN /\ Struck(hand.of.key, TRUE, hand.of.mod)
          /\ worker' = "repeat" /\ UNCHANGED <<hand, repeatId>>
     ELSE repeatId' = None /\ Done /\ UNCHANGED os
  /\ UNCHANGED <<session, queue, pool, batch, keyPress, shortcut, mouse, pads, history>>

RepeatAgain ==
  /\ worker = "repeat"
  /\ \E id \in FreshIds :
       /\ After(timers, "repeat", hand.of, RepeatPeriod, id)
       /\ repeatId' = id
  /\ Done
  /\ UNCHANGED <<session, queue, tasks, batch, keyPress, shortcut, mouse, pads, os, history>>

Pressed == {k \in AllKeys : keyPress[k]}

(* The lambda of reset().  A key is released by the code it came with, not *)
(* by the one it was mapped to, which stays pressed.                       *)
Release ==
  /\ Runs("release")
  /\ os' = [os EXCEPT !.keys = @ \ Pressed,
                      !.buttons = @ \ {b \in DOMAIN mousePress : mousePress[b]}]
  /\ abandoned' = (abandoned \cup {MapKeycode(k) : k \in Pressed}) \ Pressed
  /\ keyPress' = [k \in AllKeys |-> FALSE]
  /\ mousePress' = [b \in DOMAIN mousePress |-> FALSE]
  /\ Done
  /\ UNCHANGED <<session, queue, pool, batch, repeatId, shortcut, leftTimeout,
                 pads, asked, touched, ignored, lost, mix, sent>>

(* alloc()'s small movement there and back.                                *)
Nudge ==
  /\ Runs("nudge")
  /\ Done
  /\ UNCHANGED <<session, queue, pool, batch, keyboard, mouse, pads, os, history>>

-----------------------------------------------------------------------------
(* Gamepads.                                                               *)

Lowest(free) == CHOOSE i \in free : \A j \in free : i <= j
FreePads == PadIds \ mask

(* alloc_id() and platf::alloc_gamepad(), which may fail; the id is given  *)
(* back then.                                                              *)
Plug(x, works) ==
  IF FreePads = {} \/ ~works THEN UNCHANGED <<pad, mask, os>>
  ELSE /\ pad' = [pad EXCEPT ![x] = Lowest(FreePads)]
       /\ mask' = mask \cup {Lowest(FreePads)}
       /\ os' = [os EXCEPT !.pads = @ \cup {Lowest(FreePads)}]

(* Mutant: the id of an unplugged gamepad is not given back.               *)
UnplugMaskBug(id) ==
  /\ mask' = mask
  /\ os' = [os EXCEPT !.pads = @ \ {id}]

(* free_gamepad().                                                         *)
Unplug(id) ==
  /\ mask' = mask \ {id}
  /\ os' = [os EXCEPT !.pads = @ \ {id}]

Free ==
  /\ Runs("free")
  /\ Unplug(hand.of)
  /\ Done
  /\ UNCHANGED <<session, queue, pool, batch, keyboard, mouse, pad, back,
                 backTimeout, history>>

SendArrival ==
  LET x == <<hand.of, message.pad>> IN
  /\ Sends("arrival")
  /\ IF pad[x] >= 0 THEN UNCHANGED <<pad, mask, os>>
     ELSE \E works \in BOOLEAN : Plug(x, works)
  /\ UNCHANGED <<timers, keyboard, mouse, back, backTimeout, faults>>

(* BACK as the application is to see it, while it is forced up until the   *)
(* client releases it.                                                     *)
SeenBack(x, down) == down /\ back[x].state # "UP"
NextBackState(x, down) == IF down THEN back[x].state ELSE "NONE"

(* BACK held long enough becomes HOME: the timer is set when it goes down  *)
(* and cancelled when it goes up.                                          *)
BackTimer(x, down) ==
  CASE down /\ ~back[x].down ->
         \E id \in FreshIds :
           /\ After(timers, "home", x, BackTimeout, id)
           /\ backTimeout' = [backTimeout EXCEPT ![x] = id]
           /\ UNCHANGED lost
    [] ~down /\ back[x].down /\ backTimeout[x] # None ->
         /\ timers' = Cancel(timers, backTimeout[x])
         /\ lost' = (lost \/ LosesLeft(backTimeout[x]))
         /\ backTimeout' = [backTimeout EXCEPT ![x] = None]
    [] OTHER -> UNCHANGED <<timers, backTimeout, lost>>

SendPad ==
  LET x == <<hand.of, message.pad>>
      present == message.pad \in message.mask
      down == SeenBack(x, "BACK" \in message.buttons)
  IN
  /\ Sends("pad")
  /\ UNCHANGED <<keyboard, mouse, ignored, abandoned>>
  /\ \/ /\ ~present /\ pad[x] >= 0
        /\ Unplug(pad[x])
        /\ pad' = [pad EXCEPT ![x] = -1]
        /\ UNCHANGED <<timers, back, backTimeout, lost>>
     \/ /\ ~present /\ pad[x] < 0
        /\ UNCHANGED <<timers, pads, os, lost>>
     \/ /\ present
        /\ IF pad[x] >= 0 THEN UNCHANGED <<pad, mask, os>>
           ELSE \E works \in BOOLEAN : Plug(x, works)
        /\ IF pad'[x] < 0 THEN UNCHANGED <<timers, back, backTimeout, lost>>
           ELSE /\ BackTimer(x, down)
                /\ back' = [back EXCEPT ![x] =
                     [state |-> NextBackState(x, "BACK" \in message.buttons),
                      down |-> down]]

(* The timer of a held BACK: it is let go, and HOME is pressed for 100 ms. *)
Home ==
  LET x == hand.of IN
  /\ Runs("home")
  /\ back' = [back EXCEPT ![x] = [state |-> "UP", down |-> FALSE]]
  /\ backTimeout' = [backTimeout EXCEPT ![x] = None]
  /\ Done
  /\ UNCHANGED <<session, queue, pool, batch, keyboard, mouse, pad, mask, os, history>>

-----------------------------------------------------------------------------
Work ==
  \/ Pop \/ Lock
  \/ NextMessage \/ Merge \/ SendRelative \/ SendAbsolute \/ SendButton \/ SendKey
  \/ SendArrival \/ SendPad \/ SendTouch
  \/ LeftRelease \/ Repeat \/ RepeatAgain \/ Release \/ Nudge \/ Home \/ Free

Next ==
  \/ \E s \in Sessions : Alloc(s) \/ Passthrough(s) \/ Reset(s) \/ Destroy(s)
  \/ \E s \in Sessions, c \in Pads : GiveBack(s, c)
  \/ Work \/ Tick

Spec == Init /\ [][Next]_vars

-----------------------------------------------------------------------------
(* Nothing is down in the operating system that the program believes to be *)
(* up: no key, however it was struck or repeated, unless it is mapped and  *)
(* a reset released the code it came with instead (input.cpp:1654); no     *)
(* button, unless its release is still to come or was cancelled.  A finger *)
(* is where the client last saw it once nothing of its session is queued,  *)
(* whatever was merged, unless its last event was ignored for want of a    *)
(* touch port.                                                             *)
ReleaseToCome ==
  \/ \E i \in DOMAIN timers : timers[i].do = "left"
  \/ hand.do = "left"

KeysFollow == os.keys \subseteq {MapKeycode(k) : k \in Pressed} \cup abandoned

(* Only mapped keys are abandoned.                                         *)
OnlyMapped == \A c \in abandoned : \E k \in AllKeys : c = MapKeycode(k) /\ c # k

ButtonsFollow ==
  /\ "right" \in os.buttons => mousePress["right"]
  /\ "left" \in os.buttons => mousePress["left"] \/ ReleaseToCome \/ lost

Heard(x) == IF ignored[x] = "none" THEN os.touch[x] ELSE ignored[x]

FingersFollow ==
  \A x \in Sessions \X Pointers :
    queue[x[1]] = <<>> /\ worker \notin {"merge", "send"} => Heard(x) = touched[x]

NothingStuck == KeysFollow /\ OnlyMapped /\ ButtonsFollow /\ FingersFollow

(* Every gamepad in use has one owner: a controller of a session, or the   *)
(* task that frees it.  None leaks when a session ends, and none is freed  *)
(* twice.                                                                  *)
Owned(s) == {pad[<<s, c>>] : c \in Pads} \ {-1}
Freeing ==
  {tasks[i].of : i \in {j \in DOMAIN tasks : tasks[j].do = "free"}}
    \cup (IF hand.do = "free" THEN {hand.of} ELSE {})

PadsOwned ==
  /\ os.pads = mask
  /\ mask = (UNION {Owned(s) : s \in Sessions}) \cup Freeing
  /\ \A x, y \in DOMAIN pad : x # y /\ pad[x] >= 0 => pad[x] # pad[y]
  /\ \A s \in Sessions : Owned(s) \cap Freeing = {}

(* A key is repeated by one task at a time.                                *)
OneRepeat ==
  Cardinality({i \in DOMAIN timers : timers[i].do = "repeat"})
    + (IF worker = "repeat" THEN 1 ELSE 0) <= 1

(* Keys and buttons: none is left down, and none repeats twice as fast.    *)
KeysAsSent == NothingStuck /\ OneRepeat

(* "Batching is safe as long as the result doesn't overflow a 16-bit       *)
(* integer": the movement the system is told adds up to what the client    *)
(* sent.                                                                   *)
MovesKept ==
  (\A s \in Sessions : queue[s] = <<>>) /\ worker \notin {"merge", "send"} => os.moved = asked

(* The worker does not sleep through a push or a timer that is due.        *)
NeverSleepsOnWork == worker = "wait" => ~Ready
=============================================================================
