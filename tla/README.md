# Sunshine: formal models of the streaming host

Sunshine is a game streaming host: a client pairs with it, launches an
application, sets a session up over RTSP, then receives video and audio and
sends input over UDP until one of the two ends the session. The program is
C++. It runs several long-lived threads and two more per session, and shares
most of its state through events, queues, reference-counted singletons and a
few mutexes; much of the rest keeps something of the user's (a display mode, a
default sound device, a driver setting, router ports) that has to be given back.

This directory holds TLA+ modules that model these parts, TLC configurations
that check them on small instances, and proofs, checked by TLAPS, that hold
for every instance. Paths below are relative to `src/src/`.

1. [The system](#1-the-system)
2. [The modules](#2-the-modules)
3. [What TLC checks](#3-what-tlc-checks)
4. [What is proved](#4-what-is-proved)
5. [What the code does not do as it says](#5-what-the-code-does-not-do-as-it-says)
6. [What is not modelled, and what could come next](#6-what-is-not-modelled-and-what-could-come-next)

## 1. The system

| component | state | who works on it | what is hard | correct when |
|---|---|---|---|---|
| streaming sessions (`stream.cpp`) | `session_t`: state, events, peer, two threads; `running_sessions` | RTSP, HTTP, control and media threads, without a common lock | listed in two places before it is started; freed by a fifth party | nobody reaches a freed one, one thread joins it, a stopped one is freed |
| RTSP server (`rtsp.cpp`) | `_session_slots` and its mutex | RTSP thread, HTTP threads | `clear()` joins with the mutex held | every ended session is cleared, once |
| pending launch (`rtsp.cpp`) | `launch_event`, `raised_timer` | HTTPS, RTSP and control threads | check-then-act; a handler that cannot be recalled | never overwritten, stranded or kept |
| control stream, broadcast (`stream.cpp`) | list of raw pointers, ENet peers; shared context and references | control thread, media threads | decides on what it saw in an earlier pass; last holder joins the threads | leaves the loop with nobody pending; context lives while referenced |
| application process (`process.cpp`) | app, prep iterator, process group | four threads, no lock | any command fails half-way | what runs was prepared, what was prepared is undone |
| pairing, clients (`nvhttp.cpp`, `crypto.cpp`) | sessions by uniqueid, list of clients, certificates, state file | two HTTP servers and the web UI, no lock | read-modify-write of the file from two servers; crashes | only who answered under a typed PIN is let in, and stays |
| input and task pool (`input.cpp`, `task_pool.h`) | message queues, keys, gamepads, delayed tasks | control thread, one worker | tasks by address, addresses reused; messages merged | nothing stays pressed, no gamepad leaks |
| video capture (`video.cpp`) | capture contexts, displays, images | capture thread, encoder threads | re-initialisation waits for every holder | nobody forgotten, an image has one writer |
| packets, encoders (`stream.cpp`, `video.cpp`, `nvenc/`) | blocks, shards, reference frames, sessions | encoder and sender threads | limits, wrap-around, lost frames | what is sent can be decoded |
| display, sound, driver, ports (`display_device.cpp`, `audio.cpp`, `nvprefs/`, `upnp.cpp`) | what the user had | tasks, destructors, restarts | failures and crashes in between | left as it was found |
| sound on Linux (`platform/linux/audio.cpp`) | null sinks loaded into the server, the default sink | answers from a thread of the server's, hosts that die | the server keeps what a dead host left; a list may be told incompletely | nothing is loaded twice, what is recorded is what plays |
| service discovery (`platform/*/publish.cpp`) | entry group or registration, name | Avahi's callbacks, `main()` | collisions told late, a server that goes and comes back | announced under the name the host knows, withdrawn at the end |
| capture back ends (`platform/`) | buffers, file descriptors, cursors, pace | callbacks and the capture thread | stale or reused buffers | pictures and sound are true, resources given back once |
| virtual devices (`platform/windows/input.cpp`) | pointer slots, ViGEm pads | worker, driver notifications | slots used again | do what the client's do |
| hand-over (`thread_safe.h`) | events, queues, posts, shared objects | all threads | lookups between expiry and clean-up | nobody sleeps on something raised |
| RTSP and control messages (`rtsp.cpp`, `stream.cpp`) | buffers, addresses, feedback | RTSP, receive and control threads | messages in pieces; clients of one address | answered whole, sent where awaited |
| configuration, apps (`config.cpp`, `confighttp.cpp`, `process.cpp`) | files, options, ids | web UI, refresh | texts with structure; edits by index | what is saved is what is used |
| life of the process (`main.cpp`, `tools/sunshinesvc.cpp`) | signals, tray, service | signal handlers, tray loop, service | restart and quit racing | quitting and restarting are heeded |

`PROJECT.json` lists all components with their sources and status, every
definition with the lines it models, and under `hazards` the places where this
code can go wrong in a way a test would hardly reach, with the properties that
watch them.

The parts meet in few places. `/launch` on the HTTPS thread runs the
application (`AppProcess`) after configuring the display (`DisplayDevice`) and
raises a launch (`LaunchHandshake`); RTSP messages (`RtspConnection`) turn it
into a session (`StreamSession`), whose media threads hold the broadcast, start
capture (`VideoCapture`, `AudioContext`) and choose what to encode with
(`EncoderProbe`); the control thread feeds `Input`, `RefFrames` and
`ClientMessages`; pictures go through a capture back end, `EncodeSession` and
`FramePackets` to the client.

## 2. The modules

| module | what it is |
|---|---|
| `StreamSession`, `SessionPromise` | the life of sessions; abstractly, their phases and the broadcast |
| `StreamSessionProofs` | its invariant, safety, refinement, the counter and clean-up |
| `LaunchHandshake`, `LaunchHandshakeProofs` | the pending launch and its timer |
| `AppProcess`, `AppProcessProofs` | the one application the host runs |
| `Pairing`, `PairingProofs` | pairing, clients, certificates, state file |
| `TaskPool`, `InputBatch`, `Input`, `InputProofs` | delayed tasks; merging of messages; input on the pool |
| `VideoCapture`, `VideoCaptureProofs` | the shared capture thread |
| 25 modules of `MCHost` | the parts that share no state with the others, see below |
| `HostPartsProofs`, `HostProofs` | an invariant for each of 16 of these parts; the theorems about their composition |
| `MC...` | symmetry sets and other values the `.cfg` files name; composition |

Operators whose name ends in `Bug` are slips the code might have made, kept next
to the definition they vary so that each property can be seen to fail without
that definition. No specification uses them; `PROJECT.json` pairs each property
of each passing run with one. Variables marked "history" in a
module are not state of the program: they record what a property needs to remember.

### StreamSession

A step is one thread's run between two points where another thread can see or
change what it uses: a lock, an atomic, an event, a thread started or joined.

| variables | code |
|---|---|
| `obj` | whether the `session_t` is allocated; freed with its last `shared_ptr` |
| `state`, `shutdownEv`, `controlEnd`, `peer` | members of `session_t` |
| `expired` | `pingTimeout` lies in the past |
| `media` | where `videoThread` and `audioThread` are |
| `slots`, `slotsLock` | `_session_slots` and its mutex |
| `bstate`, `bref`, `bshutdown` | the `shared_t<broadcast_ctx_t>`, its holders, its event |
| `list`, `ctl`, `scan`, `exam`, `awaiting` | the control thread, its list and its pass |
| `pc`, `cur`, `todo`, `all`, `local` | the RTSP thread and the HTTP threads |
| `running`, `platform` | `running_sessions` and the platform callbacks |

Actions: `Announce` and `Start...` are `cmd_announce` and `session::start` in
the order of the code; `BeginClear`, `Skip`, `StopSlot`, `Join`,
`StopCallback`, `Erase`, `Ending`, `EndClear` are `clear()` with `stop` and
`join`; `Media...` the two media threads; `Ctl...` the control thread.

Abstractions:

- `join` arms a ten-second watchdog that traps the host when its waits take longer.
  The model lets it wait instead: a wedge in the model is a crash in the program.
- `stop` is two steps, the exchange of the state (`Stop`) and the raise of the event
  (`Tell`), as the control thread may raise `controlEnd` in between. Setting the
  deadline and creating the threads are one step, and so are a media thread's release
  of its broadcast reference and its final `stop`: nobody reads the one without the other.
- `alloc` stores `STOPPED` (`stream.cpp:2070`) and nothing ever stores
  `STARTING`, so there is no such state and `while_starting_do_nothing` does not wait.
- Joining a thread that `start` has not created yet throws (`JoinThrows`): the
  lock is released and the session stays in its slot.
- `session_clear`, which `get_session` calls, is the subject of
  `LaunchHandshake` and has no effect here.

`SessionPromise`: a session goes through the phases none, starting, attached,
streaming, stopping, freed; only one that was told to stop, or whose broadcast
could not start, is freed; the broadcast exists exactly while a session is
attached. `StreamSession!Phase` reads a phase off the session's variables.

### LaunchHandshake

`event` is `launch_event`; `raising` and `raised` place the HTTPS thread in
`session_raise`; `timer` is the outstanding wait on `raised_timer` and `queued`
are expiry handlers that `cancel()` no longer reaches; `stage` and `launchOf`
follow a connection from `handle_accept` to the control stream's first event;
`fate` and `fired` record what became of each launch.

Abstractions: `expires_after` and `async_wait` are one step (`Arm`);
a connection is not tied to the client that launched; an RTSP connection that
carries no ANNOUNCE is one that is dropped; a refused launch is answered 200 by
the HTTP handler, which changes no state.

### AppProcess

`appId`, `app`, `it`, `placebo`, `process` are members of `proc_t`;
`applied[i]` counts how often prep command `i` was done and not undone;
`display` says whose settings are in force as far as handlers of the
application change them; `pc`, `op`, `then`, `want` and `mine` place the
threads and hold the handlers' locals.

`proc_t` has no lock, so the calls of the threads interleave freely. Most of these
interleavings do no harm: a call that only asks `running()`, or arrives before the
other one changes anything. `torn` remembers that two calls were changing `proc` at once
(`Changing` names the places); the properties of `app` and the theorems hold until
then, and `app_overlap` shows what is lost after it.

A prep command that fails stops the launch, except that an app without a
command of its own goes on when the command was denied permission
(`process.cpp:216-223`): `DoDenied` takes such a command for done, `denied`
remembers it, and its undo command is run like the others. The code then waits for the
child that does not exist; for boost that is an error it ignores, and an exit code of 0.

Abstractions: an empty do or undo command counts as one that succeeds; an app
with no command (desktop) is a `placebo` from the start, as is one whose
command ends with code 0 within five seconds; detached commands and
images are left out; `refresh` is one step; an exception of `child.wait()` for
an undo command is not modelled; an iterator outside the commands, undefined
behaviour under overlap, is not followed.

### Pairing

`sess` is `map_id_sess`; `clients` is `client_root.named_devices`; `chain` and
`queue` are the certificates the HTTPS server accepts and those added since it last
looked; `file` is the state file the list shares with the web UI's password;
`job` is what the HTTP and the web UI thread are in the middle of when they read the
file, change it and write it back; `idOf`, `tries` and `stage` follow the clients.

An attempt of a client has a salt and a PIN of its own, so two clients with one
uniqueid, and the second attempt of one client, can be told apart. Cryptography
is what it promises: a hash or a key matches only its own inputs. Writes may fail
and the process may restart between any two steps. The vectors' data races,
the limit of 30 queued certificates and the `PIN_STDIN` flag are not modelled;
the list is a set whose order is that of the attempts.

### TaskPool, InputBatch, Input

`tasks` and `timers` are `_tasks` and `_timer_tasks`; a delayed task has an
address (`Ids`), by which it is cancelled, and addresses are used again.
`worker` places the pool's one thread; `hand` is its task, `message` and `at`
the message it merges others into (`input::batch`) and the one it looks at.
`keyPress`, `mousePress`, `repeatId`, `shortcut`, `leftTimeout`, `pad`, `mask`,
`back`, `backTimeout` are the globals and members of the same meaning; `os` is
what the operating system was told. `Keybindings` is `map_keycode`: what is struck,
repeated and released for the client is the mapped code, what `reset()` releases is
the client's own. A touch is ignored while the video threads have told of no
touch port, or of one without dimensions (`ignored`).

Time passes in steps (`Tick`), never beyond the moment the first delayed task is due;
delays keep the order of their lengths. `InputBatch` has the rules for every kind of message;
`Input` sends movements, buttons, keys with a modifier, gamepad states and
arrivals, and touches. Scrolling, text, pens, motion and battery messages are
only forwarded by the code and are not sent.

### VideoCapture

`refs` is the reference count of `capture_thread_async`, `queue` and `open` its
`capture_ctx_queue`, `wp` the weak pointer to the display, `reinit` the event;
`cap`, `disp`, `pool`, `shot`, `ctxs`, `todo`, `peeked` are the capture thread and its
locals; `pc`, `running`, `display`, `first`, `event`, `hand`, `teardown` are the encoder
threads and encoders that are torn down after them.

The thread's lists of contexts are sets, as nothing depends on their order.
With `AsyncTeardown` an encoder may keep its display while its session has moved on. The
synchronous capture path is not used by any encoder and not modelled.

### The parts of MCHost

They share no state, so one run takes one of them at a time: the variable `part` chooses
it and the others rest in one initial state (the run grows by the sum of the parts, not
their product). The run's `VIEW PartOfRun` is the part and its variables: no other
variable ever changes and every property looks at this part only, so two states with one
view have the same future and satisfy the same properties. A property of the run is the
conjunction of `Of(part, P)`. The properties are grouped by what a user of the host
would notice:

| property | parts and their properties |
|---|---|
| `StreamIsDecodable` | `FramePackets` (a client can put frames together from blocks, shards and sequence numbers), `RefFrames` (a lost frame is recovered from), `EncoderProbe` (the encoder fits what `/serverinfo` promises), `EncodeSession` (key frames on request, parameter sets shown, true time stamps, rates kept) |
| `LeftAsFound` | `DisplayDevice`, `AudioContext`, `PortMappings`, `NvPrefs`, `WindowsSound`, `PulseSound`, `Announcement`: what the host changed is given back, through failures, crashes and restarts |
| `CaptureIsTrue` | `DesktopFrames`, `WindowsCapture`, `PipewireStream`, `PortalSession`, `KmsCapture`, `ScreencopyCapture`, `WindowsSound`, `PulseSound`: pictures and sound as they were, in order, of the right source; buffers and descriptors given back once |
| `DevicesFollow` | `PointerDevice`, `VirtualGamepads`: contacts, fingers and rumble are those of the client and its games |
| `NothingGoesAstray` | `Mail`, `RtspConnection`, `ClientMessages`, `HostLife`, `Announcement`: what is raised is seen, requests are answered whole, a stream is sent where it is awaited, quitting and restarting are heeded, the network is told of the host |
| `ChoicesAreHeeded` | `Configuration`, `AppsFile`, `KmsCapture`, `ScreencopyCapture`, `WindowsCapture`: saved settings and apps are used, the display named is opened, pictures come no faster than asked |

Each module's first comment says what it models, what is external to it (a
driver, a router, a compositor, the user), what is left out and what is
assumed. Where the code breaks such a property in a known way, the module
has a history variable that names it (`excused`, `givenUp`, `overlap`,
`everOverlap`, `stolen`, `unheard`, `emptied`, `spare`, `unsaved`, `misled`, `split`,
`crossed`, `cleared`, `belated`, `shortLists`, ...) and the property says "unless": the
exception is meant to be no wider than the defect, and section 5 lists them.

Where several parts could follow one thing, one does. Failures of the driver's
settings are in `NvPrefs`, where any call of `load()` to `unload()` may fail and
the host may die in between; `HostLife` follows the exit code, the signals, the tray
(which may be unwanted or fail), the service, and restarts, which may fail in
`readlink` or `execv` (`restartFailed`). `EncoderProbe` keeps what a failed
validation leaves: with HDR required (mode 3) a codec that failed stays advertised
with HDR if it was noted before (`Insisted`), which `EncoderFits` names.

## 3. What TLC checks

Every run of kind pass finishes exhaustively.

| run | instance | question |
|---|---|---|
| `session_pair` | 2 sessions, 1 media thread, 1 HTTP thread; the app may exit, `terminate_sessions` at any time; symmetric | memory safety, exclusive joins, references, counter, refinement of `SessionPromise` |
| `session_live` | 1 session, everything may happen, fair | a stopped or silent session is freed, unless clean-up wedged in a listed way |
| `session_calm` | 2 sessions, no HTTP calls, app runs on, fair | clean-up never wedges, nothing deadlocks, a silent client is discarded |
| `launch` | 3 launches, 2 connections, fair | the pending launch is never overwritten, stranded or kept |
| `app` | a game and a desktop, 3 prep commands, 3 threads, until two calls change `proc` at once | what runs is prepared, what stopped is undone, in order |
| `clients` | 2 clients with one or two uniqueids, 2 attempts each, 1 change, 1 restart, failing writes; symmetric | only typed PINs pair; list, certificates and file agree; nobody is lost |
| `input` | 2 sessions, 1 key and a modifier bound to its left-hand key, 1 gamepad, 2 fingers, 3 messages of 4 mixes, 2 addresses; symmetric | nothing stays down, gamepads are owned, the worker is woken |
| `capture` | 2 sessions, 1 image, 2 displays, asynchronous teardown, fair | one writer per image, nobody forgotten, everything ends unless the drain is stuck |
| `host` | the 25 parts, one at a time | section 2 |
| `app_overlap` | violation, 2 prep commands | closing an app during its launch leaves it running and unknown |
| `two_displays` | violation | the next display is opened while the old one lives |
| `batch_overflow` | violation | two movements whose sum overflows are merged |

The three violations are places where the code does not do what a comment
beside it says; `findings` in `PROJECT.json` quotes the lines.
`NeverWedged` and `SilentIsDiscarded` of `session_calm` say when the defects of
clean-up (section 5) cannot happen; `SessionsEnd` of `session_live` says they
are the only ways in which clean-up stalls.

In `session_pair` the broadcast always starts (`MayFail = FALSE`), which keeps the run
short; that its failure is cleaned up without a join is checked with one session
(`session_live`) and proved for any number (`ImplementsPromise`, `FreedIsUnreachable`).
`app` stops where two calls change `proc` at once (`CONSTRAINT Whole`), of which its
properties say nothing.

### Bounds

- Two sessions are the fewest for which one is constructed while the other
  releases the broadcast, and for which `running_sessions` leaves and reaches
  one and zero out of order. A third adds no new pair of interleavings, and the
  theorems hold for any number.
- One HTTP thread and the RTSP thread are the two callers of `clear()` that may
  race. Where two sessions are checked one media thread stands for both, since
  the threads do not interact with each other; `session_live` has one session
  with every event of the environment.
- `Wrap = 8` stands for 2^32: more than twice the number of sessions, so that a
  borrowed count cannot be taken for a real one.
- Three launches: one that is cleared with its expiry handler queued, one
  that this handler discards, one that meets the rest. Two connections: two
  sessions that race for the control thread.
- Three prep commands are the fewest with a first, a middle and a last. The
  state of `AppProcess` has no history that grows: sequences of calls of any
  length are covered.
- Two attempts of two clients cover a retry racing the answer to the first, and
  a client that comes with the other's uniqueid; one web UI change and one
  restart overlap with each of their steps.
- Three messages of a mix are the fewest that are merged past one that cannot
  be, with a delayed release or repetition pending; two addresses are the
  fewest for which a stale id meets another task. The mixes leave out kinds that
  share no state.
- One image and two displays: the capture thread waits for its image, and
  for its display, from both sessions. A second image only lengthens its wait.
- The parts of `host` have the smallest values with their boundary cases: payload sizes
  on both sides of a block and of the shard limit, packet sizes of an ordinary 1024 and of
  16, with which no payload fits, parity minima of 0, 2 and 3 (from 3 on clients
  expect other parity than they are sent), frame rates of 1 and 29 with nvenc's larger
  buffer (`VbvIncrease`), 3 reference frames, a sequence number that wraps at 8, 2 cards with
  4 planes, texts up to 7 characters for variables in commands, 12 kinds of
  configuration lines. `message_queue_queue`, which holds 30 registrations, holds 3
  here (`NewsLimit`): two sessions that register and give up fill it, as strays that are as
  long as pings arrive. Two null sinks and two devices: one that is the default
  and one that is not; one incomplete list of sinks (`MaxShortLists`) is enough for a
  sink that is loaded twice. Three names for the service and three unread messages of
  Avahi cover a collision that is told after the entries were reset. One configured
  sink (`AudioSinks`) that is not the default. Two hosts and two requests let a
  quit meet a restart.
  Every bound is a constant of `host.cfg` or a definition of `MCHost` named there.

`CHECK_DEADLOCK FALSE` is set where the modelled part may really stop: all
session objects, launches, attempts or messages are used up, the host was shut
down, or clean-up wedged. `session_calm` and `app` check for deadlock.

### Fairness

- Sessions: threads that can run do; mutexes are not starved (strong
  fairness for the RTSP thread where it takes one: the holders of both
  release them at the end of every pass); `recv_ping` and the ping deadline of
  a silent client time out, because both are clocks. Nothing is assumed of clients,
  HTTP calls, captures or applications.
- Launches: the HTTPS thread finishes what it raises, an armed timer ends, a
  queued handler runs because the io_context runs until the server stops, and
  the control thread finishes `session_clear`.
- Capture: the capture thread and the encoder threads go on where they can, and
  an asynchronous teardown ends (a driver that hangs in one is not covered).
  `EndsUnlessStuck` excuses a drain that waits for an image another thread has taken
  (`Stuck`), which the code waits for without a limit.

The other modules state no liveness: what they promise is that nobody is
left in a state from which the awaited step could not come.

## 4. What is proved

`PROJECT.json` lists the theorems; each is `Spec => []P`, or a refinement or an action
property, for every value of the constants, from an inductive invariant whose
conjuncts are named after what they say. TLC checked each invariant on a run
before it was proved. The constants are constrained only by the assumptions of
the modules that declare them, whose names end in `Assumption` (and `SpecialValues`
of `Pairing`): null values are not members of the sets, sizes are natural
numbers, distances are 16-bit integers. What a client sends is not restricted: packet
sizes are integers, parity minima and frame rates natural numbers. `CalmNeverWedges`
alone assumes more, `Calm`, which is what it is about.

**Sessions** (`StreamSessionProofs`: `TypeCorrect`, `FreedIsUnreachable`,
`JoinIsExclusive`, `BroadcastIsHeld`, `EndedSessionsWereTold`, all from
`Inductive`). `NoDangling` is not inductive by itself: that the control thread
never visits a freed session rests on a chain. A session is freed only when neither
a slot nor `cmd_announce` has it (`LiveOK`); its slot is erased only by a thread
that has joined it, with the mutex held since it read the slot (`LockOK`,
`PointersOK`); a joined session has `controlEnd` raised and its threads done
(`JoinedOK`); and a session whose `controlEnd` is raised has left the list, or
the control thread is past it in its final sweep (`CtlOK`). The broadcast
references follow the session's (`RefOK`, `BcastOK`), which makes the session
itself, never a media thread, the last holder. `ToldOK` is what `EndedWasTold` needs:
who sees a session stopping may be ahead of the raise, so it says that the
caller of `stop()` is about to raise the event and waits for nobody on the way.

**Refinement** (`ImplementsPromise`). Each step of
`StreamSession` is a step of `SessionPromise` or leaves the phases alone.

**How sessions end**. `CountIsExact`: `running_sessions` is
the balance of the sessions `start` counted and those a join uncounted, modulo
its width; both sets only grow and each session enters each once (`CountOK`), so
that the order of joins and starts does not matter. `CalmNeverWedges`: under
`Calm` (the application runs on, nobody terminates sessions, shuts the host down
or fails to start the broadcast) no clean-up waits for something that never
comes. `CalmOK` says why: nobody stops a session but its own media threads
(`Undisturbed`), the control loop goes on while anybody is listed
(`LoopsOn`), who is listed is live, and who is joined is stopped (`Stopped`).
`session_live` shows the wedges that appear without `Calm`.

**The pending launch** (`LaunchHandshakeProofs`: `TypeCorrect`,
`PendingLaunchIsTimed`, `EstablishedLaunchIsGone`, `ClearIsExact`,
`PendingIsNeverOverwritten`). Between the check and the raise only the HTTPS
thread can fill the event (`RaisingOK`); the launch of a connection was pending
once, so it still is or it is gone for good (`ConnOK`, `EventOK`); the mutex of
`_sessions` admits one `session_clear` at a time (`OneClears`), so that whoever
pops a launch finds either its own or, its own having been discarded, a later one.

**The application** (`AppProcessProofs`: `TypeCorrect`, `RunningAppIsPrepared`,
`PrepsAreUndone`, `SlateIsClean`). Nothing is assumed of when the calls come: they
interleave, and the theorems speak of every state until two of them were changing `proc`
at once (`torn`), which `app_overlap` shows they must except. Until then one call at
most is changing it (`OneCall`), and while none is the app is `Down` or `Started`.
For the one that is, `At(t, l)` says for each location which prep commands are
in effect: always the first ones, up to the iterator, whichever command fails;
the others only ask, and go on from what they saw when nobody was changing it.

**Pairing** (`PairingProofs`: `TypeCorrect`, `OnlyPinnedPair`,
`ListedAreVerified`, `FileIsInStep`, `PairedStays`). `OnlyPinned` is about who is
let in; inductive is that everything on the way there goes back to a PIN that was
typed (`Pinned`): keys and hashes of sessions, lists read from the file that a
handler is about to write back, certificates waiting in the queue. `Known` keeps the
certificates a superset of the list. `FileAgrees` and `PairedIsKept` hold while no write
failed and no two changes overlapped (`clean`); then the file follows the one
handler at work, step by step (`Agreed`, `Kept`).

**Input** (`InputProofs`: `TypeCorrect`, `NothingStaysDown`, `NoPadLeaks`,
`WorkerIsWoken`). The types contain the order of the delayed tasks, each at an
address of its own, which rests on lemmas about insertion, removal and the last
element of sequences. The rest of `Inv`: the worker has a task in hand exactly
while it runs one (`Hands`); only the task of `key_press_repeat_id` repeats, and
none waits while it runs (`Repeats`); what is down is up to the program, or its
release is still to come, or was cancelled, or named the unbound code (`KeysFollow`,
`ButtonsFollow`); the last event that was not ignored
of a finger is the last one queued, else the one being sent, else the one the
system was told (`Fingers`), for which no touch may be merged past another of its
finger (`Skipped`); each gamepad in the mask is one controller's or one task's (`Plugged`).

**Video capture** (`VideoCaptureProofs`: `TypeCorrect`, `ImageIsExclusive`,
`NobodyIsForgotten`). References are counted by where the encoder threads are
(`Counted`); the thread has a display and a round of draining exactly where it
uses them (`HasDisplay`, `Rounds`); every session that waits for images is in
one of its lists (`Enlisted`); the image it writes is nobody else's (`Exclusive`).

**The parts of the host** (`HostPartsProofs`, `HostProofs`). Each part has an invariant
of its own, proved inductive under the part's next-state relation; `HostInv`
says that the part of the run keeps its own, and the others rest.

- `HostLeftAsFound`. What is saved of the display leads home from whatever it is
  like (`Homeward`), and a revert is pending while anything is saved; the sink given back
  is the one found (`AudioInv`, `SinkInv`, `PulseInv`); a mapped port is known to be (`PortInv`);
  what the host set in the driver is on file before it is set, through every failure and
  crash (`NvInv`: `NvSections` says for each call of each section what file, copy and
  setting can be); nothing is announced without a publisher (`AnnouncementInv`).
- `HostDevicesFollow`. Slots of contacts are distinct and hold what the client has down;
  requests for rumble that are queued end in what the game asked for last.
- `HostHearsItsSink`. Null sinks the control does not know it has loaded are those
  an incomplete list did not tell of (`LoadedOnce`, `ModulesKnown`).
- `HostStreamIsDecodable`. That blocks are whole and fit their fields is arithmetic, done for
  every payload, percentage and packet size (`CeilIs` and the lemmas after it); parity is
  that of the client if it asks for a minimum of two at most; a frame asked for is owed until a
  key frame or a recovery is sent (`Owed`); what searches passed over does not suit
  (`PassedOver`), so that the encoder chosen is the one to be preferred.
- `HostMailIsSeen`. Whoever sleeps was notified or has nothing to wake for (`Notified`).
- `HostLifeHeeded`. What was asked is in the exit code, in `atExit`, or with a thread
  that is about to raise the signal (`CodeFollows`); the service is where stop event
  and exit code put it (`Supervised`).
- `HostRequestsAnswered`. The buffer holds the pieces received and not handled, in
  their order (`ReadSoFar`); the session has what its requests asked for (`SessionAsked`).
- `HostIsAnnounced`. A listening publisher holds its entries or a message that will make it
  enter them is waiting (`ReturnsToCome`); there are names left for the collisions
  that are waiting (`NamesLast`).

The invariants rest on the parts' constants only; `PacketInv` and `EncodeInv` do
the arithmetic of sizes and rates without bounds.

What stays with TLC, and why:

- Liveness (`SessionsEnd`, `SilentIsDiscarded`, `PendingEnds`, `EndsUnlessStuck`):
  fairness and ENABLED are out of the provers' reach.
- `TypeOK` and `ChoicesAreHeeded` of `host`, and `CaptureIsTrue` but for sound on
  Linux: texts are followed through files and commands by folds and recursive
  functions, and what these compute for every input needs induction over data, which
  the installed provers cannot instantiate. The capture back ends could be proved about.
- `ClientMessages`, and so `NothingGoesAstray` as a whole; its other parts are the
  theorems `HostMailIsSeen`, `HostLifeHeeded`, `HostRequestsAnswered`, `HostIsAnnounced`.
- The properties the violation runs refute: they are false.

## 5. What the code does not do as it says

Met while modelling. The first three are runs; the others were seen in
counterexamples to stronger forms of the properties, which now name them as exceptions, or
in reading.

Refuted by a run:

- `proc_t` has no lock: closing the app while `/launch` runs its prep commands
  leaves it running, unknown and unprepared (`app_overlap`, `process.cpp:354`).
- The capture thread checks that it holds the last reference of the display, but
  an encoder thread that asked `reinit_event` before it was raised may take
  another one: two displays are open (`two_displays`, `video.cpp:2479`; comment at 1447).
- The result of `__builtin_add_overflow` is inverted: movements that overflow are
  merged, those that fit are not (`batch_overflow`, `input.cpp:1261`, and scrolling at 1301, 1321).

Sessions: the control thread may leave its loop with a session pending
(`stream.cpp:1135`, contrary to its comment); `streaming_will_stop` may come last with a
session running (1942); `terminate_sessions` between `insert` and `start` never
returns (`rtsp.cpp:562`). `refresh()` forgets the undo commands of a running app
(`process.cpp:755`).

Input: `reset()` cancels a delayed left release whose button the program already
counts as up, so that it stays down (`input.cpp:1636`; `lost`). It releases the client's
key codes, while a press sent the codes they are bound to (1654): a bound key
stays down after a session, contrary to the comment at `stream.cpp:1946`
(`abandoned`). A finger lifted while there is no touch port stays on the screen (`ignored`).
A stale id may cancel another task; the back button's timer outlives its gamepad.
On Windows a repetition of touches that runs while the device is destroyed
schedules another one for it (`windows/input.cpp:845`; `orphan` notes it, no property does).

Encoders: bits of HDR and 4:4:4 outlive the failed validation of a codec
(`video.cpp:2627`, 2747), and with HDR required the codec stays advertised (2815),
though a session that asks for it is refused (1622). A client's frame rate of 0, or of 1
with a software encoder in slices or for HEVC, divides by zero (1885-1887); a packet
size of 16 leaves no room for a payload, whose length is a divisor. Clients that ask for
a parity minimum above two expect other parity than they are sent (`stream.cpp:641`).

Sound on Linux: a call whose connection is lost waits forever; an error in the midst of
the list of sinks rings twice, so that the waiter may go on with an incomplete
list and load null sinks again (`linux/audio.cpp:309-317`; `shortLists`).

Pairing: an unreadable state file is never written again; saving a password ignores a
failed write (`confighttp.cpp:1283`); certificates of unpaired clients may stay in
the queue; `unpair` may lose a client paired meanwhile.

Capture: draining waits without limit for an image somebody else took
(`video.cpp:1460`). KMS: descriptors closed twice after a change of size
(`kmsgrab.cpp:1128-1140`, 1461-1501), a failed read keeps the old cursor, listing and
opening count planes differently (659, 1680), a fractional client rate is ignored.
Screencopy: a late answer to a request given up overwrites the next frame's buffer
(`wayland.cpp:360-387`). PipeWire and portal: a buffer delivered empty, buffers
forgotten at a change of parameters, a token that is not saved, a `Response` that
arrives before it is subscribed to (`portalgrab.cpp:305`). Windows: a monochrome cursor
loses up to seven columns at an edge (`display_ram.cpp:48-52`), a default period of 100
ms instead of 10 (`windows/audio.cpp:513`), a default device changed while nobody
listens goes unheard.

Given back: a retried release after a new request reverts it
(`display_device.cpp:54`); a request that fails to parse leaves an earlier revert
scheduled (772); `/launch` without a connection leaves the display configured
until the app ends; a failed discovery forgets mapped ports (`upnp.cpp:317`); an
undo file whose restoration failed is deleted (`nvprefs_interface.cpp:85`).

Messages and files: an RTSP terminator split across reads is not found (`rtsp.cpp:363`);
clients of one address share an endpoint (`stream.cpp:1192`); a post found between
expiry and clean-up is null (`thread_safe.h:511`); a full queue is cleared whole (266),
the one of registrations, too, so that a session waits for a ping that is no longer
known (`cleared`). A blank or an inline comment after a number changes it
(`utility.h:478`); a value with `#` saved in the web UI is cut; an unclosed `[` swallows
the rest of the file (`config.cpp:687`); `-p` with `upnp = on` switches UPnP off. A
second editor's save shifts the index the first one edits by (`confighttp.cpp:721`,
806); a command with an unclosed bracket leaves no apps after a restart; hand-edited
apps may share an id.

Life: the first exit code is overwritten if it was 0 (`entry_handler.cpp:74`); a signal
between `main.cpp:394` and the tray's start is answered by the ten-second trap; a host
that ends during its start does not give the driver's setting back (380). `restart()`
called twice on Windows registers `restart_on_exit` twice and starts two hosts (not
modelled); a restart whose `readlink` or `execv` fails leaves no host
(`linux/misc.cpp:422-439`). Avahi may tell of a collision of entries that were reset
meanwhile; the host then changes a name that was free (`belated`).

## 6. What is not modelled, and what could come next

- Calls into drivers, servers and operating systems whose state the host does
  not keep: X11, KWin, CUDA, VAAPI and Vulkan capture, shaders and colour
  conversion, bitstream work (`cbs.cpp`), erasure coding, macOS.
- Control stream encryption, authentication of the web UI, logging, statistics.
- `alarm_raw_t`, `TaskPool::delay` and `pop(task_id)` (no caller), the synchronous
  capture path (no encoder uses it), commands of the command line.
- Data races on the vectors of the pairing code and on `proc_t`, beyond the
  interleavings of their calls.

Next, in the order of what it would say about the host:

1. An invariant of `ClientMessages` (a registration is on its way, known, or was
   cleared), which would make `NothingGoesAstray` a theorem as a whole.
2. Invariants of the capture back ends, of `KmsCapture` (who owns a descriptor) first.
3. Action properties of the other proved modules, like `NeverOverwritten`: that a
   typed PIN admits one attempt, that prep commands are undone in reverse.
4. `VideoCapture` as an implementation of an abstract pool of images.
