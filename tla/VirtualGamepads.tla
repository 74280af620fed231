----------------------------- MODULE VirtualGamepads -----------------------------
(***************************************************************************)
(* The virtual gamepads of the clients on Windows (vigem_t and the         *)
(* gamepad_ functions of platform/windows/input.cpp): a slot of the vector *)
(* gamepads is used by one pad after another.  Rumble of a game comes back *)
(* through the task pool and is told to the client; touches of a           *)
(* DualShock 4 take one of its two fingers; its reports are repeated.      *)
(*                                                                         *)
(* Everything runs on the worker of the task pool; only the driver's       *)
(* notifications come from another thread, and are queued to it.  A slot   *)
(* is reset and given away by input.cpp (module Input).                    *)
(*                                                                         *)
(* External: the driver (ViGEm), which may refuse any call, and the games. *)
(* Left out: buttons, motion, battery and the light bar, whose messages    *)
(* are handled as those of the rumble.  Assumed: a pad's target has not    *)
(* the address of an earlier one still waiting for its rumble.             *)
(***************************************************************************)
EXTENDS Integers, Sequences, FiniteSets

CONSTANTS
  PadSlots,   (* the indices of gamepads                                   *)
  Touched,    (* bound: the slots whose clients touch their pads           *)
  Fingers,    (* pointer ids of touches                                    *)
  Levels,     (* levels of the rumble; 0 is none                           *)
  Tracks,     (* 0x80: the tracking numbers below the flag of a lifted one *)
  MaxPads,    (* bound: pads attached altogether                           *)
  MaxRumbles  (* bound: notifications waiting in the task pool             *)
ASSUME LevelsAssumption == 0 \in Levels
ASSUME TracksAssumption == Tracks \in Nat \ {0}

VARIABLES
  pads,       (* gamepads: [pad, kind, attached, last, ids, spare, pressed, *)
              (*   track, resend]                                          *)
  given,      (* the slots input.cpp has given to a client                 *)
  linked,     (* client: the connection to the driver                      *)
  rumbles,    (* the tasks vigem_t::rumble                                 *)
  motors,     (* external: the level a game last set for the pad in a slot *)
  told,       (* history: the level its client was last told               *)
  placed,     (* history: the fingers its client has on the pad            *)
  counter,    (* history: pads so far                                      *)
  misled,     (* history: a pad that found another's rumble in its slot    *)
  mixed,      (* history: a pad that found fingers in its slot, or whose   *)
              (*   client put the same finger down twice                   *)
  unplugged   (* history: a pad could not be attached                      *)

padVars == <<pads, given, linked, rumbles, motors, told, placed, counter, misled, mixed,
             unplugged>>

NoPad == 0
Unused == [pad |-> NoPad, kind |-> "x360", attached |-> FALSE, last |-> 0, ids |-> {},
           spare |-> {}, pressed |-> {}, track |-> <<0, 0>>, resend |-> FALSE]

(* pointer_id_map as a set of pairs.                                       *)
IndexOf(p, f) == {n \in {0, 1} : <<f, n>> \in p.ids}

-----------------------------------------------------------------------------
(* alloc_gamepad_internal(): what was in the slot before, the last rumble  *)
(* and the map of fingers, stays.                                          *)
(* If the driver cannot be reached nothing changes; if it does not add the *)
(* pad its target stays; if it does not register notifications none come.  *)
Prepared(s, kind) ==
  LET clean == kind = "ds4"
  IN [pad |-> counter + 1, kind |-> kind, attached |-> FALSE, last |-> pads[s].last,
      ids |-> pads[s].ids, spare |-> IF clean THEN {0, 1} ELSE pads[s].spare,
      pressed |-> IF clean THEN {} ELSE pads[s].pressed,
      track |-> IF clean THEN <<0, 0>> ELSE pads[s].track, resend |-> pads[s].resend]

AllocFails(s, kind) ==
  /\ s \notin given /\ counter < MaxPads
  /\ linked' = TRUE /\ unplugged' = TRUE
  /\ pads' = [pads EXCEPT ![s] = Prepared(s, kind)] /\ counter' = counter + 1
  /\ UNCHANGED <<given, rumbles, motors, told, placed, misled, mixed>>

Alloc(s, kind) ==
  /\ s \notin given /\ counter < MaxPads
  /\ linked' = TRUE /\ given' = given \cup {s} /\ counter' = counter + 1
  /\ pads' = [pads EXCEPT ![s] = [Prepared(s, kind) EXCEPT !.attached = TRUE]]
  /\ misled' = IF pads[s].last # 0 THEN misled \cup {s} ELSE misled
  /\ mixed' = IF pads[s].ids # {} THEN mixed \cup {s} ELSE mixed
  /\ UNCHANGED <<rumbles, motors, told, placed, unplugged>>

(* free_target(): the connection is given up with the last pad.            *)
(* Variant: with any.                                                      *)
LastOneBug(s) == TRUE
LastOne(s) == \A t \in PadSlots \ {s} : ~pads[t].attached

(* Variant: the repetition goes on.                                        *)
FreedBug(s) == [pads[s] EXCEPT !.pad = NoPad, !.attached = FALSE]
Freed(s) == [pads[s] EXCEPT !.pad = NoPad, !.attached = FALSE, !.resend = FALSE]

FreeTarget(s) ==
  /\ s \in given /\ given' = given \ {s}
  /\ pads' = [pads EXCEPT ![s] = Freed(s)]
  /\ linked' = (linked /\ ~LastOne(s))
  /\ motors' = [motors EXCEPT ![s] = 0] /\ told' = [told EXCEPT ![s] = 0]
  /\ placed' = [placed EXCEPT ![s] = {}]
  /\ misled' = misled \ {s} /\ mixed' = mixed \ {s}
  /\ UNCHANGED <<rumbles, counter, unplugged>>

-----------------------------------------------------------------------------
(* A game sets the motors; x360_notify() and ds4_notify() queue it.        *)
Notify(s, level) ==
  /\ pads[s].attached /\ Len(rumbles) < MaxRumbles
  /\ motors' = [motors EXCEPT ![s] = level]
  /\ rumbles' = Append(rumbles, [pad |-> pads[s].pad, level |-> level])
  /\ UNCHANGED <<pads, given, linked, told, placed, counter, misled, mixed, unplugged>>

(* rumble(): the slot is looked up by the target; what was told last is    *)
(* not told again.                                                         *)
(* Variant: the first slot in use.                                         *)
TargetsBug(pad) == {s \in PadSlots : pads[s].attached}
Targets(pad) == {s \in PadSlots : pads[s].pad = pad}

Rumble ==
  /\ rumbles # <<>> /\ rumbles' = Tail(rumbles)
  /\ LET task == Head(rumbles)
         to == {s \in Targets(task.pad) : pads[s].last # task.level}
     IN /\ pads' = [s \in PadSlots |->
                      IF s \in to THEN [pads[s] EXCEPT !.last = task.level] ELSE pads[s]]
        /\ told' = [s \in PadSlots |-> IF s \in to THEN task.level ELSE told[s]]
        /\ misled' = misled \ to
  /\ UNCHANGED <<given, linked, motors, placed, counter, mixed, unplugged>>

-----------------------------------------------------------------------------
(* ds4_update_ts_and_send(): repeated in 100 ms, unless the driver refuses *)
(* the report.                                                             *)
Report(s, p) ==
  /\ \/ pads' = [pads EXCEPT ![s] = [p EXCEPT !.resend = TRUE]]
     \/ pads' = [pads EXCEPT ![s] = [p EXCEPT !.resend = FALSE]]
  /\ UNCHANGED <<given, linked, rumbles, motors, told, counter, misled, unplugged>>

Playing(s) == s \in given /\ pads[s].kind = "ds4"

(* gamepad_update(), gamepad_motion() and gamepad_battery().               *)
GamepadUpdate(s) ==
  /\ Playing(s) /\ Report(s, pads[s])
  /\ UNCHANGED <<placed, mixed>>

(* The repetition.                                                         *)
Resend(s) ==
  /\ pads[s].resend /\ pads[s].attached /\ Report(s, pads[s])
  /\ UNCHANGED <<placed, mixed>>

(* gamepad_touch(): a finger that is put down takes the first free index,  *)
(* and the index its next tracking number.  The increment carries into the *)
(* flag of a lifted finger: then the finger does not show.                 *)
Tracked(p, n) ==
  LET t == (p.track[n + 1] + 1) % Tracks
  IN [p EXCEPT !.track[n + 1] = t, !.pressed = IF t = 0 THEN @ \ {n} ELSE @ \cup {n}]

FingerDown(s, f) ==
  /\ Playing(s) /\ pads[s].spare # {}
  /\ LET n == CHOOSE x \in pads[s].spare : \A y \in pads[s].spare : x <= y
     IN Report(s, [Tracked(pads[s], n) EXCEPT !.ids = {pair \in @ : pair[1] # f} \cup {<<f, n>>},
                                              !.spare = @ \ {n}])
  /\ placed' = [placed EXCEPT ![s] = @ \cup {f}]
  /\ mixed' = IF f \in placed[s] THEN mixed \cup {s} ELSE mixed

(* Variant: its index is not free again.                                   *)
LiftedBug(p, f) ==
  [p EXCEPT !.ids = {pair \in @ : pair[1] # f}, !.pressed = @ \ IndexOf(p, f)]
Lifted(p, f) ==
  [p EXCEPT !.ids = {pair \in @ : pair[1] # f}, !.pressed = @ \ IndexOf(p, f),
            !.spare = @ \cup IndexOf(p, f)]

FingerUp(s, f) ==
  /\ Playing(s) /\ IndexOf(pads[s], f) # {}
  /\ Report(s, Lifted(pads[s], f))
  /\ placed' = [placed EXCEPT ![s] = @ \ {f}] /\ UNCHANGED mixed

FingersCancelled(s) ==
  /\ Playing(s)
  /\ Report(s, [pads[s] EXCEPT !.ids = {}, !.pressed = {}, !.spare = {0, 1}])
  /\ placed' = [placed EXCEPT ![s] = {}] /\ mixed' = mixed \ {s}

PadsInit ==
  /\ pads = [s \in PadSlots |-> Unused] /\ given = {} /\ linked = FALSE /\ rumbles = <<>>
  /\ motors = [s \in PadSlots |-> 0] /\ told = [s \in PadSlots |-> 0]
  /\ placed = [s \in PadSlots |-> {}] /\ counter = 0
  /\ misled = {} /\ mixed = {} /\ unplugged = FALSE

PadsNext ==
  \/ \E s \in PadSlots, kind \in {"x360", "ds4"} : AllocFails(s, kind) \/ Alloc(s, kind)
  \/ \E s \in PadSlots : FreeTarget(s) \/ GamepadUpdate(s) \/ Resend(s)
  \/ \E s \in PadSlots, level \in Levels : Notify(s, level)
  \/ Rumble
  \/ \E s \in Touched :
       \/ FingersCancelled(s)
       \/ \E f \in Fingers : FingerDown(s, f) \/ FingerUp(s, f)

-----------------------------------------------------------------------------
PadsTypeOK ==
  /\ \A s \in PadSlots :
       /\ pads[s].pad \in 0..MaxPads /\ pads[s].kind \in {"x360", "ds4"}
       /\ {pads[s].attached, pads[s].resend} \subseteq BOOLEAN
       /\ pads[s].last \in Levels /\ pads[s].ids \subseteq Fingers \X {0, 1}
       /\ pads[s].spare \cup pads[s].pressed \subseteq {0, 1}
       /\ pads[s].track \in (0..Tracks - 1) \X (0..Tracks - 1)
  /\ given \cup misled \cup mixed \subseteq PadSlots
  /\ counter \in 0..MaxPads /\ {linked, unplugged} \subseteq BOOLEAN

(* A client knows how its pad rumbles, once what is queued has run; never  *)
(* how an earlier pad of the slot did, unless that was left rumbling.      *)
RumbleTold ==
  \A s \in given : s \notin misled =>
    LET mine == {i \in DOMAIN rumbles : rumbles[i].pad = pads[s].pad}
    IN /\ mine = {} => told[s] = motors[s]
       /\ \A i \in mine : (\A j \in mine : j <= i) => rumbles[i].level = motors[s]

(* Each finger a client has on its touchpad has an index of its own and is *)
(* shown, but for every 128th touch of an index, and no others are; unless *)
(* fingers were left in the slot.                                          *)
FingersShown ==
  \A s \in given : pads[s].kind = "ds4" /\ s \notin mixed =>
    LET taken == UNION {IndexOf(pads[s], f) : f \in placed[s]}
    IN /\ Cardinality(taken) = Cardinality(placed[s])
       /\ pads[s].spare = {0, 1} \ taken
       /\ pads[s].pressed = {n \in taken : pads[s].track[n + 1] # 0}

(* Reports are repeated for the pad they are of, and not for the slot's    *)
(* next; the connection to the driver is there while a pad is attached,    *)
(* and given up with the last one, unless one could not be attached.       *)
PadsServed ==
  /\ \A s \in PadSlots : pads[s].resend => s \in given /\ pads[s].kind = "ds4"
  /\ given # {} => linked
  /\ linked => given # {} \/ unplugged
===============================================================================
