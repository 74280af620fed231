------------------------------ MODULE PointerDevice ------------------------------
(***************************************************************************)
(* A client's virtual touch screen, or its pen, on Windows                 *)
(* (platform/windows/input.cpp): the slots of the pointers, the flags of   *)
(* which those that mark an event are cleared once it was injected, and    *)
(* the task that repeats the state so that the system does not cancel the  *)
(* contacts.                                                               *)
(*                                                                         *)
(* The events of a client and the repetition run one after the other on    *)
(* the worker of the task pool; the client's context is destroyed by the   *)
(* thread that ends its session.                                           *)
(*                                                                         *)
(* External: the system, which accepts an injection or refuses it as a     *)
(* whole.  Left out: coordinates, pressure and buttons.                    *)
(***************************************************************************)
EXTENDS Integers, FiniteSets

CONSTANTS
  Pointers,   (* the pointer ids of a client                               *)
  TouchSlots  (* ARRAYSIZE(touchInfo)                                      *)
ASSUME SlotsAssumption == TouchSlots \in Nat \ {0}

VARIABLES
  tool,       (* which of the two devices: "touch" or "pen"                *)
  made,       (* the virtual device is created                             *)
  touchInfo,  (* touchInfo, or penInfo alone: [id, flags]                  *)
  active,     (* activeTouchSlots                                          *)
  repeat,     (* touchRepeatTask: none, pending, or its function runs      *)
  alive,      (* the client's context exists                               *)
  contacts,   (* external: the pointers the system holds in contact        *)
  fingers,    (* history: the pointers the client holds in contact         *)
  evicted,    (* history: those cancelled for want of a slot               *)
  unsure,     (* history: an injection was refused                         *)
  orphan      (* history: a repetition was scheduled for a dead context    *)

pointerVars == <<tool, made, touchInfo, active, repeat, alive, contacts, fingers, evicted, unsure,
                 orphan>>

Edge == {"DOWN", "UP", "CANCELED", "UPDATE"}
Flags == Edge \cup {"INRANGE", "INCONTACT"}
NoId == "no id"
Empty == [id |-> NoId, flags |-> {}]
SlotCount == IF tool = "pen" THEN 1 ELSE TouchSlots
Used(info) == {i \in DOMAIN info : info[i].flags # {}}

-----------------------------------------------------------------------------
(* perform_touch_compaction(): the used slots move up, in order.           *)
InUse(slot) == slot.flags # {}
Rank(info, i) == Cardinality({j \in Used(info) : j <= i})
Compacted(info) ==
  [n \in DOMAIN info |->
     IF n <= Cardinality(Used(info)) THEN info[CHOOSE i \in Used(info) : Rank(info, i) = n]
     ELSE Empty]

(* pointer_by_id(), after the compaction: the slot and activeTouchSlots.   *)
(* 0 if all slots are taken.                                               *)
FirstSlot(slots) == CHOOSE i \in slots : \A j \in slots : i <= j
SlotOf(info, id) ==
  LET mine == {i \in Used(info) : info[i].id = id}
      free == DOMAIN info \ Used(info)
  IN IF mine # {} THEN FirstSlot(mine) ELSE IF free # {} THEN FirstSlot(free) ELSE 0

(* activeTouchSlots then.  Variant: a slot just taken is not counted.      *)
CountedBug(k, n) == n
Counted(k, n) == IF k > n THEN k ELSE n

(* populate_common_pointer_info(): the flags an event clears and sets.     *)
Near == {"INCONTACT", "INRANGE"}
Clears ==
  [HOVER |-> {"INCONTACT"}, DOWN |-> {}, UP |-> Near, MOVE |-> {}, CANCEL |-> Near,
   CANCEL_ALL |-> Near, HOVER_LEAVE |-> Near, BUTTON_ONLY |-> {}]
Sets ==
  [HOVER |-> {"INRANGE", "UPDATE"}, DOWN |-> Near \cup {"DOWN"}, UP |-> {"UP"},
   MOVE |-> Near \cup {"UPDATE"}, CANCEL |-> {"CANCELED"}, CANCEL_ALL |-> {"CANCELED"},
   HOVER_LEAVE |-> {"UPDATE"}, BUTTON_ONLY |-> {"UPDATE"}]
Populated(flags, event) ==
  LET ends == IF event \notin {"CANCEL", "CANCEL_ALL"} THEN {}
              ELSE IF "INCONTACT" \in flags THEN {"UP"} ELSE {"UPDATE"}
  IN IF event = "BUTTON_ONLY" /\ flags = {} THEN {}
     ELSE (flags \ Clears[event]) \cup Sets[event] \cup ends

(* External: what the system holds after it accepted the first n slots.    *)
Held(before, info, n) ==
  LET listed == {i \in 1..n : i \in Used(info)}
  IN (before \ {info[i].id : i \in listed})
       \cup {info[i].id : i \in {j \in listed : "INCONTACT" \in info[j].flags}}

(* Once the system refused an injection what it holds is not followed.     *)
Known(held, doubt) ==
  /\ unsure' = (unsure \/ doubt)
  /\ contacts' = IF unsure' THEN {} ELSE held

(* What the client holds in contact.  It may send any event of a pointer,  *)
(* having dropped others.                                                  *)
Follow(id, event) ==
  /\ event \in {"DOWN", "MOVE"} => fingers' = fingers \cup {id}
  /\ event = "CANCEL_ALL" => fingers' = {}
  /\ event = "BUTTON_ONLY" => fingers' = fingers
  /\ event \notin {"DOWN", "MOVE", "CANCEL_ALL", "BUTTON_ONLY"} => fingers' = fingers \ {id}

-----------------------------------------------------------------------------
Unstarted == repeat # "runs"

(* The device is created with the first event; a request to cancel all is  *)
(* nothing to a device that is not there.                                  *)
CreateDevice ==
  /\ alive /\ ~made /\ Unstarted /\ made' = TRUE
  /\ UNCHANGED <<tool, touchInfo, active, repeat, alive, contacts, fingers, evicted, unsure, orphan>>

(* cancel_all_active_touches(): the state is zeroed whatever the system    *)
(* says.                                                                   *)
Cancelled(info) ==
  [i \in DOMAIN info |-> IF InUse(info[i])
                         THEN [info[i] EXCEPT !.flags = Populated(@, "CANCEL_ALL")] ELSE info[i]]
AfterCancel(info) ==
  LET n == Cardinality(Used(info))
  IN IF n = 0 THEN contacts ELSE Held(contacts, Cancelled(info), n)

CancelAll ==
  /\ alive /\ made /\ Unstarted /\ tool = "touch"
  /\ \/ Known(AfterCancel(Compacted(touchInfo)), FALSE)
     \/ Used(touchInfo) # {} /\ Known(contacts, TRUE)
  /\ touchInfo' = [i \in 1..SlotCount |-> Empty] /\ active' = 0 /\ repeat' = "none"
  /\ evicted' = {} /\ Follow(NoId, "CANCEL_ALL")
  /\ UNCHANGED <<tool, made, alive, orphan>>

(* The end of touch_update() and pen_update(): inject n slots; if that     *)
(* succeeds clear the edge flags of the one at k and go on repeating.      *)
(* Variant: repeat only if this pointer is still there.                    *)
RepeatsBug(n, flags) == flags # {}
Repeats(n, flags) == n > 1 \/ flags # {}

Inject(info, k, n, held, doubt) ==
  \/ /\ touchInfo' = [info EXCEPT ![k].flags = @ \ Edge]
     /\ Known(Held(held, info, n), doubt)
     /\ repeat' = IF Repeats(n, info[k].flags \ Edge) THEN "pending" ELSE "none"
     /\ active' = n
  \/ /\ touchInfo' = info /\ Known(held, TRUE)
     /\ active' = n /\ repeat' = "none"

(* touch_update(): with no slot left all touches are cancelled first.      *)
TouchUpdate(id, event) ==
  /\ alive /\ made /\ Unstarted /\ tool = "touch"
  /\ event \notin {"CANCEL_ALL"}
  /\ LET info == Compacted(touchInfo)
         k == SlotOf(info, id)
         blank == [i \in 1..SlotCount |-> Empty]
         Put(from, at) == [from EXCEPT ![at] = [id |-> id, flags |-> Populated(@.flags, event)]]
         n == Cardinality(Used(info))
         back == IF event = "BUTTON_ONLY" THEN {} ELSE {id}
     IN \/ /\ k > 0 /\ Inject(Put(info, k), k, Counted(k, n), contacts, FALSE)
           /\ evicted' = evicted \ back
        \/ /\ k = 0
           /\ \E doubt \in BOOLEAN :
                Inject(Put(blank, 1), 1, 1, AfterCancel(info), doubt)
           /\ evicted' = (evicted \cup fingers) \ back
  /\ Follow(id, event)
  /\ UNCHANGED <<tool, made, alive, orphan>>

(* pen_update(): one pointer, and CANCEL_ALL is an event like any other.   *)
PenUpdate(id, event) ==
  /\ alive /\ made /\ Unstarted /\ tool = "pen"
  /\ Inject([touchInfo EXCEPT ![1] = [id |-> id, flags |-> Populated(@.flags, event)]], 1, 1,
            contacts, FALSE)
  /\ Follow(id, event)
  /\ UNCHANGED <<tool, made, alive, evicted, orphan>>

-----------------------------------------------------------------------------
(* repeat_touch() and repeat_pen() on the worker: the state is injected    *)
(* once more, then the task is scheduled again.                            *)
RepeatRuns ==
  /\ repeat = "pending" /\ alive
  /\ repeat' = "runs"
  /\ \/ Known(Held(contacts, touchInfo, active), FALSE)
     \/ Known(contacts, TRUE)
  /\ UNCHANGED <<tool, made, touchInfo, active, alive, fingers, evicted, orphan>>
RepeatEnds ==
  /\ repeat = "runs"
  /\ repeat' = "pending"
  /\ orphan' = (orphan \/ ~alive)
  /\ UNCHANGED <<tool, made, touchInfo, active, alive, contacts, fingers, evicted, unsure>>

(* External: after about a second without injection the system cancels the *)
(* contacts; every 50 ms the repetition comes first.                       *)
ContactsTimeOut ==
  /\ alive /\ made /\ repeat = "none" /\ contacts # {}
  /\ contacts' = {}
  /\ UNCHANGED <<tool, made, touchInfo, active, repeat, alive, fingers, evicted, unsure, orphan>>

(* ~client_input_raw_t(): the pending repetition is cancelled, the device  *)
(* and its contacts go.                                                    *)
DestroyContext ==
  /\ alive /\ alive' = FALSE
  /\ repeat' = IF repeat = "pending" THEN "none" ELSE repeat
  /\ made' = FALSE /\ contacts' = {} /\ fingers' = {} /\ evicted' = {}
  /\ UNCHANGED <<tool, touchInfo, active, unsure, orphan>>

PointerInit ==
  /\ tool \in {"touch", "pen"} /\ made = FALSE
  /\ touchInfo = [i \in 1..SlotCount |-> Empty] /\ active = 0 /\ repeat = "none" /\ alive = TRUE
  /\ contacts = {} /\ fingers = {} /\ evicted = {}
  /\ unsure = FALSE /\ orphan = FALSE

PointerEvents == {"DOWN", "UP", "MOVE", "HOVER", "HOVER_LEAVE", "CANCEL", "CANCEL_ALL",
                  "BUTTON_ONLY"}
ThePen == CHOOSE id \in Pointers : TRUE

PointerNext ==
  \/ CreateDevice \/ CancelAll
  \/ \E id \in Pointers, event \in PointerEvents : TouchUpdate(id, event)
  \/ \E event \in PointerEvents : PenUpdate(ThePen, event)
  \/ RepeatRuns \/ RepeatEnds \/ ContactsTimeOut
  \/ DestroyContext

-----------------------------------------------------------------------------
PointerTypeOK ==
  /\ tool \in {"touch", "pen"} /\ {made, alive, unsure, orphan} \subseteq BOOLEAN
  /\ touchInfo \in [1..SlotCount -> [id : Pointers \cup {NoId}, flags : SUBSET Flags]]
  /\ active \in 0..SlotCount /\ repeat \in {"none", "pending", "runs"}
  /\ contacts \cup fingers \cup evicted \subseteq Pointers

(* Unless the system refused an injection, the pointers in contact on the  *)
(* host are those of the fingers, but for those that had to be given up for *)
(* want of slots: none sticks, and none is timed out for want of a         *)
(* repetition.                                                             *)
ContactsFollow == alive /\ ~unsure => contacts = fingers \ evicted

(* No two slots stand for the same pointer, whatever was refused.          *)
SlotsDistinct ==
  \A i, j \in Used(touchInfo) : i # j => touchInfo[i].id # touchInfo[j].id
===============================================================================
