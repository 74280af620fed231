--------------------------- MODULE SessionPromise --------------------------
(***************************************************************************)
(* What the streaming part of the host promises about its sessions and the *)
(* broadcast they share, whatever threads carry it out:                    *)
(*   - a session is freed only after it was told to stop, or when the      *)
(*     broadcast it needs could not be started;                            *)
(*   - the broadcast is up exactly while some session is attached to it.   *)
(***************************************************************************)
CONSTANT Sessions

VARIABLES
  phase,  (* "none", "starting", "attached", "streaming", "stopping", "freed" *)
  up      (* the broadcast exists                                             *)

pvars == <<phase, up>>

Phases == {"none", "starting", "attached", "streaming", "stopping", "freed"}

(* Sessions that hold the broadcast. *)
Attached == {s \in Sessions : phase[s] \in {"attached", "streaming", "stopping"}}

Move(s, from, to) == phase[s] \in from /\ phase' = [phase EXCEPT ![s] = to]

PInit == phase = [s \in Sessions |-> "none"] /\ up = FALSE

PCreate(s) == Move(s, {"none"}, "starting") /\ UNCHANGED up
PAttach(s) == Move(s, {"starting"}, "attached") /\ up' = TRUE
PFail(s)   == Move(s, {"starting"}, "freed") /\ UNCHANGED up
PStream(s) == Move(s, {"attached"}, "streaming") /\ UNCHANGED up
PStop(s)   == Move(s, {"attached", "streaming"}, "stopping") /\ UNCHANGED up
PFree(s)   == Move(s, {"stopping"}, "freed") /\ up' = (Attached # {s})

PNext == \E s \in Sessions :
  PCreate(s) \/ PAttach(s) \/ PFail(s) \/ PStream(s) \/ PStop(s) \/ PFree(s)

PSpec == PInit /\ [][PNext]_pvars
=============================================================================
