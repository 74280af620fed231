----------------------------- MODULE DisplayDevice -----------------------------
(***************************************************************************)
(* The display is changed for a client and given back to the user          *)
(* (display_device.cpp over libdisplaydevice).  One task at a time is kept *)
(* for retries; what the display was like is saved in a file before anyone *)
(* else runs, and survives a crash.                                        *)
(*                                                                         *)
(* A display is a topology (which devices are on) and a mode (resolution,  *)
(* refresh rate, HDR state and primary device together).  External: the    *)
(* system's calls, one of which may fail in an operation; undoing what an  *)
(* operation did before it failed works.                                   *)
(***************************************************************************)
EXTENDS Integers, FiniteSets

CONSTANTS
  Topologies,   (* what devices can be on, besides the user's own choice    *)
  User,         (* the user's topology and mode                             *)
  Extended,     (* all devices on                                           *)
  Client,       (* a mode a client asked for                                *)
  DeviceSets,   (* sets of devices plugged in                               *)
  Nothing       (* no task, nothing saved, no mode to restore, no devices   *)

Kept == Topologies \cup {User, Extended}
Displayed == [topology : Kept, mode : {User, Client}]
Saved == [topology : Kept, modified : Kept, mode : {User, Client, Nothing}]

ASSUME DisplayAssumption ==
  /\ User \notin Topologies /\ Extended \notin Topologies \cup {User}
  /\ Client # User /\ Nothing \notin Topologies \cup DeviceSets \cup {User, Client, Extended}
  /\ Nothing \notin Saved \cup [kind : {"revert"}, tried : DeviceSets \cup {Nothing}]

VARIABLES
  display,    (* what the display is like                                  *)
  saved,      (* the state file of libdisplaydevice                        *)
  retry,      (* m_retry_function                                          *)
  up,         (* the program runs                                          *)
  devices,    (* enumAvailableDevices()                                    *)
  wish,       (* history: what was asked for last                          *)
  home        (* history: the display the user had, or settled for         *)

displayVars == <<display, saved, retry, up, devices, wish, home>>

-----------------------------------------------------------------------------
(* parse_configuration().  A setting is off, taken from the client's       *)
(* request or fixed by hand; an entry of the list maps requests to other   *)
(* values, and the first that matches counts.                              *)
Options == [prep : {"disabled", "verify", "active"}, resolution : {"off", "auto", "manual"},
            rate : {"off", "auto", "manual"}, hdr : BOOLEAN, remap : BOOLEAN]
(* What the client sent: "Optimize game settings", and whether its numbers *)
(* are not negative; and the texts of the configuration: a number fits 32  *)
(* bits, decimal ones without their point, or does not.                    *)
Texts == {"empty", "number", "decimal", "large", "other"}
Requests == [sops : BOOLEAN, valid : BOOLEAN, matches : BOOLEAN, mode : Texts, rate : Texts]

(* parse_resolution_string(), parse_refresh_rate_string(): an empty text   *)
(* is read, and says nothing.                                              *)
ReadsResolution(text) == text \in {"empty", "number"}
ReadsRate(text, decimals) ==
  text \in {"empty", "number"} \/ (decimals /\ text = "decimal")

ResolutionFails(o, r) ==
  /\ r.sops
  /\ \/ o.resolution = "auto" /\ ~r.valid
     \/ o.resolution = "manual" /\ (~ReadsResolution(r.mode) \/ r.mode = "empty")
RateFails(o, r) ==
  \/ o.rate = "auto" /\ ~r.valid
  \/ o.rate = "manual" /\ (~ReadsRate(r.rate, TRUE) \/ r.rate = "empty")
(* determine_remapping_type(); what the entry of the list says.            *)
Remaps(o) == o.remap /\ (o.resolution = "auto" \/ o.rate = "auto")
EntryGives(o, r) ==
  (IF o.resolution = "auto" /\ r.mode # "empty" THEN {"resolution"} ELSE {})
    \cup (IF o.rate = "auto" /\ r.rate # "empty" THEN {"rate"} ELSE {})
(* It must be readable and say something.  The rate it is for is a whole   *)
(* number, the one it gives need not be.                                   *)
RemapFails(o, r) ==
  /\ Remaps(o)
  /\ \/ o.resolution = "auto" /\ ~ReadsResolution(r.mode)
     \/ o.rate = "auto" /\ ~ReadsRate(r.rate, FALSE)
     \/ EntryGives(o, r) = {}
(* Variant: the entry is used whatever the client allowed.                 *)
RemapGivesBug(o, r) == IF ~Remaps(o) \/ ~r.matches THEN {} ELSE EntryGives(o, r)

(* An entry with a resolution is skipped if the client did not allow       *)
(* optimisation; one without is used.                                      *)
RemapGives(o, r) ==
  IF ~Remaps(o) \/ ~r.matches \/ ("resolution" \in EntryGives(o, r) /\ ~r.sops) THEN {}
  ELSE EntryGives(o, r)

Parsed(o, r) ==
  IF o.prep = "disabled" THEN "disabled"
  ELSE IF ResolutionFails(o, r) \/ RateFails(o, r) \/ RemapFails(o, r) THEN "unparsed"
  ELSE "configure"
Changes(o, r) ==
  (IF o.resolution # "off" /\ r.sops THEN {"resolution"} ELSE {})
    \cup (IF o.rate # "off" THEN {"rate"} ELSE {})
    \cup (IF o.hdr THEN {"hdr"} ELSE {}) \cup RemapGives(o, r)

(* The configuration: VerifyOnly keeps the topology as the user had it.    *)
Configuration(o, r, t) ==
  [topology |-> IF o.prep = "verify" THEN Nothing ELSE t, changes |-> Changes(o, r), sops |-> r.sops]
(* What parsing can come to.                                               *)
Calls ==
  {[outcome |-> Parsed(o, r),
    configuration |-> IF Parsed(o, r) = "configure" THEN Configuration(o, r, t) ELSE Nothing] :
   o \in Options, r \in Requests, t \in Topologies}

-----------------------------------------------------------------------------
(* The outcomes of applySettings().                                        *)
Outcome(d, s, r) == [display |-> d, saved |-> s, result |-> r]
Unavailable == Outcome(display, saved, "unavailable")

Initial == IF saved = Nothing THEN display.topology ELSE saved.topology
Target(c) == IF c.topology = Nothing THEN Initial ELSE c.topology
(* Modifications of another topology are undone first.                     *)
MustUndo(c) ==
  /\ saved # Nothing /\ display.topology # Target(c) /\ saved.modified # Target(c)
  /\ saved.mode # Nothing
UndoneMode == IF saved # Nothing /\ saved.mode # Nothing THEN saved.mode ELSE display.mode
Cleared == [saved EXCEPT !.mode = Nothing]

(* Variant: the modes of a changed display are taken for the user's.       *)
OriginalBug(c) == display.mode
Original(c) ==
  IF saved # Nothing /\ ~MustUndo(c) /\ saved.mode # Nothing THEN saved.mode
  ELSE IF MustUndo(c) THEN UndoneMode ELSE display.mode

Applied(c) ==
  Outcome([topology |-> Target(c), mode |-> IF c.changes # {} THEN Client ELSE Original(c)],
          [topology |-> Initial, modified |-> Target(c),
           mode |-> IF c.changes # {} THEN Original(c) ELSE Nothing],
          "ok")

ApplyOutcomes(c) ==
  {Unavailable, Applied(c), Outcome(display, saved, "failed")}
    \cup (IF MustUndo(c)
          THEN {Outcome([display EXCEPT !.mode = UndoneMode], Cleared, "failed")} ELSE {})

(* The outcomes of revertSettings(): modifications, then the topology; a   *)
(* failure turns all devices on, if that can be done.                      *)
AllOn(mode) == {[topology |-> t, mode |-> mode] : t \in {Extended, display.topology}}
Reverted ==
  Outcome([topology |-> saved.topology, mode |-> UndoneMode], Nothing, "ok")
RevertOutcomes ==
  IF saved = Nothing THEN {Outcome(display, saved, "ok")}
  ELSE {Unavailable, Reverted}
         \cup {Outcome(d, saved, "failed") : d \in AllOn(display.mode)}
         \cup {Outcome(d, Cleared, "failed") : d \in AllOn(UndoneMode)}

(* The tasks: what is left to retry of them.                               *)
ApplyTask(c) == [kind |-> "apply", configuration |-> c]
RevertTask(tried) == [kind |-> "revert", tried |-> tried]

LeftOfApply(c, result) == IF result = "unavailable" THEN ApplyTask(c) ELSE Nothing
LeftOfRevert(tried, result) ==
  CASE result = "ok" -> Nothing
    [] result = "unavailable" -> RevertTask(tried)
    [] result = "failed" -> RevertTask(devices)

Becomes(o) == display' = o.display /\ saved' = o.saved
(* Runs of the two tasks: without new devices a failed revert is skipped.  *)
RunApply(c) ==
  \E o \in ApplyOutcomes(c) : Becomes(o) /\ retry' = LeftOfApply(c, o.result)
RunRevert(tried) ==
  IF tried = devices THEN UNCHANGED <<display, saved>> /\ retry' = RevertTask(tried)
  ELSE \E o \in RevertOutcomes : Becomes(o) /\ retry' = LeftOfRevert(tried, o.result)

-----------------------------------------------------------------------------
(* revert_configuration(): at once, or with the delay configured.          *)
RevertConfiguration ==
  \/ RunRevert(Nothing)
  \/ retry' = RevertTask(Nothing) /\ UNCHANGED <<display, saved>>

(* Variant: what is scheduled stays.                                       *)
ConfigureDisplayBug(call) ==
  /\ up /\ wish' = "configure" /\ call.outcome = "configure"
  /\ \E x \in ApplyOutcomes(call.configuration) :
       /\ Becomes(x)
       /\ retry' = IF x.result = "unavailable" THEN ApplyTask(call.configuration) ELSE retry
  /\ UNCHANGED <<up, devices, home>>

(* configure_display(): /launch and /resume without sessions.              *)
ConfigureDisplay(call) ==
  /\ up
  /\ \/ /\ call.outcome = "configure" /\ wish' = "configure"
        /\ RunApply(call.configuration)
     \/ /\ call.outcome = "disabled" /\ wish' = "revert"
        /\ RevertConfiguration
     \/ /\ call.outcome = "unparsed" /\ wish' = "unparsed"
        /\ UNCHANGED <<display, saved, retry>>
  /\ UNCHANGED <<up, devices, home>>

(* The last session ends, the app terminates, /cancel, a failed /launch.   *)
Revert ==
  /\ up /\ wish' = "revert"
  /\ RevertConfiguration
  /\ UNCHANGED <<up, devices, home>>

(* The thread of the RetryScheduler.                                       *)
Retry ==
  /\ up /\ retry # Nothing
  /\ \/ retry.kind = "apply" /\ RunApply(retry.configuration)
     \/ retry.kind = "revert" /\ RunRevert(retry.tried)
  /\ UNCHANGED <<up, devices, wish, home>>

(* reset_persistence(), from the web UI or the tray: the user keeps the    *)
(* display as it is.                                                       *)
ResetPersistence ==
  /\ up /\ retry' = Nothing /\ wish' = "reset"
  /\ \/ saved' = Nothing /\ home' = display
     \/ saved # Nothing /\ UNCHANGED <<saved, home>>
  /\ UNCHANGED <<display, up, devices>>

(* External: a device is plugged in or out; the topology stays.            *)
Replug == devices' \in DeviceSets \ {devices} /\ UNCHANGED <<display, saved, retry, up, wish, home>>

(* ~deinit_t: one try; and a crash.                                        *)
Shutdown ==
  /\ up /\ up' = FALSE /\ retry' = Nothing
  /\ \E o \in RevertOutcomes : Becomes(o)
  /\ UNCHANGED <<devices, wish, home>>
Crash ==
  /\ up /\ up' = FALSE /\ retry' = Nothing
  /\ UNCHANGED <<display, saved, devices, wish, home>>

(* init(): what is saved is reverted, for as long as it takes.             *)
Start ==
  /\ ~up /\ up' = TRUE /\ wish' = "revert"
  /\ RunRevert(Nothing)
  /\ UNCHANGED <<devices, home>>

DisplayInit ==
  /\ display = [topology |-> User, mode |-> User] /\ home = display
  /\ saved = Nothing /\ retry = Nothing /\ up = FALSE
  /\ devices \in DeviceSets /\ wish = "revert"

DisplayNext ==
  \/ \E call \in Calls : ConfigureDisplay(call)
  \/ Revert \/ Retry \/ ResetPersistence \/ Replug \/ Shutdown \/ Crash \/ Start

-----------------------------------------------------------------------------
DisplayTypeOK ==
  /\ {display, home} \subseteq Displayed /\ saved \in Saved \cup {Nothing}
  /\ up \in BOOLEAN /\ devices \in DeviceSets
  /\ wish \in {"configure", "revert", "unparsed", "reset"}
  /\ retry # Nothing => up /\ retry.kind \in {"apply", "revert"}

(* Whatever fails, and whenever the program dies, a display that is not    *)
(* the user's can be given back from what is saved.                        *)
Restorable ==
  display # home =>
    /\ saved # Nothing /\ saved.topology = home.topology
    /\ (IF saved.mode = Nothing THEN display.mode ELSE saved.mode) = home.mode

(* After a revert was asked for, or the program was started, a display     *)
(* that is not the user's yet has its revert scheduled.                    *)
RevertIsPending ==
  up /\ wish = "revert" /\ display # home => retry # Nothing /\ retry.kind = "revert"

(* No task of an earlier request is left to undo or redo the last one,     *)
(* unless that could not be parsed.                                        *)
NoStaleTask ==
  retry # Nothing /\ wish # "unparsed" =>
    (retry.kind = "apply") = (wish = "configure")

(* A client that did not allow optimisation keeps the user's resolution,   *)
(* also through the list of remapped modes.                                *)
ResolutionIsAllowed ==
  retry # Nothing /\ retry.kind = "apply" /\ "resolution" \in retry.configuration.changes
    => retry.configuration.sops

DisplayGivenBack == Restorable /\ RevertIsPending /\ NoStaleTask /\ ResolutionIsAllowed
===============================================================================
