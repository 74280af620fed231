------------------------------ MODULE Announcement ------------------------------
(***************************************************************************)
(* The host tells the network of its service (platform/*/publish.cpp): by  *)
(* Avahi, whose callbacks arrive in a thread of their own; by the DNS      *)
(* client of Windows; by the mDNS service of macOS, whose answer a thread  *)
(* waits for.  main() starts it in a task and destroys it when it returns, *)
(* after that task.                                                        *)
(*                                                                         *)
(* External: the three services.  Avahi's messages arrive in order; what   *)
(* an entry group held goes with its client.                               *)
(***************************************************************************)
EXTENDS Naturals, Sequences, FiniteSets, FiniteSetsExt

CONSTANTS
  MaxNames,     (* bound: how often a name is replaced                      *)
  MaxWaiting    (* bound: messages of Avahi that were not read              *)

ASSUME AnnouncementAssumption == MaxNames \in Nat /\ MaxWaiting \in Nat

VARIABLES
  system,      (* the system the host is built for                          *)
  usedHere,    (* external: names of other services of this machine         *)
  daemon,      (* external: the state of Avahi's server                     *)
  waiting,     (* messages to the poll thread, in order                     *)
  entered,     (* what is announced: the entry group, or the registration   *)
  instanceName,(* name; existing_instance (Windows)                         *)
  publisher,   (* the object start() gave, and its thread                   *)
  quitAsked,   (* simple_poll_quit(), _stopRequested                        *)
  reference,   (* the DNSServiceRef (macOS)                                 *)
  refusals,    (* history: a call failed                                    *)
  belated      (* history: a collision of entries that were reset was told  *)

externalVars == <<system, usedHere>>
publishVars == <<externalVars, daemon, waiting, entered, instanceName, publisher, quitAsked,
                 reference, refusals, belated>>

Names == 0..MaxNames
NoEntries == [state |-> "none", name |-> 0]
EmptyGroup == [state |-> "empty", name |-> 0]
Holds(g) == g.state \in {"uncommitted", "registering", "established"}

-----------------------------------------------------------------------------
(* create_services() calls itself with the next name while a service of    *)
(* this machine has it.                                                    *)
NextFree(n) == Min({m \in Names : m >= n /\ m \notin usedHere})
Created(g, n, quit, fails) == [entered |-> g, name |-> n, quit |-> quit, fails |-> fails]

(* Variant: only a failure of the first call ends the loop.                *)
CreatedServicesBug(g, n) ==
  IF Holds(g) THEN {Created(g, n, FALSE, FALSE)}
  ELSE {Created(g, n, TRUE, TRUE)}
         \cup {Created(EmptyGroup, m, m = n, TRUE) : m \in n..NextFree(n)}
         \cup {Created([state |-> "registering", name |-> NextFree(n)], NextFree(n), FALSE,
                       FALSE)}

(* A failed call asks the loop to quit, from the inner calls too.          *)
CreatedServices(g, n) ==
  IF Holds(g) THEN {Created(g, n, FALSE, FALSE)}
  ELSE {Created(g, n, TRUE, TRUE)}
         \cup {Created(EmptyGroup, m, TRUE, TRUE) : m \in n..NextFree(n)}
         \cup {Created([state |-> s, name |-> NextFree(n)], NextFree(n), s = "uncommitted",
                       s = "uncommitted") : s \in {"uncommitted", "registering"}}

Reset(g) == IF g.state = "none" THEN g ELSE EmptyGroup
Yields(c) ==
  /\ entered' = c.entered /\ instanceName' = c.name
  /\ quitAsked' = (quitAsked \/ c.quit) /\ refusals' = (refusals \/ c.fails)

(* client_callback(): the entries wait for the machine's own name, whether *)
(* that is being registered or collides.                                   *)
ClientTold(state) ==
  IF state = "running" THEN CreatedServices(entered, instanceName)
  ELSE IF state = "gone" THEN {Created(NoEntries, instanceName, TRUE, TRUE)}
  ELSE {Created(Reset(entered), instanceName, FALSE, FALSE)}

(* entry_group_callback(): another name when the entries collided.  What   *)
(* is told may be of entries that were reset since.                        *)
GroupTold(state) ==
  IF state = "taken" THEN CreatedServices(entered, instanceName + 1)
  ELSE {Created(entered, instanceName, state = "failure", state = "failure")}

-----------------------------------------------------------------------------
(* start() on Linux: the client's first state is told before it returns.   *)
StartAvahi ==
  /\ system = "avahi" /\ publisher = "none"
  /\ \/ /\ publisher' = "absent" /\ refusals' = TRUE
        /\ UNCHANGED <<entered, instanceName, quitAsked>>
     \/ /\ daemon # "gone" /\ publisher' = "polls"
        /\ \E c \in ClientTold(daemon) : Yields(c)
  /\ waiting' = <<>>
  /\ UNCHANGED <<externalVars, daemon, reference, belated>>

(* External: Avahi's server, and what becomes of the entries it has.       *)
Message(of, state) == [of |-> of, state |-> state]
Sends(m) == waiting' = IF publisher = "polls" THEN Append(waiting, m) ELSE waiting
ServerChanges ==
  /\ system = "avahi" /\ daemon # "gone" /\ Len(waiting) < MaxWaiting
  /\ daemon' \in {"running", "registering", "gone"} \ {daemon}
  /\ Sends(Message("client", daemon'))
  /\ entered' = IF daemon' = "gone" THEN NoEntries ELSE entered
  /\ UNCHANGED <<externalVars, instanceName, publisher, quitAsked, reference, refusals, belated>>
(* The renamings to come: a name of this machine is passed over once.      *)
Renamings ==
  Cardinality({i \in DOMAIN waiting : waiting[i].state = "taken"}) + Cardinality(usedHere)
EntriesChange ==
  /\ system = "avahi" /\ entered.state \in {"registering", "established"}
  /\ Len(waiting) < MaxWaiting
  /\ \/ /\ entered.state = "registering" /\ entered' = [entered EXCEPT !.state = "established"]
        /\ Sends(Message("group", "established"))
     \/ /\ instanceName + Renamings < MaxNames /\ entered' = EmptyGroup
        /\ Sends(Message("group", "taken"))
     \/ entered' = EmptyGroup /\ Sends(Message("group", "failure"))
  /\ UNCHANGED <<externalVars, daemon, instanceName, publisher, quitAsked, reference, refusals,
                 belated>>

(* The poll thread.                                                        *)
Dispatch ==
  /\ system = "avahi" /\ publisher = "polls" /\ ~quitAsked /\ waiting # <<>>
  /\ waiting' = Tail(waiting)
  /\ LET m == Head(waiting)
         told == IF m.of = "client" THEN ClientTold(m.state) ELSE GroupTold(m.state)
     IN /\ \E c \in told : Yields(c)
        /\ belated' = (belated \/ (m.state = "taken" /\ Holds(entered)))
  /\ UNCHANGED <<externalVars, daemon, publisher, reference>>
PollEnds ==
  /\ system = "avahi" /\ publisher = "polls" /\ quitAsked
  /\ publisher' = "over"
  /\ UNCHANGED <<externalVars, daemon, waiting, entered, instanceName, quitAsked, reference,
                 refusals, belated>>

(* ~deinit_t on Linux: the thread ends first; the client goes with the     *)
(* program.                                                                *)
StopAvahi ==
  /\ system = "avahi" /\ publisher \in {"polls", "over", "absent"}
  /\ IF publisher = "polls" THEN quitAsked' = TRUE /\ UNCHANGED <<publisher, entered>>
     ELSE publisher' = "ended" /\ entered' = NoEntries /\ UNCHANGED quitAsked
  /\ UNCHANGED <<externalVars, daemon, waiting, instanceName, reference, refusals, belated>>

-----------------------------------------------------------------------------
(* service() on Windows waits for the callback's instance.  Windows may    *)
(* have given it another name, and takes back only what it gave.           *)
RegisterWindows ==
  /\ system = "windows" /\ publisher = "none" /\ publisher' = "made"
  /\ \/ \E n \in {instanceName, instanceName + 1} \cap Names :
          /\ instanceName' = n /\ entered' = [state |-> "established", name |-> n]
          /\ UNCHANGED refusals
     \/ refusals' = TRUE /\ UNCHANGED <<entered, instanceName>>
  /\ reference' = (entered' # entered)
  /\ UNCHANGED <<externalVars, daemon, waiting, quitAsked, belated>>

(* Variant: the name asked for is taken back.                              *)
UnregisterWindowsBug ==
  /\ system = "windows" /\ publisher = "made" /\ publisher' = "ended"
  /\ IF reference /\ entered.name = 0 THEN entered' = NoEntries /\ reference' = FALSE
     ELSE UNCHANGED <<entered, reference>>
  /\ UNCHANGED <<externalVars, daemon, waiting, instanceName, quitAsked, refusals, belated>>

UnregisterWindows ==
  /\ system = "windows" /\ publisher = "made" /\ publisher' = "ended"
  /\ \/ /\ reference /\ entered' = NoEntries /\ reference' = FALSE /\ UNCHANGED refusals
     \/ reference /\ refusals' = TRUE /\ UNCHANGED <<entered, reference>>
     \/ ~reference /\ UNCHANGED <<entered, reference, refusals>>
  /\ UNCHANGED <<externalVars, daemon, waiting, instanceName, quitAsked, belated>>

-----------------------------------------------------------------------------
(* macOS: start(), the thread that waits up to three seconds at a time for *)
(* an answer and reads one, and ~deinit_t, which joins it before the       *)
(* reference is deallocated.                                               *)
RegisterMac ==
  /\ system = "macos" /\ publisher = "none"
  /\ \/ publisher' = "polls" /\ reference' = TRUE
        /\ entered' = [state |-> "registering", name |-> instanceName] /\ UNCHANGED refusals
     \/ publisher' = "ended" /\ refusals' = TRUE /\ UNCHANGED <<entered, reference>>
  /\ UNCHANGED <<externalVars, daemon, waiting, instanceName, quitAsked, belated>>
AnswersMac ==
  /\ system = "macos" /\ entered.state = "registering" /\ waiting = <<>>
  /\ \/ entered' = [entered EXCEPT !.state = "established"]
        /\ waiting' = <<Message("group", "established")>>
     \/ entered' = NoEntries /\ waiting' = <<Message("group", "failure")>>
  /\ UNCHANGED <<externalVars, daemon, instanceName, publisher, quitAsked, reference, refusals,
                 belated>>
(* select(): a time-out looks whether to stop, an answer ends the thread.  *)
PollMac ==
  /\ system = "macos" /\ publisher = "polls"
  /\ \/ waiting # <<>> /\ publisher' = "processes" /\ UNCHANGED refusals
     \/ quitAsked /\ publisher' = "over" /\ UNCHANGED refusals
     \/ publisher' = "over" /\ refusals' = TRUE
  /\ UNCHANGED <<externalVars, daemon, waiting, entered, instanceName, quitAsked, reference,
                 belated>>
ProcessMac ==
  /\ system = "macos" /\ publisher = "processes"
  /\ publisher' = "over" /\ waiting' = <<>>
  /\ refusals' = (refusals \/ \E i \in DOMAIN waiting : waiting[i].state = "failure")
  /\ UNCHANGED <<externalVars, daemon, entered, instanceName, quitAsked, reference, belated>>
AskMacToStop ==
  /\ system = "macos" /\ reference /\ ~quitAsked /\ quitAsked' = TRUE
  /\ UNCHANGED <<externalVars, daemon, waiting, entered, instanceName, publisher, reference,
                 refusals, belated>>

(* Variant: the reference goes before the thread.                          *)
UnregisterMacBug ==
  /\ system = "macos" /\ quitAsked /\ reference
  /\ reference' = FALSE /\ entered' = NoEntries
  /\ publisher' = IF publisher = "over" THEN "ended" ELSE publisher
  /\ UNCHANGED <<externalVars, daemon, waiting, instanceName, quitAsked, refusals, belated>>

UnregisterMac ==
  /\ system = "macos" /\ quitAsked /\ publisher = "over"
  /\ publisher' = "ended" /\ reference' = FALSE /\ entered' = NoEntries
  /\ UNCHANGED <<externalVars, daemon, waiting, instanceName, quitAsked, refusals, belated>>

AnnouncementInit ==
  /\ system \in {"avahi", "windows", "macos"}
  /\ usedHere \in SUBSET (0..(MaxNames - 1))
  /\ daemon = "running" /\ waiting = <<>> /\ entered = NoEntries /\ instanceName = 0
  /\ publisher = "none" /\ quitAsked = FALSE /\ reference = FALSE
  /\ refusals = FALSE /\ belated = FALSE

AnnouncementNext ==
  \/ StartAvahi \/ ServerChanges \/ EntriesChange \/ Dispatch \/ PollEnds \/ StopAvahi
  \/ RegisterWindows \/ UnregisterWindows
  \/ RegisterMac \/ AnswersMac \/ PollMac \/ ProcessMac \/ AskMacToStop \/ UnregisterMac

-----------------------------------------------------------------------------
AnnouncementTypeOK ==
  /\ entered.state \in {"none", "empty", "uncommitted", "registering", "established"}
  /\ {entered.name, instanceName} \subseteq Names /\ usedHere \subseteq Names
  /\ publisher \in {"none", "absent", "made", "polls", "processes", "over", "ended"}
  /\ {quitAsked, reference, refusals, belated} \subseteq BOOLEAN

(* While Avahi runs and has nothing more to tell, the service is entered   *)
(* with it, or the thread was asked to end.                                *)
KeepsAnnouncing ==
  system = "avahi" /\ publisher = "polls" /\ ~quitAsked /\ waiting = <<>> /\ daemon = "running"
    => Holds(entered)

(* What is announced has the name the host knows it by, and no other       *)
(* service of the machine has it.                                          *)
AnnouncedByName ==
  Holds(entered) /\ ~belated =>
    /\ entered.name = instanceName
    /\ system = "avahi" => entered.name \notin usedHere

(* Nothing is announced any more when the host has ended, unless a call to *)
(* the system failed.                                                      *)
AnnouncementWithdrawn == publisher = "ended" /\ ~refusals => ~Holds(entered)

(* The thread that waits for an answer has the reference it waits with.    *)
ReferenceHeld == system = "macos" /\ publisher \in {"polls", "processes"} => reference
===============================================================================
