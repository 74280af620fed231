------------------------------ MODULE PortMappings ------------------------------
(***************************************************************************)
(* The UPnP thread (upnp.cpp): every few minutes it looks for a router and *)
(* maps the ports of the host, and when the program ends it unmaps them.   *)
(*                                                                         *)
(* External: the router.  It has at most one rule for a port, ours or of   *)
(* another host, with a lease or for good; it forgets rules, may not be    *)
(* found, and may refuse every request.                                    *)
(***************************************************************************)
EXTENDS Integers, FiniteSets

CONSTANT Ports

VARIABLES
  rule,       (* external: the rules of the router                         *)
  work,       (* what the thread is at                                     *)
  todo,       (* the mappings it has not come to                           *)
  mapped,     (* mapped                                                    *)
  ending,     (* the shutdown event                                        *)
  refused,    (* history: the ports the router would not unmap             *)
  found       (* history: the last search found the router                 *)

portVars == <<rule, work, todo, mapped, ending, refused, found>>

Ours == {"lease", "static"}

-----------------------------------------------------------------------------
(* No router, or none that is connected.                                   *)
DiscoverFails ==
  /\ work = "discover" /\ work' = "wait" /\ mapped' = FALSE
  /\ found' = FALSE
  /\ UNCHANGED <<rule, todo, ending, refused>>
Discover ==
  /\ work = "discover" /\ work' = "map" /\ todo' = Ports
  /\ found' = TRUE
  /\ UNCHANGED <<rule, mapped, ending, refused>>

(* map_upnp_port(): what may become of a rule.  With a lease, or for good  *)
(* if that is refused, or if the router answered oddly; another host's is  *)
(* deleted first.                                                          *)
Mapped(r) == {"lease", "static", r} \cup (IF r = "other" THEN {"none"} ELSE {})

MapPort(p) ==
  /\ work = "map" /\ p \in todo /\ ~ending
  /\ todo' = todo \ {p}
  /\ \E r \in Mapped(rule[p]) : rule' = [rule EXCEPT ![p] = r]
  /\ UNCHANGED <<work, mapped, ending, refused, found>>

(* Variant: an interrupted round does not count.                           *)
MappingDoneBug ==
  /\ work = "map" /\ (ending \/ todo = {})
  /\ work' = "wait" /\ mapped' = (mapped \/ todo = {})
  /\ UNCHANGED <<rule, todo, ending, refused, found>>
(* The loop ends, and the pinholes are opened; they end with their lease.  *)
MappingDone ==
  /\ work = "map" /\ (ending \/ todo = {})
  /\ work' = "wait" /\ mapped' = TRUE
  /\ UNCHANGED <<rule, todo, ending, refused, found>>

(* view(REFRESH_INTERVAL).                                                 *)
Refresh ==
  /\ work = "wait" /\ ~ending /\ work' = "discover"
  /\ UNCHANGED <<rule, todo, mapped, ending, refused, found>>
Terminate ==
  /\ work = "wait" /\ ending
  /\ work' = IF mapped THEN "unmap" ELSE "ended"
  /\ todo' = Ports
  /\ UNCHANGED <<rule, mapped, ending, refused, found>>

(* unmap_all_upnp_ports(): whoever's rule it is.                           *)
UnmapPort(p) ==
  /\ work = "unmap" /\ p \in todo
  /\ todo' = todo \ {p}
  /\ \/ rule' = [rule EXCEPT ![p] = "none"] /\ refused' = refused
     \/ rule' = rule /\ refused' = refused \cup {p}
  /\ UNCHANGED <<work, mapped, ending, found>>
UnmappingDone ==
  /\ work = "unmap" /\ todo = {} /\ work' = "ended"
  /\ UNCHANGED <<rule, todo, mapped, ending, refused, found>>

EndProgram ==
  /\ ~ending /\ ending' = TRUE
  /\ UNCHANGED <<rule, work, todo, mapped, refused, found>>

(* The router: leases run out, rules get lost, other hosts map ports.      *)
RouterChanges ==
  /\ \E p \in Ports :
       \/ rule[p] # "none" /\ rule' = [rule EXCEPT ![p] = "none"]
       \/ rule[p] = "none" /\ rule' = [rule EXCEPT ![p] = "other"]
  /\ UNCHANGED <<work, todo, mapped, ending, refused, found>>

PortInit ==
  /\ rule = [p \in Ports |-> "none"]
  /\ work = "discover" /\ todo = {} /\ mapped = FALSE /\ ending = FALSE /\ refused = {}
  /\ found = FALSE

PortNext ==
  \/ DiscoverFails \/ Discover \/ MappingDone \/ Refresh \/ Terminate \/ UnmappingDone
  \/ \E p \in Ports : MapPort(p) \/ UnmapPort(p)
  \/ EndProgram \/ RouterChanges

-----------------------------------------------------------------------------
PortTypeOK ==
  /\ rule \in [Ports -> Ours \cup {"none", "other"}]
  /\ work \in {"discover", "map", "wait", "unmap", "ended"}
  /\ todo \subseteq Ports /\ refused \subseteq Ports /\ {mapped, ending, found} \subseteq BOOLEAN

(* When the thread has ended no rule of ours is left, also if it was       *)
(* stopped between two mappings: but for those the router would not unmap, *)
(* and if the last search did not find the router.                         *)
PortsClosed ==
  work = "ended" /\ found => \A p \in Ports : rule[p] \in Ours => p \in refused
===============================================================================
