---------------------------------- MODULE Mail ----------------------------------
(***************************************************************************)
(* What the threads of the host hand things over with (thread_safe.h):    *)
(* events of one value, queues, posts that a mail knows by name while     *)
(* somebody holds them, and objects that live while somebody refers to    *)
(* them.  An instance is about one of the kinds at a time.                *)
(*                                                                        *)
(* Every operation holds a mutex, so it is one step; only waiting on the  *)
(* condition variable, and what is done without the mutex, is split.      *)
(***************************************************************************)
EXTENDS Integers, Sequences, FiniteSets, SequencesExt, FiniteSetsExt

CONSTANTS
  Users,      (* threads                                                 *)
  MaxElements,  (* max_elements of a queue                               *)
  MaxRaised,  (* bound: values raised                                    *)
  MaxPosts    (* bound: posts, or objects, postsMade                     *)

ASSUME MailAssumption == {MaxElements, MaxRaised, MaxPosts} \subseteq Nat \ {0}

VARIABLES
  kind,       (* "event", "queue", "post", "shared"                      *)
  box,        (* _status or _queue: the values in it                     *)
  goes,       (* _continue                                               *)
  doing,      (* per user: "idle", "pop", "view", "asleep", "gone"       *)
  how,        (* per user: the call it sleeps in                         *)
  notified,   (* users notified since they fell asleep                   *)
  raised,     (* values raised so far                                    *)
  taken,      (* history: values popped, in order                        *)
  thrown,     (* history: values overwritten, cleared or left at the stop *)
  entry,      (* id_to_post: the post an id leads to; 0 none             *)
  has,        (* per user: the post or object it holds; 0 none, -1 nullptr *)
  leaving,    (* per user: the post it destroys, before cleanup()        *)
  postsMade,  (* posts, or objects, postsMade so far                     *)
  built       (* objects constructed and not destroyed                   *)

boxVars == <<box, goes, doing, how, notified, raised, taken, thrown>>
postVars == <<entry, has, leaving, postsMade, built>>
mailVars == <<kind, boxVars, postVars>>

MailInit ==
  /\ kind \in {"event", "queue", "post", "shared"}
  /\ box = <<>> /\ goes = TRUE /\ doing = [u \in Users |-> "idle"]
  /\ how = [u \in Users |-> "pop"] /\ notified = {} /\ raised = 0 /\ taken = <<>> /\ thrown = {}
  /\ entry = 0 /\ has = [u \in Users |-> 0] /\ leaving = [u \in Users |-> 0]
  /\ postsMade = 0 /\ built = {}

Asleep == {u \in Users : doing[u] = "asleep"}

-----------------------------------------------------------------------------
(* Variants: a full queue drops the new value, only one sleeper is told.  *)
FilledBug(v) ==
  IF kind = "event" THEN <<v>> ELSE IF Len(box) = MaxElements THEN box ELSE Append(box, v)
ToldBug ==
  notified \cup (IF Asleep \ notified = {} THEN {}
               ELSE {CHOOSE u \in Asleep \ notified : TRUE})

(* An event holds the last value; a full queue is cleared first.          *)
Filled(v) ==
  IF kind = "event" \/ Len(box) = MaxElements THEN <<v>> ELSE Append(box, v)
Told == notified \cup Asleep

Raise ==
  /\ kind \in {"event", "queue"} /\ raised < MaxRaised /\ goes
  /\ raised' = raised + 1 /\ box' = Filled(raised')
  /\ thrown' = thrown \cup (Range(box) \ Range(box'))
  /\ notified' = Told
  /\ UNCHANGED <<kind, goes, doing, how, taken, postVars>>

Stop ==
  /\ kind \in {"event", "queue"} /\ goes
  /\ goes' = FALSE /\ notified' = Told
  /\ UNCHANGED <<kind, box, doing, how, raised, taken, thrown, postVars>>

(* event_t::reset(): the value is gone, and a stop with it.               *)
ResetEvent ==
  /\ kind = "event"
  /\ box' = <<>> /\ goes' = TRUE /\ thrown' = thrown \cup Range(box)
  /\ UNCHANGED <<kind, doing, how, notified, raised, taken, postVars>>

(* A call returns with the first value, or with none.                     *)
ReturnWith(u) ==
  /\ taken' = IF how'[u] = "view" THEN taken ELSE Append(taken, Head(box))
  /\ box' = IF how'[u] = "view" THEN box ELSE Tail(box)
  /\ doing' = [doing EXCEPT ![u] = "idle"] /\ notified' = notified \ {u}
  /\ UNCHANGED <<goes, raised, thrown>>
ReturnNone(u) ==
  /\ doing' = [doing EXCEPT ![u] = "gone"] /\ notified' = notified \ {u}
  /\ UNCHANGED <<box, goes, raised, taken, thrown>>

(* pop() and view(): a stopped box gives nothing.                         *)
Call(u, op) ==
  /\ kind \in {"event", "queue"} /\ doing[u] = "idle"
  /\ op = "view" => kind = "event"
  /\ how' = [how EXCEPT ![u] = op]
  /\ IF ~goes THEN ReturnNone(u)
     ELSE IF box # <<>> THEN ReturnWith(u)
     ELSE /\ doing' = [doing EXCEPT ![u] = "asleep"]
          /\ UNCHANGED <<box, goes, notified, raised, taken, thrown>>
  /\ UNCHANGED <<kind, postVars>>

(* The sleeper has the mutex again: it looks for the stop first, but the  *)
(* view and the pop of a queue that have a delay look for a value first.  *)
Wake(u) ==
  /\ doing[u] = "asleep" /\ u \in notified
  /\ UNCHANGED how
  /\ IF ~goes
     THEN \/ ReturnNone(u)
          \/ box # <<>> /\ (kind = "queue" \/ how[u] = "view") /\ ReturnWith(u)
     ELSE IF box # <<>> THEN ReturnWith(u)
     ELSE notified' = notified \ {u} /\ UNCHANGED <<box, goes, doing, raised, taken, thrown>>
  /\ UNCHANGED <<kind, postVars>>

(* The delay of a call is over: an event is looked at once more, a queue  *)
(* is not.  The caller comes again.                                       *)
TimeOut(u) ==
  /\ doing[u] = "asleep"
  /\ UNCHANGED how
  /\ IF kind = "event" /\ how[u] = "pop" /\ goes /\ box # <<>> THEN ReturnWith(u)
     ELSE /\ doing' = [doing EXCEPT ![u] = "idle"] /\ notified' = notified \ {u}
          /\ UNCHANGED <<box, goes, raised, taken, thrown>>
  /\ UNCHANGED <<kind, postVars>>

-----------------------------------------------------------------------------
(* A post lives while somebody holds it.                                  *)
PostHeld(p) == \E u \in Users : has[u] = p

(* Variant: an expired entry is found too, but a name is emplaced once.   *)
PostFoundBug == IF entry # 0 /\ PostHeld(entry) THEN entry ELSE postsMade + 1
PostFound == IF entry = 0 THEN postsMade + 1 ELSE IF PostHeld(entry) THEN entry ELSE -1

(* event<T>(id), queue<T>(id): a name that is known leads to its post,    *)
(* even when nobody holds it any more: then to nullptr.                   *)
Look(u) ==
  /\ kind = "post" /\ has[u] = 0 /\ leaving[u] = 0
  /\ PostFound = postsMade + 1 => postsMade < MaxPosts
  /\ has' = [has EXCEPT ![u] = PostFound]
  /\ postsMade' = IF PostFound = postsMade + 1 THEN postsMade + 1 ELSE postsMade
  /\ entry' = IF entry = 0 THEN PostFound ELSE entry
  /\ UNCHANGED <<kind, boxVars, leaving, built>>

(* The last holder destroys the post, which then cleans up the mail.      *)
LetGo(u) ==
  /\ kind = "post" /\ has[u] # 0
  /\ has' = [has EXCEPT ![u] = 0]
  /\ leaving' = [leaving EXCEPT
                   ![u] = IF has[u] > 0 /\ \A v \in Users \ {u} : has[v] # has[u]
                          THEN has[u] ELSE 0]
  /\ UNCHANGED <<kind, boxVars, entry, postsMade, built>>

(* cleanup(): an entry that has expired is erased.                        *)
CleanUp(u) ==
  /\ leaving[u] # 0
  /\ leaving' = [leaving EXCEPT ![u] = 0]
  /\ entry' = IF entry # 0 /\ ~PostHeld(entry) THEN 0 ELSE entry
  /\ UNCHANGED <<kind, boxVars, has, postsMade, built>>

-----------------------------------------------------------------------------
(* shared_t: the count is that of the holders.                            *)
Holders == {u \in Users : has[u] > 0}

(* Variant: the object is constructed again for whoever comes next.       *)
FirstBug == TRUE
First == Holders = {}

(* ref(): the first reference constructs the object; when that fails the  *)
(* caller gets none, and the object is not destroyed.                     *)
Ref(u, works) ==
  /\ kind = "shared" /\ has[u] = 0
  /\ IF First
     THEN /\ postsMade < MaxPosts
          /\ postsMade' = postsMade + 1
          /\ built' = IF works THEN built \cup {postsMade + 1} ELSE built
          /\ has' = [has EXCEPT ![u] = IF works THEN postsMade + 1 ELSE -1]
     ELSE /\ works
          /\ has' = [has EXCEPT ![u] = has[CHOOSE v \in Holders : TRUE]]
          /\ UNCHANGED <<postsMade, built>>
  /\ UNCHANGED <<kind, boxVars, entry, leaving>>

(* release(): the last reference destroys it.                             *)
Unref(u) ==
  /\ kind = "shared" /\ has[u] # 0
  /\ has' = [has EXCEPT ![u] = 0]
  /\ built' = IF Holders = {u} THEN built \ {has[u]} ELSE built
  /\ UNCHANGED <<kind, boxVars, entry, leaving, postsMade>>

MailNext ==
  \/ Raise \/ Stop \/ ResetEvent
  \/ \E u \in Users :
       \/ \E op \in {"pop", "view"} : Call(u, op)
       \/ Wake(u) \/ TimeOut(u)
       \/ Look(u) \/ LetGo(u) \/ CleanUp(u)
       \/ \E works \in BOOLEAN : Ref(u, works)
       \/ Unref(u)

-----------------------------------------------------------------------------
MailTypeOK ==
  /\ Len(box) <= (IF kind = "event" THEN 1 ELSE MaxElements)
  /\ \A u \in Users : doing[u] \in {"idle", "asleep", "gone"} /\ how[u] \in {"pop", "view"}
  /\ notified \subseteq Asleep /\ entry \in 0..MaxPosts
  /\ \A u \in Users : has[u] \in -1..MaxPosts /\ leaving[u] \in 0..MaxPosts

(* Nobody sleeps over a value that is there, or over a stop, without being *)
(* on its way out.                                                        *)
NobodySleepsOn ==
  kind \in {"event", "queue"} /\ (box # <<>> \/ ~goes) => Asleep \subseteq notified

(* What is raised is popped once, in its order, and lost only by being    *)
(* overtaken: whatever is lost is older than what is in the box.          *)
TakenInOrder ==
  /\ \A i, j \in DOMAIN taken : i < j => taken[i] < taken[j]
  /\ 1..raised = Range(taken) \cup thrown \cup Range(box)
  /\ Range(taken) \cap thrown = {}
  /\ \A v \in thrown, w \in Range(box) : v < w

(* Those that hold the post of a name at a time hold the same one, and a  *)
(* name is only left leading nowhere until the post's holder has cleaned  *)
(* up.                                                                    *)
PostShared ==
  /\ \A u, v \in Users : has[u] > 0 /\ has[v] > 0 => has[u] = has[v]
  /\ kind = "post" /\ entry # 0 /\ ~PostHeld(entry) => \E u \in Users : leaving[u] # 0

(* An object that is referred to is the one that was constructed, and it  *)
(* is destroyed with its last reference.                                  *)
SharedAlive == kind = "shared" => built = {has[u] : u \in Holders}
===============================================================================
