------------------------ MODULE StreamSessionProofs ------------------------
(***************************************************************************)
(* Theorems about StreamSession for any number of sessions, media and HTTP *)
(* threads, all of them from the inductive invariant IInv: its safety; that*)
(* it implements SessionPromise; and how sessions end.                     *)
(***************************************************************************)
EXTENDS StreamSession, FiniteSetTheorems, Integers, TLAPS

-----------------------------------------------------------------------------
(* The inductive invariant: who may point at what while each thread is     *)
(* where.  It implies NoDangling, JoinedByOne, BroadcastReferenced and     *)
(* EndedWasTold.                                                           *)

(* The RTSP thread's pcs at which it holds a session of its own; before the *)
(* session refers to the broadcast; before it has threads.                  *)
Starting == {"ref", "remove", "push", "spawn", "run", "count", "startcb",
             "reply"}
Detached == {"ref", "remove"}
Unlisted == {"ref", "remove", "push"}
Threadless == {"ref", "remove", "push", "spawn"}
Joining == {"tell", "join", "stopcb", "erase"}

StartsAt(s, P) == local = s /\ pc[Rtsp] \in P

(* Pointers are set exactly where they are used.                            *)
PointersOK ==
  /\ (pc[Rtsp] \in Starting) = (local # NoSession)
  /\ (ctl \in {"timeout", "tell", "check", "hangup"}) = (exam # NoSession)
  /\ \A t \in Threads : (pc[t] \in Joining) = (cur[t] # NoSession)
  /\ \A t \in Http : pc[t] \in {"idle"} \cup ClearPC

(* Inside clear() means holding the mutex of the slots, and what clear()    *)
(* has yet to visit or is joining is in the slots.                          *)
LockOK ==
  \A t \in Threads :
    /\ (pc[t] \in ClearPC) = (slotsLock = t)
    /\ pc[t] \notin ClearPC => todo[t] = {}
    /\ todo[t] \subseteq slots
    /\ cur[t] # NoSession => cur[t] \in slots

(* A session is live while a slot or cmd_announce has it; one whose slot    *)
(* was erased first is finished.                                            *)
LiveOK ==
  \A s \in Sessions :
    /\ (obj[s] = "live") = (s \in slots \/ local = s)
    /\ obj[s] = "live" /\ s \notin slots =>
         /\ s \in controlEnd /\ s \in shutdownEv
         /\ \A m \in Media : media[s][m] = "done"
    /\ obj[s] = "new" =>
         /\ s \notin list /\ s \notin controlEnd /\ s \notin shutdownEv
         /\ state[s] = "STOPPED"
    /\ StartsAt(s, Unlisted) => s \notin list
    /\ StartsAt(s, Unlisted) => s \notin controlEnd /\ s \notin shutdownEv
    /\ StartsAt(s, Threadless \cup {"run"}) => state[s] = "STOPPED"

(* Media threads exist between StartSpawn and Free.                         *)
MediaOK ==
  \A s \in Sessions, m \in Media :
    /\ obj[s] = "new" => media[s][m] = "none"
    /\ obj[s] = "live" =>
         (media[s][m] = "none") = StartsAt(s, Threadless)
    /\ obj[s] = "freed" => ~MediaAlive(s, m)

(* A thread past its joins has nothing left to wait for.                    *)
JoinedOK ==
  \A t \in Threads : pc[t] \in {"stopcb", "erase"} =>
    /\ cur[t] \in controlEnd /\ cur[t] \in shutdownEv
    /\ \A m \in Media : media[cur[t]][m] = "done"

(* Who holds the broadcast.                                                 *)
RefOK ==
  /\ \A s \in Sessions :
       (<<s, "self">> \in bref) = (obj[s] = "live" /\ ~StartsAt(s, Detached))
  /\ \A s \in Sessions, m \in Media :
       (<<s, m>> \in bref) = (media[s][m] \in {"ping", "capture"})

(* It is up while held, and at most one thread is destroying it.            *)
BcastOK ==
  /\ (bstate = "up") = (bref # {})
  /\ (ctl = "off") = (bstate = "down")
  /\ \A t \in Threads : pc[t] \in {"ending", "unref"} => bstate = "ending"
  /\ \A t1, t2 \in Threads :
       pc[t1] \in {"ending", "unref"} /\ pc[t2] \in {"ending", "unref"}
         => t1 = t2

(* The control thread's pass stays within its list; a session whose         *)
(* controlEnd is raised has left the list, or the loop is over and the      *)
(* sweep is past it.                                                        *)
CtlOK ==
  /\ scan \subseteq list
  /\ exam # NoSession => exam \in list /\ (ctl = "hangup" \/ exam \in scan)
  /\ ~ListLocked => scan = {}
  /\ ctl = "off" => list = {}
  /\ \A s \in list :
       /\ obj[s] = "freed" => s \in controlEnd
       /\ s \in controlEnd => ctl \in {"sweep", "done"} /\ s \notin scan

(* What is stopping or ended was told, or somebody is about to tell it.     *)
ToldOK ==
  /\ \A s \in Sessions :
       state[s] = "STOPPING" \/ s \in controlEnd =>
         s \in shutdownEv \/ Telling(s)
  /\ \A t \in Threads : pc[t] = "tell" => state[cur[t]] = "STOPPING"

IInv ==
  /\ TypeOK /\ PointersOK /\ LockOK /\ LiveOK /\ MediaOK /\ JoinedOK
  /\ RefOK /\ BcastOK /\ CtlOK /\ ToldOK

-----------------------------------------------------------------------------

(* The invariant holds before any client has announced itself. *)
LEMMA InitIInv == Init => IInv
<1> SUFFICES ASSUME Init PROVE IInv
  OBVIOUS
<1> USE SessionAssumption
    DEF Init, Threads, Holders, CtlPC, Starting, Detached, Unlisted,
        Threadless, Joining, ClearPC, StartPC, StartsAt
<1>1. SessionTypeOK
  BY DEF SessionTypeOK, ObjState, SessionState, MediaState
<1>2. SharedTypeOK
  BY DEF SharedTypeOK, ObjState, SessionState, MediaState
<1>3. ThreadTypeOK
  BY DEF ThreadTypeOK, ObjState, SessionState, MediaState
<1>4. HostTypeOK
  <2>1. running = 0 /\ 0 \in 0..(Wrap - 1)
    OBVIOUS
  <2>2. platform = FALSE /\ app = TRUE /\ shutdown = FALSE
    OBVIOUS
  <2> QED
    BY <2>1, <2>2 DEF HostTypeOK
<1>5. PointersOK
  BY DEF PointersOK, ObjState, SessionState, MediaState
<1>6. LockOK
  BY DEF LockOK, ObjState, SessionState, MediaState
<1>7. LiveOK
  BY DEF LiveOK, StartsAt, ObjState, SessionState, MediaState
<1>8. MediaOK
  BY DEF MediaOK, MediaAlive, StartsAt, ObjState, SessionState, MediaState
<1>9. JoinedOK
  BY DEF JoinedOK, ObjState, SessionState, MediaState
<1>10. RefOK
  BY DEF RefOK, StartsAt, ObjState, SessionState, MediaState
<1>11. BcastOK
  BY DEF BcastOK, ObjState, SessionState, MediaState
<1>12. CtlOK
  BY DEF CtlOK, ListLocked, ObjState, SessionState, MediaState
<1>13. ToldOK
  BY DEF ToldOK, Telling, ObjState, SessionState, MediaState
<1> QED
  BY <1>1, <1>2, <1>3, <1>4, <1>5, <1>6, <1>7, <1>8, <1>9, <1>10, <1>11,
    <1>12, <1>13 DEF IInv, TypeOK

(* Every step of every thread keeps it. *)
LEMMA NextIInv == IInv /\ [Next]_vars => IInv'
<1> SUFFICES ASSUME IInv, [Next]_vars PROVE IInv'
  OBVIOUS
<1> SessionTypeOK /\ SharedTypeOK /\ ThreadTypeOK /\ HostTypeOK /\
      PointersOK /\ LockOK /\ LiveOK /\ MediaOK /\ JoinedOK /\ RefOK /\
      BcastOK /\ CtlOK /\ ToldOK
  BY DEF IInv, TypeOK
<1> USE DEF sessionVars, slotVars, bcastVars, ctlVars, threadVars, platVars,
            envVars, Threads, ClearPC, StartPC, Goto, Starting, Detached,
            Unlisted, Threadless, Joining
<1>1. ASSUME NEW s \in Sessions, Announce(s)
      PROVE  IInv'
  <2>1. SessionTypeOK'
    BY <1>1, SessionAssumption DEF Announce, SlotsFree, Alloc, SessionTypeOK,
      PointersOK, SharedTypeOK, ThreadTypeOK, ObjState, SessionState,
      MediaState
  <2>2. SharedTypeOK'
    BY <1>1, SessionAssumption DEF Announce, SlotsFree, Alloc, SharedTypeOK,
      PointersOK, ThreadTypeOK, Holders, CtlPC
  <2>3. ThreadTypeOK'
    BY <1>1, SessionAssumption DEF Announce, SlotsFree, Alloc, ThreadTypeOK,
      SharedTypeOK
  <2>4. PointersOK'
    BY <1>1, SessionAssumption DEF Announce, SlotsFree, Alloc, PointersOK,
      LockOK, BcastOK, ThreadTypeOK, SharedTypeOK
  <2>5. LockOK'
    BY <1>1, SessionAssumption DEF Announce, SlotsFree, Alloc, LockOK,
      PointersOK, ThreadTypeOK, SharedTypeOK
  <2>6. LiveOK'
    BY <1>1, SessionAssumption DEF Announce, SlotsFree, Alloc, LiveOK,
      StartsAt, PointersOK, LockOK, MediaOK, MediaAlive, JoinedOK, RefOK,
      CtlOK, ToldOK, SessionTypeOK, ThreadTypeOK, SharedTypeOK
  <2>7. MediaOK'
    BY <1>1, SessionAssumption DEF Announce, SlotsFree, Alloc, MediaOK,
      MediaAlive, StartsAt, PointersOK, LockOK, LiveOK, JoinedOK,
      SessionTypeOK, ThreadTypeOK
  <2>8. JoinedOK'
    BY <1>1, SessionAssumption DEF Announce, SlotsFree, Alloc, JoinedOK,
      PointersOK, LockOK, MediaOK, StartsAt, LiveOK, SessionTypeOK,
      ThreadTypeOK
  <2>9. RefOK'
    BY <1>1, SessionAssumption DEF Announce, SlotsFree, Alloc, RefOK,
      StartsAt, PointersOK, LockOK, LiveOK, MediaOK, JoinedOK, SessionTypeOK,
      ThreadTypeOK, SharedTypeOK
  <2>10. BcastOK'
    BY <1>1, SessionAssumption DEF Announce, SlotsFree, Alloc, BcastOK,
      PointersOK, LockOK, RefOK, LiveOK, StartsAt, SharedTypeOK, ThreadTypeOK,
      CtlOK, ListLocked
  <2>11. CtlOK'
    BY <1>1, SessionAssumption DEF Announce, SlotsFree, Alloc, CtlOK,
      ListLocked, PointersOK, LockOK, LiveOK, StartsAt, BcastOK, RefOK,
      JoinedOK, SharedTypeOK, ThreadTypeOK, SessionTypeOK
  <2>12. HostTypeOK'
    BY <1>1 DEF Announce, SlotsFree, Alloc, HostTypeOK
  <2>13. ToldOK'
    <3>1. \A r \in Sessions :
            (state[r] = "STOPPING" \/ r \in controlEnd =>
              r \in shutdownEv \/ Telling(r))'
      BY <1>1, SessionAssumption DEF Announce, SlotsFree, Alloc, ToldOK,
        Telling, PointersOK, LockOK,
        SessionTypeOK, ThreadTypeOK, SharedTypeOK
    <3>2. (\A u \in Threads : pc[u] = "tell" => state[cur[u]] = "STOPPING")'
      BY <1>1, SessionAssumption DEF Announce, SlotsFree, Alloc, ToldOK,
        PointersOK, LockOK,
        SessionTypeOK, ThreadTypeOK, SharedTypeOK
    <3> QED
      BY <3>1, <3>2 DEF ToldOK

  <2> QED
    BY <2>1, <2>2, <2>3, <2>4, <2>5, <2>6, <2>7, <2>8, <2>9, <2>10, <2>11,
      <2>12, <2>13
  DEF IInv, TypeOK
<1>2. ASSUME StartRef
      PROVE  IInv'
  <2>1. SharedTypeOK'
    BY <1>2, SessionAssumption DEF StartRef, SharedTypeOK, PointersOK,
      ThreadTypeOK, Holders, CtlPC
  <2>2. ThreadTypeOK'
    BY <1>2, SessionAssumption DEF StartRef, ThreadTypeOK, SharedTypeOK
  <2>3. PointersOK'
    BY <1>2, SessionAssumption DEF StartRef, PointersOK, LockOK, BcastOK,
      ThreadTypeOK, SharedTypeOK
  <2>4. LockOK'
    BY <1>2, SessionAssumption DEF StartRef, LockOK, PointersOK, ThreadTypeOK,
      SharedTypeOK
  <2>5. LiveOK'
    BY <1>2, SessionAssumption DEF StartRef, LiveOK, StartsAt, PointersOK,
      LockOK, MediaOK, MediaAlive, JoinedOK, RefOK, CtlOK, ToldOK,
      SessionTypeOK, ThreadTypeOK, SharedTypeOK
  <2>6. MediaOK'
    BY <1>2, SessionAssumption DEF StartRef, MediaOK, MediaAlive, StartsAt,
      PointersOK, LockOK, LiveOK, JoinedOK, SessionTypeOK, ThreadTypeOK
  <2>7. JoinedOK'
    BY <1>2, SessionAssumption DEF StartRef, JoinedOK, PointersOK, LockOK,
      MediaOK, StartsAt, LiveOK, SessionTypeOK, ThreadTypeOK
  <2>8. RefOK'
    BY <1>2, SessionAssumption DEF StartRef, RefOK, StartsAt, PointersOK,
      LockOK, LiveOK, MediaOK, JoinedOK, SessionTypeOK, ThreadTypeOK,
      SharedTypeOK
  <2>9. BcastOK'
    BY <1>2, SessionAssumption DEF StartRef, BcastOK, PointersOK, LockOK,
      RefOK, LiveOK, StartsAt, SharedTypeOK, ThreadTypeOK, CtlOK, ListLocked
  <2>10. CtlOK'
    BY <1>2, SessionAssumption DEF StartRef, CtlOK, ListLocked, PointersOK,
      LockOK, LiveOK, StartsAt, BcastOK, RefOK, JoinedOK, SharedTypeOK,
      ThreadTypeOK, SessionTypeOK
  <2>11. SessionTypeOK' /\ HostTypeOK'
    BY <1>2 DEF StartRef, SessionTypeOK, HostTypeOK
  <2>12. ToldOK'
    BY <1>2, SessionAssumption DEF StartRef, ToldOK, Telling, BcastOK,
      PointersOK, LockOK, LiveOK, StartsAt, SessionTypeOK, ThreadTypeOK,
      SharedTypeOK
  <2> QED
    BY <2>1, <2>2, <2>3, <2>4, <2>5, <2>6, <2>7, <2>8, <2>9, <2>10, <2>11,
      <2>12 DEF
  IInv, TypeOK
<1>3. ASSUME StartRefFails
      PROVE  IInv'
  <2>1. ThreadTypeOK'
    BY <1>3, SessionAssumption DEF StartRefFails, ThreadTypeOK, SharedTypeOK
  <2>2. PointersOK'
    BY <1>3, SessionAssumption DEF StartRefFails, PointersOK, LockOK, BcastOK,
      ThreadTypeOK, SharedTypeOK
  <2>3. LockOK'
    BY <1>3, SessionAssumption DEF StartRefFails, LockOK, PointersOK,
      ThreadTypeOK, SharedTypeOK
  <2>4. LiveOK'
    BY <1>3, SessionAssumption DEF StartRefFails, LiveOK, StartsAt,
      PointersOK, LockOK, MediaOK, MediaAlive, JoinedOK, RefOK, CtlOK, ToldOK,
      SessionTypeOK, ThreadTypeOK, SharedTypeOK
  <2>5. MediaOK'
    BY <1>3, SessionAssumption DEF StartRefFails, MediaOK, MediaAlive,
      StartsAt, PointersOK, LockOK, LiveOK, JoinedOK, SessionTypeOK,
      ThreadTypeOK
  <2>6. JoinedOK'
    BY <1>3, SessionAssumption DEF StartRefFails, JoinedOK, PointersOK,
      LockOK, MediaOK, StartsAt, LiveOK, SessionTypeOK, ThreadTypeOK
  <2>7. RefOK'
    BY <1>3, SessionAssumption DEF StartRefFails, RefOK, StartsAt, PointersOK,
      LockOK, LiveOK, MediaOK, JoinedOK, SessionTypeOK, ThreadTypeOK,
      SharedTypeOK
  <2>8. BcastOK'
    BY <1>3, SessionAssumption DEF StartRefFails, BcastOK, PointersOK, LockOK,
      RefOK, LiveOK, StartsAt, SharedTypeOK, ThreadTypeOK, CtlOK, ListLocked
  <2>9. SessionTypeOK' /\ SharedTypeOK' /\ HostTypeOK' /\ CtlOK'
    BY <1>3 DEF StartRefFails, SessionTypeOK, SharedTypeOK, HostTypeOK, CtlOK,
      ListLocked
  <2>10. ToldOK'
    BY <1>3, SessionAssumption DEF StartRefFails, ToldOK, Telling, PointersOK,
      LockOK, LiveOK, StartsAt, SessionTypeOK, ThreadTypeOK, SharedTypeOK
  <2> QED
    BY <2>1, <2>2, <2>3, <2>4, <2>5, <2>6, <2>7, <2>8, <2>9, <2>10 DEF IInv,
      TypeOK
<1>4. ASSUME StartRemove
      PROVE  IInv'
  <2>1. SessionTypeOK'
    BY <1>4, SessionAssumption DEF StartRemove, SlotsFree, SessionTypeOK,
      PointersOK, SharedTypeOK, ThreadTypeOK, ObjState, SessionState,
      MediaState
  <2>2. SharedTypeOK'
    BY <1>4, SessionAssumption DEF StartRemove, SlotsFree, SharedTypeOK,
      PointersOK, ThreadTypeOK, Holders, CtlPC
  <2>3. ThreadTypeOK'
    BY <1>4, SessionAssumption DEF StartRemove, SlotsFree, ThreadTypeOK,
      SharedTypeOK
  <2>4. PointersOK'
    BY <1>4, SessionAssumption DEF StartRemove, SlotsFree, PointersOK, LockOK,
      BcastOK, ThreadTypeOK, SharedTypeOK
  <2>5. LockOK'
    BY <1>4, SessionAssumption DEF StartRemove, SlotsFree, LockOK, PointersOK,
      ThreadTypeOK, SharedTypeOK
  <2>6. LiveOK'
    BY <1>4, SessionAssumption DEF StartRemove, SlotsFree, LiveOK, StartsAt,
      PointersOK, LockOK, MediaOK, MediaAlive, JoinedOK, RefOK, CtlOK, ToldOK,
      SessionTypeOK, ThreadTypeOK, SharedTypeOK
  <2>7. MediaOK'
    BY <1>4, SessionAssumption DEF StartRemove, SlotsFree, MediaOK,
      MediaAlive, StartsAt, PointersOK, LockOK, LiveOK, JoinedOK,
      SessionTypeOK, ThreadTypeOK
  <2>8. JoinedOK'
    BY <1>4, SessionAssumption DEF StartRemove, SlotsFree, JoinedOK,
      PointersOK, LockOK, MediaOK, StartsAt, LiveOK, SessionTypeOK,
      ThreadTypeOK
  <2>9. RefOK'
    BY <1>4, SessionAssumption DEF StartRemove, SlotsFree, RefOK, StartsAt,
      PointersOK, LockOK, LiveOK, MediaOK, JoinedOK, SessionTypeOK,
      ThreadTypeOK, SharedTypeOK
  <2>10. BcastOK'
    BY <1>4, SessionAssumption DEF StartRemove, SlotsFree, BcastOK,
      PointersOK, LockOK, RefOK, LiveOK, StartsAt, SharedTypeOK, ThreadTypeOK,
      CtlOK, ListLocked
  <2>11. CtlOK'
    BY <1>4, SessionAssumption DEF StartRemove, SlotsFree, CtlOK, ListLocked,
      PointersOK, LockOK, LiveOK, StartsAt, BcastOK, RefOK, JoinedOK,
      SharedTypeOK, ThreadTypeOK, SessionTypeOK
  <2>12. HostTypeOK'
    BY <1>4 DEF StartRemove, SlotsFree, HostTypeOK
  <2>13. ToldOK'
    BY <1>4, SessionAssumption DEF StartRemove, SlotsFree, ToldOK, Telling,
      PointersOK, LockOK, LiveOK, StartsAt, SessionTypeOK, ThreadTypeOK,
      SharedTypeOK
  <2> QED
    BY <2>1, <2>2, <2>3, <2>4, <2>5, <2>6, <2>7, <2>8, <2>9, <2>10, <2>11,
      <2>12, <2>13
  DEF IInv, TypeOK
<1>5. ASSUME StartPush
      PROVE  IInv'
  <2>1. SharedTypeOK'
    BY <1>5, SessionAssumption DEF StartPush, SharedTypeOK, PointersOK,
      ThreadTypeOK, Holders, CtlPC
  <2>2. ThreadTypeOK'
    BY <1>5, SessionAssumption DEF StartPush, ThreadTypeOK, SharedTypeOK
  <2>3. PointersOK'
    BY <1>5, SessionAssumption DEF StartPush, PointersOK, LockOK, BcastOK,
      ThreadTypeOK, SharedTypeOK
  <2>4. LockOK'
    BY <1>5, SessionAssumption DEF StartPush, LockOK, PointersOK,
      ThreadTypeOK, SharedTypeOK
  <2>5. LiveOK'
    BY <1>5, SessionAssumption DEF StartPush, LiveOK, StartsAt, PointersOK,
      LockOK, MediaOK, MediaAlive, JoinedOK, RefOK, CtlOK, ToldOK,
      SessionTypeOK, ThreadTypeOK, SharedTypeOK
  <2>6. MediaOK'
    BY <1>5, SessionAssumption DEF StartPush, MediaOK, MediaAlive, StartsAt,
      PointersOK, LockOK, LiveOK, JoinedOK, SessionTypeOK, ThreadTypeOK
  <2>7. JoinedOK'
    BY <1>5, SessionAssumption DEF StartPush, JoinedOK, PointersOK, LockOK,
      MediaOK, StartsAt, LiveOK, SessionTypeOK, ThreadTypeOK
  <2>8. RefOK'
    BY <1>5, SessionAssumption DEF StartPush, RefOK, StartsAt, PointersOK,
      LockOK, LiveOK, MediaOK, JoinedOK, SessionTypeOK, ThreadTypeOK,
      SharedTypeOK
  <2>9. BcastOK'
    BY <1>5, SessionAssumption DEF StartPush, BcastOK, PointersOK, LockOK,
      RefOK, LiveOK, StartsAt, SharedTypeOK, ThreadTypeOK, CtlOK, ListLocked
  <2>10. CtlOK'
    <3>1. local \in Sessions /\ obj[local] = "live" /\ local \notin controlEnd
      BY <1>5 DEF StartPush, PointersOK, ThreadTypeOK, LiveOK, StartsAt
    <3>2. <<local, "self">> \in bref
      BY <1>5, <3>1 DEF StartPush, RefOK, StartsAt
    <3>3. ctl # "off"
      BY <3>2 DEF BcastOK
    <3> QED
      BY <1>5, <3>1, <3>3 DEF StartPush, CtlOK, ListLocked
  <2>11. SessionTypeOK' /\ HostTypeOK'
    BY <1>5 DEF StartPush, SessionTypeOK, HostTypeOK
  <2>12. ToldOK'
    BY <1>5, SessionAssumption DEF StartPush, ToldOK, Telling, PointersOK,
      LockOK, LiveOK, StartsAt, SessionTypeOK, ThreadTypeOK, SharedTypeOK
  <2> QED
    BY <2>1, <2>2, <2>3, <2>4, <2>5, <2>6, <2>7, <2>8, <2>9, <2>10, <2>11,
      <2>12 DEF
  IInv, TypeOK
<1>6. ASSUME StartSpawn
      PROVE  IInv'
  <2>1. SessionTypeOK'
    BY <1>6, SessionAssumption DEF StartSpawn, SessionTypeOK, PointersOK,
      SharedTypeOK, ThreadTypeOK, ObjState, SessionState, MediaState
  <2>2. ThreadTypeOK'
    BY <1>6, SessionAssumption DEF StartSpawn, ThreadTypeOK, SharedTypeOK
  <2>3. PointersOK'
    BY <1>6, SessionAssumption DEF StartSpawn, PointersOK, LockOK, BcastOK,
      ThreadTypeOK, SharedTypeOK
  <2>4. LockOK'
    BY <1>6, SessionAssumption DEF StartSpawn, LockOK, PointersOK,
      ThreadTypeOK, SharedTypeOK
  <2>5. LiveOK'
    BY <1>6, SessionAssumption DEF StartSpawn, LiveOK, StartsAt, PointersOK,
      LockOK, MediaOK, MediaAlive, JoinedOK, RefOK, CtlOK, ToldOK,
      SessionTypeOK, ThreadTypeOK, SharedTypeOK
  <2>6. MediaOK'
    BY <1>6, SessionAssumption DEF StartSpawn, MediaOK, MediaAlive, StartsAt,
      PointersOK, LockOK, LiveOK, JoinedOK, SessionTypeOK, ThreadTypeOK
  <2>7. JoinedOK'
    BY <1>6, SessionAssumption DEF StartSpawn, JoinedOK, PointersOK, LockOK,
      MediaOK, StartsAt, LiveOK, SessionTypeOK, ThreadTypeOK
  <2>8. RefOK'
    BY <1>6, SessionAssumption DEF StartSpawn, RefOK, StartsAt, PointersOK,
      LockOK, LiveOK, MediaOK, JoinedOK, SessionTypeOK, ThreadTypeOK,
      SharedTypeOK
  <2>9. BcastOK'
    BY <1>6, SessionAssumption DEF StartSpawn, BcastOK, PointersOK, LockOK,
      RefOK, LiveOK, StartsAt, SharedTypeOK, ThreadTypeOK, CtlOK, ListLocked
  <2>10. SharedTypeOK' /\ HostTypeOK' /\ CtlOK'
    BY <1>6 DEF StartSpawn, SharedTypeOK, HostTypeOK, CtlOK, ListLocked
  <2>11. ToldOK'
    <3>1. \A r \in Sessions :
            (state[r] = "STOPPING" \/ r \in controlEnd =>
              r \in shutdownEv \/ Telling(r))'
      BY <1>6, SessionAssumption DEF StartSpawn, ToldOK, Telling, PointersOK,
        LockOK,
        SessionTypeOK, ThreadTypeOK, SharedTypeOK, MediaOK, LiveOK, StartsAt
    <3>2. (\A u \in Threads : pc[u] = "tell" => state[cur[u]] = "STOPPING")'
      BY <1>6, SessionAssumption DEF StartSpawn, ToldOK, PointersOK, LockOK,
        SessionTypeOK, ThreadTypeOK, SharedTypeOK, MediaOK
    <3> QED
      BY <3>1, <3>2 DEF ToldOK

  <2> QED
    BY <2>1, <2>2, <2>3, <2>4, <2>5, <2>6, <2>7, <2>8, <2>9, <2>10, <2>11 DEF
      IInv,
  TypeOK
<1>7. ASSUME StartRun
      PROVE  IInv'
  <2>1. SessionTypeOK'
    BY <1>7, SessionAssumption DEF StartRun, SessionTypeOK, PointersOK,
      SharedTypeOK, ThreadTypeOK, ObjState, SessionState, MediaState
  <2>2. ThreadTypeOK'
    BY <1>7, SessionAssumption DEF StartRun, ThreadTypeOK, SharedTypeOK
  <2>3. PointersOK'
    BY <1>7, SessionAssumption DEF StartRun, PointersOK, LockOK, BcastOK,
      ThreadTypeOK, SharedTypeOK
  <2>4. LockOK'
    BY <1>7, SessionAssumption DEF StartRun, LockOK, PointersOK, ThreadTypeOK,
      SharedTypeOK
  <2>5. LiveOK'
    BY <1>7, SessionAssumption DEF StartRun, LiveOK, StartsAt, PointersOK,
      LockOK, MediaOK, MediaAlive, JoinedOK, RefOK, CtlOK, ToldOK,
      SessionTypeOK, ThreadTypeOK, SharedTypeOK
  <2>6. MediaOK'
    BY <1>7, SessionAssumption DEF StartRun, MediaOK, MediaAlive, StartsAt,
      PointersOK, LockOK, LiveOK, JoinedOK, SessionTypeOK, ThreadTypeOK
  <2>7. JoinedOK'
    BY <1>7, SessionAssumption DEF StartRun, JoinedOK, PointersOK, LockOK,
      MediaOK, StartsAt, LiveOK, SessionTypeOK, ThreadTypeOK
  <2>8. RefOK'
    BY <1>7, SessionAssumption DEF StartRun, RefOK, StartsAt, PointersOK,
      LockOK, LiveOK, MediaOK, JoinedOK, SessionTypeOK, ThreadTypeOK,
      SharedTypeOK
  <2>9. BcastOK'
    BY <1>7, SessionAssumption DEF StartRun, BcastOK, PointersOK, LockOK,
      RefOK, LiveOK, StartsAt, SharedTypeOK, ThreadTypeOK, CtlOK, ListLocked
  <2>10. ToldOK'
    <3>1. \A r \in Sessions :
            (state[r] = "STOPPING" \/ r \in controlEnd =>
              r \in shutdownEv \/ Telling(r))'
      BY <1>7, SessionAssumption DEF StartRun, ToldOK, Telling, PointersOK,
        LockOK,
        SessionTypeOK, ThreadTypeOK, SharedTypeOK, LiveOK, StartsAt
    <3>2. (\A u \in Threads : pc[u] = "tell" => state[cur[u]] = "STOPPING")'
      BY <1>7, SessionAssumption DEF StartRun, ToldOK, PointersOK, LockOK,
        SessionTypeOK, ThreadTypeOK, SharedTypeOK, LiveOK, StartsAt
    <3> QED
      BY <3>1, <3>2 DEF ToldOK

  <2>11. SharedTypeOK' /\ HostTypeOK' /\ CtlOK'
    BY <1>7 DEF StartRun, SharedTypeOK, HostTypeOK, CtlOK, ListLocked
  <2> QED
    BY <2>1, <2>2, <2>3, <2>4, <2>5, <2>6, <2>7, <2>8, <2>9, <2>10, <2>11 DEF
  IInv, TypeOK
<1>8. ASSUME StartCount
      PROVE  IInv'
  <2>1. ThreadTypeOK'
    BY <1>8, SessionAssumption DEF StartCount, ThreadTypeOK, SharedTypeOK
  <2>2. HostTypeOK'
    BY <1>8, SessionAssumption DEF StartCount, HostTypeOK
  <2>3. PointersOK'
    BY <1>8, SessionAssumption DEF StartCount, PointersOK, LockOK, BcastOK,
      ThreadTypeOK, SharedTypeOK
  <2>4. LockOK'
    BY <1>8, SessionAssumption DEF StartCount, LockOK, PointersOK,
      ThreadTypeOK, SharedTypeOK
  <2>5. LiveOK'
    BY <1>8, SessionAssumption DEF StartCount, LiveOK, StartsAt, PointersOK,
      LockOK, MediaOK, MediaAlive, JoinedOK, RefOK, CtlOK, ToldOK,
      SessionTypeOK, ThreadTypeOK, SharedTypeOK
  <2>6. MediaOK'
    BY <1>8, SessionAssumption DEF StartCount, MediaOK, MediaAlive, StartsAt,
      PointersOK, LockOK, LiveOK, JoinedOK, SessionTypeOK, ThreadTypeOK
  <2>7. JoinedOK'
    BY <1>8, SessionAssumption DEF StartCount, JoinedOK, PointersOK, LockOK,
      MediaOK, StartsAt, LiveOK, SessionTypeOK, ThreadTypeOK
  <2>8. RefOK'
    BY <1>8, SessionAssumption DEF StartCount, RefOK, StartsAt, PointersOK,
      LockOK, LiveOK, MediaOK, JoinedOK, SessionTypeOK, ThreadTypeOK,
      SharedTypeOK
  <2>9. BcastOK'
    BY <1>8, SessionAssumption DEF StartCount, BcastOK, PointersOK, LockOK,
      RefOK, LiveOK, StartsAt, SharedTypeOK, ThreadTypeOK, CtlOK, ListLocked
  <2>10. SessionTypeOK' /\ SharedTypeOK' /\ CtlOK'
    BY <1>8 DEF StartCount, SessionTypeOK, SharedTypeOK, CtlOK, ListLocked
  <2>11. ToldOK'
    BY <1>8, SessionAssumption DEF StartCount, ToldOK, Telling, PointersOK,
      LockOK, LiveOK, StartsAt, SessionTypeOK, ThreadTypeOK, SharedTypeOK
  <2> QED
    BY <2>1, <2>2, <2>3, <2>4, <2>5, <2>6, <2>7, <2>8, <2>9, <2>10, <2>11 DEF
      IInv,
  TypeOK
<1>9. ASSUME StartCallback
      PROVE  IInv'
  <2>1. ThreadTypeOK'
    BY <1>9, SessionAssumption DEF StartCallback, ThreadTypeOK, SharedTypeOK
  <2>2. HostTypeOK'
    BY <1>9, SessionAssumption DEF StartCallback, HostTypeOK
  <2>3. PointersOK'
    BY <1>9, SessionAssumption DEF StartCallback, PointersOK, LockOK, BcastOK,
      ThreadTypeOK, SharedTypeOK
  <2>4. LockOK'
    BY <1>9, SessionAssumption DEF StartCallback, LockOK, PointersOK,
      ThreadTypeOK, SharedTypeOK
  <2>5. LiveOK'
    BY <1>9, SessionAssumption DEF StartCallback, LiveOK, StartsAt,
      PointersOK, LockOK, MediaOK, MediaAlive, JoinedOK, RefOK, CtlOK, ToldOK,
      SessionTypeOK, ThreadTypeOK, SharedTypeOK
  <2>6. MediaOK'
    BY <1>9, SessionAssumption DEF StartCallback, MediaOK, MediaAlive,
      StartsAt, PointersOK, LockOK, LiveOK, JoinedOK, SessionTypeOK,
      ThreadTypeOK
  <2>7. JoinedOK'
    BY <1>9, SessionAssumption DEF StartCallback, JoinedOK, PointersOK,
      LockOK, MediaOK, StartsAt, LiveOK, SessionTypeOK, ThreadTypeOK
  <2>8. RefOK'
    BY <1>9, SessionAssumption DEF StartCallback, RefOK, StartsAt, PointersOK,
      LockOK, LiveOK, MediaOK, JoinedOK, SessionTypeOK, ThreadTypeOK,
      SharedTypeOK
  <2>9. BcastOK'
    BY <1>9, SessionAssumption DEF StartCallback, BcastOK, PointersOK, LockOK,
      RefOK, LiveOK, StartsAt, SharedTypeOK, ThreadTypeOK, CtlOK, ListLocked
  <2>10. SessionTypeOK' /\ SharedTypeOK' /\ CtlOK'
    BY <1>9 DEF StartCallback, SessionTypeOK, SharedTypeOK, CtlOK, ListLocked
  <2>11. ToldOK'
    BY <1>9, SessionAssumption DEF StartCallback, ToldOK, Telling, PointersOK,
      LockOK, LiveOK, StartsAt, SessionTypeOK, ThreadTypeOK, SharedTypeOK
  <2> QED
    BY <2>1, <2>2, <2>3, <2>4, <2>5, <2>6, <2>7, <2>8, <2>9, <2>10, <2>11 DEF
      IInv,
  TypeOK
<1>10. ASSUME StartReply
      PROVE  IInv'
  <2>1. SessionTypeOK'
    BY <1>10, SessionAssumption DEF StartReply, Free, Release, IsLast,
      SessionTypeOK, PointersOK, SharedTypeOK, ThreadTypeOK, ObjState,
      SessionState, MediaState
  <2>2. SharedTypeOK'
    BY <1>10, SessionAssumption DEF StartReply, Free, Release, IsLast,
      SharedTypeOK, PointersOK, ThreadTypeOK, Holders, CtlPC
  <2>3. ThreadTypeOK'
    BY <1>10, SessionAssumption DEF StartReply, Free, Release, IsLast,
      ThreadTypeOK, SharedTypeOK
  <2>4. PointersOK'
    BY <1>10, SessionAssumption DEF StartReply, Free, Release, IsLast,
      PointersOK, LockOK, BcastOK, ThreadTypeOK, SharedTypeOK
  <2>5. LockOK'
    BY <1>10, SessionAssumption DEF StartReply, Free, Release, IsLast, LockOK,
      PointersOK, ThreadTypeOK, SharedTypeOK
  <2>6. LiveOK'
    BY <1>10, SessionAssumption DEF StartReply, Free, Release, IsLast, LiveOK,
      StartsAt, PointersOK, LockOK, MediaOK, MediaAlive, JoinedOK, RefOK,
      CtlOK, ToldOK, SessionTypeOK, ThreadTypeOK, SharedTypeOK
  <2>7. MediaOK'
    BY <1>10, SessionAssumption DEF StartReply, Free, Release, IsLast,
      MediaOK, MediaAlive, StartsAt, PointersOK, LockOK, LiveOK, JoinedOK,
      SessionTypeOK, ThreadTypeOK
  <2>8. JoinedOK'
    BY <1>10, SessionAssumption DEF StartReply, Free, Release, IsLast,
      JoinedOK, PointersOK, LockOK, MediaOK, StartsAt, LiveOK, SessionTypeOK,
      ThreadTypeOK
  <2>9. RefOK'
    BY <1>10, SessionAssumption DEF StartReply, Free, Release, IsLast, RefOK,
      StartsAt, PointersOK, LockOK, LiveOK, MediaOK, JoinedOK, SessionTypeOK,
      ThreadTypeOK, SharedTypeOK
  <2>10. BcastOK'
    <3>1. CASE local \in slots
      BY <1>10, <3>1, SessionAssumption
      DEF StartReply, BcastOK, PointersOK, ThreadTypeOK
    <3>2. CASE local \notin slots
      <4>1. <<local, "self">> \in bref
        BY <1>10 DEF StartReply, PointersOK, ThreadTypeOK, RefOK, LiveOK,
          StartsAt
      <4>2. bstate = "up" /\ ctl # "off"
        BY <4>1 DEF BcastOK
      <4>3. CASE IsLast(local)
        BY <1>10, <3>2, <4>2, <4>3, SessionAssumption
        DEF StartReply, Free, Release, IsLast, BcastOK, ThreadTypeOK
      <4>4. CASE ~IsLast(local)
        BY <1>10, <3>2, <4>1, <4>2, <4>4, SessionAssumption
        DEF StartReply, Free, Release, IsLast, BcastOK, ThreadTypeOK
      <4> QED
        BY <4>3, <4>4
    <3> QED
      BY <3>1, <3>2
  <2>11. CtlOK'
    BY <1>10, SessionAssumption DEF StartReply, Free, Release, IsLast, CtlOK,
      ListLocked, PointersOK, LockOK, LiveOK, StartsAt, BcastOK, RefOK,
      JoinedOK, SharedTypeOK, ThreadTypeOK, SessionTypeOK
  <2>12. HostTypeOK'
    BY <1>10 DEF StartReply, Free, Release, IsLast, HostTypeOK
  <2>13. ToldOK'
    BY <1>10, SessionAssumption DEF StartReply, Free, Release, IsLast, ToldOK,
      Telling, PointersOK, LockOK, LiveOK, StartsAt, SessionTypeOK,
      ThreadTypeOK, SharedTypeOK
  <2> QED
    BY <2>1, <2>2, <2>3, <2>4, <2>5, <2>6, <2>7, <2>8, <2>9, <2>10, <2>11,
      <2>12, <2>13
  DEF IInv, TypeOK
<1>11. ASSUME StartEnding
      PROVE  IInv'
  <2>1. SharedTypeOK'
    BY <1>11, SessionAssumption DEF StartEnding, EndBroadcast, SharedTypeOK,
      PointersOK, ThreadTypeOK, Holders, CtlPC
  <2>2. ThreadTypeOK'
    BY <1>11, SessionAssumption DEF StartEnding, EndBroadcast, ThreadTypeOK,
      SharedTypeOK
  <2>3. PointersOK'
    BY <1>11, SessionAssumption DEF StartEnding, EndBroadcast, PointersOK,
      LockOK, BcastOK, ThreadTypeOK, SharedTypeOK
  <2>4. LockOK'
    BY <1>11, SessionAssumption DEF StartEnding, EndBroadcast, LockOK,
      PointersOK, ThreadTypeOK, SharedTypeOK
  <2>5. LiveOK'
    BY <1>11, SessionAssumption DEF StartEnding, EndBroadcast, LiveOK,
      StartsAt, PointersOK, LockOK, MediaOK, MediaAlive, JoinedOK, RefOK,
      CtlOK, ToldOK, SessionTypeOK, ThreadTypeOK, SharedTypeOK
  <2>6. MediaOK'
    BY <1>11, SessionAssumption DEF StartEnding, EndBroadcast, MediaOK,
      MediaAlive, StartsAt, PointersOK, LockOK, LiveOK, JoinedOK,
      SessionTypeOK, ThreadTypeOK
  <2>7. JoinedOK'
    BY <1>11, SessionAssumption DEF StartEnding, EndBroadcast, JoinedOK,
      PointersOK, LockOK, MediaOK, StartsAt, LiveOK, SessionTypeOK,
      ThreadTypeOK
  <2>8. RefOK'
    BY <1>11, SessionAssumption DEF StartEnding, EndBroadcast, RefOK,
      StartsAt, PointersOK, LockOK, LiveOK, MediaOK, JoinedOK, SessionTypeOK,
      ThreadTypeOK, SharedTypeOK
  <2>9. BcastOK'
    BY <1>11, SessionAssumption DEF StartEnding, EndBroadcast, BcastOK,
      PointersOK, LockOK, RefOK, LiveOK, StartsAt, SharedTypeOK, ThreadTypeOK,
      CtlOK, ListLocked
  <2>10. CtlOK'
    BY <1>11, SessionAssumption DEF StartEnding, EndBroadcast, CtlOK,
      ListLocked, PointersOK, LockOK, LiveOK, StartsAt, BcastOK, RefOK,
      JoinedOK, SharedTypeOK, ThreadTypeOK, SessionTypeOK
  <2>11. SessionTypeOK' /\ HostTypeOK'
    BY <1>11 DEF StartEnding, EndBroadcast, SessionTypeOK, HostTypeOK
  <2>12. ToldOK'
    BY <1>11, SessionAssumption DEF StartEnding, EndBroadcast, ToldOK,
      Telling, PointersOK, LockOK, LiveOK, StartsAt, SessionTypeOK,
      ThreadTypeOK, SharedTypeOK
  <2> QED
    BY <2>1, <2>2, <2>3, <2>4, <2>5, <2>6, <2>7, <2>8, <2>9, <2>10, <2>11,
      <2>12 DEF
  IInv, TypeOK
<1>12. ASSUME NEW t \in Threads, NEW a \in BOOLEAN, BeginClear(t, a)
      PROVE  IInv'
  <2>1. SharedTypeOK'
    BY <1>12, SessionAssumption DEF BeginClear, SlotsFree, SharedTypeOK,
      PointersOK, ThreadTypeOK, Holders, CtlPC
  <2>2. ThreadTypeOK'
    BY <1>12, SessionAssumption DEF BeginClear, SlotsFree, ThreadTypeOK,
      SharedTypeOK
  <2>3. PointersOK'
    BY <1>12, SessionAssumption DEF BeginClear, SlotsFree, PointersOK, LockOK,
      BcastOK, ThreadTypeOK, SharedTypeOK
  <2>4. LockOK'
    BY <1>12, SessionAssumption DEF BeginClear, SlotsFree, LockOK, PointersOK,
      ThreadTypeOK, SharedTypeOK
  <2>5. LiveOK'
    BY <1>12, SessionAssumption DEF BeginClear, SlotsFree, LiveOK, StartsAt,
      PointersOK, LockOK, MediaOK, MediaAlive, JoinedOK, RefOK, CtlOK, ToldOK,
      SessionTypeOK, ThreadTypeOK, SharedTypeOK
  <2>6. MediaOK'
    BY <1>12, SessionAssumption DEF BeginClear, SlotsFree, MediaOK,
      MediaAlive, StartsAt, PointersOK, LockOK, LiveOK, JoinedOK,
      SessionTypeOK, ThreadTypeOK
  <2>7. JoinedOK'
    BY <1>12, SessionAssumption DEF BeginClear, SlotsFree, JoinedOK,
      PointersOK, LockOK, MediaOK, StartsAt, LiveOK, SessionTypeOK,
      ThreadTypeOK
  <2>8. RefOK'
    BY <1>12, SessionAssumption DEF BeginClear, SlotsFree, RefOK, StartsAt,
      PointersOK, LockOK, LiveOK, MediaOK, JoinedOK, SessionTypeOK,
      ThreadTypeOK, SharedTypeOK
  <2>9. BcastOK'
    BY <1>12, SessionAssumption DEF BeginClear, SlotsFree, BcastOK,
      PointersOK, LockOK, RefOK, LiveOK, StartsAt, SharedTypeOK, ThreadTypeOK,
      CtlOK, ListLocked
  <2>10. SessionTypeOK' /\ HostTypeOK' /\ CtlOK'
    BY <1>12 DEF BeginClear, SlotsFree, SessionTypeOK, HostTypeOK, CtlOK,
      ListLocked
  <2>11. ToldOK'
    BY <1>12, SessionAssumption DEF BeginClear, SlotsFree, ToldOK, Telling,
      PointersOK, LockOK, LiveOK, StartsAt, SessionTypeOK, ThreadTypeOK,
      SharedTypeOK
  <2> QED
    BY <2>1, <2>2, <2>3, <2>4, <2>5, <2>6, <2>7, <2>8, <2>9, <2>10, <2>11 DEF
      IInv,
  TypeOK
<1>13. ASSUME NEW t \in Threads, NEW s \in Sessions, Skip(t, s)
      PROVE  IInv'
  <2>1. ThreadTypeOK'
    BY <1>13, SessionAssumption DEF Skip, ThreadTypeOK, SharedTypeOK
  <2>2. LockOK'
    BY <1>13, SessionAssumption DEF Skip, LockOK, PointersOK, ThreadTypeOK,
      SharedTypeOK
  <2>3. SessionTypeOK' /\ SharedTypeOK' /\ HostTypeOK' /\ PointersOK' /\
       LiveOK' /\ MediaOK' /\ JoinedOK' /\ RefOK' /\ BcastOK' /\ CtlOK'
    BY <1>13 DEF Skip, SessionTypeOK, SharedTypeOK, HostTypeOK, PointersOK,
      LiveOK, StartsAt, MediaOK, MediaAlive, JoinedOK, RefOK, BcastOK, CtlOK,
      ListLocked
  <2>4. ToldOK'
    BY <1>13, SessionAssumption DEF Skip, ToldOK, Telling, PointersOK, LockOK,
      LiveOK, StartsAt, SessionTypeOK, ThreadTypeOK, SharedTypeOK
  <2> QED
    BY <2>1, <2>2, <2>3, <2>4 DEF IInv, TypeOK
<1>14. ASSUME NEW t \in Threads, NEW s \in Sessions, StopSlot(t, s)
      PROVE  IInv'
  <2>1. SessionTypeOK'
    BY <1>14, SessionAssumption DEF StopSlot, Stop, WinsStop, SessionTypeOK,
      PointersOK,
      SharedTypeOK, ThreadTypeOK, ObjState, SessionState, MediaState
  <2>2. ThreadTypeOK'
    BY <1>14, SessionAssumption DEF StopSlot, Stop, WinsStop, ThreadTypeOK,
      SharedTypeOK
  <2>3. PointersOK'
    BY <1>14, SessionAssumption DEF StopSlot, Stop, WinsStop, PointersOK,
      LockOK,
      BcastOK, ThreadTypeOK, SharedTypeOK
  <2>4. LockOK'
    BY <1>14, SessionAssumption DEF StopSlot, Stop, WinsStop, LockOK,
      PointersOK,
      ThreadTypeOK, SharedTypeOK
  <2>5. LiveOK'
    BY <1>14, SessionAssumption DEF StopSlot, Stop, WinsStop, LiveOK, StartsAt,
      PointersOK, LockOK, MediaOK, MediaAlive, JoinedOK, RefOK, CtlOK, ToldOK,
      SessionTypeOK, ThreadTypeOK, SharedTypeOK
  <2>6. MediaOK'
    BY <1>14, SessionAssumption DEF StopSlot, Stop, WinsStop, MediaOK,
      MediaAlive,
      StartsAt, PointersOK, LockOK, LiveOK, JoinedOK, SessionTypeOK,
      ThreadTypeOK
  <2>7. JoinedOK'
    BY <1>14, SessionAssumption DEF StopSlot, Stop, WinsStop, JoinedOK,
      PointersOK,
      LockOK, MediaOK, StartsAt, LiveOK, SessionTypeOK, ThreadTypeOK
  <2>8. RefOK'
    BY <1>14, SessionAssumption DEF StopSlot, Stop, WinsStop, RefOK, StartsAt,
      PointersOK, LockOK, LiveOK, MediaOK, JoinedOK, SessionTypeOK,
      ThreadTypeOK, SharedTypeOK
  <2>9. BcastOK'
    BY <1>14, SessionAssumption DEF StopSlot, Stop, WinsStop, BcastOK,
      PointersOK,
      LockOK, RefOK, LiveOK, StartsAt, SharedTypeOK, ThreadTypeOK, CtlOK,
      ListLocked
  <2>10. ToldOK'
    BY <1>14, SessionAssumption DEF StopSlot, Stop, WinsStop, ToldOK, Telling,
      PointersOK, LockOK, MediaOK, MediaAlive,
      StartsAt, LiveOK, SessionTypeOK, ThreadTypeOK, SharedTypeOK
  <2>11. SharedTypeOK' /\ HostTypeOK' /\ CtlOK'
    BY <1>14 DEF StopSlot, Stop, WinsStop, SharedTypeOK, HostTypeOK, CtlOK,
      ListLocked
  <2> QED
    BY <2>1, <2>2, <2>3, <2>4, <2>5, <2>6, <2>7, <2>8, <2>9, <2>10, <2>11 DEF
  IInv, TypeOK
<1>15. ASSUME NEW t \in Threads, JoinThrows(t)
      PROVE  IInv'
  <2>1. SharedTypeOK'
    BY <1>15, SessionAssumption DEF JoinThrows, SharedTypeOK, PointersOK,
      ThreadTypeOK, Holders, CtlPC
  <2>2. ThreadTypeOK'
    BY <1>15, SessionAssumption DEF JoinThrows, ThreadTypeOK, SharedTypeOK
  <2>3. PointersOK'
    BY <1>15, SessionAssumption DEF JoinThrows, PointersOK, LockOK, BcastOK,
      ThreadTypeOK, SharedTypeOK
  <2>4. LockOK'
    BY <1>15, SessionAssumption DEF JoinThrows, LockOK, PointersOK,
      ThreadTypeOK, SharedTypeOK
  <2>5. LiveOK'
    BY <1>15, SessionAssumption DEF JoinThrows, LiveOK, StartsAt, PointersOK,
      LockOK, MediaOK, MediaAlive, JoinedOK, RefOK, CtlOK, ToldOK,
      SessionTypeOK, ThreadTypeOK, SharedTypeOK
  <2>6. MediaOK'
    BY <1>15, SessionAssumption DEF JoinThrows, MediaOK, MediaAlive, StartsAt,
      PointersOK, LockOK, LiveOK, JoinedOK, SessionTypeOK, ThreadTypeOK
  <2>7. JoinedOK'
    BY <1>15, SessionAssumption DEF JoinThrows, JoinedOK, PointersOK, LockOK,
      MediaOK, StartsAt, LiveOK, SessionTypeOK, ThreadTypeOK
  <2>8. RefOK'
    BY <1>15, SessionAssumption DEF JoinThrows, RefOK, StartsAt, PointersOK,
      LockOK, LiveOK, MediaOK, JoinedOK, SessionTypeOK, ThreadTypeOK,
      SharedTypeOK
  <2>9. BcastOK'
    BY <1>15, SessionAssumption DEF JoinThrows, BcastOK, PointersOK, LockOK,
      RefOK, LiveOK, StartsAt, SharedTypeOK, ThreadTypeOK, CtlOK, ListLocked
  <2>10. SessionTypeOK' /\ HostTypeOK' /\ CtlOK'
    BY <1>15 DEF JoinThrows, SessionTypeOK, HostTypeOK, CtlOK, ListLocked
  <2>11. ToldOK'
    BY <1>15, SessionAssumption DEF JoinThrows, ToldOK, Telling, PointersOK,
      LockOK, LiveOK, StartsAt, SessionTypeOK, ThreadTypeOK, SharedTypeOK
  <2> QED
    BY <2>1, <2>2, <2>3, <2>4, <2>5, <2>6, <2>7, <2>8, <2>9, <2>10, <2>11 DEF
      IInv,
  TypeOK
<1>16. ASSUME NEW t \in Threads, Join(t)
      PROVE  IInv'
  <2>1. ThreadTypeOK'
    BY <1>16, SessionAssumption DEF Join, Joinable, OneLess, ThreadTypeOK,
      SharedTypeOK
  <2>2. HostTypeOK'
    BY <1>16, SessionAssumption DEF Join, Joinable, OneLess, HostTypeOK
  <2>3. PointersOK'
    BY <1>16, SessionAssumption DEF Join, Joinable, OneLess, PointersOK,
      LockOK, BcastOK, ThreadTypeOK, SharedTypeOK
  <2>4. LockOK'
    BY <1>16, SessionAssumption DEF Join, Joinable, OneLess, LockOK,
      PointersOK, ThreadTypeOK, SharedTypeOK
  <2>5. LiveOK'
    BY <1>16, SessionAssumption DEF Join, Joinable, OneLess, LiveOK, StartsAt,
      PointersOK, LockOK, MediaOK, MediaAlive, JoinedOK, RefOK, CtlOK, ToldOK,
      SessionTypeOK, ThreadTypeOK, SharedTypeOK
  <2>6. MediaOK'
    BY <1>16, SessionAssumption DEF Join, Joinable, OneLess, MediaOK,
      MediaAlive, StartsAt, PointersOK, LockOK, LiveOK, JoinedOK,
      SessionTypeOK, ThreadTypeOK
  <2>7. JoinedOK'
    <3>1. cur[t] \in controlEnd /\ \A m \in Media : media[cur[t]][m] = "done"
      BY <1>16 DEF Join, Joinable
    <3>2. cur[t] \in Sessions
      BY <3>1 DEF SessionTypeOK
    <3>3. \A u \in Threads : pc[u] # "tell"
      BY <1>16 DEF Join, LockOK
    <3>4. exam # cur[t] \/ ctl \notin {"tell", "hangup"}
      BY <3>1, SessionAssumption DEF CtlOK, PointersOK
    <3>5. cur[t] \in shutdownEv
      BY <3>1, <3>2, <3>3, <3>4 DEF ToldOK, Telling
    <3> QED
      BY <1>16, <3>1, <3>5 DEF Join, JoinedOK, ThreadTypeOK
  <2>8. RefOK'
    BY <1>16, SessionAssumption DEF Join, Joinable, OneLess, RefOK, StartsAt,
      PointersOK, LockOK, LiveOK, MediaOK, JoinedOK, SessionTypeOK,
      ThreadTypeOK, SharedTypeOK
  <2>9. BcastOK'
    BY <1>16, SessionAssumption DEF Join, Joinable, OneLess, BcastOK,
      PointersOK, LockOK, RefOK, LiveOK, StartsAt, SharedTypeOK, ThreadTypeOK,
      CtlOK, ListLocked
  <2>10. SessionTypeOK' /\ SharedTypeOK' /\ CtlOK'
    BY <1>16 DEF Join, Joinable, OneLess, SessionTypeOK, SharedTypeOK, CtlOK,
      ListLocked
  <2>11. ToldOK'
    <3>1. \A r \in Sessions :
            (state[r] = "STOPPING" \/ r \in controlEnd =>
              r \in shutdownEv \/ Telling(r))'
      BY <1>16, SessionAssumption DEF Join, ToldOK, Telling, PointersOK,
        LockOK,
        SessionTypeOK, ThreadTypeOK, SharedTypeOK
    <3>2. (\A u \in Threads : pc[u] = "tell" => state[cur[u]] = "STOPPING")'
      BY <1>16, SessionAssumption DEF Join, ToldOK, PointersOK, LockOK,
        SessionTypeOK, ThreadTypeOK, SharedTypeOK
    <3> QED
      BY <3>1, <3>2 DEF ToldOK

  <2> QED
    BY <2>1, <2>2, <2>3, <2>4, <2>5, <2>6, <2>7, <2>8, <2>9, <2>10, <2>11 DEF
      IInv,
  TypeOK
<1>17. ASSUME NEW t \in Threads, StopCallback(t)
      PROVE  IInv'
  <2>1. ThreadTypeOK'
    BY <1>17, SessionAssumption DEF StopCallback, ThreadTypeOK, SharedTypeOK
  <2>2. HostTypeOK'
    BY <1>17, SessionAssumption DEF StopCallback, HostTypeOK
  <2>3. PointersOK'
    BY <1>17, SessionAssumption DEF StopCallback, PointersOK, LockOK, BcastOK,
      ThreadTypeOK, SharedTypeOK
  <2>4. LockOK'
    BY <1>17, SessionAssumption DEF StopCallback, LockOK, PointersOK,
      ThreadTypeOK, SharedTypeOK
  <2>5. LiveOK'
    BY <1>17, SessionAssumption DEF StopCallback, LiveOK, StartsAt,
      PointersOK, LockOK, MediaOK, MediaAlive, JoinedOK, RefOK, CtlOK, ToldOK,
      SessionTypeOK, ThreadTypeOK, SharedTypeOK
  <2>6. MediaOK'
    BY <1>17, SessionAssumption DEF StopCallback, MediaOK, MediaAlive,
      StartsAt, PointersOK, LockOK, LiveOK, JoinedOK, SessionTypeOK,
      ThreadTypeOK
  <2>7. JoinedOK'
    BY <1>17, SessionAssumption DEF StopCallback, JoinedOK, PointersOK,
      LockOK, MediaOK, StartsAt, LiveOK, SessionTypeOK, ThreadTypeOK
  <2>8. RefOK'
    BY <1>17, SessionAssumption DEF StopCallback, RefOK, StartsAt, PointersOK,
      LockOK, LiveOK, MediaOK, JoinedOK, SessionTypeOK, ThreadTypeOK,
      SharedTypeOK
  <2>9. BcastOK'
    BY <1>17, SessionAssumption DEF StopCallback, BcastOK, PointersOK, LockOK,
      RefOK, LiveOK, StartsAt, SharedTypeOK, ThreadTypeOK, CtlOK, ListLocked
  <2>10. SessionTypeOK' /\ SharedTypeOK' /\ CtlOK'
    BY <1>17 DEF StopCallback, SessionTypeOK, SharedTypeOK, CtlOK, ListLocked
  <2>11. ToldOK'
    BY <1>17, SessionAssumption DEF StopCallback, ToldOK, Telling, PointersOK,
      LockOK, LiveOK, StartsAt, SessionTypeOK, ThreadTypeOK, SharedTypeOK
  <2> QED
    BY <2>1, <2>2, <2>3, <2>4, <2>5, <2>6, <2>7, <2>8, <2>9, <2>10, <2>11 DEF
      IInv,
  TypeOK
<1>18. ASSUME NEW t \in Threads, Erase(t)
      PROVE  IInv'
  <2>1. SessionTypeOK'
    BY <1>18, SessionAssumption DEF Erase, Free, Release, IsLast,
      SessionTypeOK, PointersOK, SharedTypeOK, ThreadTypeOK, ObjState,
      SessionState, MediaState
  <2>2. SharedTypeOK'
    BY <1>18, SessionAssumption DEF Erase, Free, Release, IsLast,
      SharedTypeOK, PointersOK, ThreadTypeOK, Holders, CtlPC
  <2>3. ThreadTypeOK'
    BY <1>18, SessionAssumption DEF Erase, Free, Release, IsLast,
      ThreadTypeOK, SharedTypeOK
  <2>4. PointersOK'
    BY <1>18, SessionAssumption DEF Erase, Free, Release, IsLast, PointersOK,
      LockOK, BcastOK, ThreadTypeOK, SharedTypeOK
  <2>5. LockOK'
    BY <1>18, SessionAssumption DEF Erase, Free, Release, IsLast, LockOK,
      PointersOK, ThreadTypeOK, SharedTypeOK
  <2>6. LiveOK'
    BY <1>18, SessionAssumption DEF Erase, Free, Release, IsLast, LiveOK,
      StartsAt, PointersOK, LockOK, MediaOK, MediaAlive, JoinedOK, RefOK,
      CtlOK, ToldOK, SessionTypeOK, ThreadTypeOK, SharedTypeOK
  <2>7. MediaOK'
    BY <1>18, SessionAssumption DEF Erase, Free, Release, IsLast, MediaOK,
      MediaAlive, StartsAt, PointersOK, LockOK, LiveOK, JoinedOK,
      SessionTypeOK, ThreadTypeOK
  <2>8. JoinedOK'
    BY <1>18, SessionAssumption DEF Erase, Free, Release, IsLast, JoinedOK,
      PointersOK, LockOK, MediaOK, StartsAt, LiveOK, SessionTypeOK,
      ThreadTypeOK
  <2>9. RefOK'
    BY <1>18, SessionAssumption DEF Erase, Free, Release, IsLast, RefOK,
      StartsAt, PointersOK, LockOK, LiveOK, MediaOK, JoinedOK, SessionTypeOK,
      ThreadTypeOK, SharedTypeOK
  <2>10. BcastOK'
    <3>1. CASE local = cur[t]
      BY <1>18, <3>1 DEF Erase, BcastOK, ThreadTypeOK
    <3>2. CASE local # cur[t]
      <4>1. cur[t] \in Sessions /\ obj[cur[t]] = "live"
        BY <1>18 DEF Erase, PointersOK, ThreadTypeOK, LockOK, LiveOK
      <4>2. <<cur[t], "self">> \in bref
        BY <1>18, <3>2, <4>1 DEF Erase, RefOK, StartsAt
      <4>3. bstate = "up" /\ ctl # "off"
        BY <4>2 DEF BcastOK
      <4>4. CASE IsLast(cur[t])
        BY <1>18, <3>2, <4>3, <4>4
        DEF Erase, Free, Release, IsLast, BcastOK, ThreadTypeOK
      <4>5. CASE ~IsLast(cur[t])
        BY <1>18, <3>2, <4>2, <4>3, <4>5
        DEF Erase, Free, Release, IsLast, BcastOK, ThreadTypeOK
      <4> QED
        BY <4>4, <4>5
    <3> QED
      BY <3>1, <3>2
  <2>11. CtlOK'
    BY <1>18, SessionAssumption DEF Erase, Free, Release, IsLast, CtlOK,
      ListLocked, PointersOK, LockOK, LiveOK, StartsAt, BcastOK, RefOK,
      JoinedOK, SharedTypeOK, ThreadTypeOK, SessionTypeOK
  <2>12. HostTypeOK'
    BY <1>18 DEF Erase, Free, Release, IsLast, HostTypeOK
  <2>13. ToldOK'
    <3>1. UNCHANGED <<state, media, controlEnd, shutdownEv, ctl, exam>>
      BY <1>18 DEF Erase
    <3>2. \A u \in Threads : pc[u] # "tell" /\ pc'[u] # "tell"
      BY <1>18 DEF Erase, LockOK, ThreadTypeOK
    <3> QED
      BY <3>1, <3>2 DEF ToldOK, Telling
  <2> QED
    BY <2>1, <2>2, <2>3, <2>4, <2>5, <2>6, <2>7, <2>8, <2>9, <2>10, <2>11,
      <2>12, <2>13
  DEF IInv, TypeOK
<1>19. ASSUME NEW t \in Threads, Ending(t)
      PROVE  IInv'
  <2>1. SharedTypeOK'
    BY <1>19, SessionAssumption DEF Ending, EndBroadcast, SharedTypeOK,
      PointersOK, ThreadTypeOK, Holders, CtlPC
  <2>2. ThreadTypeOK'
    BY <1>19, SessionAssumption DEF Ending, EndBroadcast, ThreadTypeOK,
      SharedTypeOK
  <2>3. PointersOK'
    BY <1>19, SessionAssumption DEF Ending, EndBroadcast, PointersOK, LockOK,
      BcastOK, ThreadTypeOK, SharedTypeOK
  <2>4. LockOK'
    BY <1>19, SessionAssumption DEF Ending, EndBroadcast, LockOK, PointersOK,
      ThreadTypeOK, SharedTypeOK
  <2>5. LiveOK'
    BY <1>19, SessionAssumption DEF Ending, EndBroadcast, LiveOK, StartsAt,
      PointersOK, LockOK, MediaOK, MediaAlive, JoinedOK, RefOK, CtlOK, ToldOK,
      SessionTypeOK, ThreadTypeOK, SharedTypeOK
  <2>6. MediaOK'
    BY <1>19, SessionAssumption DEF Ending, EndBroadcast, MediaOK, MediaAlive,
      StartsAt, PointersOK, LockOK, LiveOK, JoinedOK, SessionTypeOK,
      ThreadTypeOK
  <2>7. JoinedOK'
    BY <1>19, SessionAssumption DEF Ending, EndBroadcast, JoinedOK,
      PointersOK, LockOK, MediaOK, StartsAt, LiveOK, SessionTypeOK,
      ThreadTypeOK
  <2>8. RefOK'
    BY <1>19, SessionAssumption DEF Ending, EndBroadcast, RefOK, StartsAt,
      PointersOK, LockOK, LiveOK, MediaOK, JoinedOK, SessionTypeOK,
      ThreadTypeOK, SharedTypeOK
  <2>9. BcastOK'
    BY <1>19, SessionAssumption DEF Ending, EndBroadcast, BcastOK, PointersOK,
      LockOK, RefOK, LiveOK, StartsAt, SharedTypeOK, ThreadTypeOK, CtlOK,
      ListLocked
  <2>10. CtlOK'
    BY <1>19, SessionAssumption DEF Ending, EndBroadcast, CtlOK, ListLocked,
      PointersOK, LockOK, LiveOK, StartsAt, BcastOK, RefOK, JoinedOK,
      SharedTypeOK, ThreadTypeOK, SessionTypeOK
  <2>11. SessionTypeOK' /\ HostTypeOK'
    BY <1>19 DEF Ending, EndBroadcast, SessionTypeOK, HostTypeOK
  <2>12. ToldOK'
    BY <1>19, SessionAssumption DEF Ending, EndBroadcast, ToldOK, Telling,
      PointersOK, LockOK, LiveOK, StartsAt, SessionTypeOK, ThreadTypeOK,
      SharedTypeOK
  <2> QED
    BY <2>1, <2>2, <2>3, <2>4, <2>5, <2>6, <2>7, <2>8, <2>9, <2>10, <2>11,
      <2>12 DEF
  IInv, TypeOK
<1>20. ASSUME NEW t \in Threads, EndClear(t)
      PROVE  IInv'
  <2>1. SharedTypeOK'
    BY <1>20, SessionAssumption DEF EndClear, SharedTypeOK, PointersOK,
      ThreadTypeOK, Holders, CtlPC
  <2>2. ThreadTypeOK'
    BY <1>20, SessionAssumption DEF EndClear, ThreadTypeOK, SharedTypeOK
  <2>3. PointersOK'
    BY <1>20, SessionAssumption DEF EndClear, PointersOK, LockOK, BcastOK,
      ThreadTypeOK, SharedTypeOK
  <2>4. LockOK'
    BY <1>20, SessionAssumption DEF EndClear, LockOK, PointersOK,
      ThreadTypeOK, SharedTypeOK
  <2>5. LiveOK'
    BY <1>20, SessionAssumption DEF EndClear, LiveOK, StartsAt, PointersOK,
      LockOK, MediaOK, MediaAlive, JoinedOK, RefOK, CtlOK, ToldOK,
      SessionTypeOK, ThreadTypeOK, SharedTypeOK
  <2>6. MediaOK'
    BY <1>20, SessionAssumption DEF EndClear, MediaOK, MediaAlive, StartsAt,
      PointersOK, LockOK, LiveOK, JoinedOK, SessionTypeOK, ThreadTypeOK
  <2>7. JoinedOK'
    BY <1>20, SessionAssumption DEF EndClear, JoinedOK, PointersOK, LockOK,
      MediaOK, StartsAt, LiveOK, SessionTypeOK, ThreadTypeOK
  <2>8. RefOK'
    BY <1>20, SessionAssumption DEF EndClear, RefOK, StartsAt, PointersOK,
      LockOK, LiveOK, MediaOK, JoinedOK, SessionTypeOK, ThreadTypeOK,
      SharedTypeOK
  <2>9. BcastOK'
    BY <1>20, SessionAssumption DEF EndClear, BcastOK, PointersOK, LockOK,
      RefOK, LiveOK, StartsAt, SharedTypeOK, ThreadTypeOK, CtlOK, ListLocked
  <2>10. SessionTypeOK' /\ HostTypeOK' /\ CtlOK'
    BY <1>20 DEF EndClear, SessionTypeOK, HostTypeOK, CtlOK, ListLocked
  <2>11. ToldOK'
    BY <1>20, SessionAssumption DEF EndClear, ToldOK, Telling, PointersOK,
      LockOK, LiveOK, StartsAt, SessionTypeOK, ThreadTypeOK, SharedTypeOK
  <2> QED
    BY <2>1, <2>2, <2>3, <2>4, <2>5, <2>6, <2>7, <2>8, <2>9, <2>10, <2>11 DEF
      IInv,
  TypeOK
<1>21. ASSUME NEW s \in Sessions, NEW m \in Media, MediaRef(s, m)
      PROVE  IInv'
  <2>1. SessionTypeOK'
    BY <1>21, SessionAssumption DEF MediaRef, SessionTypeOK, PointersOK,
      SharedTypeOK, ThreadTypeOK, ObjState, SessionState, MediaState
  <2>2. SharedTypeOK'
    BY <1>21, SessionAssumption DEF MediaRef, SharedTypeOK, PointersOK,
      ThreadTypeOK, Holders, CtlPC
  <2>3. LiveOK'
    BY <1>21, SessionAssumption DEF MediaRef, LiveOK, StartsAt, PointersOK,
      LockOK, MediaOK, MediaAlive, JoinedOK, RefOK, CtlOK, ToldOK,
      SessionTypeOK, ThreadTypeOK, SharedTypeOK
  <2>4. MediaOK'
    BY <1>21, SessionAssumption DEF MediaRef, MediaOK, MediaAlive, StartsAt,
      PointersOK, LockOK, LiveOK, JoinedOK, SessionTypeOK, ThreadTypeOK
  <2>5. JoinedOK'
    BY <1>21, SessionAssumption DEF MediaRef, JoinedOK, PointersOK, LockOK,
      MediaOK, StartsAt, LiveOK, SessionTypeOK, ThreadTypeOK
  <2>6. RefOK'
    BY <1>21, SessionAssumption DEF MediaRef, RefOK, StartsAt, PointersOK,
      LockOK, LiveOK, MediaOK, JoinedOK, SessionTypeOK, ThreadTypeOK,
      SharedTypeOK
  <2>7. BcastOK'
    BY <1>21, SessionAssumption DEF MediaRef, BcastOK, PointersOK, LockOK,
      RefOK, LiveOK, StartsAt, SharedTypeOK, ThreadTypeOK, CtlOK, ListLocked
  <2>8. ThreadTypeOK' /\ HostTypeOK' /\ PointersOK' /\ LockOK' /\ CtlOK'
    BY <1>21 DEF MediaRef, ThreadTypeOK, HostTypeOK, PointersOK, LockOK,
      CtlOK, ListLocked
  <2>9. ToldOK'
    BY <1>21, SessionAssumption DEF MediaRef, ToldOK, Telling, PointersOK,
      LockOK, LiveOK, StartsAt, SessionTypeOK, ThreadTypeOK, SharedTypeOK
  <2> QED
    BY <2>1, <2>2, <2>3, <2>4, <2>5, <2>6, <2>7, <2>8, <2>9 DEF IInv, TypeOK
<1>22. ASSUME NEW s \in Sessions, NEW m \in Media, MediaPing(s, m)
      PROVE  IInv'
  <2>1. SessionTypeOK'
    BY <1>22, SessionAssumption DEF MediaPing, SessionTypeOK, PointersOK,
      SharedTypeOK, ThreadTypeOK, ObjState, SessionState, MediaState
  <2>2. LiveOK'
    BY <1>22, SessionAssumption DEF MediaPing, LiveOK, StartsAt, PointersOK,
      LockOK, MediaOK, MediaAlive, JoinedOK, RefOK, CtlOK, ToldOK,
      SessionTypeOK, ThreadTypeOK, SharedTypeOK
  <2>3. MediaOK'
    BY <1>22, SessionAssumption DEF MediaPing, MediaOK, MediaAlive, StartsAt,
      PointersOK, LockOK, LiveOK, JoinedOK, SessionTypeOK, ThreadTypeOK
  <2>4. JoinedOK'
    BY <1>22, SessionAssumption DEF MediaPing, JoinedOK, PointersOK, LockOK,
      MediaOK, StartsAt, LiveOK, SessionTypeOK, ThreadTypeOK
  <2>5. RefOK'
    BY <1>22, SessionAssumption DEF MediaPing, RefOK, StartsAt, PointersOK,
      LockOK, LiveOK, MediaOK, JoinedOK, SessionTypeOK, ThreadTypeOK,
      SharedTypeOK
  <2>6. SharedTypeOK' /\ ThreadTypeOK' /\ HostTypeOK' /\ PointersOK' /\
       LockOK' /\ BcastOK' /\ CtlOK'
    BY <1>22 DEF MediaPing, SharedTypeOK, ThreadTypeOK, HostTypeOK,
      PointersOK, LockOK, BcastOK, CtlOK, ListLocked
  <2>7. ToldOK'
    BY <1>22, SessionAssumption DEF MediaPing, ToldOK, Telling, PointersOK,
      LockOK, LiveOK, StartsAt, SessionTypeOK, ThreadTypeOK, SharedTypeOK
  <2> QED
    BY <2>1, <2>2, <2>3, <2>4, <2>5, <2>6, <2>7 DEF IInv, TypeOK
<1>23. ASSUME NEW s \in Sessions, NEW m \in Media, MediaPingTimeout(s, m)
      PROVE  IInv'
  <2>1. SessionTypeOK'
    BY <1>23, SessionAssumption DEF MediaPingTimeout, MediaReturn, Release,
      Stop, WinsStop, SessionTypeOK, PointersOK, SharedTypeOK, ThreadTypeOK, ObjState,
      SessionState, MediaState
  <2>2. SharedTypeOK'
    BY <1>23, SessionAssumption DEF MediaPingTimeout, MediaReturn, Release,
      Stop, WinsStop, SharedTypeOK, PointersOK, ThreadTypeOK, Holders, CtlPC
  <2>3. LiveOK'
    BY <1>23, SessionAssumption DEF MediaPingTimeout, MediaReturn, Release,
      Stop, WinsStop, LiveOK, StartsAt, PointersOK, LockOK, MediaOK, MediaAlive,
      JoinedOK, RefOK, CtlOK, ToldOK, SessionTypeOK, ThreadTypeOK,
      SharedTypeOK
  <2>4. MediaOK'
    BY <1>23, SessionAssumption DEF MediaPingTimeout, MediaReturn, Release,
      Stop, WinsStop, MediaOK, MediaAlive, StartsAt, PointersOK, LockOK, LiveOK,
      JoinedOK, SessionTypeOK, ThreadTypeOK
  <2>5. JoinedOK'
    BY <1>23, SessionAssumption DEF MediaPingTimeout, MediaReturn, Release,
      Stop, WinsStop, JoinedOK, PointersOK, LockOK, MediaOK, StartsAt, LiveOK,
      SessionTypeOK, ThreadTypeOK
  <2>6. RefOK'
    BY <1>23, SessionAssumption DEF MediaPingTimeout, MediaReturn, Release,
      Stop, WinsStop, RefOK, StartsAt, PointersOK, LockOK, LiveOK, MediaOK, JoinedOK,
      SessionTypeOK, ThreadTypeOK, SharedTypeOK
  <2>7. BcastOK'
    <3>1. <<s, "self">> \in bref /\ <<s, "self">> # <<s, m>>
      BY <1>23, SessionAssumption
      DEF MediaPingTimeout, MediaOK, MediaAlive, RefOK, StartsAt, SessionTypeOK,
          ObjState
    <3>2. bref # {<<s, m>>} /\ bref \ {<<s, m>>} # {} /\ bref # {}
      BY <3>1
    <3> QED
      BY <1>23, <3>2 DEF MediaPingTimeout, MediaReturn, Release, BcastOK
  <2>8. ToldOK'
    BY <1>23, SessionAssumption DEF MediaPingTimeout, MediaReturn, Release,
      Stop, WinsStop, ToldOK, Telling, PointersOK, LockOK, MediaOK, MediaAlive, StartsAt, LiveOK, SessionTypeOK, ThreadTypeOK,
      SharedTypeOK
  <2>9. ThreadTypeOK' /\ HostTypeOK' /\ PointersOK' /\ LockOK' /\ CtlOK'
    BY <1>23 DEF MediaPingTimeout, MediaReturn, Release, Stop, WinsStop,
      ThreadTypeOK,
      HostTypeOK, PointersOK, LockOK, CtlOK, ListLocked
  <2> QED
    BY <2>1, <2>2, <2>3, <2>4, <2>5, <2>6, <2>7, <2>8, <2>9 DEF IInv, TypeOK
<1>24. ASSUME NEW s \in Sessions, NEW m \in Media, MediaShutdown(s, m)
      PROVE  IInv'
  <2>1. SessionTypeOK'
    BY <1>24, SessionAssumption DEF MediaShutdown, MediaReturn, Release, Stop,
      WinsStop,
      SessionTypeOK, PointersOK, SharedTypeOK, ThreadTypeOK, ObjState,
      SessionState, MediaState
  <2>2. SharedTypeOK'
    BY <1>24, SessionAssumption DEF MediaShutdown, MediaReturn, Release, Stop,
      WinsStop,
      SharedTypeOK, PointersOK, ThreadTypeOK, Holders, CtlPC
  <2>3. LiveOK'
    BY <1>24, SessionAssumption DEF MediaShutdown, MediaReturn, Release, Stop,
      WinsStop,
      LiveOK, StartsAt, PointersOK, LockOK, MediaOK, MediaAlive, JoinedOK,
      RefOK, CtlOK, ToldOK, SessionTypeOK, ThreadTypeOK, SharedTypeOK
  <2>4. MediaOK'
    BY <1>24, SessionAssumption DEF MediaShutdown, MediaReturn, Release, Stop,
      WinsStop,
      MediaOK, MediaAlive, StartsAt, PointersOK, LockOK, LiveOK, JoinedOK,
      SessionTypeOK, ThreadTypeOK
  <2>5. JoinedOK'
    BY <1>24, SessionAssumption DEF MediaShutdown, MediaReturn, Release, Stop,
      WinsStop,
      JoinedOK, PointersOK, LockOK, MediaOK, StartsAt, LiveOK, SessionTypeOK,
      ThreadTypeOK
  <2>6. RefOK'
    BY <1>24, SessionAssumption DEF MediaShutdown, MediaReturn, Release, Stop,
      WinsStop,
      RefOK, StartsAt, PointersOK, LockOK, LiveOK, MediaOK, JoinedOK,
      SessionTypeOK, ThreadTypeOK, SharedTypeOK
  <2>7. BcastOK'
    <3>1. <<s, "self">> \in bref /\ <<s, "self">> # <<s, m>>
      BY <1>24, SessionAssumption
      DEF MediaShutdown, MediaOK, MediaAlive, RefOK, StartsAt, SessionTypeOK,
          ObjState
    <3>2. bref # {<<s, m>>} /\ bref \ {<<s, m>>} # {} /\ bref # {}
      BY <3>1
    <3> QED
      BY <1>24, <3>2 DEF MediaShutdown, MediaReturn, Release, BcastOK
  <2>8. ToldOK'
    BY <1>24, SessionAssumption DEF MediaShutdown, MediaReturn, Release, Stop,
      WinsStop,
      ToldOK, Telling, PointersOK, LockOK, MediaOK, MediaAlive, StartsAt, LiveOK, SessionTypeOK, ThreadTypeOK,
      SharedTypeOK
  <2>9. ThreadTypeOK' /\ HostTypeOK' /\ PointersOK' /\ LockOK' /\ CtlOK'
    BY <1>24 DEF MediaShutdown, MediaReturn, Release, Stop, WinsStop,
      ThreadTypeOK,
      HostTypeOK, PointersOK, LockOK, CtlOK, ListLocked
  <2> QED
    BY <2>1, <2>2, <2>3, <2>4, <2>5, <2>6, <2>7, <2>8, <2>9 DEF IInv, TypeOK
<1>25. ASSUME NEW s \in Sessions, NEW m \in Media, MediaFail(s, m)
      PROVE  IInv'
  <2>1. SessionTypeOK'
    BY <1>25, SessionAssumption DEF MediaFail, MediaReturn, Release, Stop,
      WinsStop,
      SessionTypeOK, PointersOK, SharedTypeOK, ThreadTypeOK, ObjState,
      SessionState, MediaState
  <2>2. SharedTypeOK'
    BY <1>25, SessionAssumption DEF MediaFail, MediaReturn, Release, Stop,
      WinsStop,
      SharedTypeOK, PointersOK, ThreadTypeOK, Holders, CtlPC
  <2>3. LiveOK'
    BY <1>25, SessionAssumption DEF MediaFail, MediaReturn, Release, Stop,
      WinsStop,
      LiveOK, StartsAt, PointersOK, LockOK, MediaOK, MediaAlive, JoinedOK,
      RefOK, CtlOK, ToldOK, SessionTypeOK, ThreadTypeOK, SharedTypeOK
  <2>4. MediaOK'
    BY <1>25, SessionAssumption DEF MediaFail, MediaReturn, Release, Stop,
      WinsStop,
      MediaOK, MediaAlive, StartsAt, PointersOK, LockOK, LiveOK, JoinedOK,
      SessionTypeOK, ThreadTypeOK
  <2>5. JoinedOK'
    BY <1>25, SessionAssumption DEF MediaFail, MediaReturn, Release, Stop,
      WinsStop,
      JoinedOK, PointersOK, LockOK, MediaOK, StartsAt, LiveOK, SessionTypeOK,
      ThreadTypeOK
  <2>6. RefOK'
    BY <1>25, SessionAssumption DEF MediaFail, MediaReturn, Release, Stop,
      WinsStop,
      RefOK, StartsAt, PointersOK, LockOK, LiveOK, MediaOK, JoinedOK,
      SessionTypeOK, ThreadTypeOK, SharedTypeOK
  <2>7. BcastOK'
    <3>1. <<s, "self">> \in bref /\ <<s, "self">> # <<s, m>>
      BY <1>25, SessionAssumption
      DEF MediaFail, MediaOK, MediaAlive, RefOK, StartsAt, SessionTypeOK,
          ObjState
    <3>2. bref # {<<s, m>>} /\ bref \ {<<s, m>>} # {} /\ bref # {}
      BY <3>1
    <3> QED
      BY <1>25, <3>2 DEF MediaFail, MediaReturn, Release, BcastOK
  <2>8. ToldOK'
    BY <1>25, SessionAssumption DEF MediaFail, MediaReturn, Release, Stop,
      WinsStop,
      ToldOK, Telling, PointersOK, LockOK, MediaOK, MediaAlive, StartsAt, LiveOK, SessionTypeOK, ThreadTypeOK,
      SharedTypeOK
  <2>9. ThreadTypeOK' /\ HostTypeOK' /\ PointersOK' /\ LockOK' /\ CtlOK'
    BY <1>25 DEF MediaFail, MediaReturn, Release, Stop, WinsStop, ThreadTypeOK,
      HostTypeOK, PointersOK, LockOK, CtlOK, ListLocked
  <2> QED
    BY <2>1, <2>2, <2>3, <2>4, <2>5, <2>6, <2>7, <2>8, <2>9 DEF IInv, TypeOK
<1>26. ASSUME CtlTop
      PROVE  IInv'
  <2>1. SharedTypeOK'
    BY <1>26, SessionAssumption DEF CtlTop, ShuttingDown, SharedTypeOK,
      PointersOK, ThreadTypeOK, Holders, CtlPC
  <2>2. PointersOK'
    BY <1>26, SessionAssumption DEF CtlTop, ShuttingDown, PointersOK, LockOK,
      BcastOK, ThreadTypeOK, SharedTypeOK
  <2>3. BcastOK'
    BY <1>26, SessionAssumption DEF CtlTop, ShuttingDown, BcastOK, PointersOK,
      LockOK, RefOK, LiveOK, StartsAt, SharedTypeOK, ThreadTypeOK, CtlOK,
      ListLocked
  <2>4. CtlOK'
    BY <1>26, SessionAssumption DEF CtlTop, ShuttingDown, CtlOK, ListLocked,
      PointersOK, LockOK, LiveOK, StartsAt, BcastOK, RefOK, JoinedOK,
      SharedTypeOK, ThreadTypeOK, SessionTypeOK
  <2>5. SessionTypeOK' /\ ThreadTypeOK' /\ HostTypeOK' /\ LockOK' /\
       LiveOK' /\ MediaOK' /\ JoinedOK' /\ RefOK'
    BY <1>26 DEF CtlTop, ShuttingDown, SessionTypeOK, ThreadTypeOK,
      HostTypeOK, LockOK, LiveOK, StartsAt, MediaOK, MediaAlive, JoinedOK,
      RefOK
  <2>6. ToldOK'
    BY <1>26, SessionAssumption DEF CtlTop, ShuttingDown, ToldOK, Telling,
      PointersOK, LockOK, LiveOK, StartsAt, SessionTypeOK, ThreadTypeOK,
      SharedTypeOK
  <2> QED
    BY <2>1, <2>2, <2>3, <2>4, <2>5, <2>6 DEF IInv, TypeOK
<1>27. ASSUME NEW s \in Sessions, CtlExamine(s)
      PROVE  IInv'
  <2>1. SharedTypeOK'
    BY <1>27, SessionAssumption DEF CtlExamine, PastDeadline, SharedTypeOK,
      PointersOK, ThreadTypeOK, Holders, CtlPC
  <2>2. PointersOK'
    BY <1>27, SessionAssumption DEF CtlExamine, PastDeadline, PointersOK,
      LockOK, BcastOK, ThreadTypeOK, SharedTypeOK
  <2>3. BcastOK'
    BY <1>27, SessionAssumption DEF CtlExamine, PastDeadline, BcastOK,
      PointersOK, LockOK, RefOK, LiveOK, StartsAt, SharedTypeOK, ThreadTypeOK,
      CtlOK, ListLocked
  <2>4. CtlOK'
    BY <1>27, SessionAssumption DEF CtlExamine, PastDeadline, CtlOK,
      ListLocked, PointersOK, LockOK, LiveOK, StartsAt, BcastOK, RefOK,
      JoinedOK, SharedTypeOK, ThreadTypeOK, SessionTypeOK
  <2>5. SessionTypeOK' /\ ThreadTypeOK' /\ HostTypeOK' /\ LockOK' /\
       LiveOK' /\ MediaOK' /\ JoinedOK' /\ RefOK'
    BY <1>27 DEF CtlExamine, PastDeadline, SessionTypeOK, ThreadTypeOK,
      HostTypeOK, LockOK, LiveOK, StartsAt, MediaOK, MediaAlive, JoinedOK,
      RefOK
  <2>6. ToldOK'
    BY <1>27, SessionAssumption DEF CtlExamine, PastDeadline, ToldOK, Telling,
      PointersOK, LockOK, LiveOK, StartsAt, SessionTypeOK, ThreadTypeOK,
      SharedTypeOK
  <2> QED
    BY <2>1, <2>2, <2>3, <2>4, <2>5, <2>6 DEF IInv, TypeOK
<1>28. ASSUME CtlTimeout
      PROVE  IInv'
  <2>1. SessionTypeOK'
    BY <1>28, SessionAssumption DEF CtlTimeout, Stop, WinsStop, SessionTypeOK,
      PointersOK, SharedTypeOK, ThreadTypeOK, ObjState, SessionState,
      MediaState
  <2>2. SharedTypeOK'
    BY <1>28, SessionAssumption DEF CtlTimeout, Stop, WinsStop, SharedTypeOK,
      PointersOK, ThreadTypeOK, Holders, CtlPC
  <2>3. PointersOK'
    BY <1>28, SessionAssumption DEF CtlTimeout, Stop, WinsStop, PointersOK,
      LockOK,
      BcastOK, ThreadTypeOK, SharedTypeOK
  <2>4. LiveOK'
    BY <1>28, SessionAssumption DEF CtlTimeout, Stop, WinsStop, LiveOK,
      StartsAt,
      PointersOK, LockOK, MediaOK, MediaAlive, JoinedOK, RefOK, CtlOK, ToldOK,
      SessionTypeOK, ThreadTypeOK, SharedTypeOK
  <2>5. BcastOK'
    BY <1>28, SessionAssumption DEF CtlTimeout, Stop, WinsStop, BcastOK,
      PointersOK,
      LockOK, RefOK, LiveOK, StartsAt, SharedTypeOK, ThreadTypeOK, CtlOK,
      ListLocked
  <2>6. CtlOK'
    BY <1>28, SessionAssumption DEF CtlTimeout, Stop, WinsStop, CtlOK,
      ListLocked,
      PointersOK, LockOK, LiveOK, StartsAt, BcastOK, RefOK, JoinedOK,
      SharedTypeOK, ThreadTypeOK, SessionTypeOK
  <2>7. ToldOK'
    <3>1. \A r \in Sessions :
            (state[r] = "STOPPING" \/ r \in controlEnd =>
              r \in shutdownEv \/ Telling(r))'
      BY <1>28, SessionAssumption DEF CtlTimeout, Stop, WinsStop, ToldOK,
        Telling, PointersOK, LockOK,
        SessionTypeOK, ThreadTypeOK, SharedTypeOK
    <3>2. (\A u \in Threads : pc[u] = "tell" => state[cur[u]] = "STOPPING")'
      BY <1>28, SessionAssumption DEF CtlTimeout, Stop, WinsStop, ToldOK,
        PointersOK, LockOK,
        SessionTypeOK, ThreadTypeOK, SharedTypeOK
    <3> QED
      BY <3>1, <3>2 DEF ToldOK

  <2>8. ThreadTypeOK' /\ HostTypeOK' /\ LockOK' /\ MediaOK' /\ JoinedOK'
       /\ RefOK'
    BY <1>28 DEF CtlTimeout, Stop, WinsStop, ThreadTypeOK, HostTypeOK, LockOK,
      MediaOK,
      MediaAlive, StartsAt, JoinedOK, RefOK
  <2> QED
    BY <2>1, <2>2, <2>3, <2>4, <2>5, <2>6, <2>7, <2>8 DEF IInv, TypeOK
<1>29. ASSUME CtlCheck
      PROVE  IInv'
  <2>1. SessionTypeOK'
    BY <1>29, SessionAssumption DEF CtlCheck, EndControl, SessionTypeOK,
      PointersOK, SharedTypeOK, ThreadTypeOK, ObjState, SessionState,
      MediaState
  <2>2. SharedTypeOK'
    BY <1>29, SessionAssumption DEF CtlCheck, EndControl, SharedTypeOK,
      PointersOK, ThreadTypeOK, Holders, CtlPC
  <2>3. PointersOK'
    BY <1>29, SessionAssumption DEF CtlCheck, EndControl, PointersOK, LockOK,
      BcastOK, ThreadTypeOK, SharedTypeOK
  <2>4. LiveOK'
    BY <1>29, SessionAssumption DEF CtlCheck, EndControl, LiveOK, StartsAt,
      PointersOK, LockOK, MediaOK, MediaAlive, JoinedOK, RefOK, CtlOK, ToldOK,
      SessionTypeOK, ThreadTypeOK, SharedTypeOK
  <2>5. JoinedOK'
    BY <1>29, SessionAssumption DEF CtlCheck, EndControl, JoinedOK,
      PointersOK, LockOK, MediaOK, StartsAt, LiveOK, SessionTypeOK,
      ThreadTypeOK
  <2>6. BcastOK'
    BY <1>29, SessionAssumption DEF CtlCheck, EndControl, BcastOK, PointersOK,
      LockOK, RefOK, LiveOK, StartsAt, SharedTypeOK, ThreadTypeOK, CtlOK,
      ListLocked
  <2>7. CtlOK'
    BY <1>29, SessionAssumption DEF CtlCheck, EndControl, CtlOK, ListLocked,
      PointersOK, LockOK, LiveOK, StartsAt, BcastOK, RefOK, JoinedOK,
      SharedTypeOK, ThreadTypeOK, SessionTypeOK
  <2>8. ToldOK'
    BY <1>29, SessionAssumption DEF CtlCheck, EndControl, ToldOK, Telling,
      PointersOK, LockOK, MediaOK, MediaAlive,
      StartsAt, LiveOK, SessionTypeOK, ThreadTypeOK, SharedTypeOK
  <2>9. ThreadTypeOK' /\ HostTypeOK' /\ LockOK' /\ MediaOK' /\ RefOK'
    BY <1>29 DEF CtlCheck, EndControl, ThreadTypeOK, HostTypeOK, LockOK,
      MediaOK, MediaAlive, StartsAt, RefOK
  <2> QED
    BY <2>1, <2>2, <2>3, <2>4, <2>5, <2>6, <2>7, <2>8, <2>9 DEF IInv, TypeOK
<1>30. ASSUME CtlPassDone
      PROVE  IInv'
  <2>1. SharedTypeOK'
    BY <1>30, SessionAssumption DEF CtlPassDone, SharedTypeOK, PointersOK,
      ThreadTypeOK, Holders, CtlPC
  <2>2. PointersOK'
    BY <1>30, SessionAssumption DEF CtlPassDone, PointersOK, LockOK, BcastOK,
      ThreadTypeOK, SharedTypeOK
  <2>3. BcastOK'
    BY <1>30, SessionAssumption DEF CtlPassDone, BcastOK, PointersOK, LockOK,
      RefOK, LiveOK, StartsAt, SharedTypeOK, ThreadTypeOK, CtlOK, ListLocked
  <2>4. CtlOK'
    BY <1>30, SessionAssumption DEF CtlPassDone, CtlOK, ListLocked,
      PointersOK, LockOK, LiveOK, StartsAt, BcastOK, RefOK, JoinedOK,
      SharedTypeOK, ThreadTypeOK, SessionTypeOK
  <2>5. SessionTypeOK' /\ ThreadTypeOK' /\ HostTypeOK' /\ LockOK' /\
       LiveOK' /\ MediaOK' /\ JoinedOK' /\ RefOK'
    BY <1>30 DEF CtlPassDone, SessionTypeOK, ThreadTypeOK, HostTypeOK, LockOK,
      LiveOK, StartsAt, MediaOK, MediaAlive, JoinedOK, RefOK
  <2>6. ToldOK'
    BY <1>30, SessionAssumption DEF CtlPassDone, ToldOK, Telling, PointersOK,
      LockOK, LiveOK, StartsAt, SessionTypeOK, ThreadTypeOK, SharedTypeOK
  <2> QED
    BY <2>1, <2>2, <2>3, <2>4, <2>5, <2>6 DEF IInv, TypeOK
<1>31. ASSUME CtlExitCheck
      PROVE  IInv'
  <2>1. SharedTypeOK'
    BY <1>31, SessionAssumption DEF CtlExitCheck, SharedTypeOK, PointersOK,
      ThreadTypeOK, Holders, CtlPC
  <2>2. PointersOK'
    BY <1>31, SessionAssumption DEF CtlExitCheck, PointersOK, LockOK, BcastOK,
      ThreadTypeOK, SharedTypeOK
  <2>3. BcastOK'
    BY <1>31, SessionAssumption DEF CtlExitCheck, BcastOK, PointersOK, LockOK,
      RefOK, LiveOK, StartsAt, SharedTypeOK, ThreadTypeOK, CtlOK, ListLocked
  <2>4. CtlOK'
    BY <1>31, SessionAssumption DEF CtlExitCheck, CtlOK, ListLocked,
      PointersOK, LockOK, LiveOK, StartsAt, BcastOK, RefOK, JoinedOK,
      SharedTypeOK, ThreadTypeOK, SessionTypeOK
  <2>5. SessionTypeOK' /\ ThreadTypeOK' /\ HostTypeOK' /\ LockOK' /\
       LiveOK' /\ MediaOK' /\ JoinedOK' /\ RefOK'
    BY <1>31 DEF CtlExitCheck, SessionTypeOK, ThreadTypeOK, HostTypeOK,
      LockOK, LiveOK, StartsAt, MediaOK, MediaAlive, JoinedOK, RefOK
  <2>6. ToldOK'
    BY <1>31, SessionAssumption DEF CtlExitCheck, ToldOK, Telling, PointersOK,
      LockOK, LiveOK, StartsAt, SessionTypeOK, ThreadTypeOK, SharedTypeOK
  <2> QED
    BY <2>1, <2>2, <2>3, <2>4, <2>5, <2>6 DEF IInv, TypeOK
<1>32. ASSUME CtlIdle
      PROVE  IInv'
  <2>1. SharedTypeOK'
    BY <1>32, SessionAssumption DEF CtlIdle, SharedTypeOK, PointersOK,
      ThreadTypeOK, Holders, CtlPC
  <2>2. PointersOK'
    BY <1>32, SessionAssumption DEF CtlIdle, PointersOK, LockOK, BcastOK,
      ThreadTypeOK, SharedTypeOK
  <2>3. BcastOK'
    BY <1>32, SessionAssumption DEF CtlIdle, BcastOK, PointersOK, LockOK,
      RefOK, LiveOK, StartsAt, SharedTypeOK, ThreadTypeOK, CtlOK, ListLocked
  <2>4. CtlOK'
    BY <1>32, SessionAssumption DEF CtlIdle, CtlOK, ListLocked, PointersOK,
      LockOK, LiveOK, StartsAt, BcastOK, RefOK, JoinedOK, SharedTypeOK,
      ThreadTypeOK, SessionTypeOK
  <2>5. SessionTypeOK' /\ ThreadTypeOK' /\ HostTypeOK' /\ LockOK' /\
       LiveOK' /\ MediaOK' /\ JoinedOK' /\ RefOK'
    BY <1>32 DEF CtlIdle, SessionTypeOK, ThreadTypeOK, HostTypeOK, LockOK,
      LiveOK, StartsAt, MediaOK, MediaAlive, JoinedOK, RefOK
  <2>6. ToldOK'
    BY <1>32, SessionAssumption DEF CtlIdle, ToldOK, Telling, PointersOK,
      LockOK, LiveOK, StartsAt, SessionTypeOK, ThreadTypeOK, SharedTypeOK
  <2> QED
    BY <2>1, <2>2, <2>3, <2>4, <2>5, <2>6 DEF IInv, TypeOK
<1>33. ASSUME NEW s \in Sessions, CtlEvent(s)
      PROVE  IInv'
  <2>1. SessionTypeOK'
    BY <1>33, SessionAssumption DEF CtlEvent, SessionTypeOK, PointersOK,
      SharedTypeOK, ThreadTypeOK, ObjState, SessionState, MediaState
  <2>2. SharedTypeOK'
    BY <1>33, SessionAssumption DEF CtlEvent, SharedTypeOK, PointersOK,
      ThreadTypeOK, Holders, CtlPC
  <2>3. PointersOK'
    BY <1>33, SessionAssumption DEF CtlEvent, PointersOK, LockOK, BcastOK,
      ThreadTypeOK, SharedTypeOK
  <2>4. BcastOK'
    BY <1>33, SessionAssumption DEF CtlEvent, BcastOK, PointersOK, LockOK,
      RefOK, LiveOK, StartsAt, SharedTypeOK, ThreadTypeOK, CtlOK, ListLocked
  <2>5. CtlOK'
    BY <1>33, SessionAssumption DEF CtlEvent, CtlOK, ListLocked, PointersOK,
      LockOK, LiveOK, StartsAt, BcastOK, RefOK, JoinedOK, SharedTypeOK,
      ThreadTypeOK, SessionTypeOK
  <2>6. ThreadTypeOK' /\ HostTypeOK' /\ LockOK' /\ LiveOK' /\ MediaOK' /\
       JoinedOK' /\ RefOK'
    BY <1>33 DEF CtlEvent, ThreadTypeOK, HostTypeOK, LockOK, LiveOK, StartsAt,
      MediaOK, MediaAlive, JoinedOK, RefOK
  <2>7. ToldOK'
    BY <1>33, SessionAssumption DEF CtlEvent, ToldOK, Telling, PointersOK,
      LockOK, LiveOK, StartsAt, SessionTypeOK, ThreadTypeOK, SharedTypeOK
  <2> QED
    BY <2>1, <2>2, <2>3, <2>4, <2>5, <2>6, <2>7 DEF IInv, TypeOK
<1>34. ASSUME NEW s \in Sessions, CtlDisconnect(s)
      PROVE  IInv'
  <2>1. SessionTypeOK'
    BY <1>34, SessionAssumption DEF CtlDisconnect, Stop, WinsStop,
      SessionTypeOK,
      PointersOK, SharedTypeOK, ThreadTypeOK, ObjState, SessionState,
      MediaState
  <2>2. SharedTypeOK'
    BY <1>34, SessionAssumption DEF CtlDisconnect, Stop, WinsStop,
      SharedTypeOK,
      PointersOK, ThreadTypeOK, Holders, CtlPC
  <2>3. PointersOK'
    BY <1>34, SessionAssumption DEF CtlDisconnect, Stop, WinsStop, PointersOK,
      LockOK,
      BcastOK, ThreadTypeOK, SharedTypeOK
  <2>4. LiveOK'
    BY <1>34, SessionAssumption DEF CtlDisconnect, Stop, WinsStop, LiveOK,
      StartsAt,
      PointersOK, LockOK, MediaOK, MediaAlive, JoinedOK, RefOK, CtlOK, ToldOK,
      SessionTypeOK, ThreadTypeOK, SharedTypeOK
  <2>5. BcastOK'
    BY <1>34, SessionAssumption DEF CtlDisconnect, Stop, WinsStop, BcastOK,
      PointersOK,
      LockOK, RefOK, LiveOK, StartsAt, SharedTypeOK, ThreadTypeOK, CtlOK,
      ListLocked
  <2>6. CtlOK'
    BY <1>34, SessionAssumption DEF CtlDisconnect, Stop, WinsStop, CtlOK,
      ListLocked,
      PointersOK, LockOK, LiveOK, StartsAt, BcastOK, RefOK, JoinedOK,
      SharedTypeOK, ThreadTypeOK, SessionTypeOK
  <2>7. ToldOK'
    <3>1. \A r \in Sessions :
            (state[r] = "STOPPING" \/ r \in controlEnd =>
              r \in shutdownEv \/ Telling(r))'
      BY <1>34, SessionAssumption DEF CtlDisconnect, Stop, WinsStop, ToldOK,
        Telling, PointersOK, LockOK,
        SessionTypeOK, ThreadTypeOK, SharedTypeOK
    <3>2. (\A u \in Threads : pc[u] = "tell" => state[cur[u]] = "STOPPING")'
      BY <1>34, SessionAssumption DEF CtlDisconnect, Stop, WinsStop, ToldOK,
        PointersOK, LockOK,
        SessionTypeOK, ThreadTypeOK, SharedTypeOK
    <3> QED
      BY <3>1, <3>2 DEF ToldOK

  <2>8. ThreadTypeOK' /\ HostTypeOK' /\ LockOK' /\ MediaOK' /\ JoinedOK'
       /\ RefOK'
    BY <1>34 DEF CtlDisconnect, Stop, WinsStop, ThreadTypeOK, HostTypeOK,
      LockOK,
      MediaOK, MediaAlive, StartsAt, JoinedOK, RefOK
  <2> QED
    BY <2>1, <2>2, <2>3, <2>4, <2>5, <2>6, <2>7, <2>8 DEF IInv, TypeOK
<1>35. ASSUME NEW s \in Sessions, CtlSweep(s)
      PROVE  IInv'
  <2>1. SessionTypeOK'
    BY <1>35, SessionAssumption DEF CtlSweep, SessionTypeOK, PointersOK,
      SharedTypeOK, ThreadTypeOK, ObjState, SessionState, MediaState
  <2>2. SharedTypeOK'
    BY <1>35, SessionAssumption DEF CtlSweep, SharedTypeOK, PointersOK,
      ThreadTypeOK, Holders, CtlPC
  <2>3. LiveOK'
    BY <1>35, SessionAssumption DEF CtlSweep, LiveOK, StartsAt, PointersOK,
      LockOK, MediaOK, MediaAlive, JoinedOK, RefOK, CtlOK, ToldOK,
      SessionTypeOK, ThreadTypeOK, SharedTypeOK
  <2>4. JoinedOK'
    BY <1>35, SessionAssumption DEF CtlSweep, JoinedOK, PointersOK, LockOK,
      MediaOK, StartsAt, LiveOK, SessionTypeOK, ThreadTypeOK
  <2>5. CtlOK'
    BY <1>35, SessionAssumption DEF CtlSweep, CtlOK, ListLocked, PointersOK,
      LockOK, LiveOK, StartsAt, BcastOK, RefOK, JoinedOK, SharedTypeOK,
      ThreadTypeOK, SessionTypeOK
  <2>6. ToldOK'
    BY <1>35, SessionAssumption DEF CtlSweep, ToldOK, Telling, PointersOK,
      LockOK, MediaOK, MediaAlive, StartsAt,
      LiveOK, SessionTypeOK, ThreadTypeOK, SharedTypeOK
  <2>7. ThreadTypeOK' /\ HostTypeOK' /\ PointersOK' /\ LockOK' /\ MediaOK'
       /\ RefOK' /\ BcastOK'
    BY <1>35 DEF CtlSweep, ThreadTypeOK, HostTypeOK, PointersOK, LockOK,
      MediaOK, MediaAlive, StartsAt, RefOK, BcastOK
  <2> QED
    BY <2>1, <2>2, <2>3, <2>4, <2>5, <2>6, <2>7 DEF IInv, TypeOK
<1>36. ASSUME CtlDone
      PROVE  IInv'
  <2>1. SharedTypeOK'
    BY <1>36, SessionAssumption DEF CtlDone, SharedTypeOK, PointersOK,
      ThreadTypeOK, Holders, CtlPC
  <2>2. PointersOK'
    BY <1>36, SessionAssumption DEF CtlDone, PointersOK, LockOK, BcastOK,
      ThreadTypeOK, SharedTypeOK
  <2>3. BcastOK'
    BY <1>36, SessionAssumption DEF CtlDone, BcastOK, PointersOK, LockOK,
      RefOK, LiveOK, StartsAt, SharedTypeOK, ThreadTypeOK, CtlOK, ListLocked
  <2>4. CtlOK'
    BY <1>36, SessionAssumption DEF CtlDone, CtlOK, ListLocked, PointersOK,
      LockOK, LiveOK, StartsAt, BcastOK, RefOK, JoinedOK, SharedTypeOK,
      ThreadTypeOK, SessionTypeOK
  <2>5. SessionTypeOK' /\ ThreadTypeOK' /\ HostTypeOK' /\ LockOK' /\
       LiveOK' /\ MediaOK' /\ JoinedOK' /\ RefOK'
    BY <1>36 DEF CtlDone, SessionTypeOK, ThreadTypeOK, HostTypeOK, LockOK,
      LiveOK, StartsAt, MediaOK, MediaAlive, JoinedOK, RefOK
  <2>6. ToldOK'
    BY <1>36, SessionAssumption DEF CtlDone, ToldOK, Telling, PointersOK,
      LockOK, LiveOK, StartsAt, SessionTypeOK, ThreadTypeOK, SharedTypeOK
  <2> QED
    BY <2>1, <2>2, <2>3, <2>4, <2>5, <2>6 DEF IInv, TypeOK
<1>37. ASSUME NEW s \in Sessions, DeadlinePasses(s)
      PROVE  IInv'
  <2>1. SessionTypeOK'
    BY <1>37, SessionAssumption DEF DeadlinePasses, SessionTypeOK, PointersOK,
      SharedTypeOK, ThreadTypeOK, ObjState, SessionState, MediaState
  <2>2. SharedTypeOK' /\ ThreadTypeOK' /\ HostTypeOK' /\ PointersOK' /\
       LockOK' /\ LiveOK' /\ MediaOK' /\ JoinedOK' /\ RefOK' /\ BcastOK'
       /\ CtlOK'
    BY <1>37 DEF DeadlinePasses, SharedTypeOK, ThreadTypeOK, HostTypeOK,
      PointersOK, LockOK, LiveOK, StartsAt, MediaOK, MediaAlive, JoinedOK,
      RefOK, BcastOK, CtlOK, ListLocked
  <2>3. ToldOK'
    BY <1>37, SessionAssumption DEF DeadlinePasses, ToldOK, Telling,
      PointersOK, LockOK, LiveOK, StartsAt, SessionTypeOK, ThreadTypeOK,
      SharedTypeOK
  <2> QED
    BY <2>1, <2>2, <2>3 DEF IInv, TypeOK
<1>38. ASSUME AppExits
      PROVE  IInv'
  <2>1. HostTypeOK'
    BY <1>38, SessionAssumption DEF AppExits, HostTypeOK
  <2>2. SessionTypeOK' /\ SharedTypeOK' /\ ThreadTypeOK' /\ PointersOK' /\
       LockOK' /\ LiveOK' /\ MediaOK' /\ JoinedOK' /\ RefOK' /\ BcastOK'
       /\ CtlOK'
    BY <1>38 DEF AppExits, SessionTypeOK, SharedTypeOK, ThreadTypeOK,
      PointersOK, LockOK, LiveOK, StartsAt, MediaOK, MediaAlive, JoinedOK,
      RefOK, BcastOK, CtlOK, ListLocked
  <2>3. ToldOK'
    BY <1>38, SessionAssumption DEF AppExits, ToldOK, Telling, PointersOK,
      LockOK, LiveOK, StartsAt, SessionTypeOK, ThreadTypeOK, SharedTypeOK
  <2> QED
    BY <2>1, <2>2, <2>3 DEF IInv, TypeOK
<1>39. ASSUME AppLaunched
      PROVE  IInv'
  <2>1. HostTypeOK'
    BY <1>39, SessionAssumption DEF AppLaunched, HostTypeOK
  <2>2. SessionTypeOK' /\ SharedTypeOK' /\ ThreadTypeOK' /\ PointersOK' /\
       LockOK' /\ LiveOK' /\ MediaOK' /\ JoinedOK' /\ RefOK' /\ BcastOK'
       /\ CtlOK'
    BY <1>39 DEF AppLaunched, SessionTypeOK, SharedTypeOK, ThreadTypeOK,
      PointersOK, LockOK, LiveOK, StartsAt, MediaOK, MediaAlive, JoinedOK,
      RefOK, BcastOK, CtlOK, ListLocked
  <2>3. ToldOK'
    BY <1>39, SessionAssumption DEF AppLaunched, ToldOK, Telling, PointersOK,
      LockOK, LiveOK, StartsAt, SessionTypeOK, ThreadTypeOK, SharedTypeOK
  <2> QED
    BY <2>1, <2>2, <2>3 DEF IInv, TypeOK
<1>40. ASSUME BroadcastThreadEnds
      PROVE  IInv'
  <2>1. SharedTypeOK'
    BY <1>40, SessionAssumption DEF BroadcastThreadEnds, SharedTypeOK,
      PointersOK, ThreadTypeOK, Holders, CtlPC
  <2>2. SessionTypeOK' /\ ThreadTypeOK' /\ HostTypeOK' /\ PointersOK' /\
       LockOK' /\ LiveOK' /\ MediaOK' /\ JoinedOK' /\ RefOK' /\ BcastOK'
       /\ CtlOK'
    BY <1>40 DEF BroadcastThreadEnds, SessionTypeOK, ThreadTypeOK, HostTypeOK,
      PointersOK, LockOK, LiveOK, StartsAt, MediaOK, MediaAlive, JoinedOK,
      RefOK, BcastOK, CtlOK, ListLocked
  <2>3. ToldOK'
    BY <1>40, SessionAssumption DEF BroadcastThreadEnds, ToldOK, Telling,
      PointersOK, LockOK, LiveOK, StartsAt, SessionTypeOK, ThreadTypeOK,
      SharedTypeOK
  <2> QED
    BY <2>1, <2>2, <2>3 DEF IInv, TypeOK
<1>41. ASSUME ShutdownRaised
      PROVE  IInv'
  <2>1. HostTypeOK'
    BY <1>41, SessionAssumption DEF ShutdownRaised, HostTypeOK
  <2>2. SessionTypeOK' /\ SharedTypeOK' /\ ThreadTypeOK' /\ PointersOK' /\
       LockOK' /\ LiveOK' /\ MediaOK' /\ JoinedOK' /\ RefOK' /\ BcastOK'
       /\ CtlOK'
    BY <1>41 DEF ShutdownRaised, SessionTypeOK, SharedTypeOK, ThreadTypeOK,
      PointersOK, LockOK, LiveOK, StartsAt, MediaOK, MediaAlive, JoinedOK,
      RefOK, BcastOK, CtlOK, ListLocked
  <2>3. ToldOK'
    BY <1>41, SessionAssumption DEF ShutdownRaised, ToldOK, Telling,
      PointersOK, LockOK, LiveOK, StartsAt, SessionTypeOK, ThreadTypeOK,
      SharedTypeOK
  <2> QED
    BY <2>1, <2>2, <2>3 DEF IInv, TypeOK
<1>50. ASSUME NEW t \in Threads, TellSlot(t)
      PROVE  IInv'
  <2>1. SessionTypeOK'
    BY <1>50, SessionAssumption DEF TellSlot, Tell, SessionTypeOK, PointersOK,
      SharedTypeOK, ThreadTypeOK, ObjState, SessionState, MediaState
  <2>2. SharedTypeOK'
    BY <1>50, SessionAssumption DEF TellSlot, Tell, SharedTypeOK, PointersOK,
      ThreadTypeOK, Holders, CtlPC
  <2>3. ThreadTypeOK'
    BY <1>50, SessionAssumption DEF TellSlot, Tell, ThreadTypeOK, SharedTypeOK
  <2>4. HostTypeOK'
    BY <1>50, SessionAssumption DEF TellSlot, Tell, HostTypeOK
  <2>5. PointersOK'
    BY <1>50, SessionAssumption DEF TellSlot, Tell, PointersOK, LockOK,
      BcastOK, ThreadTypeOK, SharedTypeOK
  <2>6. LockOK'
    BY <1>50, SessionAssumption DEF TellSlot, Tell, LockOK, PointersOK,
      ThreadTypeOK, SharedTypeOK
  <2>7. LiveOK'
    BY <1>50, SessionAssumption DEF TellSlot, Tell, LiveOK, StartsAt,
      PointersOK, LockOK, MediaOK, MediaAlive, CtlOK, ToldOK, SessionTypeOK,
      ThreadTypeOK, SharedTypeOK
  <2>8. MediaOK'
    BY <1>50, SessionAssumption DEF TellSlot, Tell, MediaOK, MediaAlive,
      StartsAt, PointersOK, LockOK, LiveOK, SessionTypeOK, ThreadTypeOK
  <2>9. JoinedOK'
    BY <1>50, SessionAssumption DEF TellSlot, Tell, JoinedOK, PointersOK,
      LockOK, MediaOK, MediaAlive, StartsAt, LiveOK, SessionTypeOK,
      ThreadTypeOK
  <2>10. RefOK'
    BY <1>50, SessionAssumption DEF TellSlot, Tell, RefOK, StartsAt,
      PointersOK, LockOK, LiveOK, MediaOK, SessionTypeOK, ThreadTypeOK,
      SharedTypeOK
  <2>11. BcastOK'
    BY <1>50, SessionAssumption DEF TellSlot, Tell, BcastOK, PointersOK,
      LockOK, RefOK, SharedTypeOK, ThreadTypeOK, CtlOK, ListLocked
  <2>12. CtlOK'
    BY <1>50, SessionAssumption DEF TellSlot, Tell, CtlOK, ListLocked,
      PointersOK, SharedTypeOK, ThreadTypeOK, SessionTypeOK
  <2>13. ToldOK'
    BY <1>50, SessionAssumption DEF TellSlot, Tell, ToldOK, Telling,
      PointersOK, LockOK, LiveOK, MediaOK, MediaAlive, StartsAt,
      SessionTypeOK, ThreadTypeOK, SharedTypeOK
  <2> QED
    BY <2>1, <2>2, <2>3, <2>4, <2>5, <2>6, <2>7, <2>8, <2>9, <2>10, <2>11,
      <2>12, <2>13 DEF IInv, TypeOK
<1>51. ASSUME NEW s \in Sessions, NEW m \in Media, MediaTell(s, m)
      PROVE  IInv'
  <2>1. SessionTypeOK'
    BY <1>51, SessionAssumption DEF MediaTell, Tell, SessionTypeOK,
      PointersOK, SharedTypeOK, ThreadTypeOK, ObjState, SessionState,
      MediaState
  <2>2. SharedTypeOK'
    BY <1>51, SessionAssumption DEF MediaTell, Tell, SharedTypeOK, PointersOK,
      ThreadTypeOK, Holders, CtlPC
  <2>3. ThreadTypeOK'
    BY <1>51, SessionAssumption DEF MediaTell, Tell, ThreadTypeOK, SharedTypeOK
  <2>4. HostTypeOK'
    BY <1>51, SessionAssumption DEF MediaTell, Tell, HostTypeOK
  <2>5. PointersOK'
    BY <1>51, SessionAssumption DEF MediaTell, Tell, PointersOK, LockOK,
      BcastOK, ThreadTypeOK, SharedTypeOK
  <2>6. LockOK'
    BY <1>51, SessionAssumption DEF MediaTell, Tell, LockOK, PointersOK,
      ThreadTypeOK, SharedTypeOK
  <2>7. LiveOK'
    BY <1>51, SessionAssumption DEF MediaTell, Tell, LiveOK, StartsAt,
      PointersOK, LockOK, MediaOK, MediaAlive, CtlOK, ToldOK, SessionTypeOK,
      ThreadTypeOK, SharedTypeOK
  <2>8. MediaOK'
    BY <1>51, SessionAssumption DEF MediaTell, Tell, MediaOK, MediaAlive,
      StartsAt, PointersOK, LockOK, LiveOK, SessionTypeOK, ThreadTypeOK
  <2>9. JoinedOK'
    BY <1>51, SessionAssumption DEF MediaTell, Tell, JoinedOK, PointersOK,
      LockOK, MediaOK, MediaAlive, StartsAt, LiveOK, SessionTypeOK,
      ThreadTypeOK
  <2>10. RefOK'
    BY <1>51, SessionAssumption DEF MediaTell, Tell, RefOK, StartsAt,
      PointersOK, LockOK, LiveOK, MediaOK, SessionTypeOK, ThreadTypeOK,
      SharedTypeOK
  <2>11. BcastOK'
    BY <1>51, SessionAssumption DEF MediaTell, Tell, BcastOK, PointersOK,
      LockOK, RefOK, SharedTypeOK, ThreadTypeOK, CtlOK, ListLocked
  <2>12. CtlOK'
    BY <1>51, SessionAssumption DEF MediaTell, Tell, CtlOK, ListLocked,
      PointersOK, SharedTypeOK, ThreadTypeOK, SessionTypeOK
  <2>13. ToldOK'
    BY <1>51, SessionAssumption DEF MediaTell, Tell, ToldOK, Telling,
      PointersOK, LockOK, LiveOK, MediaOK, MediaAlive, StartsAt,
      SessionTypeOK, ThreadTypeOK, SharedTypeOK
  <2> QED
    BY <2>1, <2>2, <2>3, <2>4, <2>5, <2>6, <2>7, <2>8, <2>9, <2>10, <2>11,
      <2>12, <2>13 DEF IInv, TypeOK
<1>52. ASSUME CtlTell
      PROVE  IInv'
  <2>1. SessionTypeOK'
    BY <1>52, SessionAssumption DEF CtlTell, Tell, SessionTypeOK, PointersOK,
      SharedTypeOK, ThreadTypeOK, ObjState, SessionState, MediaState
  <2>2. SharedTypeOK'
    BY <1>52, SessionAssumption DEF CtlTell, Tell, SharedTypeOK, PointersOK,
      ThreadTypeOK, Holders, CtlPC
  <2>3. ThreadTypeOK'
    BY <1>52, SessionAssumption DEF CtlTell, Tell, ThreadTypeOK, SharedTypeOK
  <2>4. HostTypeOK'
    BY <1>52, SessionAssumption DEF CtlTell, Tell, HostTypeOK
  <2>5. PointersOK'
    BY <1>52, SessionAssumption DEF CtlTell, Tell, PointersOK, LockOK,
      BcastOK, ThreadTypeOK, SharedTypeOK
  <2>6. LockOK'
    BY <1>52, SessionAssumption DEF CtlTell, Tell, LockOK, PointersOK,
      ThreadTypeOK, SharedTypeOK
  <2>7. LiveOK'
    BY <1>52, SessionAssumption DEF CtlTell, Tell, LiveOK, StartsAt,
      PointersOK, LockOK, MediaOK, MediaAlive, CtlOK, ToldOK, SessionTypeOK,
      ThreadTypeOK, SharedTypeOK
  <2>8. MediaOK'
    BY <1>52, SessionAssumption DEF CtlTell, Tell, MediaOK, MediaAlive,
      StartsAt, PointersOK, LockOK, LiveOK, SessionTypeOK, ThreadTypeOK
  <2>9. JoinedOK'
    BY <1>52, SessionAssumption DEF CtlTell, Tell, JoinedOK, PointersOK,
      LockOK, MediaOK, MediaAlive, StartsAt, LiveOK, SessionTypeOK,
      ThreadTypeOK
  <2>10. RefOK'
    BY <1>52, SessionAssumption DEF CtlTell, Tell, RefOK, StartsAt,
      PointersOK, LockOK, LiveOK, MediaOK, SessionTypeOK, ThreadTypeOK,
      SharedTypeOK
  <2>11. BcastOK'
    BY <1>52, SessionAssumption DEF CtlTell, Tell, BcastOK, PointersOK,
      LockOK, RefOK, SharedTypeOK, ThreadTypeOK, CtlOK, ListLocked
  <2>12. CtlOK'
    BY <1>52, SessionAssumption DEF CtlTell, Tell, CtlOK, ListLocked,
      PointersOK, SharedTypeOK, ThreadTypeOK, SessionTypeOK
  <2>13. ToldOK'
    BY <1>52, SessionAssumption DEF CtlTell, Tell, ToldOK, Telling,
      PointersOK, LockOK, LiveOK, MediaOK, MediaAlive, StartsAt,
      SessionTypeOK, ThreadTypeOK, SharedTypeOK
  <2> QED
    BY <2>1, <2>2, <2>3, <2>4, <2>5, <2>6, <2>7, <2>8, <2>9, <2>10, <2>11,
      <2>12, <2>13 DEF IInv, TypeOK
<1>53. ASSUME CtlHangup
      PROVE  IInv'
  <2>1. SessionTypeOK'
    BY <1>53, SessionAssumption DEF CtlHangup, Tell, SessionTypeOK,
      PointersOK, SharedTypeOK, ThreadTypeOK, ObjState, SessionState,
      MediaState
  <2>2. SharedTypeOK'
    BY <1>53, SessionAssumption DEF CtlHangup, Tell, SharedTypeOK, PointersOK,
      ThreadTypeOK, Holders, CtlPC
  <2>3. ThreadTypeOK'
    BY <1>53, SessionAssumption DEF CtlHangup, Tell, ThreadTypeOK, SharedTypeOK
  <2>4. HostTypeOK'
    BY <1>53, SessionAssumption DEF CtlHangup, Tell, HostTypeOK
  <2>5. PointersOK'
    BY <1>53, SessionAssumption DEF CtlHangup, Tell, PointersOK, LockOK,
      BcastOK, ThreadTypeOK, SharedTypeOK
  <2>6. LockOK'
    BY <1>53, SessionAssumption DEF CtlHangup, Tell, LockOK, PointersOK,
      ThreadTypeOK, SharedTypeOK
  <2>7. LiveOK'
    BY <1>53, SessionAssumption DEF CtlHangup, Tell, LiveOK, StartsAt,
      PointersOK, LockOK, MediaOK, MediaAlive, CtlOK, ToldOK, SessionTypeOK,
      ThreadTypeOK, SharedTypeOK
  <2>8. MediaOK'
    BY <1>53, SessionAssumption DEF CtlHangup, Tell, MediaOK, MediaAlive,
      StartsAt, PointersOK, LockOK, LiveOK, SessionTypeOK, ThreadTypeOK
  <2>9. JoinedOK'
    BY <1>53, SessionAssumption DEF CtlHangup, Tell, JoinedOK, PointersOK,
      LockOK, MediaOK, MediaAlive, StartsAt, LiveOK, SessionTypeOK,
      ThreadTypeOK
  <2>10. RefOK'
    BY <1>53, SessionAssumption DEF CtlHangup, Tell, RefOK, StartsAt,
      PointersOK, LockOK, LiveOK, MediaOK, SessionTypeOK, ThreadTypeOK,
      SharedTypeOK
  <2>11. BcastOK'
    BY <1>53, SessionAssumption DEF CtlHangup, Tell, BcastOK, PointersOK,
      LockOK, RefOK, SharedTypeOK, ThreadTypeOK, CtlOK, ListLocked
  <2>12. CtlOK'
    BY <1>53, SessionAssumption DEF CtlHangup, Tell, CtlOK, ListLocked,
      PointersOK, SharedTypeOK, ThreadTypeOK, SessionTypeOK
  <2>13. ToldOK'
    BY <1>53, SessionAssumption DEF CtlHangup, Tell, ToldOK, Telling,
      PointersOK, LockOK, LiveOK, MediaOK, MediaAlive, StartsAt,
      SessionTypeOK, ThreadTypeOK, SharedTypeOK
  <2> QED
    BY <2>1, <2>2, <2>3, <2>4, <2>5, <2>6, <2>7, <2>8, <2>9, <2>10, <2>11,
      <2>12, <2>13 DEF IInv, TypeOK
<1>42. CASE UNCHANGED vars
  BY <1>42 DEF vars, IInv, TypeOK, SessionTypeOK, SharedTypeOK, ThreadTypeOK,
    HostTypeOK, PointersOK, LockOK, LiveOK, StartsAt, MediaOK, MediaAlive,
    JoinedOK, RefOK, BcastOK, CtlOK, ListLocked, ToldOK, Telling, Telling
<1>43. CASE StartStep
  BY <1>2, <1>3, <1>4, <1>5, <1>6, <1>7, <1>8, <1>9, <1>10, <1>11, <1>43 DEF
    StartStep
<1>44. CASE RtspTick
  <2>1. bshutdown \in BOOLEAN /\ Rtsp \in Threads
    BY DEF SharedTypeOK, Threads
  <2> QED
    BY <2>1, <1>44, <1>12 DEF RtspTick
<1>45. ASSUME NEW t \in Threads, ClearStep(t)
      PROVE  IInv'
  BY <1>13, <1>14, <1>15, <1>16, <1>17, <1>18, <1>19, <1>20, <1>50, <1>45 DEF
    ClearStep
<1>46. ASSUME NEW t \in Http, HttpCall(t)
      PROVE  IInv'
  <2>1. t \in Threads
    BY DEF Threads
  <2> QED
    BY <2>1, <1>46, <1>12
    DEF HttpCall, SessionCount, TerminateSessions
<1>47. ASSUME NEW s \in Sessions, NEW m \in Media, MediaStep(s, m)
      PROVE  IInv'
  BY <1>21, <1>22, <1>23, <1>24, <1>25, <1>51, <1>47 DEF MediaStep
<1>48. CASE CtlStep
  BY <1>26, <1>28, <1>29, <1>30, <1>31, <1>32, <1>36, <1>27, <1>33, <1>34,
    <1>35, <1>52, <1>53, <1>48 DEF CtlStep
<1>49. CASE EnvStep
  BY <1>37, <1>38, <1>39, <1>40, <1>41, <1>49 DEF EnvStep
<1> QED
  BY <1>1, <1>42, <1>43, <1>44, <1>45, <1>46, <1>47, <1>48, <1>49 DEF Next

(* IInv is an invariant of the specification. *)
THEOREM Inductive == Spec => []IInv
BY InitIInv, NextIInv, PTL DEF Spec

(* Every variable keeps its type; the session counter stays unsigned.       *)
THEOREM TypeCorrect == Spec => []TypeOK
<1>1. IInv => TypeOK
  BY DEF IInv
<1> QED
  BY <1>1, Inductive, PTL

(* ~session_t never runs while a media thread, a slot, a clear(), the       *)
(* RTSP thread or a pass of the control thread can reach the session.       *)
THEOREM FreedIsUnreachable == Spec => []NoDangling
<1>1. IInv => NoDangling
  <2> SUFFICES ASSUME IInv, NEW s \in Sessions, obj[s] = "freed"
               PROVE  /\ \A m \in Media : ~MediaAlive(s, m)
                      /\ s \notin slots /\ local # s
                      /\ \A t \in Threads : cur[t] # s
                      /\ s \notin scan /\ exam # s
                      /\ ctl \notin {"sweep", "done"} => s \notin list
    BY DEF NoDangling
  <2>1. s \notin slots /\ local # s
    BY DEF IInv, LiveOK
  <2>2. \A m \in Media : ~MediaAlive(s, m)
    BY DEF IInv, MediaOK
  <2>3. \A t \in Threads : cur[t] # s
    BY <2>1, SessionAssumption DEF IInv, LockOK
  <2>4. s \in list => ctl \in {"sweep", "done"} /\ s \notin scan
    BY DEF IInv, CtlOK
  <2>5. s \notin scan /\ exam # s
    BY <2>4, SessionAssumption DEF IInv, CtlOK
  <2> QED
    BY <2>1, <2>2, <2>3, <2>4, <2>5
<1> QED
  BY <1>1, Inductive, PTL

(* No two threads join the same session at once, because whoever joins one  *)
(* holds the mutex of the slots.                                            *)
THEOREM JoinIsExclusive == Spec => []JoinedByOne
<1>1. IInv => JoinedByOne
  BY DEF IInv, JoinedByOne, PointersOK, LockOK, Joining, ClearPC
<1> QED
  BY <1>1, Inductive, PTL

(* The broadcast context exists exactly while somebody refers to it, and a  *)
(* media thread's own reference is never the last.                          *)
THEOREM BroadcastIsHeld == Spec => []BroadcastReferenced
<1>1. IInv => BroadcastReferenced
  <2> SUFFICES ASSUME IInv, NEW s \in Sessions, NEW m \in Media,
                      MediaAlive(s, m)
               PROVE  <<s, "self">> \in bref
    BY DEF BroadcastReferenced, IInv, BcastOK
  <2>1. obj[s] = "live"
    BY DEF IInv, MediaOK, MediaAlive, TypeOK, SessionTypeOK, ObjState
  <2>2. ~StartsAt(s, Threadless)
    BY <2>1 DEF IInv, MediaOK, MediaAlive
  <2> QED
    BY <2>1, <2>2 DEF IInv, RefOK, StartsAt, Detached, Threadless
<1> QED
  BY <1>1, Inductive, PTL

(* A session that stops, or whose controlEnd is raised, was told or is      *)
(* about to be told by a thread that waits for nobody, and what join has    *)
(* got past was told.                                                       *)
THEOREM EndedSessionsWereTold == Spec => []EndedWasTold
<1>1. IInv => EndedWasTold
  <2> SUFFICES ASSUME IInv, NEW t \in Threads, pc[t] \in {"stopcb", "erase"}
               PROVE  cur[t] \in shutdownEv /\ ~Telling(cur[t])
    BY DEF IInv, ToldOK, EndedWasTold
  <2>1. cur[t] \in controlEnd /\ cur[t] \in shutdownEv
    BY DEF IInv, JoinedOK
  <2>2. \A m \in Media : media[cur[t]][m] # "tell"
    BY DEF IInv, JoinedOK
  <2>3. ASSUME NEW u \in Threads, pc[u] = "tell"
        PROVE  FALSE
    BY <2>3 DEF IInv, LockOK, ClearPC
  <2>4. ASSUME ctl \in {"tell", "hangup"}, exam = cur[t]
        PROVE  FALSE
    <3>1. exam \in list
      BY <2>4 DEF IInv, PointersOK, CtlOK
    <3> QED
      BY <2>1, <2>4, <3>1 DEF IInv, CtlOK
  <2> QED
    BY <2>1, <2>2, <2>3, <2>4 DEF Telling
<1> QED
  BY <1>1, Inductive, PTL

-----------------------------------------------------------------------------
(* StreamSession implements SessionPromise: every step of a thread moves   *)
(* the phase of at most one session, the way the abstract host does, and   *)
(* the broadcast goes down with the last session that refers to it.        *)

(* The abstract variable phase, as the instance Promise is given it.        *)
phases == [s \in Sessions |-> Phase(s)]

(* What Phase(s) depends on.                                                *)
SamePhase(s) ==
  /\ (obj[s])' = obj[s]
  /\ (state[s] = "STOPPED")' = (state[s] = "STOPPED")
  /\ (s \in shutdownEv)' = (s \in shutdownEv)
  /\ (<<s, "self">> \in bref)' = (<<s, "self">> \in bref)

(* It is all that Phase(s) depends on.                                      *)
LEMMA SamePhaseSame ==
  ASSUME NEW s \in Sessions, SamePhase(s)
  PROVE  Phase(s)' = Phase(s)
BY DEF SamePhase, Phase

(* A step that touches no session and leaves the broadcast as it is is a    *)
(* stuttering step of the abstract host.                                    *)
LEMMA Stutters ==
  ASSUME \A s \in Sessions : SamePhase(s),
         (bstate = "up")' = (bstate = "up")
  PROVE  UNCHANGED Promise!pvars
<1>1. \A s \in Sessions : Phase(s)' = Phase(s)
  BY SamePhaseSame
<1> QED
  BY <1>1 DEF Promise!pvars

(* A step that moves one session.                                           *)
LEMMA OneMoves ==
  ASSUME NEW s \in Sessions,
         \A r \in Sessions \ {s} : SamePhase(r)
  PROVE  phases' = [phases EXCEPT ![s] = Phase(s)']
<1>1. \A r \in Sessions \ {s} : Phase(r)' = Phase(r)
  BY SamePhaseSame
<1> QED
  BY <1>1 DEF phases

(* The sessions the abstract host calls attached are those that refer to    *)
(* the broadcast.                                                           *)
LEMMA AttachedRefers ==
  ASSUME IInv
  PROVE  Promise!Attached = {s \in Sessions : <<s, "self">> \in bref}
<1> SUFFICES ASSUME NEW s \in Sessions
             PROVE  Phase(s) \in {"attached", "streaming", "stopping"}
                      <=> <<s, "self">> \in bref
  BY DEF Promise!Attached
<1>1. obj[s] \in {"new", "live", "freed"}
  BY DEF IInv, TypeOK, SessionTypeOK, ObjState
<1>2. CASE obj[s] # "live"
  <2>1. <<s, "self">> \notin bref
    BY <1>2 DEF IInv, RefOK
  <2>2. Phase(s) \in {"none", "freed"}
    BY <1>1, <1>2 DEF Phase
  <2> QED
    BY <2>1, <2>2
<1>3. CASE obj[s] = "live" /\ StartsAt(s, Detached)
  BY <1>3 DEF IInv, RefOK, LiveOK, Phase, StartsAt, Detached, Unlisted,
     Threadless
<1>4. CASE obj[s] = "live" /\ ~StartsAt(s, Detached)
  BY <1>4 DEF IInv, RefOK, Phase
<1> QED
  BY <1>1, <1>2, <1>3, <1>4

(* A live session past Detached is attached, streaming or stopping, and     *)
(* only a session that is told moves on.                                    *)
LEMMA LivePhase ==
  ASSUME IInv, NEW s \in Sessions, obj[s] = "live", ~StartsAt(s, Detached)
  PROVE  /\ <<s, "self">> \in bref
         /\ s \in shutdownEv => Phase(s) = "stopping"
         /\ s \notin shutdownEv => Phase(s) \in {"attached", "streaming"}
<1>1. <<s, "self">> \in bref
  BY DEF IInv, RefOK
<1> QED
  BY <1>1 DEF Phase

(* stop() and the sweep tell a session: PStop, or a stutter when the        *)
(* session has been told before.                                            *)
LEMMA TellingStops ==
  ASSUME IInv, NEW s \in Sessions, obj[s] = "live", ~StartsAt(s, Detached),
         UNCHANGED obj, (bstate = "up")' = (bstate = "up"),
         \A r \in Sessions \ {s} : SamePhase(r),
         shutdownEv' = shutdownEv \cup {s}
  PROVE  [Promise!PNext]_Promise!pvars
<1>1. Phase(s)' = "stopping"
  BY DEF Phase
<1>2. phases' = [phases EXCEPT ![s] = "stopping"]
  BY <1>1, OneMoves
<1>3. CASE s \in shutdownEv
  <2>1. Phase(s) = "stopping"
    BY <1>3, LivePhase
  <2>2. phases' = phases
    BY <1>2, <2>1 DEF phases
  <2> QED
    BY <2>2 DEF Promise!pvars, phases
<1>4. CASE s \notin shutdownEv
  <2>1. Phase(s) \in {"attached", "streaming"}
    BY <1>4, LivePhase
  <2>2. Promise!PStop(s)
    BY <1>2, <2>1 DEF Promise!PStop, Promise!Move, phases
  <2> QED
    BY <2>2 DEF Promise!PNext
<1> QED
  BY <1>3, <1>4

(* The exchange of session::stop moves no phase: the session streams until  *)
(* it is told.                                                              *)
LEMMA StopStutters ==
  ASSUME IInv, NEW s, Stop(s), UNCHANGED <<obj, shutdownEv>>,
         (bstate = "up")' = (bstate = "up"),
         \A r \in Sessions :
           (<<r, "self">> \in bref)' = (<<r, "self">> \in bref)
  PROVE  [Promise!PNext]_Promise!pvars
<1>1. state \in [Sessions -> SessionState]
  BY DEF IInv, TypeOK, SessionTypeOK
<1>2. \A r \in Sessions : (state'[r] = "STOPPED") = (state[r] = "STOPPED")
  BY <1>1 DEF Stop, WinsStop
<1>3. \A r \in Sessions : SamePhase(r)
  BY <1>2 DEF SamePhase
<1> QED
  BY <1>3, Stutters

(* A media thread that returns never takes the broadcast down: its session  *)
(* still refers to it.                                                      *)
LEMMA MediaReturnSteps ==
  ASSUME IInv, NEW s \in Sessions, NEW m \in Media, MediaAlive(s, m),
         MediaReturn(s, m)
  PROVE  [Promise!PNext]_Promise!pvars
<1>1. obj[s] = "live" /\ ~StartsAt(s, Threadless)
  BY DEF IInv, MediaOK, MediaAlive, TypeOK, SessionTypeOK, ObjState
<1>2. <<s, "self">> \in bref
  BY <1>1 DEF IInv, RefOK, StartsAt, Detached, Threadless
<1>3. m # "self"
  BY SessionAssumption
<1>4. bref' = bref \ {<<s, m>>} /\ UNCHANGED bstate
  BY <1>2, <1>3 DEF MediaReturn, Release
<1>5. \A r \in Sessions :
        (<<r, "self">> \in bref)' = (<<r, "self">> \in bref)
  BY <1>3, <1>4
<1> QED
  BY <1>4, <1>5, StopStutters DEF MediaReturn

(* The broadcast's last reference is that of the last session.              *)
LEMMA LastIsAlone ==
  ASSUME IInv, NEW s \in Sessions, <<s, "self">> \in bref,
         \A m \in Media : media[s][m] = "done"
  PROVE  IsLast(s) = (Promise!Attached = {s})
<1>1. Promise!Attached = {r \in Sessions : <<r, "self">> \in bref}
  BY AttachedRefers
<1>2. IsLast(s) => Promise!Attached = {s}
  BY <1>1 DEF IsLast
<1>3. ASSUME Promise!Attached = {s}
      PROVE  IsLast(s)
  <2> SUFFICES ASSUME NEW h \in bref
               PROVE  h = <<s, "self">>
    BY DEF IsLast
  <2>1. PICK r \in Sessions, x \in Media \cup {"self"} : h = <<r, x>>
    BY DEF IInv, TypeOK, SharedTypeOK, Holders
  <2>2. CASE x = "self"
    BY <1>1, <1>3, <2>1, <2>2
  <2>3. CASE x \in Media
    <3>1. media[r][x] \in {"ping", "capture"}
      BY <2>1, <2>3 DEF IInv, RefOK
    <3>2. obj[r] = "live"
      BY <3>1, <2>1, <2>3
      DEF IInv, MediaOK, MediaAlive, TypeOK, SessionTypeOK, ObjState
    <3>3. ~StartsAt(r, Threadless)
      BY <3>1, <3>2, <2>1, <2>3 DEF IInv, MediaOK
    <3>4. <<r, "self">> \in bref
      BY <2>1, <3>2, <3>3 DEF IInv, RefOK, StartsAt, Detached, Threadless
    <3>5. r = s
      BY <1>1, <1>3, <2>1, <3>4
    <3> QED
      BY <2>3, <3>1, <3>5
  <2> QED
    BY <2>1, <2>2, <2>3
<1> QED
  BY <1>2, <1>3 DEF IsLast

(* ~session_t is PFree: the session has been told, and the broadcast goes   *)
(* down exactly when no other session refers to it.                         *)
LEMMA FreeSteps ==
  ASSUME IInv, NEW s \in Sessions, obj[s] = "live", ~StartsAt(s, Detached),
         s \in shutdownEv, \A m \in Media : media[s][m] = "done",
         Free(s), UNCHANGED <<state, shutdownEv>>
  PROVE  Promise!PNext
<1>1. <<s, "self">> \in bref /\ Phase(s) = "stopping"
  BY LivePhase
<1>2. bstate = "up"
  BY <1>1 DEF IInv, BcastOK
<1>3. obj \in [Sessions -> ObjState] /\ obj' = [obj EXCEPT ![s] = "freed"]
  BY DEF Free, IInv, TypeOK, SessionTypeOK
<1>4. Phase(s)' = "freed"
  BY <1>3 DEF Phase
<1>5. \A r \in Sessions \ {s} : SamePhase(r)
  BY <1>3 DEF Free, Release, SamePhase
<1>6. phases' = [phases EXCEPT ![s] = "freed"]
  BY <1>4, <1>5, OneMoves
<1>7. (bstate = "up")' = (Promise!Attached # {s})
  BY <1>1, <1>2, LastIsAlone DEF Free, Release, IsLast
<1>8. Promise!PFree(s)
  BY <1>1, <1>6, <1>7 DEF Promise!PFree, Promise!Move, phases
<1> QED
  BY <1>8 DEF Promise!PNext

(* The abstract host starts where the threads do.                           *)
LEMMA InitPromise == Init => Promise!PInit
BY DEF Init, Promise!PInit, Phase

(* Every step of every thread is a step of the abstract host or a stutter.  *)
LEMMA StepsKeepPromise ==
  ASSUME IInv, [Next]_vars
  PROVE  [Promise!PNext]_Promise!pvars
<1> USE DEF sessionVars, slotVars, bcastVars, ctlVars, threadVars, platVars,
            envVars, Goto
<1> DEFINE Quiet == /\ UNCHANGED <<obj, state, shutdownEv>>
                    /\ (bstate = "up")' = (bstate = "up")
                    /\ \A s \in Sessions :
                         (<<s, "self">> \in bref)' = (<<s, "self">> \in bref)
<1>1. ASSUME Quiet
      PROVE  [Promise!PNext]_Promise!pvars
  BY <1>1, Stutters DEF SamePhase
<1> HIDE DEF Quiet
<1>2. CASE UNCHANGED vars
  BY <1>1, <1>2 DEF vars, Quiet
<1>3. ASSUME NEW s \in Sessions, Announce(s)
      PROVE  [Promise!PNext]_Promise!pvars
  <2>1. obj' = [obj EXCEPT ![s] = "live"] /\ obj[s] = "new"
    BY <1>3 DEF Announce, Alloc
  <2>2. \A r \in Sessions \ {s} : SamePhase(r)
    BY <1>3, <2>1 DEF Announce, Alloc, SamePhase, IInv, TypeOK, SessionTypeOK
  <2>3. Phase(s) = "none" /\ Phase(s)' = "starting"
    BY <1>3, <2>1
    DEF Announce, Alloc, Phase, IInv, LiveOK, RefOK, TypeOK, SessionTypeOK
  <2>4. phases' = [phases EXCEPT ![s] = "starting"]
    BY <2>2, <2>3, OneMoves
  <2>5. Promise!PCreate(s)
    BY <1>3, <2>3, <2>4
    DEF Announce, Alloc, Promise!PCreate, Promise!Move, phases
  <2> QED
    BY <2>5 DEF Promise!PNext
<1>4. CASE StartRef
  <2>1. PICK s \in Sessions : s = local
    BY <1>4, SessionAssumption
    DEF StartRef, IInv, PointersOK, TypeOK, ThreadTypeOK, Starting
  <2>2. obj[s] = "live" /\ StartsAt(s, Detached)
    BY <1>4, <2>1 DEF StartRef, IInv, LiveOK, StartsAt, Detached
  <2>3. s \notin shutdownEv /\ state[s] = "STOPPED"
    BY <2>2 DEF IInv, LiveOK, StartsAt, Detached, Unlisted, Threadless
  <2>4. <<s, "self">> \notin bref /\ Phase(s) = "starting"
    BY <2>2, <2>3 DEF IInv, RefOK, Phase
  <2>5. Phase(s)' = "attached"
    BY <1>4, <2>1, <2>2, <2>3 DEF StartRef, Phase
  <2>6. \A r \in Sessions \ {s} : SamePhase(r)
    BY <1>4, <2>1 DEF StartRef, SamePhase
  <2>7. phases' = [phases EXCEPT ![s] = "attached"]
    BY <2>5, <2>6, OneMoves
  <2>8. Promise!PAttach(s)
    BY <1>4, <2>4, <2>7
    DEF StartRef, Promise!PAttach, Promise!Move, phases
  <2> QED
    BY <2>8 DEF Promise!PNext
<1>5. CASE StartRemove
  <2>1. PICK s \in Sessions : s = local
    BY <1>5, SessionAssumption
    DEF StartRemove, IInv, PointersOK, TypeOK, ThreadTypeOK, Starting
  <2>2. obj[s] = "live" /\ StartsAt(s, Detached)
    BY <1>5, <2>1 DEF StartRemove, IInv, LiveOK, StartsAt, Detached
  <2>3. s \notin shutdownEv /\ state[s] = "STOPPED"
    BY <2>2 DEF IInv, LiveOK, StartsAt, Detached, Unlisted, Threadless
  <2>4. Phase(s) = "starting"
    BY <2>2, <2>3 DEF IInv, RefOK, Phase
  <2>5. obj' = [obj EXCEPT ![s] = "freed"] /\ obj \in [Sessions -> ObjState]
    BY <1>5, <2>1 DEF StartRemove, IInv, TypeOK, SessionTypeOK
  <2>6. Phase(s)' = "freed"
    BY <2>5 DEF Phase
  <2>7. \A r \in Sessions \ {s} : SamePhase(r)
    BY <1>5, <2>5 DEF StartRemove, SamePhase
  <2>8. phases' = [phases EXCEPT ![s] = "freed"]
    BY <2>6, <2>7, OneMoves
  <2>9. Promise!PFail(s)
    BY <1>5, <2>4, <2>8
    DEF StartRemove, Promise!PFail, Promise!Move, phases
  <2> QED
    BY <2>9 DEF Promise!PNext
<1>6. CASE StartRun
  <2>1. PICK s \in Sessions : s = local
    BY <1>6, SessionAssumption
    DEF StartRun, IInv, PointersOK, TypeOK, ThreadTypeOK, Starting
  <2>2. obj[s] = "live" /\ ~StartsAt(s, Detached) /\ state[s] = "STOPPED"
    BY <1>6, <2>1 DEF StartRun, IInv, LiveOK, StartsAt, Detached
  <2>3. state' = [state EXCEPT ![s] = "RUNNING"]
        /\ state \in [Sessions -> SessionState]
    BY <1>6, <2>1 DEF StartRun, IInv, TypeOK, SessionTypeOK
  <2>4. \A r \in Sessions \ {s} : SamePhase(r)
    BY <1>6, <2>3 DEF StartRun, SamePhase
  <2>5. CASE s \in shutdownEv
    <3>1. Phase(s) = "stopping" /\ Phase(s)' = "stopping"
      BY <1>6, <2>2, <2>5 DEF StartRun, Phase
    <3>2. phases' = phases
      BY <2>4, <3>1, OneMoves DEF phases
    <3> QED
      BY <1>6, <3>2 DEF StartRun, Promise!pvars, phases
  <2>6. CASE s \notin shutdownEv
    <3>1. Phase(s) = "attached"
      BY <2>2, <2>6, LivePhase DEF Phase
    <3>2. Phase(s)' = "streaming"
      BY <1>6, <2>2, <2>3, <2>6 DEF StartRun, Phase
    <3>3. phases' = [phases EXCEPT ![s] = "streaming"]
      BY <2>4, <3>2, OneMoves
    <3>4. Promise!PStream(s)
      BY <1>6, <3>1, <3>3
      DEF StartRun, Promise!PStream, Promise!Move, phases
    <3> QED
      BY <3>4 DEF Promise!PNext
  <2> QED
    BY <2>5, <2>6
<1>7. CASE StartReply
  <2>1. local \in Sessions /\ obj[local] = "live" /\ ~StartsAt(local, Detached)
    BY <1>7, SessionAssumption
    DEF StartReply, IInv, PointersOK, LiveOK, TypeOK, ThreadTypeOK, Starting,
        StartsAt, Detached
  <2>2. CASE local \in slots
    BY <1>1, <1>7, <2>2 DEF StartReply, Quiet
  <2>3. CASE local \notin slots
    <3>1. local \in shutdownEv /\ \A m \in Media : media[local][m] = "done"
      BY <2>1, <2>3 DEF IInv, LiveOK
    <3> QED
      BY <1>7, <2>1, <2>3, <3>1, FreeSteps DEF StartReply
  <2> QED
    BY <2>2, <2>3
<1>8. ASSUME NEW t \in Threads, Erase(t)
      PROVE  [Promise!PNext]_Promise!pvars
  <2>1. cur[t] \in Sessions /\ obj[cur[t]] = "live"
        /\ cur[t] \in shutdownEv /\ \A m \in Media : media[cur[t]][m] = "done"
    BY <1>8
    DEF Erase, IInv, PointersOK, LockOK, LiveOK, JoinedOK, TypeOK,
        ThreadTypeOK, Joining
  <2>2. CASE local = cur[t]
    BY <1>1, <1>8, <2>2 DEF Erase, Quiet
  <2>3. CASE local # cur[t]
    BY <1>8, <2>1, <2>3, FreeSteps DEF Erase, StartsAt
  <2> QED
    BY <2>2, <2>3
<1>9. ASSUME NEW t \in Threads, NEW s \in Sessions, StopSlot(t, s)
      PROVE  [Promise!PNext]_Promise!pvars
  BY <1>9, StopStutters DEF StopSlot
<1>10. CASE CtlTimeout
  BY <1>10, StopStutters DEF CtlTimeout
<1>11. ASSUME NEW s \in Sessions, CtlDisconnect(s)
       PROVE  [Promise!PNext]_Promise!pvars
  BY <1>11, StopStutters DEF CtlDisconnect
<1>21. ASSUME NEW t \in Threads, TellSlot(t)
       PROVE  [Promise!PNext]_Promise!pvars
  <2>1. cur[t] \in Sessions /\ obj[cur[t]] = "live"
        /\ state[cur[t]] = "STOPPING"
    BY <1>21
    DEF TellSlot, IInv, PointersOK, LockOK, LiveOK, ToldOK, TypeOK,
        ThreadTypeOK, Joining
  <2>2. ~StartsAt(cur[t], Detached)
    BY <2>1 DEF IInv, LiveOK, StartsAt, Detached, Threadless
  <2>3. \A r \in Sessions \ {cur[t]} : SamePhase(r)
    BY <1>21 DEF TellSlot, Tell, SamePhase
  <2> QED
    BY <1>21, <2>1, <2>2, <2>3, TellingStops DEF TellSlot, Tell
<1>22. CASE CtlTell \/ CtlHangup
  <2>1. exam \in Sessions /\ exam \in list /\ exam \notin controlEnd
    BY <1>22
    DEF CtlTell, CtlHangup, IInv, PointersOK, CtlOK, TypeOK, SharedTypeOK
  <2>2. obj[exam] = "live" /\ ~StartsAt(exam, Detached)
    BY <2>1
    DEF IInv, CtlOK, LiveOK, TypeOK, SessionTypeOK, ObjState, StartsAt,
        Detached, Unlisted
  <2>3. \A r \in Sessions \ {exam} : SamePhase(r)
    BY <1>22 DEF CtlTell, CtlHangup, Tell, SamePhase
  <2> QED
    BY <1>22, <2>1, <2>2, <2>3, TellingStops DEF CtlTell, CtlHangup, Tell
<1>23. ASSUME NEW s \in Sessions, NEW m \in Media, MediaTell(s, m)
       PROVE  [Promise!PNext]_Promise!pvars
  <2>1. obj[s] = "live" /\ ~StartsAt(s, Detached)
    BY <1>23
    DEF MediaTell, IInv, MediaOK, MediaAlive, TypeOK, SessionTypeOK, ObjState,
        StartsAt, Detached, Threadless
  <2>2. \A r \in Sessions \ {s} : SamePhase(r)
    BY <1>23 DEF MediaTell, Tell, SamePhase
  <2> QED
    BY <1>23, <2>1, <2>2, TellingStops DEF MediaTell, Tell
<1>12. ASSUME NEW s \in Sessions, CtlSweep(s)
       PROVE  [Promise!PNext]_Promise!pvars
  <2>1. s \in list /\ s \notin controlEnd
    BY <1>12 DEF CtlSweep, IInv, CtlOK
  <2>2. obj[s] = "live" /\ ~StartsAt(s, Detached)
    BY <2>1
    DEF IInv, CtlOK, LiveOK, TypeOK, SessionTypeOK, ObjState, StartsAt,
        Detached, Unlisted
  <2>3. \A r \in Sessions \ {s} : SamePhase(r)
    BY <1>12 DEF CtlSweep, SamePhase
  <2> QED
    BY <1>12, <2>2, <2>3, TellingStops DEF CtlSweep
<1>13. ASSUME NEW s \in Sessions, NEW m \in Media, MediaStep(s, m)
       PROVE  [Promise!PNext]_Promise!pvars
  <2>1. m # "self"
    BY SessionAssumption
  <2>2. CASE MediaRef(s, m)
    BY <1>1, <2>1, <2>2 DEF MediaRef, Quiet
  <2>3. CASE MediaPing(s, m)
    BY <1>1, <2>3 DEF MediaPing, Quiet
  <2>4. CASE MediaPingTimeout(s, m) \/ MediaShutdown(s, m) \/ MediaFail(s, m)
    BY <2>4, MediaReturnSteps
    DEF MediaPingTimeout, MediaShutdown, MediaFail, MediaAlive
  <2> QED
    BY <1>13, <1>23, <2>2, <2>3, <2>4 DEF MediaStep
<1>14. CASE StartRefFails \/ StartPush \/ StartSpawn \/ StartCount
       \/ StartCallback
  BY <1>1, <1>14
  DEF StartRefFails, StartPush, StartSpawn, StartCount, StartCallback, Quiet
<1>15. CASE StartEnding
  <2>1. bstate = "ending"
    BY <1>15 DEF StartEnding, IInv, BcastOK, Threads
  <2> QED
    BY <1>1, <1>15, <2>1 DEF StartEnding, EndBroadcast, Quiet
<1>16. ASSUME NEW t \in Threads, Ending(t)
       PROVE  [Promise!PNext]_Promise!pvars
  <2>1. bstate = "ending"
    BY <1>16 DEF Ending, IInv, BcastOK
  <2> QED
    BY <1>1, <1>16, <2>1 DEF Ending, EndBroadcast, Quiet
<1>17. ASSUME NEW t \in Threads, ClearStep(t)
       PROVE  [Promise!PNext]_Promise!pvars
  <2>1. ASSUME NEW s \in Sessions, Skip(t, s)
        PROVE  Quiet
    BY <2>1 DEF Skip, Quiet
  <2>2. CASE JoinThrows(t) \/ Join(t) \/ StopCallback(t) \/ EndClear(t)
    BY <1>1, <2>2 DEF JoinThrows, Join, StopCallback, EndClear, Quiet
  <2> QED
    BY <1>1, <1>8, <1>9, <1>16, <1>17, <1>21, <2>1, <2>2 DEF ClearStep
<1>18. CASE RtspTick \/ \E t \in Http : HttpCall(t)
  <2>1. ASSUME NEW t, NEW a, BeginClear(t, a)
        PROVE  Quiet
    BY <2>1 DEF BeginClear, Quiet
  <2> QED
    BY <1>1, <1>18, <2>1
    DEF RtspTick, HttpCall, SessionCount, TerminateSessions
<1>19. CASE CtlStep
  <2>1. ASSUME NEW s \in Sessions, CtlExamine(s) \/ CtlEvent(s)
        PROVE  Quiet
    BY <2>1 DEF CtlExamine, CtlEvent, Quiet
  <2>2. CASE CtlTop \/ CtlCheck \/ CtlPassDone \/ CtlExitCheck \/ CtlIdle
             \/ CtlDone
    BY <1>1, <2>2
    DEF CtlTop, CtlCheck, CtlPassDone, CtlExitCheck, CtlIdle, CtlDone, Quiet
  <2> QED
    BY <1>1, <1>10, <1>11, <1>12, <1>19, <1>22, <2>1, <2>2 DEF CtlStep
<1>20. CASE EnvStep
  <2>1. ASSUME NEW s \in Sessions, DeadlinePasses(s)
        PROVE  Quiet
    BY <2>1 DEF DeadlinePasses, Quiet
  <2>2. CASE AppExits \/ AppLaunched \/ BroadcastThreadEnds \/ ShutdownRaised
    BY <1>1, <2>2
    DEF AppExits, AppLaunched, BroadcastThreadEnds, ShutdownRaised, Quiet
  <2> QED
    BY <1>1, <1>20, <2>1, <2>2 DEF EnvStep
<1> QED
  BY <1>2, <1>3, <1>4, <1>5, <1>6, <1>7, <1>13, <1>14, <1>15, <1>17, <1>18,
     <1>19, <1>20
  DEF Next, StartStep

(* The threads of the streaming host implement SessionPromise.              *)
THEOREM ImplementsPromise == Spec => KeepsPromise
<1>1. IInv /\ [Next]_vars => [Promise!PNext]_Promise!pvars
  BY StepsKeepPromise
<1> QED
  BY InitPromise, Inductive, <1>1, PTL DEF Spec, KeepsPromise, Promise!PSpec

-----------------------------------------------------------------------------
(* How sessions of StreamSession end, for any number of sessions, media    *)
(* and HTTP threads: running_sessions counts them exactly, and while the   *)
(* application runs on and nobody terminates sessions, shuts the host down *)
(* or fails to start the broadcast, no clean-up ever waits for something   *)
(* that does not come.                                                     *)

(* The count.  A session is counted once, by start, and uncounted once, by *)
(* the join that everybody else's join waits for; both sets only grow.     *)
HasThreads(s) == \E m \in Media : media[s][m] # "none"
Gone(s) ==
  /\ HasThreads(s)
  /\ \/ obj[s] # "live" \/ s \notin slots
     \/ \E t \in Threads : cur[t] = s /\ pc[t] \in {"stopcb", "erase"}

CountedOnes == {s \in Sessions : Counted(s)}
GoneOnes == {s \in Sessions : Gone(s)}
Balance == (Wrap + Cardinality(CountedOnes) - Cardinality(GoneOnes)) % Wrap

Counting == pc[Rtsp] = "count" => state[local] # "STOPPED"
CountOK ==
  /\ Counting
  /\ IsFiniteSet(CountedOnes) /\ IsFiniteSet(GoneOnes)
  /\ running = Balance

(* The model calls these sessions uncounted.                               *)
LEMMA GoneIsUncounted == ASSUME TypeOK, NEW s \in Sessions PROVE Gone(s) <=> Uncounted(s)
<1>1. media[s] \in [Media -> MediaState]
  BY DEF TypeOK, SessionTypeOK
<1>2. media[s] = [m \in Media |-> "none"] <=> ~HasThreads(s)
  BY <1>1 DEF HasThreads
<1> QED BY <1>2 DEF Gone, Uncounted

(* Arithmetic of an unsigned counter.                                      *)
LEMMA Remainder ==
  ASSUME NEW w \in Nat, w > 1, NEW q \in Int, NEW r \in 0..(w - 1)
  PROVE  (q * w + r) % w = r
OBVIOUS

(* Adding one commutes with the remainder,                                 *)
LEMMA OneMore ==
  ASSUME NEW w \in Nat, w > 1, NEW x \in Int
  PROVE  (x + 1) % w = ((x % w) + 1) % w
<1> DEFINE q == x \div w
           r == x % w
<1>1. q \in Int /\ r \in 0..(w - 1) /\ x = q * w + r
  OBVIOUS
<1> HIDE DEF q, r
<1>2. CASE r + 1 < w
  <2>1. r + 1 \in 0..(w - 1) /\ x + 1 = q * w + (r + 1) /\ r + 1 = 0 * w + (r + 1)
    BY <1>1, <1>2
  <2>2. (x + 1) % w = r + 1 /\ (r + 1) % w = r + 1
    BY <1>1, <2>1, Remainder
  <2> QED BY <2>2 DEF r
<1>3. CASE r + 1 = w
  <2>1. q + 1 \in Int /\ 0 \in 0..(w - 1) /\ x + 1 = (q + 1) * w + 0 /\ r + 1 = 1 * w + 0
    BY <1>1, <1>3
  <2>2. (x + 1) % w = 0 /\ (r + 1) % w = 0
    BY <1>1, <2>1, Remainder
  <2> QED BY <2>2 DEF r
<1> QED BY <1>1, <1>2, <1>3

(* and so does taking one away.                                            *)
LEMMA OneFewer ==
  ASSUME NEW w \in Nat, w > 1, NEW x \in Int
  PROVE  (x - 1) % w = ((x % w) + w - 1) % w
<1> DEFINE q == x \div w
           r == x % w
<1>1. q \in Int /\ r \in 0..(w - 1) /\ x = q * w + r
  OBVIOUS
<1> HIDE DEF q, r
<1>2. CASE r > 0
  <2>1. r - 1 \in 0..(w - 1) /\ x - 1 = q * w + (r - 1) /\ r + w - 1 = 1 * w + (r - 1)
    BY <1>1, <1>2
  <2>2. (x - 1) % w = r - 1 /\ (r + w - 1) % w = r - 1
    BY <1>1, <2>1, Remainder
  <2> QED BY <2>2 DEF r
<1>3. CASE r = 0
  <2>1. /\ q - 1 \in Int /\ w - 1 \in 0..(w - 1)
        /\ x - 1 = (q - 1) * w + (w - 1) /\ r + w - 1 = 0 * w + (w - 1)
    BY <1>1, <1>3
  <2>2. (x - 1) % w = w - 1 /\ (r + w - 1) % w = w - 1
    BY <1>1, <2>1, Remainder
  <2> QED BY <2>2 DEF r
<1> QED BY <1>1, <1>2, <1>3

(* A step that counts nobody keeps the balance,                            *)
LEMMA BalanceKept ==
  ASSUME CountOK, CountedOnes' = CountedOnes, GoneOnes' = GoneOnes, UNCHANGED running,
         Counting'
  PROVE  CountOK'
BY DEF CountOK, Balance

(* counting a session raises it by one,                                    *)
LEMMA BalanceUp ==
  ASSUME CountOK, NEW s, s \notin CountedOnes, CountedOnes' = CountedOnes \cup {s},
         GoneOnes' = GoneOnes, running' = (running + 1) % Wrap, Counting'
  PROVE  CountOK'
<1> DEFINE x == Wrap + Cardinality(CountedOnes) - Cardinality(GoneOnes)
<1>1. Cardinality(CountedOnes) \in Nat /\ Cardinality(GoneOnes) \in Nat
  BY FS_CardinalityType DEF CountOK
<1>2. /\ IsFiniteSet(CountedOnes')
      /\ Cardinality(CountedOnes') = Cardinality(CountedOnes) + 1
  BY FS_AddElement DEF CountOK
<1>3. x \in Int /\ Wrap + Cardinality(CountedOnes') - Cardinality(GoneOnes') = x + 1
  BY <1>1, <1>2, SessionAssumption
<1>4. running' = (x + 1) % Wrap
  BY <1>3, OneMore, SessionAssumption DEF CountOK, Balance
<1>5. Balance' = (x + 1) % Wrap
  BY <1>3 DEF Balance
<1> QED BY <1>2, <1>4, <1>5 DEF CountOK

(* and uncounting one lowers it.                                           *)
LEMMA BalanceDown ==
  ASSUME CountOK, NEW s, s \notin GoneOnes, GoneOnes' = GoneOnes \cup {s},
         CountedOnes' = CountedOnes, running' = OneLess,
         Counting'
  PROVE  CountOK'
<1> DEFINE x == Wrap + Cardinality(CountedOnes) - Cardinality(GoneOnes)
<1>1. Cardinality(CountedOnes) \in Nat /\ Cardinality(GoneOnes) \in Nat
  BY FS_CardinalityType DEF CountOK
<1>2. IsFiniteSet(GoneOnes') /\ Cardinality(GoneOnes') = Cardinality(GoneOnes) + 1
  BY FS_AddElement DEF CountOK
<1>3. x \in Int /\ Wrap + Cardinality(CountedOnes') - Cardinality(GoneOnes') = x - 1
  BY <1>1, <1>2, SessionAssumption
<1>4. running' = (x - 1) % Wrap
  BY <1>3, OneFewer, SessionAssumption DEF CountOK, Balance, OneLess
<1>5. Balance' = (x - 1) % Wrap
  BY <1>3 DEF Balance
<1> QED BY <1>2, <1>4, <1>5 DEF CountOK

(* All steps but the two that count leave both sets as they are.           *)
Quiet ==
  /\ UNCHANGED running
  /\ \A s \in Sessions : (Counted(s)' <=> Counted(s)) /\ (Gone(s)' <=> Gone(s))
  /\ Counting'

(* All steps but start and join count nobody.                              *)
LEMMA QuietStep ==
  ASSUME IInv, Counting, ~StartCount, \A t \in Threads : ~Join(t), [Next]_vars
  PROVE  Quiet
<1> USE DEF sessionVars, slotVars, bcastVars, ctlVars, threadVars, platVars, envVars,
            Goto, Threads, StartsAt
<1> USE SessionAssumption
    DEF Quiet, Counting, Counted, Gone, HasThreads, IInv, TypeOK, SessionTypeOK, SharedTypeOK,
        ThreadTypeOK, PointersOK, LiveOK, MediaOK, LockOK, JoinedOK, Starting, Threadless,
        Unlisted, Joining, ClearPC, StartPC, MediaState
<1>1. ASSUME NEW s \in Sessions, Announce(s) PROVE Quiet
  BY <1>1 DEF Announce, SlotsFree, Alloc
<1>2. CASE StartRef
  BY <1>2 DEF StartRef
<1>3. CASE StartRefFails
  BY <1>3 DEF StartRefFails
<1>4. CASE StartRemove
  BY <1>4 DEF StartRemove, SlotsFree
<1>5. CASE StartPush
  BY <1>5 DEF StartPush, ListLocked
<1>6. CASE StartSpawn
  BY <1>6 DEF StartSpawn
<1>7. CASE StartRun
  BY <1>7 DEF StartRun
<1>8. CASE StartCount
  BY <1>8
<1>9. CASE StartCallback
  BY <1>9 DEF StartCallback
<1>10. CASE StartReply
  BY <1>10 DEF StartReply, Free, IsLast, Release
<1>11. CASE StartEnding
  BY <1>11 DEF StartEnding, EndBroadcast
<1>12. ASSUME NEW t \in Threads, NEW a \in BOOLEAN, BeginClear(t, a) PROVE Quiet
  BY <1>12 DEF BeginClear, SlotsFree
<1>13. ASSUME NEW t \in Threads, NEW s \in Sessions, Skip(t, s) PROVE Quiet
  BY <1>13 DEF Skip
<1>14. ASSUME NEW t \in Threads, NEW s \in Sessions, StopSlot(t, s) PROVE Quiet
  BY <1>14 DEF StopSlot, Stop, WinsStop
<1>15. ASSUME NEW t \in Threads, JoinThrows(t) PROVE Quiet
  BY <1>15 DEF JoinThrows
<1>16. ASSUME NEW t \in Threads, Join(t) PROVE Quiet
  BY <1>16
<1>17. ASSUME NEW t \in Threads, StopCallback(t) PROVE Quiet
  BY <1>17 DEF StopCallback
<1>18. ASSUME NEW t \in Threads, Erase(t) PROVE Quiet
  BY <1>18 DEF Erase, Free, IsLast, Release
<1>19. ASSUME NEW t \in Threads, Ending(t) PROVE Quiet
  BY <1>19 DEF Ending, EndBroadcast
<1>20. ASSUME NEW t \in Threads, EndClear(t) PROVE Quiet
  BY <1>20 DEF EndClear
<1>21. ASSUME NEW s \in Sessions, NEW m \in Media, MediaRef(s, m) PROVE Quiet
  BY <1>21 DEF MediaRef
<1>22. ASSUME NEW s \in Sessions, NEW m \in Media, MediaPing(s, m) PROVE Quiet
  BY <1>22 DEF MediaPing
<1>23. ASSUME NEW s \in Sessions, NEW m \in Media, MediaPingTimeout(s, m) PROVE Quiet
  BY <1>23 DEF MediaPingTimeout, MediaReturn, Release, Stop, WinsStop
<1>24. ASSUME NEW s \in Sessions, NEW m \in Media, MediaShutdown(s, m) PROVE Quiet
  BY <1>24 DEF MediaShutdown, MediaReturn, Release, Stop, WinsStop
<1>25. ASSUME NEW s \in Sessions, NEW m \in Media, MediaFail(s, m) PROVE Quiet
  BY <1>25 DEF MediaFail, MediaReturn, Release, Stop, WinsStop
<1>26. CASE CtlTop
  BY <1>26 DEF CtlTop, ShuttingDown
<1>27. CASE CtlTimeout
  BY <1>27 DEF CtlTimeout, Stop, WinsStop
<1>28. CASE CtlCheck
  BY <1>28 DEF CtlCheck, EndControl
<1>29. CASE CtlPassDone
  BY <1>29 DEF CtlPassDone, ShuttingDown
<1>30. CASE CtlExitCheck
  BY <1>30 DEF CtlExitCheck, MayLeaveLoop
<1>31. CASE CtlIdle
  BY <1>31 DEF CtlIdle
<1>32. CASE CtlDone
  BY <1>32 DEF CtlDone
<1>33. ASSUME NEW s \in Sessions, CtlExamine(s) PROVE Quiet
  BY <1>33 DEF CtlExamine, ShuttingDown, PastDeadline
<1>34. ASSUME NEW s \in Sessions, CtlEvent(s) PROVE Quiet
  BY <1>34 DEF CtlEvent
<1>35. ASSUME NEW s \in Sessions, CtlDisconnect(s) PROVE Quiet
  BY <1>35 DEF CtlDisconnect, Stop, WinsStop
<1>36. ASSUME NEW s \in Sessions, CtlSweep(s) PROVE Quiet
  BY <1>36 DEF CtlSweep
<1>37. ASSUME NEW s \in Sessions, DeadlinePasses(s) PROVE Quiet
  BY <1>37 DEF DeadlinePasses
<1>38. CASE AppExits
  BY <1>38 DEF AppExits
<1>39. CASE AppLaunched
  BY <1>39 DEF AppLaunched
<1>40. CASE BroadcastThreadEnds
  BY <1>40 DEF BroadcastThreadEnds
<1>41. CASE ShutdownRaised
  BY <1>41 DEF ShutdownRaised
<1>42. CASE UNCHANGED vars
  BY <1>42 DEF vars
<1>50. ASSUME NEW t \in Threads, TellSlot(t) PROVE Quiet
  BY <1>50 DEF TellSlot, Tell
<1>51. ASSUME NEW s \in Sessions, NEW m \in Media, MediaTell(s, m) PROVE Quiet
  BY <1>51 DEF MediaTell, Tell
<1>52. CASE CtlTell
  BY <1>52 DEF CtlTell, Tell
<1>53. CASE CtlHangup
  BY <1>53 DEF CtlHangup, Tell
<1>43. CASE StartStep
  BY <1>43, <1>2, <1>3, <1>4, <1>5, <1>6, <1>7, <1>8, <1>9, <1>10, <1>11 DEF
    StartStep
<1>44. CASE RtspTick
  <2>1. bshutdown \in BOOLEAN /\ TRUE \in BOOLEAN
    BY DEF IInv, TypeOK, SharedTypeOK
  <2>2. PICK a \in BOOLEAN : BeginClear(Rtsp, a)
    BY <1>44, <2>1 DEF RtspTick
  <2> QED BY <1>12, <2>2
<1>45. ASSUME NEW t \in Threads, ClearStep(t) PROVE Quiet
  BY <1>45, <1>13, <1>14, <1>15, <1>16, <1>17, <1>18, <1>19, <1>20, <1>50 DEF
    ClearStep
<1>46. ASSUME NEW t \in Http, HttpCall(t) PROVE Quiet
  BY <1>12, <1>46 DEF HttpCall, SessionCount, TerminateSessions
<1>47. ASSUME NEW s \in Sessions, NEW m \in Media, MediaStep(s, m) PROVE Quiet
  BY <1>47, <1>21, <1>22, <1>23, <1>24, <1>25, <1>51 DEF MediaStep
<1>48. CASE CtlStep
  BY <1>48, <1>26, <1>27, <1>28, <1>29, <1>30, <1>31, <1>32, <1>33, <1>34,
    <1>35, <1>36, <1>52, <1>53 DEF CtlStep
<1>49. CASE EnvStep
  BY <1>49, <1>37, <1>38, <1>39, <1>40, <1>41 DEF EnvStep
<1> QED BY <1>1, <1>42, <1>43, <1>44, <1>45, <1>46, <1>47, <1>48, <1>49 DEF Next

(* Every step keeps the count exact,                                       *)
LEMMA CountStep == IInv /\ CountOK /\ [Next]_vars => CountOK'
<1> SUFFICES ASSUME IInv, CountOK, [Next]_vars PROVE CountOK'
  OBVIOUS
<1>1. ASSUME Quiet PROVE CountOK'
  <2>1. CountedOnes' = CountedOnes /\ GoneOnes' = GoneOnes
    BY <1>1 DEF Quiet, CountedOnes, GoneOnes
  <2> QED BY <1>1, <2>1, BalanceKept DEF Quiet
<1>2. CASE StartCount
  <2>1. local \in Sessions /\ state[local] # "STOPPED"
    BY <1>2 DEF StartCount, IInv, PointersOK, Starting, TypeOK, ThreadTypeOK,
      CountOK, Counting
  <2>2. pc'[Rtsp] # "count" /\ UNCHANGED <<state, media, obj, slots, cur, local>>
    BY <1>2 DEF StartCount, Goto, sessionVars, slotVars, IInv, TypeOK,
      ThreadTypeOK, Threads
  <2>3. CountedOnes' = CountedOnes \cup {local} /\ local \notin CountedOnes
    BY <1>2, <2>1, <2>2 DEF StartCount, CountedOnes, Counted
  <2>4. \A t \in Threads : pc'[t] \in {"stopcb", "erase"} <=> pc[t] \in {"stopcb", "erase"}
    BY <1>2 DEF StartCount, Goto, IInv, TypeOK, ThreadTypeOK, Threads
  <2>5. GoneOnes' = GoneOnes
    BY <2>2, <2>4 DEF GoneOnes, Gone, HasThreads
  <2>6. running' = (running + 1) % Wrap
    BY <1>2 DEF StartCount
  <2> QED BY <2>2, <2>3, <2>5, <2>6, BalanceUp DEF Counting
<1>3. ASSUME NEW t \in Threads, Join(t) PROVE CountOK'
  <2> DEFINE s == cur[t]
  <2>1. s \in Sessions /\ s \in slots /\ obj[s] = "live" /\ slotsLock = t
    BY <1>3, SessionAssumption
    DEF Join, IInv, PointersOK, LockOK, LiveOK, Joining, ClearPC, TypeOK, ThreadTypeOK
  <2>2. HasThreads(s)
    BY <1>3, SessionAssumption DEF Join, Joinable, HasThreads
  <2>3. \A u \in Threads : u # t => cur[u] = NoSession
    BY <2>1 DEF IInv, PointersOK, LockOK, Joining, ClearPC
  <2>4. s \notin GoneOnes
    BY <1>3, <2>1, <2>3, SessionAssumption DEF Join, GoneOnes, Gone
  <2>5. /\ UNCHANGED <<state, media, obj, slots, cur, local>>
        /\ pc' = [pc EXCEPT ![t] = pc'[t]] /\ pc'[t] \in {"stopcb", "erase"}
    BY <1>3 DEF Join, Goto, sessionVars, slotVars, IInv, TypeOK, ThreadTypeOK
  <2>6. pc'[Rtsp] = "count" <=> pc[Rtsp] = "count"
    BY <1>3, <2>5 DEF Join, IInv, TypeOK, ThreadTypeOK, Threads
  <2>7. CountedOnes' = CountedOnes
    BY <2>5, <2>6 DEF CountedOnes, Counted
  <2>8. GoneOnes' = GoneOnes \cup {s}
    BY <1>3, <2>1, <2>2, <2>5 DEF Join, GoneOnes, Gone, HasThreads, IInv,
      TypeOK, ThreadTypeOK
  <2>9. running' = OneLess /\ Counting'
    BY <1>3, <2>5, <2>6 DEF Join, CountOK, Counting
  <2> QED BY <2>4, <2>7, <2>8, <2>9, BalanceDown
<1>4. CASE ~StartCount /\ \A t \in Threads : ~Join(t)
  BY <1>1, <1>4, QuietStep DEF CountOK
<1> QED BY <1>2, <1>3, <1>4

(* and at first it is.                                                     *)
LEMMA CountInit == Init => CountOK
<1> SUFFICES ASSUME Init PROVE CountOK
  OBVIOUS
<1>1. CountedOnes = {} /\ GoneOnes = {}
  BY DEF Init, CountedOnes, GoneOnes, Counted, Gone, HasThreads
<1>2. Cardinality({}) = 0 /\ IsFiniteSet({})
  BY FS_EmptySet
<1>3. Wrap = 1 * Wrap + 0 /\ 0 \in 0..(Wrap - 1)
  BY SessionAssumption
<1>4. Wrap % Wrap = 0
  BY <1>3, Remainder, SessionAssumption
<1>5. Balance = Wrap % Wrap
  BY <1>1, <1>2, SessionAssumption DEF Balance
<1>6. pc[Rtsp] # "count" /\ running = 0
  BY DEF Init, Threads
<1> QED BY <1>1, <1>2, <1>4, <1>5, <1>6 DEF CountOK, Counting

(* running_sessions is the number of sessions counted less those joined,   *)
(* in whatever order the threads get there and however often it wraps.     *)
THEOREM CountIsExact == Spec => []RunningExact
<1>1. IInv /\ CountOK => RunningExact
  <2> SUFFICES ASSUME IInv, CountOK PROVE RunningExact
    OBVIOUS
  <2>1. GoneOnes = {s \in Sessions : Uncounted(s)}
    BY GoneIsUncounted DEF IInv, GoneOnes
  <2> QED BY <2>1 DEF CountOK, Balance, CountedOnes, RunningExact
<1>2. Spec => []CountOK
  <2>1. Spec => [](IInv /\ CountOK)
    BY InitIInv, NextIInv, CountInit, CountStep, PTL DEF Spec
  <2> QED BY <2>1, PTL
<1> QED BY <1>1, <1>2, Inductive, PTL

-----------------------------------------------------------------------------
(* Clean-up.  The control thread leaves its loop only when the broadcast   *)
(* is destroyed, which is when nobody is listed any more; and whatever is  *)
(* joined, or was ended by the control thread, has been stopped.           *)
Calm == ~AppMayExit /\ ~MayTerminate /\ ~MayFail /\ ~MayShutdown

Undisturbed ==
  app /\ ~shutdown /\ pc[Rtsp] # "remove" /\ \A t \in Threads : ~all[t]
LoopsOn ==
  /\ bshutdown => bref = {} /\ \E t \in Threads : pc[t] \in {"ending", "unref"}
  /\ ctl \in {"sweep", "done"} => bshutdown
ListedLive == \A s \in list : obj[s] = "live" /\ s \notin controlEnd
Stopped ==
  /\ \A s \in controlEnd : state[s] = "STOPPING"
  /\ \A t \in Threads : pc[t] \in Joining => state[cur[t]] = "STOPPING"
CalmOK == Undisturbed /\ LoopsOn /\ ListedLive /\ Stopped

(* A media thread never gives up the last reference.                       *)
LEMMA NeverLast ==
  ASSUME IInv, NEW s \in Sessions, NEW m \in Media, MediaAlive(s, m)
  PROVE  bref # {<<s, m>>}
<1>1. obj[s] = "live"
  BY DEF IInv, MediaOK, MediaAlive, TypeOK, SessionTypeOK, ObjState
<1>2. ~StartsAt(s, Threadless)
  BY <1>1 DEF IInv, MediaOK, MediaAlive
<1>3. <<s, "self">> \in bref
  BY <1>1, <1>2 DEF IInv, RefOK, StartsAt, Detached, Threadless
<1> QED BY <1>3, SessionAssumption

(* When the loop is over, nobody is listed.                                *)
LEMMA ListEmpty ==
  ASSUME IInv, LoopsOn, ListedLive, ctl \in {"sweep", "done"}
  PROVE  list = {}
<1> SUFFICES ASSUME NEW s \in list PROVE FALSE
  OBVIOUS
<1>1. s \in Sessions /\ obj[s] = "live"
  BY DEF ListedLive, IInv, TypeOK, SharedTypeOK
<1>2. ~StartsAt(s, Unlisted)
  BY <1>1 DEF IInv, LiveOK
<1>3. <<s, "self">> \in bref
  BY <1>1, <1>2 DEF IInv, RefOK, StartsAt, Detached, Unlisted
<1> QED BY <1>3 DEF LoopsOn

(* The environment stays calm.                                             *)
LEMMA UndisturbedStep ==
  ASSUME Calm, IInv, CalmOK, [Next]_vars
  PROVE  Undisturbed'
<1> USE DEF sessionVars, slotVars, bcastVars, ctlVars, threadVars, platVars, envVars,
            Goto, Threads, StartsAt
<1> USE SessionAssumption
    DEF Calm, CalmOK, Undisturbed, IInv, TypeOK, SessionTypeOK, SharedTypeOK,
        ThreadTypeOK, PointersOK, LockOK, Starting, Joining, ClearPC, StartPC
<1>1. ASSUME NEW s \in Sessions, Announce(s) PROVE Undisturbed'
  BY <1>1 DEF Announce, SlotsFree, Alloc
<1>2. CASE StartRef
  BY <1>2 DEF StartRef
<1>3. CASE StartRefFails
  BY <1>3 DEF StartRefFails
<1>4. CASE StartRemove
  BY <1>4 DEF StartRemove, SlotsFree
<1>5. CASE StartPush
  BY <1>5 DEF StartPush, ListLocked
<1>6. CASE StartSpawn
  BY <1>6 DEF StartSpawn
<1>7. CASE StartRun
  BY <1>7 DEF StartRun
<1>8. CASE StartCount
  BY <1>8 DEF StartCount
<1>9. CASE StartCallback
  BY <1>9 DEF StartCallback
<1>10. CASE StartReply
  BY <1>10 DEF StartReply, Free, IsLast, Release
<1>11. CASE StartEnding
  BY <1>11 DEF StartEnding, EndBroadcast
<1>12. ASSUME NEW t \in Threads, BeginClear(t, FALSE) PROVE Undisturbed'
  BY <1>12 DEF BeginClear, SlotsFree
<1>13. ASSUME NEW t \in Threads, NEW s \in Sessions, Skip(t, s) PROVE Undisturbed'
  BY <1>13 DEF Skip
<1>14. ASSUME NEW t \in Threads, NEW s \in Sessions, StopSlot(t, s) PROVE Undisturbed'
  BY <1>14 DEF StopSlot, Stop, WinsStop
<1>15. ASSUME NEW t \in Threads, JoinThrows(t) PROVE Undisturbed'
  BY <1>15 DEF JoinThrows
<1>16. ASSUME NEW t \in Threads, Join(t) PROVE Undisturbed'
  BY <1>16 DEF Join, Joinable
<1>17. ASSUME NEW t \in Threads, StopCallback(t) PROVE Undisturbed'
  BY <1>17 DEF StopCallback
<1>18. ASSUME NEW t \in Threads, Erase(t) PROVE Undisturbed'
  BY <1>18 DEF Erase, Free, IsLast, Release
<1>19. ASSUME NEW t \in Threads, Ending(t) PROVE Undisturbed'
  BY <1>19 DEF Ending, EndBroadcast
<1>20. ASSUME NEW t \in Threads, EndClear(t) PROVE Undisturbed'
  BY <1>20 DEF EndClear
<1>21. ASSUME NEW s \in Sessions, NEW m \in Media, MediaRef(s, m) PROVE Undisturbed'
  BY <1>21 DEF MediaRef
<1>22. ASSUME NEW s \in Sessions, NEW m \in Media, MediaPing(s, m) PROVE Undisturbed'
  BY <1>22 DEF MediaPing
<1>23. ASSUME NEW s \in Sessions, NEW m \in Media, MediaPingTimeout(s, m) PROVE Undisturbed'
  BY <1>23 DEF MediaPingTimeout, MediaReturn, Release, Stop, WinsStop
<1>24. ASSUME NEW s \in Sessions, NEW m \in Media, MediaShutdown(s, m) PROVE Undisturbed'
  BY <1>24 DEF MediaShutdown, MediaReturn, Release, Stop, WinsStop
<1>25. ASSUME NEW s \in Sessions, NEW m \in Media, MediaFail(s, m) PROVE Undisturbed'
  BY <1>25 DEF MediaFail, MediaReturn, Release, Stop, WinsStop
<1>26. CASE CtlTop
  BY <1>26 DEF CtlTop, ShuttingDown
<1>27. CASE CtlTimeout
  BY <1>27 DEF CtlTimeout, Stop, WinsStop
<1>28. CASE CtlCheck
  BY <1>28 DEF CtlCheck, EndControl
<1>29. CASE CtlPassDone
  BY <1>29 DEF CtlPassDone, ShuttingDown
<1>30. CASE CtlExitCheck
  BY <1>30 DEF CtlExitCheck, MayLeaveLoop
<1>31. CASE CtlIdle
  BY <1>31 DEF CtlIdle
<1>32. CASE CtlDone
  BY <1>32 DEF CtlDone
<1>33. ASSUME NEW s \in Sessions, CtlExamine(s) PROVE Undisturbed'
  BY <1>33 DEF CtlExamine, ShuttingDown, PastDeadline
<1>34. ASSUME NEW s \in Sessions, CtlEvent(s) PROVE Undisturbed'
  BY <1>34 DEF CtlEvent
<1>35. ASSUME NEW s \in Sessions, CtlDisconnect(s) PROVE Undisturbed'
  BY <1>35 DEF CtlDisconnect, Stop, WinsStop
<1>36. ASSUME NEW s \in Sessions, CtlSweep(s) PROVE Undisturbed'
  BY <1>36 DEF CtlSweep
<1>37. ASSUME NEW s \in Sessions, DeadlinePasses(s) PROVE Undisturbed'
  BY <1>37 DEF DeadlinePasses
<1>38. CASE AppExits
  BY <1>38 DEF AppExits
<1>39. CASE AppLaunched
  BY <1>39 DEF AppLaunched
<1>40. CASE BroadcastThreadEnds
  BY <1>40 DEF BroadcastThreadEnds
<1>41. CASE ShutdownRaised
  BY <1>41 DEF ShutdownRaised
<1>42. CASE UNCHANGED vars
  BY <1>42 DEF vars
<1>50. ASSUME NEW t \in Threads, TellSlot(t) PROVE Undisturbed'
  BY <1>50 DEF TellSlot, Tell
<1>51. ASSUME NEW s \in Sessions, NEW m \in Media, MediaTell(s, m) PROVE Undisturbed'
  BY <1>51 DEF MediaTell, Tell
<1>52. CASE CtlTell
  BY <1>52 DEF CtlTell, Tell
<1>53. CASE CtlHangup
  BY <1>53 DEF CtlHangup, Tell
<1>43. CASE StartStep
  BY <1>43, <1>2, <1>3, <1>4, <1>5, <1>6, <1>7, <1>8, <1>9, <1>10, <1>11 DEF
    StartStep
<1>44. CASE RtspTick
  <2>1. shutdown = FALSE
    BY DEF Undisturbed
  <2>2. bshutdown = FALSE \/ ~SlotsFree \/ pc[Rtsp] = "unref"
    BY DEF LoopsOn, SlotsFree
  <2>3. BeginClear(Rtsp, FALSE)
    BY <1>44, <2>1, <2>2 DEF RtspTick, BeginClear
  <2> QED BY <1>12, <2>3
<1>45. ASSUME NEW t \in Threads, ClearStep(t) PROVE Undisturbed'
  BY <1>45, <1>13, <1>14, <1>15, <1>16, <1>17, <1>18, <1>19, <1>20, <1>50 DEF
    ClearStep
<1>46. ASSUME NEW t \in Http, HttpCall(t) PROVE Undisturbed'
  <2>1. shutdown = FALSE
    BY DEF Undisturbed
  <2>2. t \in Threads /\ BeginClear(t, FALSE)
    BY <1>46, <2>1 DEF HttpCall, SessionCount, TerminateSessions
  <2> QED BY <1>12, <2>2
<1>47. ASSUME NEW s \in Sessions, NEW m \in Media, MediaStep(s, m) PROVE Undisturbed'
  BY <1>47, <1>21, <1>22, <1>23, <1>24, <1>25, <1>51 DEF MediaStep
<1>48. CASE CtlStep
  BY <1>48, <1>26, <1>27, <1>28, <1>29, <1>30, <1>31, <1>32, <1>33, <1>34,
    <1>35, <1>36, <1>52, <1>53 DEF CtlStep
<1>49. CASE EnvStep
  BY <1>49, <1>37, <1>38, <1>39, <1>40, <1>41 DEF EnvStep
<1> QED BY <1>1, <1>42, <1>43, <1>44, <1>45, <1>46, <1>47, <1>48, <1>49 DEF Next

(* The control thread leaves its loop only with the broadcast.             *)
LEMMA LoopsOnStep ==
  ASSUME Calm, IInv, CalmOK, [Next]_vars
  PROVE  LoopsOn'
<1> USE DEF sessionVars, slotVars, bcastVars, ctlVars, threadVars, platVars, envVars,
            Goto, Threads, StartsAt
<1> USE SessionAssumption
    DEF Calm, CalmOK, LoopsOn, Undisturbed, BcastOK, RefOK, IInv, TypeOK, SessionTypeOK,
        SharedTypeOK, ThreadTypeOK, PointersOK, LockOK, Starting, Joining, ClearPC,
        StartPC
<1>1. ASSUME NEW s \in Sessions, Announce(s) PROVE LoopsOn'
  BY <1>1 DEF Announce, SlotsFree, Alloc
<1>2. CASE StartRef
  BY <1>2 DEF StartRef
<1>3. CASE StartRefFails
  BY <1>3 DEF StartRefFails
<1>4. CASE StartRemove
  BY <1>4 DEF StartRemove, SlotsFree
<1>5. CASE StartPush
  BY <1>5 DEF StartPush, ListLocked
<1>6. CASE StartSpawn
  BY <1>6 DEF StartSpawn
<1>7. CASE StartRun
  BY <1>7 DEF StartRun
<1>8. CASE StartCount
  BY <1>8 DEF StartCount
<1>9. CASE StartCallback
  BY <1>9 DEF StartCallback
<1>10. CASE StartReply
  BY <1>10 DEF StartReply, Free, IsLast, Release
<1>11. CASE StartEnding
  BY <1>11 DEF StartEnding, EndBroadcast
<1>12. ASSUME NEW t \in Threads, BeginClear(t, FALSE) PROVE LoopsOn'
  BY <1>12 DEF BeginClear, SlotsFree
<1>13. ASSUME NEW t \in Threads, NEW s \in Sessions, Skip(t, s) PROVE LoopsOn'
  BY <1>13 DEF Skip
<1>14. ASSUME NEW t \in Threads, NEW s \in Sessions, StopSlot(t, s) PROVE LoopsOn'
  BY <1>14 DEF StopSlot, Stop, WinsStop
<1>15. ASSUME NEW t \in Threads, JoinThrows(t) PROVE LoopsOn'
  BY <1>15 DEF JoinThrows
<1>16. ASSUME NEW t \in Threads, Join(t) PROVE LoopsOn'
  BY <1>16 DEF Join, Joinable
<1>17. ASSUME NEW t \in Threads, StopCallback(t) PROVE LoopsOn'
  BY <1>17 DEF StopCallback
<1>18. ASSUME NEW t \in Threads, Erase(t) PROVE LoopsOn'
  BY <1>18 DEF Erase, Free, IsLast, Release
<1>19. ASSUME NEW t \in Threads, Ending(t) PROVE LoopsOn'
  BY <1>19 DEF Ending, EndBroadcast
<1>20. ASSUME NEW t \in Threads, EndClear(t) PROVE LoopsOn'
  BY <1>20 DEF EndClear
<1>21. ASSUME NEW s \in Sessions, NEW m \in Media, MediaRef(s, m) PROVE LoopsOn'
  BY <1>21 DEF MediaRef
<1>22. ASSUME NEW s \in Sessions, NEW m \in Media, MediaPing(s, m) PROVE LoopsOn'
  BY <1>22 DEF MediaPing
<1>23. ASSUME NEW s \in Sessions, NEW m \in Media, MediaPingTimeout(s, m) PROVE LoopsOn'
  <2>1. bref # {<<s, m>>}
    BY <1>23, NeverLast DEF MediaPingTimeout, MediaAlive
  <2> QED BY <1>23, <2>1 DEF MediaPingTimeout, MediaReturn, Release, Stop, WinsStop
<1>24. ASSUME NEW s \in Sessions, NEW m \in Media, MediaShutdown(s, m) PROVE LoopsOn'
  <2>1. bref # {<<s, m>>}
    BY <1>24, NeverLast DEF MediaShutdown, MediaAlive
  <2> QED BY <1>24, <2>1 DEF MediaShutdown, MediaReturn, Release, Stop, WinsStop
<1>25. ASSUME NEW s \in Sessions, NEW m \in Media, MediaFail(s, m) PROVE LoopsOn'
  <2>1. bref # {<<s, m>>}
    BY <1>25, NeverLast DEF MediaFail, MediaAlive
  <2> QED BY <1>25, <2>1 DEF MediaFail, MediaReturn, Release, Stop, WinsStop
<1>26. CASE CtlTop
  BY <1>26 DEF CtlTop, ShuttingDown
<1>27. CASE CtlTimeout
  BY <1>27 DEF CtlTimeout, Stop, WinsStop
<1>28. CASE CtlCheck
  BY <1>28 DEF CtlCheck, EndControl
<1>29. CASE CtlPassDone
  BY <1>29 DEF CtlPassDone, ShuttingDown
<1>30. CASE CtlExitCheck
  BY <1>30 DEF CtlExitCheck, MayLeaveLoop
<1>31. CASE CtlIdle
  BY <1>31 DEF CtlIdle
<1>32. CASE CtlDone
  BY <1>32 DEF CtlDone
<1>33. ASSUME NEW s \in Sessions, CtlExamine(s) PROVE LoopsOn'
  BY <1>33 DEF CtlExamine, ShuttingDown, PastDeadline
<1>34. ASSUME NEW s \in Sessions, CtlEvent(s) PROVE LoopsOn'
  BY <1>34 DEF CtlEvent
<1>35. ASSUME NEW s \in Sessions, CtlDisconnect(s) PROVE LoopsOn'
  BY <1>35 DEF CtlDisconnect, Stop, WinsStop
<1>36. ASSUME NEW s \in Sessions, CtlSweep(s) PROVE LoopsOn'
  BY <1>36 DEF CtlSweep
<1>37. ASSUME NEW s \in Sessions, DeadlinePasses(s) PROVE LoopsOn'
  BY <1>37 DEF DeadlinePasses
<1>38. CASE AppExits
  BY <1>38 DEF AppExits
<1>39. CASE AppLaunched
  BY <1>39 DEF AppLaunched
<1>40. CASE BroadcastThreadEnds
  BY <1>40 DEF BroadcastThreadEnds
<1>41. CASE ShutdownRaised
  BY <1>41 DEF ShutdownRaised
<1>42. CASE UNCHANGED vars
  BY <1>42 DEF vars
<1>50. ASSUME NEW t \in Threads, TellSlot(t) PROVE LoopsOn'
  BY <1>50 DEF TellSlot, Tell
<1>51. ASSUME NEW s \in Sessions, NEW m \in Media, MediaTell(s, m) PROVE LoopsOn'
  BY <1>51 DEF MediaTell, Tell
<1>52. CASE CtlTell
  BY <1>52 DEF CtlTell, Tell
<1>53. CASE CtlHangup
  BY <1>53 DEF CtlHangup, Tell
<1>43. CASE StartStep
  BY <1>43, <1>2, <1>3, <1>4, <1>5, <1>6, <1>7, <1>8, <1>9, <1>10, <1>11 DEF
    StartStep
<1>44. CASE RtspTick
  <2>1. shutdown = FALSE
    BY DEF Undisturbed
  <2>2. bshutdown = FALSE \/ ~SlotsFree \/ pc[Rtsp] = "unref"
    BY DEF LoopsOn, SlotsFree
  <2>3. BeginClear(Rtsp, FALSE)
    BY <1>44, <2>1, <2>2 DEF RtspTick, BeginClear
  <2> QED BY <1>12, <2>3
<1>45. ASSUME NEW t \in Threads, ClearStep(t) PROVE LoopsOn'
  BY <1>45, <1>13, <1>14, <1>15, <1>16, <1>17, <1>18, <1>19, <1>20, <1>50 DEF
    ClearStep
<1>46. ASSUME NEW t \in Http, HttpCall(t) PROVE LoopsOn'
  <2>1. shutdown = FALSE
    BY DEF Undisturbed
  <2>2. t \in Threads /\ BeginClear(t, FALSE)
    BY <1>46, <2>1 DEF HttpCall, SessionCount, TerminateSessions
  <2> QED BY <1>12, <2>2
<1>47. ASSUME NEW s \in Sessions, NEW m \in Media, MediaStep(s, m) PROVE LoopsOn'
  BY <1>47, <1>21, <1>22, <1>23, <1>24, <1>25, <1>51 DEF MediaStep
<1>48. CASE CtlStep
  BY <1>48, <1>26, <1>27, <1>28, <1>29, <1>30, <1>31, <1>32, <1>33, <1>34,
    <1>35, <1>36, <1>52, <1>53 DEF CtlStep
<1>49. CASE EnvStep
  BY <1>49, <1>37, <1>38, <1>39, <1>40, <1>41 DEF EnvStep
<1> QED BY <1>1, <1>42, <1>43, <1>44, <1>45, <1>46, <1>47, <1>48, <1>49 DEF Next

(* Who is listed is live, and the control thread has not let go of it.    *)
LEMMA ListedLiveStep ==
  ASSUME Calm, IInv, CalmOK, [Next]_vars
  PROVE  ListedLive'
<1> USE DEF sessionVars, slotVars, bcastVars, ctlVars, threadVars, platVars, envVars,
            Goto, Threads, StartsAt
<1> USE SessionAssumption
    DEF Calm, CalmOK, ListedLive, LoopsOn, RefOK, CtlOK, LiveOK, JoinedOK, ListLocked,
        Unlisted, Undisturbed, IInv, TypeOK, SessionTypeOK, SharedTypeOK, ThreadTypeOK,
        PointersOK, LockOK, Starting, Joining, ClearPC, StartPC
<1>1. ASSUME NEW s \in Sessions, Announce(s) PROVE ListedLive'
  BY <1>1 DEF Announce, SlotsFree, Alloc
<1>2. CASE StartRef
  BY <1>2 DEF StartRef
<1>3. CASE StartRefFails
  BY <1>3 DEF StartRefFails
<1>4. CASE StartRemove
  BY <1>4 DEF StartRemove, SlotsFree
<1>5. CASE StartPush
  BY <1>5 DEF StartPush, ListLocked
<1>6. CASE StartSpawn
  BY <1>6 DEF StartSpawn
<1>7. CASE StartRun
  BY <1>7 DEF StartRun
<1>8. CASE StartCount
  BY <1>8 DEF StartCount
<1>9. CASE StartCallback
  BY <1>9 DEF StartCallback
<1>10. CASE StartReply
  BY <1>10 DEF StartReply, Free, IsLast, Release
<1>11. CASE StartEnding
  BY <1>11 DEF StartEnding, EndBroadcast
<1>12. ASSUME NEW t \in Threads, BeginClear(t, FALSE) PROVE ListedLive'
  BY <1>12 DEF BeginClear, SlotsFree
<1>13. ASSUME NEW t \in Threads, NEW s \in Sessions, Skip(t, s) PROVE ListedLive'
  BY <1>13 DEF Skip
<1>14. ASSUME NEW t \in Threads, NEW s \in Sessions, StopSlot(t, s) PROVE ListedLive'
  BY <1>14 DEF StopSlot, Stop, WinsStop
<1>15. ASSUME NEW t \in Threads, JoinThrows(t) PROVE ListedLive'
  BY <1>15 DEF JoinThrows
<1>16. ASSUME NEW t \in Threads, Join(t) PROVE ListedLive'
  BY <1>16 DEF Join, Joinable
<1>17. ASSUME NEW t \in Threads, StopCallback(t) PROVE ListedLive'
  BY <1>17 DEF StopCallback
<1>18. ASSUME NEW t \in Threads, Erase(t) PROVE ListedLive'
  BY <1>18 DEF Erase, Free, IsLast, Release
<1>19. ASSUME NEW t \in Threads, Ending(t) PROVE ListedLive'
  BY <1>19 DEF Ending, EndBroadcast
<1>20. ASSUME NEW t \in Threads, EndClear(t) PROVE ListedLive'
  BY <1>20 DEF EndClear
<1>21. ASSUME NEW s \in Sessions, NEW m \in Media, MediaRef(s, m) PROVE ListedLive'
  BY <1>21 DEF MediaRef
<1>22. ASSUME NEW s \in Sessions, NEW m \in Media, MediaPing(s, m) PROVE ListedLive'
  BY <1>22 DEF MediaPing
<1>23. ASSUME NEW s \in Sessions, NEW m \in Media, MediaPingTimeout(s, m) PROVE ListedLive'
  BY <1>23 DEF MediaPingTimeout, MediaReturn, Release, Stop, WinsStop
<1>24. ASSUME NEW s \in Sessions, NEW m \in Media, MediaShutdown(s, m) PROVE ListedLive'
  BY <1>24 DEF MediaShutdown, MediaReturn, Release, Stop, WinsStop
<1>25. ASSUME NEW s \in Sessions, NEW m \in Media, MediaFail(s, m) PROVE ListedLive'
  BY <1>25 DEF MediaFail, MediaReturn, Release, Stop, WinsStop
<1>26. CASE CtlTop
  BY <1>26 DEF CtlTop, ShuttingDown
<1>27. CASE CtlTimeout
  BY <1>27 DEF CtlTimeout, Stop, WinsStop
<1>28. CASE CtlCheck
  BY <1>28 DEF CtlCheck, EndControl
<1>29. CASE CtlPassDone
  BY <1>29 DEF CtlPassDone, ShuttingDown
<1>30. CASE CtlExitCheck
  BY <1>30 DEF CtlExitCheck, MayLeaveLoop
<1>31. CASE CtlIdle
  BY <1>31 DEF CtlIdle
<1>32. CASE CtlDone
  BY <1>32 DEF CtlDone
<1>33. ASSUME NEW s \in Sessions, CtlExamine(s) PROVE ListedLive'
  BY <1>33 DEF CtlExamine, ShuttingDown, PastDeadline
<1>34. ASSUME NEW s \in Sessions, CtlEvent(s) PROVE ListedLive'
  BY <1>34 DEF CtlEvent
<1>35. ASSUME NEW s \in Sessions, CtlDisconnect(s) PROVE ListedLive'
  BY <1>35 DEF CtlDisconnect, Stop, WinsStop
<1>36. ASSUME NEW s \in Sessions, CtlSweep(s) PROVE ListedLive'
  <2>1. list = {}
    BY <1>36, ListEmpty DEF CtlSweep
  <2> QED BY <1>36, <2>1 DEF CtlSweep
<1>37. ASSUME NEW s \in Sessions, DeadlinePasses(s) PROVE ListedLive'
  BY <1>37 DEF DeadlinePasses
<1>38. CASE AppExits
  BY <1>38 DEF AppExits
<1>39. CASE AppLaunched
  BY <1>39 DEF AppLaunched
<1>40. CASE BroadcastThreadEnds
  BY <1>40 DEF BroadcastThreadEnds
<1>41. CASE ShutdownRaised
  BY <1>41 DEF ShutdownRaised
<1>42. CASE UNCHANGED vars
  BY <1>42 DEF vars
<1>50. ASSUME NEW t \in Threads, TellSlot(t) PROVE ListedLive'
  BY <1>50 DEF TellSlot, Tell
<1>51. ASSUME NEW s \in Sessions, NEW m \in Media, MediaTell(s, m) PROVE ListedLive'
  BY <1>51 DEF MediaTell, Tell
<1>52. CASE CtlTell
  BY <1>52 DEF CtlTell, Tell
<1>53. CASE CtlHangup
  BY <1>53 DEF CtlHangup, Tell
<1>43. CASE StartStep
  BY <1>43, <1>2, <1>3, <1>4, <1>5, <1>6, <1>7, <1>8, <1>9, <1>10, <1>11 DEF
    StartStep
<1>44. CASE RtspTick
  <2>1. shutdown = FALSE
    BY DEF Undisturbed
  <2>2. bshutdown = FALSE \/ ~SlotsFree \/ pc[Rtsp] = "unref"
    BY DEF LoopsOn, SlotsFree
  <2>3. BeginClear(Rtsp, FALSE)
    BY <1>44, <2>1, <2>2 DEF RtspTick, BeginClear
  <2> QED BY <1>12, <2>3
<1>45. ASSUME NEW t \in Threads, ClearStep(t) PROVE ListedLive'
  BY <1>45, <1>13, <1>14, <1>15, <1>16, <1>17, <1>18, <1>19, <1>20, <1>50 DEF
    ClearStep
<1>46. ASSUME NEW t \in Http, HttpCall(t) PROVE ListedLive'
  <2>1. shutdown = FALSE
    BY DEF Undisturbed
  <2>2. t \in Threads /\ BeginClear(t, FALSE)
    BY <1>46, <2>1 DEF HttpCall, SessionCount, TerminateSessions
  <2> QED BY <1>12, <2>2
<1>47. ASSUME NEW s \in Sessions, NEW m \in Media, MediaStep(s, m) PROVE ListedLive'
  BY <1>47, <1>21, <1>22, <1>23, <1>24, <1>25, <1>51 DEF MediaStep
<1>48. CASE CtlStep
  BY <1>48, <1>26, <1>27, <1>28, <1>29, <1>30, <1>31, <1>32, <1>33, <1>34,
    <1>35, <1>36, <1>52, <1>53 DEF CtlStep
<1>49. CASE EnvStep
  BY <1>49, <1>37, <1>38, <1>39, <1>40, <1>41 DEF EnvStep
<1> QED BY <1>1, <1>42, <1>43, <1>44, <1>45, <1>46, <1>47, <1>48, <1>49 DEF Next

(* Who is let go of or joined was stopped.                                 *)
LEMMA StoppedStep ==
  ASSUME Calm, IInv, CalmOK, [Next]_vars
  PROVE  Stopped'
<1> USE DEF sessionVars, slotVars, bcastVars, ctlVars, threadVars, platVars, envVars,
            Goto, Threads, StartsAt
<1> USE SessionAssumption
    DEF Calm, CalmOK, Stopped, ListedLive, LoopsOn, CtlOK, LiveOK, RefOK, Unlisted,
        Threadless, Undisturbed, IInv, TypeOK, SessionTypeOK, SharedTypeOK,
        ThreadTypeOK, PointersOK, LockOK, Starting, Joining, ClearPC, StartPC
<1>1. ASSUME NEW s \in Sessions, Announce(s) PROVE Stopped'
  BY <1>1 DEF Announce, SlotsFree, Alloc
<1>2. CASE StartRef
  BY <1>2 DEF StartRef
<1>3. CASE StartRefFails
  BY <1>3 DEF StartRefFails
<1>4. CASE StartRemove
  BY <1>4 DEF StartRemove, SlotsFree
<1>5. CASE StartPush
  BY <1>5 DEF StartPush, ListLocked
<1>6. CASE StartSpawn
  BY <1>6 DEF StartSpawn
<1>7. CASE StartRun
  BY <1>7 DEF StartRun
<1>8. CASE StartCount
  BY <1>8 DEF StartCount
<1>9. CASE StartCallback
  BY <1>9 DEF StartCallback
<1>10. CASE StartReply
  BY <1>10 DEF StartReply, Free, IsLast, Release
<1>11. CASE StartEnding
  BY <1>11 DEF StartEnding, EndBroadcast
<1>12. ASSUME NEW t \in Threads, BeginClear(t, FALSE) PROVE Stopped'
  BY <1>12 DEF BeginClear, SlotsFree
<1>13. ASSUME NEW t \in Threads, NEW s \in Sessions, Skip(t, s) PROVE Stopped'
  BY <1>13 DEF Skip
<1>14. ASSUME NEW t \in Threads, NEW s \in Sessions, StopSlot(t, s) PROVE Stopped'
  BY <1>14 DEF StopSlot, Stop, WinsStop
<1>15. ASSUME NEW t \in Threads, JoinThrows(t) PROVE Stopped'
  BY <1>15 DEF JoinThrows
<1>16. ASSUME NEW t \in Threads, Join(t) PROVE Stopped'
  BY <1>16 DEF Join, Joinable
<1>17. ASSUME NEW t \in Threads, StopCallback(t) PROVE Stopped'
  BY <1>17 DEF StopCallback
<1>18. ASSUME NEW t \in Threads, Erase(t) PROVE Stopped'
  BY <1>18 DEF Erase, Free, IsLast, Release
<1>19. ASSUME NEW t \in Threads, Ending(t) PROVE Stopped'
  BY <1>19 DEF Ending, EndBroadcast
<1>20. ASSUME NEW t \in Threads, EndClear(t) PROVE Stopped'
  BY <1>20 DEF EndClear
<1>21. ASSUME NEW s \in Sessions, NEW m \in Media, MediaRef(s, m) PROVE Stopped'
  BY <1>21 DEF MediaRef
<1>22. ASSUME NEW s \in Sessions, NEW m \in Media, MediaPing(s, m) PROVE Stopped'
  BY <1>22 DEF MediaPing
<1>23. ASSUME NEW s \in Sessions, NEW m \in Media, MediaPingTimeout(s, m) PROVE Stopped'
  BY <1>23 DEF MediaPingTimeout, MediaReturn, Release, Stop, WinsStop
<1>24. ASSUME NEW s \in Sessions, NEW m \in Media, MediaShutdown(s, m) PROVE Stopped'
  BY <1>24 DEF MediaShutdown, MediaReturn, Release, Stop, WinsStop
<1>25. ASSUME NEW s \in Sessions, NEW m \in Media, MediaFail(s, m) PROVE Stopped'
  BY <1>25 DEF MediaFail, MediaReturn, Release, Stop, WinsStop
<1>26. CASE CtlTop
  BY <1>26 DEF CtlTop, ShuttingDown
<1>27. CASE CtlTimeout
  BY <1>27 DEF CtlTimeout, Stop, WinsStop
<1>28. CASE CtlCheck
  BY <1>28 DEF CtlCheck, EndControl
<1>29. CASE CtlPassDone
  BY <1>29 DEF CtlPassDone, ShuttingDown
<1>30. CASE CtlExitCheck
  BY <1>30 DEF CtlExitCheck, MayLeaveLoop
<1>31. CASE CtlIdle
  BY <1>31 DEF CtlIdle
<1>32. CASE CtlDone
  BY <1>32 DEF CtlDone
<1>33. ASSUME NEW s \in Sessions, CtlExamine(s) PROVE Stopped'
  BY <1>33 DEF CtlExamine, ShuttingDown, PastDeadline
<1>34. ASSUME NEW s \in Sessions, CtlEvent(s) PROVE Stopped'
  BY <1>34 DEF CtlEvent
<1>35. ASSUME NEW s \in Sessions, CtlDisconnect(s) PROVE Stopped'
  BY <1>35 DEF CtlDisconnect, Stop, WinsStop
<1>36. ASSUME NEW s \in Sessions, CtlSweep(s) PROVE Stopped'
  <2>1. list = {}
    BY <1>36, ListEmpty DEF CtlSweep
  <2> QED BY <1>36, <2>1 DEF CtlSweep
<1>37. ASSUME NEW s \in Sessions, DeadlinePasses(s) PROVE Stopped'
  BY <1>37 DEF DeadlinePasses
<1>38. CASE AppExits
  BY <1>38 DEF AppExits
<1>39. CASE AppLaunched
  BY <1>39 DEF AppLaunched
<1>40. CASE BroadcastThreadEnds
  BY <1>40 DEF BroadcastThreadEnds
<1>41. CASE ShutdownRaised
  BY <1>41 DEF ShutdownRaised
<1>42. CASE UNCHANGED vars
  BY <1>42 DEF vars
<1>50. ASSUME NEW t \in Threads, TellSlot(t) PROVE Stopped'
  BY <1>50 DEF TellSlot, Tell
<1>51. ASSUME NEW s \in Sessions, NEW m \in Media, MediaTell(s, m) PROVE Stopped'
  BY <1>51 DEF MediaTell, Tell
<1>52. CASE CtlTell
  BY <1>52 DEF CtlTell, Tell
<1>53. CASE CtlHangup
  BY <1>53 DEF CtlHangup, Tell
<1>43. CASE StartStep
  BY <1>43, <1>2, <1>3, <1>4, <1>5, <1>6, <1>7, <1>8, <1>9, <1>10, <1>11 DEF
    StartStep
<1>44. CASE RtspTick
  <2>1. shutdown = FALSE
    BY DEF Undisturbed
  <2>2. bshutdown = FALSE \/ ~SlotsFree \/ pc[Rtsp] = "unref"
    BY DEF LoopsOn, SlotsFree
  <2>3. BeginClear(Rtsp, FALSE)
    BY <1>44, <2>1, <2>2 DEF RtspTick, BeginClear
  <2> QED BY <1>12, <2>3
<1>45. ASSUME NEW t \in Threads, ClearStep(t) PROVE Stopped'
  BY <1>45, <1>13, <1>14, <1>15, <1>16, <1>17, <1>18, <1>19, <1>20, <1>50 DEF
    ClearStep
<1>46. ASSUME NEW t \in Http, HttpCall(t) PROVE Stopped'
  <2>1. shutdown = FALSE
    BY DEF Undisturbed
  <2>2. t \in Threads /\ BeginClear(t, FALSE)
    BY <1>46, <2>1 DEF HttpCall, SessionCount, TerminateSessions
  <2> QED BY <1>12, <2>2
<1>47. ASSUME NEW s \in Sessions, NEW m \in Media, MediaStep(s, m) PROVE Stopped'
  BY <1>47, <1>21, <1>22, <1>23, <1>24, <1>25, <1>51 DEF MediaStep
<1>48. CASE CtlStep
  BY <1>48, <1>26, <1>27, <1>28, <1>29, <1>30, <1>31, <1>32, <1>33, <1>34,
    <1>35, <1>36, <1>52, <1>53 DEF CtlStep
<1>49. CASE EnvStep
  BY <1>49, <1>37, <1>38, <1>39, <1>40, <1>41 DEF EnvStep
<1> QED BY <1>1, <1>42, <1>43, <1>44, <1>45, <1>46, <1>47, <1>48, <1>49 DEF Next

(* At first nothing is wedged.                                             *)
LEMMA CalmInit == Init => CalmOK
<1> SUFFICES ASSUME Init PROVE CalmOK
  OBVIOUS
<1> QED BY DEF Init, CalmOK, Undisturbed, LoopsOn, ListedLive, Stopped, Joining, Threads

(* While the application runs on and nobody terminates sessions, shuts the *)
(* host down or fails to start the broadcast, no join waits for a session  *)
(* the control thread will never end, none for one that was not stopped,   *)
(* and no session is left that nobody will stop any more.                  *)
THEOREM CalmNeverWedges == ASSUME Calm PROVE Spec => []NeverWedged
<1>1. IInv /\ CalmOK => NeverWedged
  <2> SUFFICES ASSUME IInv, CalmOK PROVE ~Wedged
    BY DEF NeverWedged
  <2>1. Orphans = {}
    BY ListEmpty DEF CalmOK, Orphans
  <2>2. Zombies = {}
    BY DEF CalmOK, Stopped, Zombies
  <2>3. \A t \in Threads : pc[t] = "join" => state[cur[t]] = "STOPPING"
    BY DEF CalmOK, Stopped, Joining
  <2> QED BY <2>1, <2>2, <2>3 DEF Wedged
<1>2. IInv /\ CalmOK /\ [Next]_vars => CalmOK'
  BY UndisturbedStep, LoopsOnStep, ListedLiveStep, StoppedStep DEF CalmOK
<1>3. Spec => [](IInv /\ CalmOK)
  BY <1>2, InitIInv, NextIInv, CalmInit, PTL DEF Spec
<1> QED BY <1>1, <1>3, PTL
=============================================================================
