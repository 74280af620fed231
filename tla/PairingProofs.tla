---------------------------- MODULE PairingProofs ----------------------------
(***************************************************************************)
(* Proofs about Pairing, for any number of clients, ids, attempts, changes *)
(* and restarts.  Inv is inductive: what a client can be accepted for goes *)
(* back to a PIN that was typed (Pinned), whoever is listed is known to    *)
(* the HTTPS server (Known), and, while no write failed and no two changes *)
(* overlapped, the file follows the one handler at work (Agreed, Kept).    *)
(***************************************************************************)
EXTENDS Pairing, TLAPS

(* What a handler is about does not change under it: the client of the     *)
(* pairing that is being saved waits, a list on its way to the file is     *)
(* noted, and a password is never the first, empty one.                    *)
Jobbed ==
  /\ Busy("http") => stage[job["http"].client] = "waiting"
  /\ \A u \in Threads :
       /\ Busy(u) /\ job[u].step = "write" => job[u].image # Missing
       /\ job[u].kind = "password" => job[u].creds # 0

(* Everything a client can be accepted for goes back to a PIN the user     *)
(* typed: keys and hashes of sessions, lists on their way to the file.     *)
KeysPinned ==
  \A i \in DOMAIN sess :
    /\ sess[i].key # None => sess[i].key[2] \in typed \cup {Wrong}
    /\ sess[i].hash \in typed \cup {None}
ImagesPinned ==
  \A u \in Threads : job[u].image # Missing => TriesOf(job[u].image.devices) \subseteq typed
AnswerPinned == Busy("http") => Now(job["http"].client) \in typed
ListsPinned == Listed \cup Saved \cup told \subseteq typed
CertsPinned == chain \cup queue \subseteq {Client(t) : t \in typed}
Pinned == KeysPinned /\ ImagesPinned /\ AnswerPinned /\ ListsPinned /\ CertsPinned

Known == {Client(t) : t \in Listed} \subseteq chain \cup queue

(* While nothing failed and no two changes overlapped, what the file holds *)
(* follows the one handler that is at work.                                *)
Full(version) == [devices |-> clients, creds |-> version]
Version(u) == IF job[u].kind = "password" THEN job[u].creds ELSE creds
InStep ==
  (\A u \in Threads : ~Busy(u)) =>
    file = Full(creds) \/ (file = Missing /\ clients = {} /\ creds = 0)
Follows(u) ==
  Busy(u) =>
    /\ job[u].step = "read" =>
         OldCreds = creds /\ (job[u].kind = "password" => OldDevices = clients)
    /\ job[u].step = "write" => job[u].image = Full(Version(u))
    /\ job[u].step = "end" => file = Full(Version(u))
Agreed ==
  /\ ~(Busy("http") /\ Busy("web")) /\ file # Corrupt
  /\ InStep
  /\ \A u \in Threads : Follows(u)

Kept ==
  /\ told \subseteq (Listed \cap Saved) \cup removed
  /\ Busy("http") => Now(job["http"].client) \in Listed

Inv == TypeOK /\ Jobbed /\ Pinned /\ Known /\ (clean => Agreed /\ Kept)

-----------------------------------------------------------------------------
(* The records of a session, a job and the file have their components.     *)
LEMMA TriesOfTyped == ASSUME NEW D \in SUBSET Entries PROVE TriesOf(D) \subseteq Tries
BY DEF TriesOf, Entries

(* What a handler writes, and what it read, are contents of the file.      *)
LEMMA ImageTyped ==
  ASSUME TypeOK, NEW j \in Jobs, file # Corrupt
  PROVE  /\ Image(j) \in Contents /\ OldCreds \in Nat /\ OldDevices \in SUBSET Entries
BY DEF TypeOK, Image, OldDevices, OldCreds, Contents, Jobs

(* A handler that begins is typed.                                         *)
LEMMA JobTyped ==
  ASSUME NEW kind \in Kinds, NEW client \in Clients \cup {None}, NEW version \in Nat
  PROVE  Job(kind, client, version) \in Jobs
BY DEF Job, Jobs

(* The fields of a pairing session.                                        *)
LEMMA SessionTyped ==
  ASSUME TypeOK, NEW i \in DOMAIN sess
  PROVE  /\ sess[i] \in Sessions
         /\ sess[i].phase \in Phases /\ sess[i].cert \in Clients
         /\ sess[i].salt \in Tries \cup {Short}
         /\ sess[i].key \in {None} \cup (Tries \X (Tries \cup {Wrong}))
         /\ sess[i].challenged \in Tries \cup {None} /\ sess[i].hash \in Tries \cup {None}
BY DEF TypeOK, Sessions

(* A client's present attempt is one.                                      *)
LEMMA NowTyped == ASSUME TypeOK, NEW c \in Clients PROVE Now(c) \in Tries
BY DEF TypeOK, Now, Tries

(* The types hold at first.                                                *)
LEMMA TypeInit == Init => TypeOK
<1> SUFFICES ASSUME Init PROVE TypeOK
  OBVIOUS
<1>1. Idle \in Jobs
  BY JobTyped DEF Idle, Kinds
<1>2. DOMAIN sess = {}
  BY DEF Init
<1> QED BY <1>1, <1>2, PairingAssumption DEF Init, TypeOK, Stages, Idle, Job, Threads

(* A change of one session keeps the types if the new value is a session   *)
(* whose key and challenge go with its phase.                              *)
Sound(s) ==
  /\ s \in Sessions
  /\ s.phase = "NONE" <=> s.key = None
  /\ s.phase \in {"CLIENTCHALLENGE", "SERVERCHALLENGERESP"} <=> s.challenged # None
SessionsSound == DOMAIN sess \subseteq Ids /\ \A i \in DOMAIN sess : Sound(sess[i])

(* A new session is typed,                                                 *)
LEMMA NewSessionSound ==
  ASSUME NEW c \in Clients, NEW salt \in Tries \cup {Short}
  PROVE  Sound(NewSession(c, salt))
BY DEF Sound, NewSession, Sessions, Phases

(* so are the sessions after emplace()                                     *)
LEMMA EmplaceSound ==
  ASSUME SessionsSound, idOf \in [Clients -> Ids], NEW c \in Clients,
         NEW salt \in Tries \cup {Short}, sess' = Emplace(c, salt)
  PROVE  SessionsSound'
<1>1. CASE idOf[c] \in DOMAIN sess
  BY <1>1 DEF Emplace, SessionsSound, Sound, Sessions
<1>2. CASE idOf[c] \notin DOMAIN sess
  BY <1>2, NewSessionSound DEF Emplace, SessionsSound, Put
<1> QED BY <1>1, <1>2

(* and after one was removed.                                              *)
LEMMA DropSound ==
  ASSUME SessionsSound, NEW i, sess' = Drop(sess, i)
  PROVE  SessionsSound'
BY DEF SessionsSound, Drop

(* Every step keeps the types.                                             *)
LEMMA TypeStep == TypeOK /\ [Next]_vars => TypeOK'
<1> SUFFICES ASSUME TypeOK, [Next]_vars PROVE TypeOK'
  OBVIOUS
<1> USE PairingAssumption
<1>1. SessionsSound
  BY DEF TypeOK, SessionsSound, Sound
<1>2. ASSUME SessionsSound', idOf' = idOf, tries' \in [Clients -> Nat],
             stage' \in [Clients -> Stages], clients' \in SUBSET Entries,
             chain' \in SUBSET Clients, queue' \in SUBSET Clients, creds' \in Nat,
             file' \in {Missing, Corrupt} \cup Contents, job' \in [Threads -> Jobs],
             job'["http"].kind \in {"idle", "pair"}, job'["web"].kind # "pair",
             job'["http"].kind = "pair" => job'["http"].client \in Clients,
             changes' \in 0..MaxChanges, restarts' \in 0..MaxRestarts,
             typed' \in SUBSET Tries, told' \in SUBSET Tries, removed' \in SUBSET Tries,
             clean' \in BOOLEAN
      PROVE  TypeOK'
  BY <1>2 DEF TypeOK, SessionsSound, Sound
<1>3. ASSUME NEW c \in Clients, GetServerCertRequest(c) PROVE TypeOK'
  <2>1. PICK salt \in {<<c, tries[c] + 1>>, Short} : sess' = Emplace(c, salt)
    BY <1>3 DEF GetServerCertRequest
  <2>2. salt \in Tries \cup {Short}
    BY DEF Tries, TypeOK
  <2>3. SessionsSound'
    BY <1>1, <2>1, <2>2, EmplaceSound DEF TypeOK
  <2> QED BY <1>2, <1>3, <2>3 DEF GetServerCertRequest, GoesTo, TypeOK, Stages, bounds, history
<1>4. ASSUME NEW c \in Clients, ClientChallenge(c) PROVE TypeOK'
  <2>1. SessionsSound'
    BY <1>1, <1>4, NowTyped, SpecialValues
    DEF ClientChallenge, SessionsSound, Sound, Sessions, Phases, MustFail
  <2> QED BY <1>2, <1>4, <2>1 DEF ClientChallenge, SameRest, GoesTo, TypeOK, Stages, bounds, history
<1>5. ASSUME NEW c \in Clients, ServerChallengeResp(c) PROVE TypeOK'
  <2>1. Hash(sess[idOf[c]], Now(c)) \in Tries \cup {None}
    BY NowTyped DEF Hash
  <2>2. SessionsSound'
    BY <1>1, <1>5, <2>1 DEF ServerChallengeResp, SessionsSound, Sound, Sessions, Phases, MustFail
  <2> QED BY <1>2, <1>5, <2>2
      DEF ServerChallengeResp, SameRest, GoesTo, TypeOK, Stages, bounds, history
<1>6. ASSUME NEW c \in Clients, ClientPairingSecret(c) PROVE TypeOK'
  <2>1. [try |-> Now(c), on |-> TRUE] \in Entries
    BY NowTyped DEF Entries
  <2>2. Job("pair", c, 0) \in Jobs
    BY JobTyped DEF Kinds
  <2>3. idOf[c] \in DOMAIN sess => sess[idOf[c]].cert \in Clients
    BY SessionTyped
  <2>4. idOf[c] \in DOMAIN sess
    BY <1>6 DEF ClientPairingSecret, MustFail
  <2>5. CASE FailPair(c) /\ UNCHANGED <<queue, clients, job, clean>>
    <3>1. SessionsSound'
      BY <1>1, <2>5, DropSound DEF FailPair
    <3>2. stage' \in [Clients -> Stages]
      BY <2>5 DEF FailPair, GoesTo, TypeOK, Stages
    <3> QED BY <1>2, <1>6, <2>5, <3>1, <3>2 DEF ClientPairingSecret, TypeOK, bounds, history
  <2>6. CASE /\ queue' = queue \cup {sess[idOf[c]].cert}
             /\ clients' = clients \cup {[try |-> Now(c), on |-> TRUE]}
             /\ Start("http", Job("pair", c, 0)) /\ GoesTo(c, "waiting") /\ UNCHANGED sess
    <3>1. stage' \in [Clients -> Stages]
      BY <2>6 DEF GoesTo, TypeOK, Stages
    <3>2. queue' \in SUBSET Clients /\ clients' \in SUBSET Entries
      BY <2>1, <2>3, <2>4, <2>6 DEF TypeOK
    <3>3. job' \in [Threads -> Jobs] /\ clean' \in BOOLEAN
      BY <2>2, <2>6 DEF Start, TypeOK
    <3>4. job'["http"].kind = "pair" /\ job'["http"].client = c /\ job'["web"] = job["web"]
      BY <2>6 DEF Start, Job, TypeOK, Threads
    <3>5. SessionsSound'
      BY <1>1, <2>6 DEF SessionsSound
    <3> QED BY <1>2, <1>6, <3>1, <3>2, <3>3, <3>4, <3>5
        DEF ClientPairingSecret, TypeOK, bounds, history
  <2> QED BY <1>6, <2>5, <2>6 DEF ClientPairingSecret
<1>7. ASSUME NEW c \in Clients, Abandon(c) PROVE TypeOK'
  BY <1>1, <1>2, <1>7 DEF Abandon, GoesTo, TypeOK, Stages, memory, bounds, history, SessionsSound
<1>8. ASSUME NEW c \in Clients, NEW phase \in Phases, OutOfOrder(c, phase) PROVE TypeOK'
  BY <1>1, <1>2, <1>8, DropSound
  DEF OutOfOrder, FailPair, SameRest, GoesTo, TypeOK, Stages, bounds, history
<1>9. ASSUME NEW t \in Threads, Read(t) PROVE TypeOK'
  <2>1. file # Corrupt => Image(job[t]) \in Contents
    BY ImageTyped DEF TypeOK
  <2>2. job' \in [Threads -> Jobs] /\ \A u \in Threads : job'[u].kind = job[u].kind
    BY <1>9, <2>1 DEF Read, TypeOK, Jobs
  <2> QED BY <1>1, <1>2, <1>9, <2>2
      DEF Read, TypeOK, memory, bounds, history, SessionsSound, Threads
<1>10. ASSUME NEW t \in Threads, NEW content \in {Missing, Corrupt} \cup Contents,
              clean' \in BOOLEAN, Written(t, content)
       PROVE  TypeOK'
  <2>1. job' \in [Threads -> Jobs] /\ \A u \in Threads : job'[u].kind = job[u].kind
    BY <1>10 DEF Written, TypeOK, Jobs
  <2> QED BY <1>1, <1>2, <1>10, <2>1
      DEF Written, TypeOK, memory, bounds, history, SessionsSound, Threads
<1>11. ASSUME NEW t \in Threads, Write(t) PROVE TypeOK'
  BY <1>10, <1>11 DEF Write, TypeOK, Jobs
<1>12. ASSUME NEW t \in Threads, WriteFails(t) PROVE TypeOK'
  BY <1>10, <1>12 DEF WriteFails, TypeOK
<1>13. CASE PairEnds
  <2> DEFINE c == job["http"].client
  <2>1. c \in Clients
    BY <1>13 DEF PairEnds, Busy, TypeOK
  <2>2. SessionsSound'
    BY <1>1, <1>13, DropSound DEF PairEnds, FailPair
  <2>3. job' \in [Threads -> Jobs] /\ job'["http"].kind = "idle" /\ job'["web"] = job["web"]
    BY <1>13, JobTyped DEF PairEnds, TypeOK, Threads, Idle, Job, Kinds
  <2>4. told' \in SUBSET Tries
    BY <1>13, <2>1, NowTyped DEF PairEnds, TypeOK
  <2> QED BY <1>2, <1>13, <2>1, <2>2, <2>3, <2>4
      DEF PairEnds, FailPair, GoesTo, TypeOK, Stages, bounds
<1>14. ASSUME NEW i \in Ids, NEW pin \in Tries \cup {Wrong}, Pin(i, pin) PROVE TypeOK'
  <2>1. stage' \in [Clients -> Stages]
    BY <1>14 DEF Pin, TypeOK, Stages
  <2>2. SessionsSound'
    <3>1. CASE GetsKey(sess[i])
      <4>1. i \in DOMAIN sess /\ sess[i].salt \in Tries /\ sess[i].phase = "NONE"
        BY <1>14, <3>1, SessionTyped DEF Pin, GetsKey
      <4>2. <<sess[i].salt, pin>> \in Tries \X (Tries \cup {Wrong})
        BY <4>1
      <4>3. <<sess[i].salt, pin>> # None
        BY <4>2, SpecialValues
      <4>4. sess' = [sess EXCEPT ![i].phase = "GETSERVERCERT",
                                 ![i].key = <<sess[i].salt, pin>>]
        BY <1>14, <3>1 DEF Pin
      <4>5. Sound([sess[i] EXCEPT !.phase = "GETSERVERCERT", !.key = <<sess[i].salt, pin>>])
        BY <1>1, <4>1, <4>2, <4>3 DEF SessionsSound, Sound, Sessions, Phases
      <4>6. sess' = [sess EXCEPT ![i] = [sess[i] EXCEPT !.phase = "GETSERVERCERT",
                                                        !.key = <<sess[i].salt, pin>>]]
        BY <4>1, <4>4, SessionTyped
      <4> QED BY <1>1, <4>1, <4>5, <4>6 DEF SessionsSound
    <3>2. CASE ~GetsKey(sess[i])
      BY <1>1, <1>14, <3>2, DropSound DEF Pin
    <3> QED BY <3>1, <3>2
  <2> QED BY <1>2, <1>14, <2>1, <2>2 DEF Pin, TypeOK, bounds
<1>15. CASE TypePin
  <2>1. \E i \in Ids, pin \in Tries \cup {Wrong} : Pin(i, pin)
    BY <1>15, NowTyped DEF TypePin
  <2> QED BY <1>14, <2>1
<1>16. ASSUME NEW kind \in Kinds \ {"idle", "pair"}, NEW list \in SUBSET Entries, Changed(kind, list)
       PROVE  /\ clients' \in SUBSET Entries /\ clean' \in BOOLEAN
              /\ job' \in [Threads -> Jobs] /\ job'["http"] = job["http"]
              /\ job'["web"].kind # "pair"
  BY <1>16, JobTyped DEF Changed, Start, TypeOK, Threads, Job, Kinds
<1>17. ASSUME NEW t \in Listed \cup removed, Unpair(t) PROVE TypeOK'
  <2>1. t \in Tries
    BY TriesOfTyped DEF Listed, TypeOK
  <2>2. Changed("unpair", {e \in clients : e.try # t})
    BY <1>17 DEF Unpair
  <2> QED BY <1>1, <1>2, <1>16, <1>17, <2>1, <2>2 DEF Unpair, TypeOK, Kinds, SessionsSound, bounds
<1>18. ASSUME NEW t \in Listed \cup removed, SetEnabled(t) PROVE TypeOK'
  <2>1. PICK on \in BOOLEAN :
          Changed("enable", {IF e.try = t THEN [e EXCEPT !.on = on] ELSE e : e \in clients})
    BY <1>18 DEF SetEnabled
  <2>2. {IF e.try = t THEN [e EXCEPT !.on = on] ELSE e : e \in clients} \in SUBSET Entries
    BY DEF TypeOK, Entries
  <2>3. /\ clients' \in SUBSET Entries /\ clean' \in BOOLEAN
        /\ job' \in [Threads -> Jobs] /\ job'["http"] = job["http"]
        /\ job'["web"].kind # "pair"
    BY <1>16, <2>1, <2>2 DEF Kinds
  <2>4. changes' \in 0..MaxChanges
    BY <1>18 DEF SetEnabled, TypeOK
  <2> QED BY <1>1, <1>2, <1>18, <2>3, <2>4
      DEF SetEnabled, TypeOK, SessionsSound, history
<1>19. CASE UnpairAll
  <2>1. Listed \subseteq Tries
    BY TriesOfTyped DEF Listed, TypeOK
  <2> QED BY <1>1, <1>2, <1>16, <1>19, <2>1 DEF UnpairAll, TypeOK, Kinds, SessionsSound, bounds
<1>20. CASE SavePassword
  <2>1. Job("password", None, changes + 1) \in Jobs
    <3>1. changes + 1 \in Nat
      BY DEF TypeOK
    <3> QED BY <3>1, JobTyped DEF Kinds
  <2>2. changes' \in 0..MaxChanges
    BY <1>20 DEF SavePassword, TypeOK
  <2> QED BY <1>1, <1>2, <1>20, <2>1, <2>2
      DEF SavePassword, Start, TypeOK, Job, Threads, SessionsSound, memory, history
<1>21. ASSUME NEW kind, WebEnds(kind)
       PROVE  /\ job' \in [Threads -> Jobs] /\ job'["http"] = job["http"]
              /\ job'["web"].kind = "idle"
  BY <1>21, JobTyped DEF WebEnds, TypeOK, Threads, Idle, Job, Kinds
<1>22. CASE UnpairEnds
  <2>1. WebEnds("unpair")
    BY <1>22 DEF UnpairEnds
  <2>2. Saved \subseteq Tries
    BY TriesOfTyped DEF Saved, TypeOK, Contents
  <2>3. clients' \in SUBSET Entries /\ chain' \in SUBSET Clients
    BY <1>22, <2>2 DEF UnpairEnds, Load, TypeOK, Contents, Client, Tries
  <2> QED BY <1>1, <1>2, <1>21, <1>22, <2>1, <2>3
      DEF UnpairEnds, TypeOK, SessionsSound, bounds, history
<1>23. CASE SavedEnds
  <2>1. PICK kind : WebEnds(kind)
    BY <1>23 DEF SavedEnds
  <2> QED BY <1>1, <1>2, <1>21, <1>23, <2>1
      DEF SavedEnds, TypeOK, SessionsSound, memory, bounds, history
<1>24. CASE PasswordEnds
  <2>1. WebEnds("password")
    BY <1>24 DEF PasswordEnds
  <2>2. creds' \in Nat
    BY <1>24 DEF PasswordEnds, Reload, TypeOK, Contents
  <2> QED BY <1>1, <1>2, <1>21, <1>24, <2>1, <2>2
      DEF PasswordEnds, TypeOK, SessionsSound, bounds, history
<1>25. CASE Verify
  BY <1>1, <1>2, <1>25 DEF Verify, TypeOK, SessionsSound, bounds, history
<1>26. CASE Restart
  <2>1. PICK f \in HalfWritten :
          /\ file' = f /\ clean' = (clean /\ f # Corrupt)
          /\ clients' = IF f \in {Missing, Corrupt} THEN {} ELSE f.devices
          /\ chain' = {Client(t) : t \in TriesOf(clients')}
          /\ creds' = IF f \in {Missing, Corrupt} THEN 0 ELSE f.creds
    BY <1>26 DEF Restart
  <2>2. f \in {Missing, Corrupt} \cup Contents
    BY <2>1 DEF HalfWritten, TypeOK
  <2>3. clients' \in SUBSET Entries /\ creds' \in Nat
    BY <2>1, <2>2 DEF Contents
  <2>4. chain' \in SUBSET Clients
    BY <2>1, <2>3, TriesOfTyped DEF Client, Tries
  <2>5. SessionsSound' /\ queue' = {} /\ stage' = [c \in Clients |-> "rest"]
    BY <1>26 DEF Restart, SessionsSound
  <2>6. Idle \in Jobs /\ Idle.kind = "idle"
    BY JobTyped DEF Idle, Kinds, Job
  <2>7. job' \in [Threads -> Jobs] /\ \A t \in Threads : job'[t].kind = "idle"
    BY <1>26, <2>6 DEF Restart
  <2>8. restarts' \in 0..MaxRestarts
    BY <1>26 DEF Restart, TypeOK
  <2>9. stage' \in [Clients -> Stages] /\ clean' \in BOOLEAN
    BY <2>1, <2>5 DEF Stages, TypeOK
  <2> QED BY <1>2, <1>26, <2>1, <2>2, <2>3, <2>4, <2>5, <2>7, <2>8, <2>9
      DEF Restart, TypeOK, history, Threads
<1>27. CASE UNCHANGED vars
  BY <1>1, <1>2, <1>27 DEF vars, TypeOK, SessionsSound
<1> QED BY <1>3, <1>4, <1>5, <1>6, <1>7, <1>8, <1>9, <1>11, <1>12, <1>13, <1>15, <1>17,
           <1>18, <1>19, <1>20, <1>22, <1>23, <1>24, <1>25, <1>26, <1>27 DEF Next

-----------------------------------------------------------------------------
(* The HTTP server is one thread: while it saves a pairing the client it   *)
(* pairs waits and begins nothing else.                                    *)
LEMMA SameAnswer ==
  ASSUME TypeOK, Jobbed, [Next]_vars, Busy("http")', ~Restart
  PROVE  \/ \E c \in Clients : ClientPairingSecret(c) /\ ~Busy("http")
         \/ /\ Busy("http") /\ job'["http"].client = job["http"].client
            /\ Now(job["http"].client)' = Now(job["http"].client)
            /\ stage'[job["http"].client] = "waiting"
<1> DEFINE c0 == job["http"].client
           Same == /\ Busy("http") /\ job'["http"].client = c0
                   /\ Now(c0)' = Now(c0) /\ stage'[c0] = "waiting"
<1> USE DEF Now, Threads
<1>1. Busy("http") => c0 \in Clients /\ stage[c0] = "waiting"
  BY DEF TypeOK, Jobbed, Busy
<1>2. ASSUME UNCHANGED <<job, tries, stage>> PROVE Same
  BY <1>1, <1>2 DEF Busy
<1>3. ASSUME job'["http"] = job["http"], UNCHANGED <<tries, stage>> PROVE Same
  BY <1>1, <1>3 DEF Busy
<1>4. ASSUME NEW c \in Clients, GetServerCertRequest(c) PROVE Same
  BY <1>4 DEF GetServerCertRequest, Busy
<1>5. ASSUME NEW c \in Clients, ClientChallenge(c) PROVE Same
  BY <1>5 DEF ClientChallenge, SameRest, Busy
<1>6. ASSUME NEW c \in Clients, ServerChallengeResp(c) PROVE Same
  BY <1>6 DEF ServerChallengeResp, SameRest, Busy
<1>7. ASSUME NEW c \in Clients, ClientPairingSecret(c) PROVE ~Busy("http")
  BY <1>7 DEF ClientPairingSecret
<1>8. ASSUME NEW c \in Clients, Abandon(c) PROVE Same
  BY <1>1, <1>8 DEF Abandon, GoesTo, TypeOK, Busy
<1>9. ASSUME NEW c \in Clients, NEW phase \in Phases, OutOfOrder(c, phase) PROVE Same
  BY <1>9 DEF OutOfOrder, SameRest, Busy
<1>10. ASSUME NEW t \in Threads, Read(t) PROVE Same
  <2>1. job'["http"].kind = job["http"].kind /\ job'["http"].client = c0
    BY <1>10 DEF Read, TypeOK, Jobs
  <2> QED BY <1>1, <1>10, <2>1 DEF Read, Busy
<1>11. ASSUME NEW t \in Threads, NEW content, Written(t, content) PROVE Same
  <2>1. job'["http"].kind = job["http"].kind /\ job'["http"].client = c0
    BY <1>11 DEF Written, TypeOK, Jobs
  <2> QED BY <1>1, <1>11, <2>1 DEF Written, Busy
<1>12. ASSUME NEW t \in Threads, Write(t) \/ WriteFails(t) PROVE Same
  BY <1>11, <1>12 DEF Write, WriteFails
<1>13. ~PairEnds
  BY DEF PairEnds, Busy, Idle, Job, TypeOK
<1>14. CASE TypePin
  <2>1. PICK i \in Ids : \E pin : Pin(i, pin)
    BY <1>14 DEF TypePin
  <2>2. PICK pin : Pin(i, pin)
    BY <2>1
  <2>3. Busy("http")
    BY <2>2 DEF Pin, Busy
  <2>4. stage'[c0] = stage[c0]
    BY <1>1, <2>2, <2>3 DEF Pin, Asker
  <2> QED BY <1>1, <2>2, <2>3, <2>4 DEF Pin
<1>15. ASSUME NEW kind, NEW list, Changed(kind, list) PROVE job'["http"] = job["http"]
  BY <1>15 DEF Changed, Start, TypeOK
<1>16. ASSUME NEW t, Unpair(t) \/ SetEnabled(t) PROVE Same
  BY <1>3, <1>15, <1>16 DEF Unpair, SetEnabled
<1>17. CASE UnpairAll
  BY <1>3, <1>15, <1>17 DEF UnpairAll
<1>18. CASE SavePassword
  BY <1>3, <1>18 DEF SavePassword, Start, TypeOK
<1>19. CASE UnpairEnds \/ SavedEnds \/ PasswordEnds
  BY <1>3, <1>19 DEF UnpairEnds, SavedEnds, PasswordEnds, WebEnds, TypeOK
<1>20. CASE Verify
  BY <1>2, <1>20 DEF Verify
<1>21. CASE UNCHANGED vars
  BY <1>2, <1>21 DEF vars
<1> QED BY <1>4, <1>5, <1>6, <1>7, <1>8, <1>9, <1>10, <1>12, <1>13, <1>14, <1>16,
           <1>17, <1>18, <1>19, <1>20, <1>21 DEF Next

JobSound(j) ==
  /\ j.kind # "idle" /\ j.step = "write" => j.image # Missing
  /\ j.kind = "password" => j.creds # 0

(* Nothing changes under a handler what it is about.                       *)
LEMMA JobbedStep == TypeOK /\ Jobbed /\ [Next]_vars => Jobbed'
<1> SUFFICES ASSUME TypeOK, Jobbed, [Next]_vars PROVE Jobbed'
  OBVIOUS
<1>1. \A u \in Threads : JobSound(job[u])
  BY DEF Jobbed, JobSound, Busy
<1>2. Busy("http")' => stage'[job'["http"].client] = "waiting"
  <2>1. CASE Restart
    BY <2>1 DEF Restart, Busy, Idle, Job, Threads
  <2>2. ASSUME NEW c \in Clients, ClientPairingSecret(c), ~Busy("http"), Busy("http")'
        PROVE  stage'[job'["http"].client] = "waiting"
    <3>1. Start("http", Job("pair", c, 0)) /\ GoesTo(c, "waiting")
      BY <2>2 DEF ClientPairingSecret, Busy
    <3> QED BY <3>1 DEF Start, GoesTo, Job, TypeOK, Threads
  <2> QED BY <2>1, <2>2, SameAnswer
<1>3. \A u \in Threads : JobSound(job'[u])
  <2>1. ASSUME UNCHANGED job PROVE \A u \in Threads : JobSound(job'[u])
    BY <1>1, <2>1
  <2>2. ASSUME NEW t \in Threads, NEW j, JobSound(j), job' = [job EXCEPT ![t] = j]
        PROVE  \A u \in Threads : JobSound(job'[u])
    BY <1>1, <2>2 DEF TypeOK
  <2>3. JobSound(Idle)
    BY DEF JobSound, Idle, Job
  <2>4. ASSUME NEW kind, NEW c, NEW version, kind = "password" => version # 0
        PROVE  JobSound(Job(kind, c, version))
    BY <2>4 DEF JobSound, Job
  <2>5. ASSUME NEW c \in Clients, ClientPairingSecret(c)
        PROVE  \A u \in Threads : JobSound(job'[u])
    BY <2>1, <2>2, <2>4, <2>5 DEF ClientPairingSecret, Start, Threads
  <2>6. ASSUME NEW t \in Threads, Read(t) PROVE \A u \in Threads : JobSound(job'[u])
    <3>1. CASE file = Corrupt
      <4>1. JobSound([job[t] EXCEPT !.step = "end"])
        BY <1>1 DEF JobSound, TypeOK, Jobs
      <4> QED BY <2>2, <2>6, <3>1, <4>1 DEF Read
    <3>2. CASE file # Corrupt
      <4>1. Image(job[t]) # Missing
        BY <3>2, ImageTyped, SpecialValues DEF TypeOK
      <4>2. JobSound([job[t] EXCEPT !.step = "write", !.image = Image(job[t])])
        BY <1>1, <4>1 DEF JobSound, TypeOK, Jobs
      <4> QED BY <2>2, <2>6, <3>2, <4>2 DEF Read
    <3> QED BY <3>1, <3>2
  <2>7. ASSUME NEW t \in Threads, NEW content, Written(t, content)
        PROVE  \A u \in Threads : JobSound(job'[u])
    <3>1. JobSound([job[t] EXCEPT !.step = "end"])
      BY <1>1 DEF JobSound, TypeOK, Jobs
    <3>2. job' = [job EXCEPT ![t] = [job[t] EXCEPT !.step = "end"]]
      BY <2>7 DEF Written
    <3> QED BY <2>2, <3>1, <3>2
  <2>8. ASSUME NEW kind, NEW list, kind # "password", Changed(kind, list)
        PROVE  \A u \in Threads : JobSound(job'[u])
    BY <2>2, <2>4, <2>8 DEF Changed, Start, Threads
  <2>9. CASE SavePassword
    <3>1. changes + 1 # 0
      BY PairingAssumption DEF TypeOK
    <3> QED BY <2>2, <2>4, <2>9, <3>1 DEF SavePassword, Start, Threads
  <2>10. ASSUME NEW t, Unpair(t) \/ SetEnabled(t) PROVE \A u \in Threads : JobSound(job'[u])
    BY <2>8, <2>10 DEF Unpair, SetEnabled
  <2>11. CASE Restart
    BY <2>3, <2>11 DEF Restart
  <2>12. CASE PairEnds \/ UnpairEnds \/ SavedEnds \/ PasswordEnds
    BY <2>2, <2>3, <2>12 DEF PairEnds, UnpairEnds, SavedEnds, PasswordEnds, WebEnds, Threads
  <2>13. ASSUME NEW c \in Clients, \/ GetServerCertRequest(c) \/ ClientChallenge(c)
                                   \/ ServerChallengeResp(c) \/ Abandon(c)
                                   \/ \E phase \in Phases : OutOfOrder(c, phase)
         PROVE  UNCHANGED job
    BY <2>13
    DEF GetServerCertRequest, ClientChallenge, ServerChallengeResp, Abandon, OutOfOrder, SameRest
  <2>14. CASE TypePin \/ Verify \/ UNCHANGED vars
    BY <2>1, <2>14 DEF TypePin, Pin, Verify, vars
  <2>15. CASE UnpairAll
    BY <2>8, <2>15 DEF UnpairAll
  <2> QED BY <2>1, <2>5, <2>6, <2>7, <2>9, <2>10, <2>11, <2>12, <2>13, <2>14, <2>15
          DEF Next, Write, WriteFails
<1> QED BY <1>2, <1>3 DEF Jobbed, JobSound, Busy

-----------------------------------------------------------------------------
(* What was typed stays typed: only TypePin adds to it.                    *)
LEMMA TypedGrows == ASSUME [Next]_vars PROVE typed \subseteq typed'
<1>1. ASSUME NEW t, NEW content, Written(t, content) PROVE UNCHANGED typed
  BY <1>1 DEF Written, history
<1>2. ASSUME NEW i, NEW pin, Pin(i, pin) PROVE typed \subseteq typed'
  BY <1>2 DEF Pin
<1> QED BY <1>1, <1>2
    DEF Next, GetServerCertRequest, ClientChallenge, ServerChallengeResp, SameRest,
        ClientPairingSecret, Abandon, OutOfOrder, Read, Write, WriteFails, PairEnds, TypePin,
        Unpair, SetEnabled, UnpairAll, SavePassword, UnpairEnds, SavedEnds, PasswordEnds,
        Verify, Restart, vars, history

(* A key is made of the PIN the user types, and a hash is right only under *)
(* a key made of the client's own PIN.                                     *)
KeySound(s, pins) ==
  /\ s.key # None => s.key[2] \in pins \cup {Wrong}
  /\ s.hash \in pins \cup {None}

(* Keys and hashes of sessions stay ones of typed PINs.                    *)
LEMMA KeysStep == TypeOK /\ KeysPinned /\ [Next]_vars => KeysPinned'
<1> SUFFICES ASSUME TypeOK, KeysPinned, [Next]_vars PROVE KeysPinned'
  OBVIOUS
<1> DEFINE Kept0 == \A i \in DOMAIN sess' : i \in DOMAIN sess /\ sess'[i] = sess[i]
<1>1. \A i \in DOMAIN sess : KeySound(sess[i], typed')
  BY TypedGrows DEF KeysPinned, KeySound
<1>2. (\A i \in DOMAIN sess' : KeySound(sess'[i], typed')) => KeysPinned'
  BY DEF KeysPinned, KeySound
<1>3. ASSUME Kept0 PROVE KeysPinned'
  BY <1>1, <1>2, <1>3
<1>4. ASSUME NEW i \in DOMAIN sess, NEW s, KeySound(s, typed'), sess' = [sess EXCEPT ![i] = s]
      PROVE  KeysPinned'
  BY <1>1, <1>2, <1>4
<1>5. ASSUME NEW c \in Clients, GetServerCertRequest(c) PROVE KeysPinned'
  <2>1. PICK salt : sess' = Emplace(c, salt)
    BY <1>5 DEF GetServerCertRequest
  <2>2. CASE idOf[c] \in DOMAIN sess
    <3>1. KeySound([sess[idOf[c]] EXCEPT !.salt = salt], typed')
      BY <1>1, <2>2, SessionTyped DEF KeySound, Sessions
    <3> QED BY <1>4, <2>1, <2>2, <3>1 DEF Emplace
  <2>3. CASE idOf[c] \notin DOMAIN sess
    <3>1. KeySound(NewSession(c, salt), typed')
      BY DEF KeySound, NewSession
    <3> QED BY <1>1, <1>2, <2>1, <2>3, <3>1 DEF Emplace, Put
  <2> QED BY <2>2, <2>3
<1>6. ASSUME NEW c \in Clients, ClientChallenge(c) PROVE KeysPinned'
  <2>1. idOf[c] \in DOMAIN sess
    BY <1>6 DEF ClientChallenge, MustFail
  <2> DEFINE s == [sess[idOf[c]] EXCEPT !.phase = "CLIENTCHALLENGE", !.challenged = Now(c)]
  <2>2. sess' = [sess EXCEPT ![idOf[c]] = s]
    BY <1>6, <2>1, SessionTyped DEF ClientChallenge, Sessions
  <2>3. KeySound(s, typed')
    BY <1>1, <2>1, SessionTyped DEF KeySound, Sessions
  <2> QED BY <1>4, <2>1, <2>2, <2>3
<1>7. ASSUME NEW c \in Clients, ServerChallengeResp(c) PROVE KeysPinned'
  <2>1. idOf[c] \in DOMAIN sess
    BY <1>7 DEF ServerChallengeResp, MustFail
  <2> DEFINE h == Hash(sess[idOf[c]], Now(c))
             s == [sess[idOf[c]] EXCEPT !.phase = "SERVERCHALLENGERESP", !.hash = h]
  <2>2. sess' = [sess EXCEPT ![idOf[c]] = s]
    BY <1>7, <2>1, SessionTyped DEF ServerChallengeResp, Sessions
  <2>3. h \in typed' \cup {None}
    <3>1. CASE Understood(sess[idOf[c]], Now(c))
      <4>1. sess[idOf[c]].key # None /\ sess[idOf[c]].key[2] = Now(c)
        BY <3>1, NowTyped, SpecialValues DEF Understood
      <4>2. Now(c) # Wrong
        BY NowTyped, SpecialValues
      <4> QED BY <1>1, <2>1, <3>1, <4>1, <4>2 DEF Hash, KeySound
    <3>2. CASE ~Understood(sess[idOf[c]], Now(c))
      BY <3>2 DEF Hash
    <3> QED BY <3>1, <3>2
  <2>4. KeySound(s, typed')
    BY <1>1, <2>1, <2>3, SessionTyped DEF KeySound, Sessions
  <2> HIDE DEF s
  <2> QED BY <1>4, <2>1, <2>2, <2>4
<1>8. ASSUME NEW i, sess' = Drop(sess, i) PROVE KeysPinned'
  BY <1>3, <1>8 DEF Drop
<1>9. ASSUME NEW c \in Clients, ClientPairingSecret(c) \/ \E phase \in Phases : OutOfOrder(c, phase)
      PROVE  KeysPinned'
  BY <1>3, <1>8, <1>9 DEF ClientPairingSecret, OutOfOrder, FailPair
<1>10. CASE PairEnds
  BY <1>8, <1>10 DEF PairEnds, FailPair
<1>11. ASSUME NEW i \in Ids, NEW pin \in Tries \cup {Wrong}, Pin(i, pin) PROVE KeysPinned'
  <2>1. CASE ~GetsKey(sess[i])
    BY <1>8, <1>11, <2>1 DEF Pin
  <2>2. CASE GetsKey(sess[i])
    <3> DEFINE s == [sess[i] EXCEPT !.phase = "GETSERVERCERT", !.key = <<sess[i].salt, pin>>]
    <3>1. i \in DOMAIN sess
      BY <1>11 DEF Pin
    <3>2. sess' = [sess EXCEPT ![i] = s]
      BY <1>11, <2>2, <3>1, SessionTyped DEF Pin, Sessions
    <3>3. pin \in typed' \cup {Wrong}
      BY <1>11 DEF Pin
    <3>4. KeySound(s, typed')
      BY <1>1, <3>1, <3>3, SessionTyped DEF KeySound, Sessions
    <3> QED BY <1>4, <3>1, <3>2, <3>4
  <2> QED BY <2>1, <2>2
<1>12. CASE TypePin
  BY <1>11, <1>12, NowTyped DEF TypePin
<1>13. CASE Restart
  BY <1>3, <1>13 DEF Restart
<1>14. ASSUME UNCHANGED sess PROVE KeysPinned'
  BY <1>3, <1>14
<1>15. ASSUME NEW t \in Threads, Read(t) \/ Write(t) \/ WriteFails(t) PROVE KeysPinned'
  BY <1>14, <1>15 DEF Read, Write, WriteFails, Written, memory
<1>16. ASSUME NEW c \in Clients, Abandon(c) PROVE KeysPinned'
  BY <1>14, <1>16 DEF Abandon, memory
<1>17. CASE UnpairAll \/ SavePassword \/ UnpairEnds \/ SavedEnds \/ PasswordEnds \/ Verify
             \/ UNCHANGED vars
  BY <1>14, <1>17 DEF UnpairAll, SavePassword, UnpairEnds, SavedEnds, PasswordEnds, Verify,
                      vars, memory
<1>18. ASSUME NEW t, Unpair(t) \/ SetEnabled(t) PROVE KeysPinned'
  BY <1>14, <1>18 DEF Unpair, SetEnabled
<1> QED BY <1>5, <1>6, <1>7, <1>9, <1>10, <1>12, <1>13, <1>15, <1>16, <1>17, <1>18 DEF Next

(* A client that is listed answered under such a key.                      *)
LEMMA AnswerIsPinned ==
  ASSUME TypeOK, KeysPinned, NEW c \in Clients, idOf[c] \in DOMAIN sess,
         Accepts(sess[idOf[c]], Now(c))
  PROVE  Now(c) \in typed /\ sess[idOf[c]].cert = c
<1>1. Now(c) # None
  BY NowTyped, SpecialValues
<1> QED BY <1>1 DEF KeysPinned, Accepts, SameHash, Verifies, Client, Now

(* How the job of a thread changes: it starts or ends, its list is made of *)
(* the list in memory or the file, or it goes on with the list it has.     *)
LEMMA JobChanges ==
  ASSUME TypeOK, [Next]_vars, NEW u \in Threads
  PROVE  \/ job'[u].image \in {Missing, job[u].image}
         \/ file # Corrupt /\ Read(u) /\ job'[u].image = Image(job[u])
<1> DEFINE Same == job'[u].image \in {Missing, job[u].image}
<1>1. ASSUME UNCHANGED job PROVE Same
  BY <1>1
<1>2. ASSUME NEW t \in Threads, NEW kind, NEW c, NEW version,
             job' = [job EXCEPT ![t] = Job(kind, c, version)]
      PROVE  Same
  BY <1>2 DEF Job, TypeOK
<1>3. ASSUME NEW c \in Clients, ClientPairingSecret(c) PROVE Same
  BY <1>1, <1>2, <1>3 DEF ClientPairingSecret, Start, Threads
<1>4. ASSUME NEW t \in Threads, Read(t) PROVE Same \/ (file # Corrupt /\ Read(u) /\ job'[u].image = Image(job[u]))
  <2>1. CASE u = t
    BY <1>4, <2>1 DEF Read, TypeOK, Jobs
  <2>2. CASE u # t
    BY <1>4, <2>2 DEF Read, TypeOK
  <2> QED BY <2>1, <2>2
<1>5. ASSUME NEW t \in Threads, Write(t) \/ WriteFails(t) PROVE Same
  <2>1. job' = [job EXCEPT ![t] = [job[t] EXCEPT !.step = "end"]]
    BY <1>5 DEF Write, WriteFails, Written
  <2> QED BY <2>1 DEF TypeOK, Jobs
<1>6. ASSUME NEW kind, NEW list, Changed(kind, list) PROVE Same
  BY <1>2, <1>6 DEF Changed, Start, Threads
<1>7. CASE SavePassword
  BY <1>2, <1>7 DEF SavePassword, Start, Threads
<1>8. ASSUME NEW t, Unpair(t) \/ SetEnabled(t) PROVE Same
  BY <1>6, <1>8 DEF Unpair, SetEnabled
<1>9. CASE PairEnds \/ UnpairEnds \/ SavedEnds \/ PasswordEnds \/ Restart
  <2>1. job'[u] \in {Idle, job[u]}
    BY <1>9 DEF PairEnds, UnpairEnds, SavedEnds, PasswordEnds, WebEnds, Restart, TypeOK, Threads
  <2> QED BY <2>1 DEF Idle, Job
<1>10. ASSUME NEW c \in Clients, \/ GetServerCertRequest(c) \/ ClientChallenge(c)
                                 \/ ServerChallengeResp(c) \/ Abandon(c)
                                 \/ \E phase \in Phases : OutOfOrder(c, phase)
       PROVE  UNCHANGED job
  BY <1>10
  DEF GetServerCertRequest, ClientChallenge, ServerChallengeResp, Abandon, OutOfOrder, SameRest
<1>11. CASE TypePin \/ Verify \/ UNCHANGED vars
  BY <1>1, <1>11 DEF TypePin, Pin, Verify, vars
<1>12. CASE UnpairAll
  BY <1>6, <1>12 DEF UnpairAll
<1> QED BY <1>1, <1>3, <1>4, <1>5, <1>7, <1>8, <1>9, <1>10, <1>11, <1>12 DEF Next

(* A list that is to be written is the one in memory or the one in the     *)
(* file, an entry more or less apart, and they are pinned.                 *)
LEMMA ImagesStep == TypeOK /\ ImagesPinned /\ ListsPinned /\ [Next]_vars => ImagesPinned'
<1> SUFFICES ASSUME TypeOK, ImagesPinned, ListsPinned, [Next]_vars, NEW u \in Threads,
                    job'[u].image # Missing
             PROVE  TriesOf(job'[u].image.devices) \subseteq typed'
  BY DEF ImagesPinned
<1>1. CASE job'[u].image = job[u].image
  BY <1>1, TypedGrows DEF ImagesPinned
<1>2. CASE file # Corrupt /\ job'[u].image = Image(job[u])
  <2>1. Image(job[u]).devices \in {clients, OldDevices}
    BY DEF Image
  <2>2. TriesOf(clients) \subseteq typed
    BY DEF ListsPinned, Listed
  <2>3. TriesOf(OldDevices) \subseteq typed
    <3>1. CASE file = Missing
      BY <3>1 DEF OldDevices, TriesOf
    <3>2. CASE file # Missing
      BY <1>2, <3>2 DEF OldDevices, ListsPinned, Saved
    <3> QED BY <3>1, <3>2
  <2> QED BY <1>2, <2>1, <2>2, <2>3, TypedGrows
<1> QED BY <1>1, <1>2, JobChanges

(* The client whose pairing is being saved answered right.                 *)
LEMMA AnswerStep ==
  TypeOK /\ Jobbed /\ KeysPinned /\ AnswerPinned /\ [Next]_vars => AnswerPinned'
<1> SUFFICES ASSUME TypeOK, Jobbed, KeysPinned, AnswerPinned, [Next]_vars, Busy("http")'
             PROVE  Now(job["http"].client)' \in typed'
  BY DEF AnswerPinned
<1>1. ~Restart
  BY DEF Restart, Busy, Idle, Job, Threads
<1>2. ASSUME NEW c \in Clients, ClientPairingSecret(c), ~Busy("http")
      PROVE  Now(job["http"].client)' \in typed'
  <2>1. Start("http", Job("pair", c, 0)) /\ Accepts(sess[idOf[c]], Now(c)) /\ UNCHANGED tries
    BY <1>2 DEF ClientPairingSecret, Busy
  <2>2. job'["http"].client = c
    BY <2>1 DEF Start, Job, TypeOK, Threads
  <2>3. idOf[c] \in DOMAIN sess
    BY <1>2 DEF ClientPairingSecret, MustFail
  <2>4. Now(c) \in typed
    BY <2>1, <2>3, AnswerIsPinned
  <2> QED BY <2>1, <2>2, <2>4, TypedGrows DEF Now
<1>3. CASE /\ Busy("http") /\ job'["http"].client = job["http"].client
           /\ Now(job["http"].client)' = Now(job["http"].client)
  BY <1>3, TypedGrows DEF AnswerPinned
<1> QED BY <1>1, <1>2, <1>3, SameAnswer

(* How the list in memory changes: a client is added, some go, flags are   *)
(* changed, or the list of the file takes its place.                       *)
Adds(c) ==
  /\ Accepts(sess[idOf[c]], Now(c)) /\ idOf[c] \in DOMAIN sess
  /\ clients' = clients \cup {[try |-> Now(c), on |-> TRUE]}
  /\ queue' = queue \cup {sess[idOf[c]].cert} /\ UNCHANGED chain
Keeps == Listed' \subseteq Listed /\ chain \cup queue \subseteq chain' \cup queue'
Loads ==
  /\ Listed' = Saved /\ chain' = {Client(t) : t \in Listed'}
  /\ (UnpairEnds \/ Restart)

(* The ways in which the list of clients changes.                          *)
LEMMA ListChanges ==
  ASSUME TypeOK, [Next]_vars
  PROVE  \/ Keeps \/ Loads \/ (UnpairAll /\ Listed' = {})
         \/ (Restart /\ Listed' = {})
         \/ \E c \in Clients : ClientPairingSecret(c) /\ Adds(c)
<1> USE DEF Listed
<1>1. ASSUME UNCHANGED <<clients, chain, queue>> PROVE Keeps
  BY <1>1 DEF Keeps
<1>2. ASSUME NEW c \in Clients, ClientPairingSecret(c) PROVE Keeps \/ Adds(c)
  BY <1>1, <1>2 DEF ClientPairingSecret, MustFail, Adds
<1>3. ASSUME NEW t, Unpair(t) PROVE Keeps
  BY <1>3 DEF Unpair, Changed, Keeps, TriesOf
<1>4. ASSUME NEW t, SetEnabled(t) PROVE Keeps
  <2>1. PICK on \in BOOLEAN :
          clients' = {IF e.try = t THEN [e EXCEPT !.on = on] ELSE e : e \in clients}
    BY <1>4 DEF SetEnabled, Changed
  <2>2. \A e \in clients : [e EXCEPT !.on = on].try = e.try
    BY DEF TypeOK, Entries
  <2> QED BY <1>4, <2>1, <2>2 DEF SetEnabled, Keeps, TriesOf
<1>5. CASE UnpairAll
  BY <1>5 DEF UnpairAll, Changed, TriesOf
<1>6. CASE UnpairEnds
  <2>1. CASE file \in {Missing, Corrupt}
    BY <1>1, <1>6, <2>1 DEF UnpairEnds, Load
  <2>2. CASE file \notin {Missing, Corrupt}
    BY <1>6, <2>2 DEF UnpairEnds, Load, Loads, Saved
  <2> QED BY <2>1, <2>2
<1>7. CASE Restart
  <2>1. PICK f \in HalfWritten :
          /\ clients' = IF f \in {Missing, Corrupt} THEN {} ELSE f.devices
          /\ chain' = {Client(t) : t \in TriesOf(clients')}
    BY <1>7 DEF Restart
  <2>2. f \in {file, Corrupt}
    BY <2>1 DEF HalfWritten
  <2>3. CASE f \in {Missing, Corrupt}
    BY <1>7, <2>1, <2>3 DEF TriesOf
  <2>4. CASE f \notin {Missing, Corrupt}
    BY <1>7, <2>1, <2>2, <2>4 DEF Loads, Saved
  <2> QED BY <2>3, <2>4
<1>8. CASE Verify
  BY <1>8 DEF Verify, Keeps
<1>9. ASSUME NEW c \in Clients, \/ GetServerCertRequest(c) \/ ClientChallenge(c)
                                \/ ServerChallengeResp(c) \/ Abandon(c)
                                \/ \E phase \in Phases : OutOfOrder(c, phase)
      PROVE  UNCHANGED <<clients, chain, queue>>
  BY <1>9
  DEF GetServerCertRequest, ClientChallenge, ServerChallengeResp, Abandon, OutOfOrder, SameRest, memory
<1>10. ASSUME NEW t \in Threads, Read(t) \/ Write(t) \/ WriteFails(t) PROVE Keeps
  BY <1>1, <1>10 DEF Read, Write, WriteFails, Written, memory
<1>11. CASE PairEnds \/ TypePin \/ SavePassword \/ SavedEnds \/ PasswordEnds \/ UNCHANGED vars
  BY <1>1, <1>11 DEF PairEnds, TypePin, Pin, SavePassword, SavedEnds, PasswordEnds, vars, memory
<1> QED BY <1>1, <1>2, <1>3, <1>4, <1>5, <1>6, <1>7, <1>8, <1>9, <1>10, <1>11 DEF Next

(* How the file changes: it gets the list of a thread or is spoilt.        *)
LEMMA FileChanges ==
  ASSUME TypeOK, [Next]_vars
  PROVE  \/ file' = file \/ file' = Corrupt
         \/ \E t \in Threads : Write(t)
<1>1. ASSUME NEW t \in Threads, WriteFails(t) PROVE file' = file \/ file' = Corrupt
  BY <1>1 DEF WriteFails, Written
<1>2. CASE Restart
  BY <1>2 DEF Restart, HalfWritten
<1>3. ASSUME NEW c \in Clients, \/ GetServerCertRequest(c) \/ ClientChallenge(c)
                                \/ ServerChallengeResp(c) \/ Abandon(c) \/ ClientPairingSecret(c)
                                \/ \E phase \in Phases : OutOfOrder(c, phase)
      PROVE  UNCHANGED file
  BY <1>3
  DEF GetServerCertRequest, ClientChallenge, ServerChallengeResp, Abandon, OutOfOrder, SameRest,
      ClientPairingSecret
<1>4. ASSUME NEW t, Read(t) \/ Unpair(t) \/ SetEnabled(t) PROVE UNCHANGED file
  BY <1>4 DEF Read, Unpair, SetEnabled
<1>5. CASE PairEnds \/ TypePin \/ SavePassword \/ SavedEnds \/ PasswordEnds \/ UnpairEnds
             \/ UnpairAll \/ Verify \/ UNCHANGED vars
  BY <1>5 DEF PairEnds, TypePin, Pin, SavePassword, SavedEnds, PasswordEnds, UnpairEnds,
              UnpairAll, Verify, vars
<1> QED BY <1>1, <1>2, <1>3, <1>4, <1>5 DEF Next

(* Only the end of a pairing answers "paired".                             *)
LEMMA ToldChanges ==
  ASSUME [Next]_vars
  PROVE  told' = told \/ (PairEnds /\ told' = told \cup {Now(job["http"].client)})
<1>1. ASSUME NEW t, Read(t) \/ Write(t) \/ WriteFails(t) \/ Unpair(t) \/ SetEnabled(t)
      PROVE  UNCHANGED told
  BY <1>1 DEF Read, Write, WriteFails, Written, Unpair, SetEnabled, history
<1> QED BY <1>1
    DEF Next, GetServerCertRequest, ClientChallenge, ServerChallengeResp, SameRest,
        ClientPairingSecret, Abandon, OutOfOrder, PairEnds, TypePin, Pin,
        UnpairAll, SavePassword, UnpairEnds, SavedEnds, PasswordEnds,
        Verify, Restart, vars, history

(* A client that is added is added alone.                                  *)
LEMMA AddsOne == ASSUME NEW c, Adds(c) PROVE Listed' = Listed \cup {Now(c)}
<1> DEFINE e == [try |-> Now(c), on |-> TRUE]
<1>1. clients' = clients \cup {e} /\ e.try = Now(c)
  BY DEF Adds
<1> HIDE DEF e
<1> QED BY <1>1 DEF Listed, TriesOf

(* Who is listed, saved or told it is paired answered under a typed PIN.   *)
LEMMA ListsStep ==
  TypeOK /\ Jobbed /\ KeysPinned /\ ImagesPinned /\ AnswerPinned /\ ListsPinned /\ [Next]_vars
    => ListsPinned'
<1> SUFFICES ASSUME TypeOK, Jobbed, KeysPinned, ImagesPinned, AnswerPinned, ListsPinned, [Next]_vars
             PROVE  ListsPinned'
  OBVIOUS
<1>1. Listed' \subseteq typed'
  <2>1. ASSUME NEW c \in Clients, Adds(c) PROVE Listed' \subseteq typed
    <3>1. Now(c) \in typed
      BY <2>1, AnswerIsPinned DEF Adds
    <3>2. Listed' = Listed \cup {Now(c)}
      BY <2>1, AddsOne
    <3> QED BY <3>1, <3>2 DEF ListsPinned
  <2> QED BY <2>1, ListChanges, TypedGrows DEF Keeps, Loads, ListsPinned
<1>2. Saved' \subseteq typed'
  <2>1. CASE file' = file \/ file' = Corrupt
    BY <2>1, TypedGrows DEF Saved, ListsPinned
  <2>2. ASSUME NEW t \in Threads, Write(t) PROVE Saved' \subseteq typed
    <3>1. file' = job[t].image /\ job[t].image # Missing
      BY <2>2 DEF Write, Written, Jobbed
    <3> QED BY <3>1 DEF Saved, ImagesPinned
  <2> QED BY <2>1, <2>2, FileChanges, TypedGrows
<1>3. told' \subseteq typed'
  BY ToldChanges, TypedGrows DEF ListsPinned, AnswerPinned, PairEnds
<1> QED BY <1>1, <1>2, <1>3 DEF ListsPinned

(* So did whose certificate is accepted.                                   *)
LEMMA CertsStep ==
  TypeOK /\ KeysPinned /\ ListsPinned /\ CertsPinned /\ [Next]_vars => CertsPinned'
<1> SUFFICES ASSUME TypeOK, KeysPinned, ListsPinned, CertsPinned, [Next]_vars PROVE CertsPinned'
  OBVIOUS
<1>0. {Client(t) : t \in typed} \subseteq {Client(t) : t \in typed'}
  BY TypedGrows
<1>1. ASSUME chain' \cup queue' \subseteq chain \cup queue PROVE CertsPinned'
  BY <1>0, <1>1 DEF CertsPinned
<1>2. ASSUME NEW c \in Clients, ClientPairingSecret(c), Adds(c) PROVE CertsPinned'
  <2>1. Now(c) \in typed /\ sess[idOf[c]].cert = Client(Now(c))
    BY <1>2, AnswerIsPinned DEF Adds, Client, Now
  <2> QED BY <1>0, <1>2, <2>1 DEF Adds, CertsPinned
<1>3. CASE Loads
  BY <1>0, <1>1, <1>3 DEF Loads, ListsPinned, CertsPinned, UnpairEnds, Restart
<1>4. CASE Restart /\ Listed' = {}
  BY <1>1, <1>4 DEF Restart, Listed
<1>5. ASSUME NEW c \in Clients, ClientPairingSecret(c), ~Adds(c) PROVE CertsPinned'
  BY <1>1, <1>5 DEF ClientPairingSecret, Adds, MustFail
<1>6. ASSUME NEW c \in Clients, \/ GetServerCertRequest(c) \/ ClientChallenge(c)
                                \/ ServerChallengeResp(c) \/ Abandon(c)
                                \/ \E phase \in Phases : OutOfOrder(c, phase)
      PROVE  UNCHANGED <<chain, queue>>
  BY <1>6
  DEF GetServerCertRequest, ClientChallenge, ServerChallengeResp, Abandon, OutOfOrder, SameRest, memory
<1>7. ASSUME NEW t, Read(t) \/ Write(t) \/ WriteFails(t) \/ Unpair(t) \/ SetEnabled(t)
      PROVE  UNCHANGED <<chain, queue>>
  BY <1>7 DEF Read, Write, WriteFails, Written, Unpair, SetEnabled, memory
<1>8. CASE UnpairAll \/ Verify
  BY <1>1, <1>8 DEF UnpairAll, Verify
<1>9. CASE PairEnds \/ TypePin \/ SavePassword \/ SavedEnds \/ PasswordEnds \/ UNCHANGED vars
  BY <1>1, <1>9 DEF PairEnds, TypePin, Pin, SavePassword, SavedEnds, PasswordEnds, vars, memory
<1>10. CASE UnpairEnds /\ ~Loads
  <2>1. UNCHANGED <<chain, queue>>
    BY <1>10 DEF UnpairEnds, Load, Loads, Listed, Saved
  <2> QED BY <1>1, <2>1
<1>11. Restart => Loads \/ Listed' = {}
  BY ListChanges DEF Restart, HalfWritten, Loads, Listed, Saved, TriesOf
<1> QED BY <1>1, <1>2, <1>3, <1>4, <1>5, <1>6, <1>7, <1>8, <1>9, <1>10, <1>11 DEF Next

(* Who is listed stays known to the HTTPS server.                          *)
LEMMA KnownStep == TypeOK /\ Known /\ [Next]_vars => Known'
<1> SUFFICES ASSUME TypeOK, Known, [Next]_vars PROVE Known'
  OBVIOUS
<1>1. CASE Keeps
  BY <1>1 DEF Keeps, Known
<1>2. CASE Loads
  BY <1>2 DEF Loads, Known
<1>3. CASE Listed' = {}
  BY <1>3 DEF Known
<1>4. ASSUME NEW c \in Clients, Adds(c) PROVE Known'
  <2>1. Listed' = Listed \cup {Now(c)}
    BY <1>4, AddsOne
  <2>2. sess[idOf[c]].cert = Client(Now(c))
    BY <1>4 DEF Adds, Accepts, Verifies
  <2> QED BY <1>4, <2>1, <2>2 DEF Adds, Known
<1> QED BY <1>1, <1>2, <1>3, <1>4, ListChanges

-----------------------------------------------------------------------------
(* The file, while no write fails and no two changes overlap.              *)
FileInv == TypeOK /\ Jobbed /\ Agreed /\ Kept

(* What the file would hold now is typed.                                  *)
LEMMA FullTyped ==
  ASSUME TypeOK, NEW version \in Nat
  PROVE  /\ Full(version) \in Contents /\ Full(version) \notin {Missing, Corrupt}
         /\ Full(version).devices = clients /\ Full(version).creds = version
BY SpecialValues DEF Full, Contents, TypeOK

(* A file that holds it saves the whole list.                              *)
LEMMA FullSaved ==
  ASSUME TypeOK, NEW version \in Nat, file = Full(version)
  PROVE  Saved = Listed /\ OldCreds = version /\ OldDevices = clients
BY FullTyped DEF Saved, Listed, OldCreds, OldDevices

(* The version of the password a handler writes is one.                    *)
LEMMA VersionTyped == ASSUME TypeOK, NEW u \in Threads PROVE Version(u) \in Nat
BY DEF TypeOK, Version, Jobs

(* A change begins when nobody else is at work, with a file in step.       *)
LEMMA StartAgrees ==
  ASSUME FileInv, NEW t \in Threads, NEW j, Start(t, j), clean', j.kind # "idle",
         j.step = "read", UNCHANGED <<file, creds>>,
         j.kind = "password" => UNCHANGED clients
  PROVE  Agreed'
<1>1. \A u \in Threads : ~Busy(u)
  BY DEF Start
<1>2. file = Full(creds) \/ (file = Missing /\ clients = {} /\ creds = 0)
  BY <1>1 DEF FileInv, Agreed, InStep
<1>3. OldCreds = creds /\ OldDevices = clients
  BY <1>2, FullSaved DEF OldCreds, OldDevices, FileInv, TypeOK
<1>4. job'[t] = j /\ \A u \in Threads \ {t} : job'[u] = job[u]
  BY DEF Start, FileInv, TypeOK
<1>5. Busy(t)' /\ \A u \in Threads \ {t} : ~Busy(u)'
  BY <1>1, <1>4 DEF Busy
<1>6. Follows(t)'
  BY <1>3, <1>4 DEF Follows, OldCreds, OldDevices
<1> QED BY <1>5, <1>6 DEF Agreed, InStep, Follows, FileInv, Threads

(* A change ends when the file holds what it should.                       *)
LEMMA EndAgrees ==
  ASSUME FileInv, NEW t \in Threads, Busy(t), job[t].step = "end",
         job' = [job EXCEPT ![t] = Idle], UNCHANGED <<file, clients>>,
         creds' = Version(t)
  PROVE  Agreed'
<1>1. file = Full(Version(t)) /\ \A u \in Threads \ {t} : ~Busy(u)
  BY DEF FileInv, Agreed, Follows, Threads
<1>2. \A u \in Threads : ~Busy(u)'
  BY <1>1 DEF Busy, FileInv, TypeOK, Idle, Job
<1>3. file' = Full(creds)'
  BY <1>1 DEF Full
<1> QED BY <1>2, <1>3 DEF Agreed, InStep, Follows, FileInv, Threads

(* While nothing fails or overlaps, the file follows the handler at work.  *)
LEMMA AgreedStep == FileInv /\ TypeOK' /\ [Next]_vars /\ clean' => Agreed'
<1> SUFFICES ASSUME FileInv, TypeOK', [Next]_vars, clean' PROVE Agreed'
  OBVIOUS
<1> USE DEF Threads
<1>0. TypeOK /\ Jobbed /\ Agreed
  BY DEF FileInv
<1>1. ASSUME UNCHANGED <<file, clients, creds, job>> PROVE Agreed'
  BY <1>0, <1>1 DEF Agreed, InStep, Follows, Full, Version, Busy, OldCreds, OldDevices
<1>2. ASSUME NEW c \in Clients, ClientPairingSecret(c) PROVE Agreed'
  <2>1. CASE Start("http", Job("pair", c, 0))
    BY <1>2, <2>1, StartAgrees DEF ClientPairingSecret, Job
  <2>2. CASE UNCHANGED <<clients, job>>
    BY <1>1, <1>2, <2>2 DEF ClientPairingSecret
  <2> QED BY <1>2, <2>1, <2>2 DEF ClientPairingSecret
<1>3. ASSUME NEW kind \in Kinds \ {"idle", "password"}, NEW list, Changed(kind, list),
             UNCHANGED <<file, creds>>
      PROVE  Agreed'
  BY <1>3, StartAgrees DEF Changed, Job
<1>4. ASSUME NEW t, Unpair(t) \/ SetEnabled(t) PROVE Agreed'
  BY <1>3, <1>4 DEF Unpair, SetEnabled, Kinds
<1>5. CASE UnpairAll
  BY <1>3, <1>5 DEF UnpairAll, Kinds
<1>6. CASE SavePassword
  BY <1>6, StartAgrees DEF SavePassword, Job, memory
<1>7. ASSUME NEW t \in Threads, Read(t) PROVE Agreed'
  <2> DEFINE j == [job[t] EXCEPT !.step = "write", !.image = Image(job[t])]
  <2>1. job' = [job EXCEPT ![t] = j] /\ UNCHANGED <<file, clients, creds>>
    BY <1>0, <1>7 DEF Read, Agreed, memory
  <2>2. /\ j.kind = job[t].kind /\ j.creds = job[t].creds /\ j.step = "write"
        /\ j.image = Image(job[t])
    BY <1>0 DEF TypeOK, Jobs
  <2>3. Image(job[t]) = Full(Version(t))
    BY <1>0, <1>7 DEF Read, Agreed, Follows, Image, Full, Version
  <2>4. job'[t] = j /\ \A u \in Threads \ {t} : job'[u] = job[u]
    BY <1>0, <2>1 DEF TypeOK
  <2>5. \A u \in Threads : Busy(u)' = Busy(u)
    BY <2>2, <2>4 DEF Busy
  <2>6. Full(Version(t))' = Full(Version(t))
    BY <2>1, <2>2, <2>4 DEF Full, Version
  <2> HIDE DEF j
  <2>7. Follows(t)'
    BY <2>2, <2>3, <2>4, <2>6 DEF Follows
  <2>8. \A u \in Threads \ {t} : ~Busy(u)'
    BY <1>0, <1>7, <2>5 DEF Agreed, Read
  <2> QED BY <1>0, <1>7, <2>1, <2>5, <2>7, <2>8 DEF Agreed, InStep, Follows, Read
<1>8. ASSUME NEW t \in Threads, Write(t) PROVE Agreed'
  <2> DEFINE j == [job[t] EXCEPT !.step = "end"]
  <2>1. job' = [job EXCEPT ![t] = j] /\ UNCHANGED <<clients, creds>> /\ file' = job[t].image
    BY <1>8 DEF Write, Written, memory
  <2>2. j.kind = job[t].kind /\ j.creds = job[t].creds /\ j.step = "end"
    BY <1>0 DEF TypeOK, Jobs
  <2>3. file' = Full(Version(t)) /\ file' # Corrupt
    BY <1>0, <1>8, <2>1, VersionTyped, FullTyped DEF Write, Written, Agreed, Follows
  <2>4. job'[t] = j /\ \A u \in Threads \ {t} : job'[u] = job[u]
    BY <1>0, <2>1 DEF TypeOK
  <2>5. \A u \in Threads : Busy(u)' = Busy(u)
    BY <2>2, <2>4 DEF Busy
  <2>6. Full(Version(t))' = Full(Version(t))
    BY <2>1, <2>2, <2>4 DEF Full, Version
  <2> HIDE DEF j
  <2>7. Follows(t)'
    BY <2>2, <2>3, <2>4, <2>6 DEF Follows
  <2>8. Busy(t) /\ \A u \in Threads \ {t} : ~Busy(u)'
    BY <1>0, <1>8, <2>5 DEF Agreed, Write, Written
  <2> QED BY <2>3, <2>5, <2>7, <2>8 DEF Agreed, InStep, Follows
<1>9. ASSUME NEW t \in Threads, WriteFails(t) PROVE Agreed'
  BY <1>9 DEF WriteFails
<1>10. CASE PairEnds
  <2>1. Version("http") = creds
    BY <1>0, <1>10 DEF PairEnds, Version, TypeOK
  <2> QED BY <1>10, <2>1, EndAgrees DEF PairEnds
<1>11. ASSUME NEW kind, WebEnds(kind), kind # "idle"
       PROVE  /\ Busy("web") /\ job["web"].step = "end" /\ job' = [job EXCEPT !["web"] = Idle]
              /\ file = Full(Version("web"))
  BY <1>0, <1>11 DEF WebEnds, Busy, Agreed, Follows
<1>12. CASE UnpairEnds
  <2>1. WebEnds("unpair")
    BY <1>12 DEF UnpairEnds
  <2>2. Version("web") = creds
    BY <2>1 DEF WebEnds, Version
  <2>3. UNCHANGED clients
    BY <1>0, <1>11, <1>12, <2>1, <2>2, FullTyped DEF UnpairEnds, Load, TypeOK
  <2> QED BY <1>11, <1>12, <2>1, <2>2, <2>3, EndAgrees DEF UnpairEnds
<1>13. CASE SavedEnds
  <2>1. PICK kind \in {"erase", "enable"} : WebEnds(kind)
    BY <1>13 DEF SavedEnds
  <2>2. Version("web") = creds
    BY <2>1 DEF WebEnds, Version
  <2> QED BY <1>11, <1>13, <2>1, <2>2, EndAgrees DEF SavedEnds, memory
<1>14. CASE PasswordEnds
  <2>1. WebEnds("password")
    BY <1>14 DEF PasswordEnds
  <2>2. Version("web") = job["web"].creds /\ job["web"].creds # 0
    BY <1>0, <2>1 DEF WebEnds, Version, Jobbed
  <2>3. file = Full(job["web"].creds) /\ job["web"].creds \in Nat
    BY <1>0, <1>11, <2>1, <2>2 DEF TypeOK, Jobs
  <2>4. creds' = job["web"].creds
    BY <1>0, <1>14, <2>2, <2>3, FullTyped, FullSaved DEF PasswordEnds, Reload
  <2> QED BY <1>11, <1>14, <2>1, <2>2, <2>4, EndAgrees DEF PasswordEnds
<1>15. CASE Restart
  <2>1. PICK f \in HalfWritten :
          /\ file' = f /\ clean' = (clean /\ f # Corrupt)
          /\ clients' = IF f \in {Missing, Corrupt} THEN {} ELSE f.devices
          /\ creds' = IF f \in {Missing, Corrupt} THEN 0 ELSE f.creds
    BY <1>15 DEF Restart
  <2>2. \A u \in Threads : ~Busy(u)'
    BY <1>15 DEF Restart, Busy, Idle, Job
  <2>3. f # Corrupt
    BY <2>1
  <2>4. CASE f = Missing
    BY <2>1, <2>2, <2>3, <2>4 DEF Agreed, InStep, Follows
  <2>5. CASE f # Missing
    <3>1. f \in Contents
      BY <1>0, <2>1, <2>3, <2>5 DEF HalfWritten, TypeOK
    <3>2. f = [devices |-> f.devices, creds |-> f.creds]
      BY <3>1 DEF Contents
    <3>3. file' = Full(creds)'
      BY <2>1, <2>3, <2>5, <3>2 DEF Full
    <3> QED BY <2>1, <2>2, <2>3, <3>3 DEF Agreed, InStep, Follows
  <2> QED BY <2>4, <2>5
<1>16. ASSUME NEW c \in Clients, \/ GetServerCertRequest(c) \/ ClientChallenge(c)
                                 \/ ServerChallengeResp(c) \/ Abandon(c)
                                 \/ \E phase \in Phases : OutOfOrder(c, phase)
       PROVE  UNCHANGED <<file, clients, creds, job>>
  BY <1>16
  DEF GetServerCertRequest, ClientChallenge, ServerChallengeResp, Abandon, OutOfOrder, SameRest, memory
<1>17. CASE TypePin \/ Verify \/ UNCHANGED vars
  BY <1>1, <1>17 DEF TypePin, Pin, Verify, vars
<1> QED BY <1>1, <1>2, <1>4, <1>5, <1>6, <1>7, <1>8, <1>9, <1>10, <1>12, <1>13, <1>14,
           <1>15, <1>16, <1>17 DEF Next

(* While a change is on its way to the file, the file still names whoever  *)
(* was told so, unless he was unpaired.                                    *)
LEMMA KeptStep == FileInv /\ TypeOK' /\ [Next]_vars /\ clean' => Kept'
<1> SUFFICES ASSUME FileInv, TypeOK', [Next]_vars, clean' PROVE Kept'
  OBVIOUS
<1> USE DEF Threads
<1>0. TypeOK /\ Jobbed /\ Agreed /\ Kept
  BY DEF FileInv
<1> DEFINE ToldKept == told \subseteq (Listed \cap Saved) \cup removed
           AnswerListed == Busy("http") => Now(job["http"].client) \in Listed
<1>1. ASSUME UNCHANGED <<clients, file, told, removed>> PROVE ToldKept'
  BY <1>0, <1>1 DEF Listed, Saved, Kept
<1>2. ASSUME UNCHANGED <<clients, tries>>, job'["http"].kind = job["http"].kind,
             job'["http"].client = job["http"].client
      PROVE  AnswerListed'
  BY <1>0, <1>2 DEF Listed, Kept, Now, Busy
<1>3. ASSUME ~Busy("http")' PROVE AnswerListed'
  BY <1>3
<1>4. ASSUME ToldKept', AnswerListed' PROVE Kept'
  BY <1>4 DEF Kept
<1> HIDE DEF AnswerListed
<1>5. ASSUME NEW c \in Clients, ClientPairingSecret(c) PROVE Kept'
  <2>1. CASE Start("http", Job("pair", c, 0)) /\ Adds(c)
    <3>1. Listed' = Listed \cup {Now(c)}
      BY <2>1, AddsOne
    <3>2. ToldKept'
      BY <1>0, <1>5, <3>1 DEF ClientPairingSecret, Kept, Saved, history
    <3>3. Now(job["http"].client)' = Now(c)
      BY <1>0, <1>5, <2>1 DEF Start, Job, Now, ClientPairingSecret, TypeOK
    <3> QED BY <1>4, <3>1, <3>2, <3>3 DEF AnswerListed
  <2>2. CASE UNCHANGED <<clients, job>>
    <3>1. ~Busy("http")'
      BY <1>5, <2>2 DEF ClientPairingSecret, Busy
    <3> QED BY <1>1, <1>3, <1>4, <1>5, <2>2, <3>1 DEF ClientPairingSecret, history
  <2> QED BY <1>5, <2>1, <2>2 DEF ClientPairingSecret, Adds, MustFail
<1>6. ASSUME NEW kind \in Kinds \ {"idle", "password"}, NEW list, Changed(kind, list)
      PROVE  AnswerListed'
  <2>1. ~Busy("http")'
    BY <1>0, <1>6 DEF Changed, Start, Busy, TypeOK
  <2> QED BY <1>3, <2>1
<1>7. ASSUME NEW t, Unpair(t) PROVE Kept'
  <2>1. Listed' = Listed \ {t} /\ removed' = removed \cup {t}
    BY <1>7 DEF Unpair, Changed, Listed, TriesOf
  <2>2. ToldKept'
    BY <1>0, <1>7, <2>1 DEF Unpair, Kept, Saved
  <2> QED BY <1>4, <1>6, <1>7, <2>2 DEF Unpair, Kinds
<1>8. ASSUME NEW t, SetEnabled(t) PROVE Kept'
  <2>1. PICK on \in BOOLEAN :
          clients' = {IF e.try = t THEN [e EXCEPT !.on = on] ELSE e : e \in clients}
    BY <1>8 DEF SetEnabled, Changed
  <2>2. \A e \in clients : [e EXCEPT !.on = on].try = e.try
    BY <1>0 DEF TypeOK, Entries
  <2>3. Listed' = Listed
    BY <2>1, <2>2 DEF Listed, TriesOf
  <2>4. ToldKept'
    BY <1>0, <1>8, <2>3 DEF SetEnabled, Kept, Saved, history
  <2> QED BY <1>4, <1>6, <1>8, <2>4 DEF SetEnabled, Kinds
<1>9. CASE UnpairAll
  <2>1. ToldKept'
    BY <1>0, <1>9 DEF UnpairAll, Kept
  <2> QED BY <1>4, <1>6, <1>9, <2>1 DEF UnpairAll, Kinds
<1>10. ASSUME NEW t \in Threads, Write(t) PROVE Kept'
  <2>1. file' = Full(Version(t)) /\ UNCHANGED <<clients, told, removed>>
    BY <1>0, <1>10 DEF Write, Written, Agreed, Follows, memory, history
  <2>2. Saved' = Listed
    BY <1>0, <2>1, VersionTyped, FullTyped DEF Saved, Listed
  <2>3. ToldKept'
    BY <1>0, <2>1, <2>2 DEF Kept, Listed
  <2>4. job'["http"].client = job["http"].client /\ Busy("http")' = Busy("http")
    BY <1>0, <1>10 DEF Write, Written, TypeOK, Jobs, Busy
  <2>5. AnswerListed'
    BY <1>0, <1>10, <2>1, <2>4 DEF Write, Written, Now, Listed, Kept, AnswerListed
  <2> QED BY <1>4, <2>3, <2>5
<1>11. ASSUME NEW t \in Threads, WriteFails(t) PROVE Kept'
  BY <1>11 DEF WriteFails
<1>12. CASE PairEnds
  <2>1. file = Full(Version("http"))
    BY <1>0, <1>12 DEF PairEnds, Agreed, Follows
  <2>2. Saved = Listed
    BY <1>0, <2>1, VersionTyped, FullSaved
  <2>3. Now(job["http"].client) \in Listed
    BY <1>0, <1>12 DEF PairEnds, Kept
  <2>4. ToldKept'
    BY <1>0, <1>12, <2>2, <2>3 DEF PairEnds, Kept, Listed, Saved
  <2>5. ~Busy("http")'
    BY <1>0, <1>12 DEF PairEnds, Busy, TypeOK, Idle, Job
  <2> QED BY <1>3, <1>4, <2>4, <2>5
<1>13. CASE UnpairEnds
  <2>1. WebEnds("unpair")
    BY <1>13 DEF UnpairEnds
  <2>2. file = Full(Version("web")) /\ Version("web") = creds
    BY <1>0, <2>1 DEF WebEnds, Busy, Agreed, Follows, Version
  <2>3. UNCHANGED clients
    BY <1>0, <1>13, <2>2, FullTyped DEF UnpairEnds, Load, TypeOK
  <2>4. job'["http"] = job["http"]
    BY <1>0, <2>1 DEF WebEnds, TypeOK
  <2> QED BY <1>1, <1>2, <1>4, <1>13, <2>3, <2>4 DEF UnpairEnds, history
<1>14. CASE Restart
  <2>1. PICK f \in HalfWritten :
          /\ file' = f /\ clean' = (clean /\ f # Corrupt)
          /\ clients' = IF f \in {Missing, Corrupt} THEN {} ELSE f.devices
    BY <1>14 DEF Restart
  <2>2. f = file
    BY <2>1 DEF HalfWritten
  <2>3. Listed' = Saved /\ Saved' = Saved
    BY <2>1, <2>2 DEF Listed, Saved, TriesOf
  <2>4. ToldKept'
    BY <1>0, <1>14, <2>3 DEF Restart, Kept, history
  <2>5. ~Busy("http")'
    BY <1>14 DEF Restart, Busy, Idle, Job
  <2> QED BY <1>3, <1>4, <2>4, <2>5
<1>15. CASE SavedEnds \/ PasswordEnds \/ SavePassword
  <2>1. job'["http"] = job["http"]
    BY <1>0, <1>15 DEF SavedEnds, PasswordEnds, SavePassword, WebEnds, Start, TypeOK
  <2>2. UNCHANGED <<clients, file, told, removed, tries>>
    BY <1>15 DEF SavedEnds, PasswordEnds, SavePassword, memory, history
  <2> QED BY <1>1, <1>2, <1>4, <2>1, <2>2
<1>16. ASSUME NEW t \in Threads, Read(t) PROVE Kept'
  <2>1. UNCHANGED <<clients, file, told, removed, tries>>
    BY <1>16 DEF Read, memory, history
  <2>2. job'["http"].client = job["http"].client /\ job'["http"].kind = job["http"].kind
    BY <1>0, <1>16 DEF Read, TypeOK, Jobs
  <2> QED BY <1>1, <1>2, <1>4, <2>1, <2>2
<1>17. ASSUME NEW c \in Clients, GetServerCertRequest(c) PROVE Kept'
  BY <1>1, <1>3, <1>4, <1>17 DEF GetServerCertRequest, Busy, history
<1>18. ASSUME NEW c \in Clients, \/ ClientChallenge(c) \/ ServerChallengeResp(c) \/ Abandon(c)
                                 \/ \E phase \in Phases : OutOfOrder(c, phase)
       PROVE  UNCHANGED <<clients, file, told, removed, tries, job>>
  BY <1>18 DEF ClientChallenge, ServerChallengeResp, Abandon, OutOfOrder, SameRest, memory, history
<1>19. CASE TypePin \/ Verify \/ UNCHANGED vars
  <2>1. UNCHANGED <<clients, file, told, removed, tries, job>>
    BY <1>19 DEF TypePin, Pin, Verify, vars, history
  <2> QED BY <1>1, <1>2, <1>4, <2>1
<1> QED BY <1>1, <1>2, <1>4, <1>5, <1>7, <1>8, <1>9, <1>10, <1>11, <1>12, <1>13, <1>14, <1>15,
           <1>16, <1>17, <1>18, <1>19 DEF Next

-----------------------------------------------------------------------------
(* What failed or overlapped once did so for good.                         *)
LEMMA CleanBefore == ASSUME [Next]_vars, clean' PROVE clean
<1>1. ASSUME NEW t, NEW j, Start(t, j) PROVE clean
  BY <1>1 DEF Start
<1>2. ASSUME NEW t, Read(t) \/ Write(t) \/ WriteFails(t) \/ Unpair(t) \/ SetEnabled(t)
      PROVE  clean
  BY <1>1, <1>2 DEF Read, Write, WriteFails, Unpair, SetEnabled, Changed
<1> QED BY <1>1, <1>2
    DEF Next, GetServerCertRequest, ClientChallenge, ServerChallengeResp, SameRest,
        ClientPairingSecret, Abandon, OutOfOrder, PairEnds, TypePin, Pin, UnpairAll, Changed,
        SavePassword, UnpairEnds, SavedEnds, PasswordEnds, Verify, Restart, vars

(* The invariant holds at first,                                           *)
LEMMA InvInit == Init => Inv
<1> SUFFICES ASSUME Init PROVE Inv
  OBVIOUS
<1>1. TypeOK
  BY TypeInit
<1>2. \A u \in Threads : ~Busy(u) /\ job[u].image = Missing /\ job[u].kind = "idle"
  BY DEF Init, Busy, Idle, Job
<1>3. Listed = {} /\ Saved = {} /\ DOMAIN sess = {}
  BY DEF Init, Listed, Saved, TriesOf
<1>4. Jobbed /\ Pinned /\ Known
  BY <1>2, <1>3
  DEF Init, Jobbed, Pinned, Known, KeysPinned, ImagesPinned, AnswerPinned, ListsPinned,
      CertsPinned, Threads
<1>5. Agreed /\ Kept
  BY <1>2, SpecialValues DEF Init, Agreed, InStep, Follows, Kept, Threads
<1> QED BY <1>1, <1>4, <1>5 DEF Inv

(* and every step keeps it.                                                *)
LEMMA InvStep == Inv /\ [Next]_vars => Inv'
<1> SUFFICES ASSUME Inv, [Next]_vars PROVE Inv'
  OBVIOUS
<1>1. TypeOK'
  BY TypeStep DEF Inv
<1>2. Jobbed'
  BY JobbedStep DEF Inv
<1>3. Pinned'
  BY KeysStep, ImagesStep, AnswerStep, ListsStep, CertsStep DEF Inv, Pinned
<1>4. Known'
  BY KnownStep DEF Inv
<1>5. clean' => Agreed' /\ Kept'
  BY <1>1, CleanBefore, AgreedStep, KeptStep DEF Inv, FileInv
<1> QED BY <1>1, <1>2, <1>3, <1>4, <1>5 DEF Inv

(* Whatever is paired, unpaired, typed, lost or restarted, Inv holds.      *)
THEOREM Inductive == Spec => []Inv
BY InvInit, InvStep, PTL DEF Spec

(* Every variable of the pairing keeps its type.                           *)
THEOREM TypeCorrect == Spec => []TypeOK
<1>1. Inv => TypeOK
  BY DEF Inv
<1> QED BY <1>1, Inductive, PTL

(* Only who proved to know the PIN the user typed for that very attempt is *)
(* listed, saved, let in or told it is paired.                             *)
THEOREM OnlyPinnedPair == Spec => []OnlyPinned
<1>1. Inv => OnlyPinned
  BY DEF Inv, Pinned, ListsPinned, CertsPinned, OnlyPinned
<1> QED BY <1>1, Inductive, PTL

(* Whoever the web UI lists and has not disabled is let in, even after     *)
(* writes that failed and changes that overlapped.                         *)
THEOREM ListedAreVerified == Spec => []ListedIsVerified
<1>1. Inv => ListedIsVerified
  BY DEF Inv, Known, ListedIsVerified, LetIn
<1> QED BY <1>1, Inductive, PTL

(* With the writes done, one after the other, the state file is what the   *)
(* program works with.                                                     *)
THEOREM FileIsInStep == Spec => []FileAgrees
<1>1. Inv => FileAgrees
  <2> SUFFICES ASSUME Inv, clean, \A t \in Threads : ~Busy(t)
               PROVE  IF file = Missing THEN clients = {} /\ creds = 0
                      ELSE file # Corrupt /\ file = [devices |-> clients, creds |-> creds]
    BY DEF FileAgrees
  <2>1. file # Corrupt /\ (file = Full(creds) \/ (file = Missing /\ clients = {} /\ creds = 0))
    BY DEF Inv, Agreed, InStep
  <2>2. Full(creds) # Missing
    BY FullTyped DEF Inv, TypeOK
  <2> QED BY <2>1, <2>2 DEF Full
<1> QED BY <1>1, Inductive, PTL

(* Who was told it is paired stays listed until the user unpairs it, and   *)
(* restarts do not change that.                                            *)
THEOREM PairedStays == Spec => []PairedIsKept
<1>1. Inv => PairedIsKept
  BY DEF Inv, Kept, PairedIsKept
<1> QED BY <1>1, Inductive, PTL
=============================================================================
