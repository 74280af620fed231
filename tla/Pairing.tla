------------------------------ MODULE Pairing ------------------------------
(***************************************************************************)
(* Pairing of Moonlight clients (nvhttp.cpp), the list of paired clients,  *)
(* the certificates the HTTPS server accepts, and the state file they      *)
(* share with the web UI's user name and password (httpcommon.cpp).        *)
(*                                                                         *)
(* Nothing here is under a lock.  Three threads take part: the GameStream  *)
(* HTTP server (/pair), the GameStream HTTPS server (the check of a        *)
(* certificate) and the web UI server (PIN, unpair, enable, password).  A  *)
(* step is what a thread does between two places where another one can     *)
(* tell: a change of the list, the read of the state file, its write.      *)
(***************************************************************************)
EXTENDS Naturals, Functions

CONSTANTS
  Clients,        (* Moonlight installations, each with a certificate      *)
  Ids,            (* values of the "uniqueid" parameter                    *)
  MaxTries,       (* bound: how often clients start pairing                *)
  MaxChanges,     (* bound: changes of an "enabled" flag or the password   *)
  MaxRestarts,    (* bound: how often the process ends and starts again    *)
  Wrong,          (* a PIN no client shows                                 *)
  Short,          (* a salt of less than 32 characters                     *)
  None, Missing, Corrupt,  (* nothing; no state file; an unreadable one    *)
  MayFail         (* may a write of the state file fail?                   *)

ASSUME PairingAssumption ==
  /\ MaxTries \in Nat /\ MaxChanges \in Nat /\ MaxRestarts \in Nat
  /\ MayFail \in BOOLEAN

(* One attempt of a client: it has a salt and a PIN of its own, and the    *)
(* list entry it may end in has a uuid of its own.                         *)
Tries == Clients \X Nat
Client(t) == t[1]
Entries == [try : Tries, on : BOOLEAN]
Contents == [devices : SUBSET Entries, creds : Nat]

ASSUME SpecialValues ==
  /\ {None, Wrong, Short} \cap Tries = {} /\ None \notin Clients
  /\ None \notin Tries \X (Tries \cup {Wrong})
  /\ Missing # Corrupt /\ {Missing, Corrupt} \cap Contents = {}

VARIABLES
  idOf,       (* the uniqueid each client sends                            *)
  tries,      (* attempts each client has begun                            *)
  stage,      (* what each client does next                                *)
  sess,       (* map_id_sess                                               *)
  clients,    (* client_root.named_devices, in the order of pairing        *)
  chain,      (* cert_chain                                                *)
  queue,      (* add_cert                                                  *)
  creds,      (* config::sunshine.username and password, by their version  *)
  file,       (* the state file                                            *)
  job,        (* what the HTTP and the web UI thread are in the middle of  *)
  changes, restarts,
  typed,      (* history: attempts whose PIN the user typed                *)
  told,       (* history: attempts answered with paired = 1                *)
  removed,    (* history: attempts the user unpaired                       *)
  clean       (* history: no write failed and no two changes overlapped    *)

memory == <<sess, clients, chain, queue, creds>>
history == <<typed, told, removed>>
bounds == <<changes, restarts>>
vars == <<idOf, tries, stage, sess, clients, chain, queue, creds, file, job,
          changes, restarts, typed, told, removed, clean>>

Threads == {"http", "web"}
Phases == {"NONE", "GETSERVERCERT", "CLIENTCHALLENGE", "SERVERCHALLENGERESP"}
Stages == {"rest", "asked", "clientchallenge", "serverchallengeresp",
           "clientpairingsecret", "waiting"}
Sessions ==
  [phase : Phases, cert : Clients, salt : Tries \cup {Short},
   key : {None} \cup (Tries \X (Tries \cup {Wrong})),
   challenged : Tries \cup {None}, hash : Tries \cup {None}]
Kinds == {"idle", "pair", "unpair", "erase", "enable", "password"}
Jobs == [kind : Kinds, client : Clients \cup {None}, creds : Nat,
         step : {"read", "write", "end"}, image : {Missing} \cup Contents]

Job(kind, client, version) ==
  [kind |-> kind, client |-> client, creds |-> version, step |-> "read",
   image |-> Missing]
Idle == Job("idle", None, 0)
Now(c) == <<c, tries[c]>>
Begun == SumFunction(tries)
TriesOf(devices) == {e.try : e \in devices}
Listed == TriesOf(clients)
Saved == IF file \in {Missing, Corrupt} THEN {} ELSE TriesOf(file.devices)
Put(f, k, v) == [x \in DOMAIN f \cup {k} |-> IF x = k THEN v ELSE f[x]]
Drop(f, k) == [x \in DOMAIN f \ {k} |-> f[x]]

TypeOK ==
  /\ idOf \in [Clients -> Ids] /\ tries \in [Clients -> Nat]
  /\ stage \in [Clients -> Stages]
  /\ DOMAIN sess \subseteq Ids
  /\ \A i \in DOMAIN sess :
       /\ sess[i] \in Sessions
       /\ sess[i].phase = "NONE" <=> sess[i].key = None
       /\ sess[i].phase \in {"CLIENTCHALLENGE", "SERVERCHALLENGERESP"}
            <=> sess[i].challenged # None
  /\ clients \subseteq Entries /\ chain \subseteq Clients /\ queue \subseteq Clients
  /\ creds \in Nat
  /\ file \in {Missing, Corrupt} \/ file \in Contents
  /\ job \in [Threads -> Jobs]
  /\ job["http"].kind \in {"idle", "pair"} /\ job["web"].kind # "pair"
  /\ job["http"].kind = "pair" => job["http"].client \in Clients
  /\ changes \in 0..MaxChanges /\ restarts \in 0..MaxRestarts
  /\ typed \subseteq Tries /\ told \subseteq Tries /\ removed \subseteq Tries
  /\ clean \in BOOLEAN

Init ==
  /\ idOf \in [Clients -> Ids]
  /\ tries = [c \in Clients |-> 0] /\ stage = [c \in Clients |-> "rest"]
  /\ sess = <<>> /\ clients = {} /\ chain = {} /\ queue = {} /\ creds = 0
  /\ file = Missing /\ job = [t \in Threads |-> Idle]
  /\ changes = 0 /\ restarts = 0
  /\ typed = {} /\ told = {} /\ removed = {} /\ clean = TRUE

-----------------------------------------------------------------------------
(* The state file.  save_state() and save_user_creds() read the whole      *)
(* file, replace their part and write it all back; an unreadable file is   *)
(* left as it is.                                                          *)

Busy(t) == job[t].kind # "idle"

(* A thread starts work that changes the list or the file.                 *)
Start(t, j) ==
  /\ ~Busy(t)
  /\ job' = [job EXCEPT ![t] = j]
  /\ clean' = (clean /\ \A u \in Threads : ~Busy(u))

OldCreds == IF file = Missing THEN 0 ELSE file.creds
OldDevices == IF file = Missing THEN {} ELSE file.devices

(* Mutants: the rest of the file is dropped; the list is the old one.      *)
ImageAloneBug(j) == IF j.kind = "password"
                    THEN [devices |-> {}, creds |-> j.creds]
                    ELSE [devices |-> clients, creds |-> OldCreds]
ImageStaleBug(j) == [devices |-> OldDevices,
                     creds |-> IF j.kind = "password" THEN j.creds ELSE OldCreds]

Image(j) == IF j.kind = "password"
            THEN [devices |-> OldDevices, creds |-> j.creds]
            ELSE [devices |-> clients, creds |-> OldCreds]

Read(t) ==
  /\ Busy(t) /\ job[t].step = "read"
  /\ job' = [job EXCEPT ![t] = IF file = Corrupt THEN [@ EXCEPT !.step = "end"]
                               ELSE [@ EXCEPT !.step = "write", !.image = Image(job[t])]]
  /\ UNCHANGED <<idOf, tries, stage, memory, file, bounds, history, clean>>

(* pt::write_json opens the file, which empties it, and then writes.       *)
Written(t, content) ==
  /\ Busy(t) /\ job[t].step = "write"
  /\ job' = [job EXCEPT ![t].step = "end"]
  /\ file' = content
  /\ UNCHANGED <<idOf, tries, stage, memory, bounds, history>>

Write(t) == Written(t, job[t].image) /\ UNCHANGED clean

WriteFails(t) ==
  /\ MayFail
  /\ \E content \in {file, Corrupt} : Written(t, content)
  /\ clean' = FALSE

-----------------------------------------------------------------------------
(* /pair on the HTTP server.  A client sends the four requests in order    *)
(* and may stop at any point; clients with the same uniqueid share one     *)
(* session.                                                                *)

GoesTo(c, s) == stage' = [stage EXCEPT ![c] = s]
SameRest == UNCHANGED <<idOf, tries, clients, chain, queue, creds, file, job,
                        bounds, history, clean>>

(* emplace() keeps a session there already is; its salt and the response   *)
(* that waits for the PIN are replaced.                                    *)
NewSession(c, salt) ==
  [phase |-> "NONE", cert |-> c, salt |-> salt, key |-> None,
   challenged |-> None, hash |-> None]

Emplace(c, salt) ==
  IF idOf[c] \in DOMAIN sess THEN [sess EXCEPT ![idOf[c]].salt = salt]
  ELSE Put(sess, idOf[c], NewSession(c, salt))

GetServerCertRequest(c) ==
  /\ stage[c] = "rest" /\ Begun < MaxTries /\ ~Busy("http")
  /\ tries' = [tries EXCEPT ![c] = @ + 1]
  /\ \E salt \in {<<c, tries[c] + 1>>, Short} : sess' = Emplace(c, salt)
  /\ GoesTo(c, "asked")
  /\ UNCHANGED <<idOf, clients, chain, queue, creds, file, job, bounds,
                 history, clean>>

(* The rest needs a session, and fails it when called out of order.        *)
MustFail(c, phase) ==
  idOf[c] \in DOMAIN sess => sess[idOf[c]].phase # phase
FailPair(c) == sess' = Drop(sess, idOf[c]) /\ GoesTo(c, "rest")

OutOfOrder(c, phase) ==
  /\ stage[c] \in Stages \ {"rest", "asked"} /\ ~Busy("http")
  /\ phase = CASE stage[c] = "clientchallenge" -> "GETSERVERCERT"
               [] stage[c] = "serverchallengeresp" -> "CLIENTCHALLENGE"
               [] OTHER -> "SERVERCHALLENGERESP"
  /\ stage[c] # "waiting" /\ MustFail(c, phase)
  /\ FailPair(c)
  /\ SameRest

ClientChallenge(c) ==
  /\ stage[c] = "clientchallenge" /\ ~Busy("http") /\ ~MustFail(c, "GETSERVERCERT")
  /\ sess' = [sess EXCEPT ![idOf[c]].phase = "CLIENTCHALLENGE",
                          ![idOf[c]].challenged = Now(c)]
  /\ GoesTo(c, "serverchallengeresp")
  /\ SameRest

(* What a client encrypts is understood when the session's key is the one  *)
(* made of its own salt and PIN; its answer is to the challenge it got.    *)
Understood(s, t) == s.key = <<t, t>> /\ s.challenged = t
Hash(s, t) == IF Understood(s, t) THEN t ELSE None

ServerChallengeResp(c) ==
  /\ stage[c] = "serverchallengeresp" /\ ~Busy("http")
  /\ ~MustFail(c, "CLIENTCHALLENGE")
  /\ sess' = [sess EXCEPT ![idOf[c]].phase = "SERVERCHALLENGERESP",
                          ![idOf[c]].hash = Hash(sess[idOf[c]], Now(c))]
  /\ GoesTo(c, "clientpairingsecret")
  /\ SameRest

(* The hash covers the secret sent now and the certificate of the session, *)
(* and the secret is signed with that certificate's key.                   *)
SameHash(s, t) == s.hash = t
Verifies(s, t) == s.cert = Client(t)

(* Mutant: the hash is not looked at.                                      *)
AcceptsSignedBug(s, t) == Verifies(s, t)

Accepts(s, t) == SameHash(s, t) /\ Verifies(s, t)

ClientPairingSecret(c) ==
  LET s == sess[idOf[c]] IN
  /\ stage[c] = "clientpairingsecret" /\ ~Busy("http")
  /\ ~MustFail(c, "SERVERCHALLENGERESP")
  /\ \E long \in BOOLEAN :
       IF long /\ Accepts(s, Now(c))
       THEN /\ queue' = queue \cup {s.cert}
            /\ clients' = clients \cup {[try |-> Now(c), on |-> TRUE]}
            /\ Start("http", Job("pair", c, 0))
            /\ GoesTo(c, "waiting")
            /\ UNCHANGED sess
       ELSE FailPair(c) /\ UNCHANGED <<queue, clients, job, clean>>
  /\ UNCHANGED <<idOf, tries, chain, creds, file, bounds, history>>

(* The response leaves when pair() returns: after the save.                *)
PairEnds ==
  LET c == job["http"].client IN
  /\ Busy("http") /\ job["http"].step = "end"
  /\ FailPair(c)
  /\ told' = told \cup {Now(c)}
  /\ job' = [job EXCEPT !["http"] = Idle]
  /\ UNCHANGED <<idOf, tries, clients, chain, queue, creds, file, bounds,
                 typed, removed, clean>>

(* A client gives up.                                                      *)
Abandon(c) ==
  /\ stage[c] \notin {"rest", "waiting"}
  /\ GoesTo(c, "rest")
  /\ UNCHANGED <<idOf, tries, memory, file, job, bounds, history, clean>>

-----------------------------------------------------------------------------
(* The web UI thread.                                                      *)

(* pin() takes the first session of an unordered map, whichever that is,   *)
(* and answers the client that waits there.  When getservercert() fails    *)
(* the session is gone before its response is looked for, and the client   *)
(* may be answered or not.                                                 *)
Asker(i) == {c \in Clients : idOf[c] = i /\ stage[c] = "asked"}

(* Mutant: the length of the salt is not checked.                          *)
GetsKeyShortBug(s) == s.phase = "NONE"

GetsKey(s) == s.phase = "NONE" /\ s.salt # Short

Pin(i, pin) ==
  /\ ~Busy("web") /\ i \in DOMAIN sess
  /\ IF GetsKey(sess[i])
     THEN /\ sess' = [sess EXCEPT ![i].phase = "GETSERVERCERT",
                                  ![i].key = <<sess[i].salt, pin>>]
          /\ stage' = [c \in Clients |-> IF c \in Asker(i) /\ sess[i].salt = Now(c)
                                         THEN "clientchallenge" ELSE stage[c]]
     ELSE /\ sess' = Drop(sess, i)
          /\ \E answered \in SUBSET Asker(i) :
               stage' = [c \in Clients |-> IF c \in answered THEN "rest" ELSE stage[c]]
  /\ typed' = typed \cup ({pin} \ {Wrong})
  /\ UNCHANGED <<idOf, tries, clients, chain, queue, creds, file, job, bounds,
                 told, removed, clean>>

(* The user reads the PIN off a client that waits for it, or mistypes it.  *)
TypePin ==
  \E i \in Ids :
    \/ Pin(i, Wrong)
    \/ \E c \in Clients : stage[c] = "asked" /\ Pin(i, Now(c))

Changed(kind, list) ==
  /\ clients' = list
  /\ Start("web", Job(kind, None, 0))

(* unpair_client(): the page may show a client that is gone already.       *)
Unpair(t) ==
  /\ Changed("unpair", {e \in clients : e.try # t})
  /\ removed' = removed \cup {t}
  /\ UNCHANGED <<idOf, tries, stage, sess, chain, queue, creds, file, bounds,
                 typed, told>>

(* erase_all_clients().  add_cert keeps what is in it.                     *)
UnpairAll ==
  /\ clients # {}
  /\ Changed("erase", {})
  /\ chain' = {}
  /\ removed' = removed \cup Listed
  /\ UNCHANGED <<idOf, tries, stage, sess, queue, creds, file, bounds, typed, told>>

(* set_client_enabled().                                                   *)
SetEnabled(t) ==
  \E on \in BOOLEAN :
    /\ t \in Listed /\ changes < MaxChanges
    /\ Changed("enable", {IF e.try = t THEN [e EXCEPT !.on = on] ELSE e : e \in clients})
    /\ changes' = changes + 1
    /\ UNCHANGED <<idOf, tries, stage, sess, chain, queue, creds, file, restarts,
                   history>>

(* savePassword(): save_user_creds() and then reload_user_creds(), whose   *)
(* results nobody looks at.                                                *)
SavePassword ==
  /\ changes < MaxChanges
  /\ Start("web", Job("password", None, changes + 1))
  /\ changes' = changes + 1
  /\ UNCHANGED <<idOf, tries, stage, memory, file, restarts, history>>

WebEnds(kind) == /\ job["web"].kind = kind /\ job["web"].step = "end"
                 /\ job' = [job EXCEPT !["web"] = Idle]

(* load_state(): nothing is loaded from a file that is not there or cannot *)
(* be read.                                                                *)
LoadUncertifiedBug == (* mutant: the certificates are cleared only         *)
  IF file \in {Missing, Corrupt} THEN UNCHANGED <<clients, chain>>
  ELSE clients' = file.devices /\ chain' = {}

Load ==
  IF file \in {Missing, Corrupt} THEN UNCHANGED <<clients, chain>>
  ELSE /\ clients' = file.devices
       /\ chain' = {Client(t) : t \in Saved}

UnpairEnds ==
  /\ WebEnds("unpair")
  /\ Load
  /\ UNCHANGED <<idOf, tries, stage, sess, queue, creds, file, bounds, history, clean>>

SavedEnds ==
  /\ \E kind \in {"erase", "enable"} : WebEnds(kind)
  /\ UNCHANGED <<idOf, tries, stage, memory, file, bounds, history, clean>>

Reload == creds' = IF file \in {Missing, Corrupt} \/ OldCreds = 0 THEN creds
                   ELSE file.creds

PasswordEnds ==
  /\ WebEnds("password")
  /\ Reload
  /\ UNCHANGED <<idOf, tries, stage, sess, clients, chain, queue, file, bounds,
                 history, clean>>

-----------------------------------------------------------------------------
(* The HTTPS server checks a certificate: what pairing raised since the    *)
(* last check is taken over first.                                         *)
Verify ==
  /\ queue # {}
  /\ chain' = chain \cup queue
  /\ queue' = {}
  /\ UNCHANGED <<idOf, tries, stage, sess, clients, creds, file, job, bounds,
                 history, clean>>

(* What the check says of a client now: its certificate is known, and the  *)
(* first entry with it, which is that of the earliest attempt, is enabled  *)
(* (is_client_enabled).                                                    *)
FirstOf(c, e) ==
  Client(e.try) = c /\ \A f \in clients : Client(f.try) = c => e.try[2] <= f.try[2]
Enabled(c) == \A e \in clients : FirstOf(c, e) => e.on

LetIn(c) == c \in chain \cup queue /\ Enabled(c)

(* The process ends, perhaps in the middle of a write, and starts again:   *)
(* http::init() and nvhttp::start() load the file.                         *)
HalfWritten ==
  IF \E t \in Threads : Busy(t) /\ job[t].step = "write" THEN {file, Corrupt}
  ELSE {file}

Restart ==
  /\ restarts < MaxRestarts
  /\ restarts' = restarts + 1
  /\ \E f \in HalfWritten :
       /\ file' = f
       /\ clients' = IF f \in {Missing, Corrupt} THEN {} ELSE f.devices
       /\ chain' = {Client(t) : t \in TriesOf(clients')}
       /\ creds' = IF f \in {Missing, Corrupt} THEN 0 ELSE f.creds
       /\ clean' = (clean /\ f # Corrupt)
  /\ sess' = <<>> /\ queue' = {} /\ job' = [t \in Threads |-> Idle]
  /\ stage' = [c \in Clients |-> "rest"]
  /\ UNCHANGED <<idOf, tries, changes, history>>

-----------------------------------------------------------------------------
Next ==
  \/ \E c \in Clients :
       \/ GetServerCertRequest(c) \/ ClientChallenge(c) \/ ServerChallengeResp(c)
       \/ ClientPairingSecret(c) \/ Abandon(c)
       \/ \E phase \in Phases : OutOfOrder(c, phase)
  \/ \E t \in Threads : Read(t) \/ Write(t) \/ WriteFails(t)
  \/ PairEnds \/ TypePin
  \/ \E t \in Listed \cup removed : Unpair(t) \/ SetEnabled(t)
  \/ UnpairAll \/ SavePassword
  \/ UnpairEnds \/ SavedEnds \/ PasswordEnds
  \/ Verify \/ Restart

Spec == Init /\ [][Next]_vars

-----------------------------------------------------------------------------
(* Whoever is listed, saved, accepted or told so has proved to know the    *)
(* PIN the user typed for that very attempt: not the PIN of another client *)
(* that waits under the same uniqueid, not an earlier attempt's.           *)
OnlyPinned ==
  /\ Listed \cup Saved \cup told \subseteq typed
  /\ chain \cup queue \subseteq {Client(t) : t \in typed}

(* A client the web UI lists is one the HTTPS server will let in unless it *)
(* is disabled, whatever was unpaired, reloaded, lost or restarted before. *)
ListedIsVerified == \A t \in Listed : Enabled(Client(t)) => LetIn(Client(t))

(* Between the handlers the state file holds what the program works with,  *)
(* so that a restart changes nothing.                                      *)
FileAgrees ==
  clean /\ (\A t \in Threads : ~Busy(t)) =>
    IF file = Missing THEN clients = {} /\ creds = 0
    ELSE file # Corrupt /\ file = [devices |-> clients, creds |-> creds]

(* A client that was told it is paired stays listed and saved, over        *)
(* restarts and other changes too, until the user unpairs it.              *)
PairedIsKept == clean => told \subseteq (Listed \cap Saved) \cup removed
=============================================================================
