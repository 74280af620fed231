------------------------------ MODULE PortalSession ------------------------------
(***************************************************************************)
(* The host's sessions with the desktop portal (platform/linux/           *)
(* portalgrab.cpp), one to list the displays or one to capture a display: *)
(* requests that are answered by a signal, the fall-back from a session   *)
(* that also has input devices to one that only casts the screen, and the *)
(* token that spares the user the dialogue next time.                     *)
(*                                                                        *)
(* External: the portal and the user, who may refuse a request, close the *)
(* session, or change which displays there are.  The portal takes a token *)
(* once and gives another.  The host may end at any step and start again. *)
(***************************************************************************)
EXTENDS Naturals, FiniteSets

CONSTANTS
  Displays,   (* external: names of displays                             *)
  MaxSessions  (* bound: sessions created                                *)
ASSUME SessionsAssumption == MaxSessions \in Nat

VARIABLES
  purpose,    (* nothing, to list the displays, or the display to capture *)
  sessionType,  (* RemoteDesktop, or ScreenCast alone                    *)
  asking,     (* the request the host is at                              *)
  reply,      (* ... it is to be made, was made, or its answer is waited *)
              (*   for                                                     *)
  created,    (* external: sessions so far                               *)
  openSessions,  (* external: those open at the portal                   *)
  started,    (* external: the session that casts the screen; 0 is none  *)
  sessionHandle,  (* session_handle                                      *)
  sessionPath,(* session_path                                              *)
  token,      (* restore_token_t::token_, by its number                  *)
  tokenFile,  (* portal_token in appdata()                               *)
  lastToken,  (* external: the token the portal gave last                *)
  casting,    (* the display of the stream chosen                        *)
  offered,    (* history: the displays of the session that was started   *)
  unsaved     (* history: a token was not read, or not written           *)

portalVars == <<purpose, sessionType, asking, reply, created, openSessions, started, sessionHandle,
                sessionPath, token, tokenFile, lastToken, casting, offered, unsaved>>
portalSide == <<created, openSessions, started, lastToken, offered>>
tokens == <<token, tokenFile, unsaved>>

Nobody == "nobody"
NoSession == 0
AllDisplays == "all"

(* connect_to_portal() and what it calls: the requests in their order, and *)
(* what is tried when one fails.                                          *)
After(r) ==
  CASE r = "CreateSession" -> IF sessionType = "RemoteDesktop" THEN "SelectDevices" ELSE "SelectSources"
    [] r = "SelectDevices" -> "SelectSources"
    [] r = "SelectSources" -> "Start"
    [] r = "Start" -> "OpenPipeWireRemote"
FallsBack(r) == sessionType = "RemoteDesktop" /\ r \in {"CreateSession", "SelectDevices", "SelectSources"}

GoOn == asking' = After(asking) /\ reply' = "make" /\ UNCHANGED sessionType
Fails ==
  IF FallsBack(asking)
  THEN sessionType' = "ScreenCast" /\ asking' = "CreateSession" /\ reply' = "make"
  ELSE asking' = "failed" /\ reply' = "make" /\ UNCHANGED sessionType

-----------------------------------------------------------------------------
(* dbus_t::init(): the token is read from the file each time.             *)
Begin(p) ==
  /\ purpose = Nobody /\ created < MaxSessions
  /\ purpose' = p /\ sessionType' = "RemoteDesktop" /\ asking' = "CreateSession" /\ reply' = "make"
  /\ sessionHandle' = NoSession /\ sessionPath' = NoSession
  /\ token' = IF tokenFile # 0 THEN tokenFile ELSE token
  /\ UNCHANGED <<portalSide, tokenFile, casting, unsaved>>

(* g_dbus_proxy_call_sync(): an error, or the request was taken.          *)
CallPortal ==
  /\ purpose # Nobody /\ reply = "make"
  /\ asking \in {"CreateSession", "SelectDevices", "SelectSources", "Start"}
  /\ \/ Fails
     \/ reply' = "made" /\ UNCHANGED <<sessionType, asking>>
  /\ UNCHANGED <<purpose, portalSide, sessionHandle, sessionPath, tokens, casting>>

(* dbus_response_init(), then dbus_response_wait(): an answer that came   *)
(* before the signal was subscribed to is lost, and waited for without a  *)
(* limit.                                                                 *)
Subscribe ==
  /\ reply = "made"
  /\ reply' \in {"wait", "lost"}
  /\ UNCHANGED <<purpose, sessionType, asking, portalSide, sessionHandle, sessionPath, tokens, casting>>

(* The request was answered.                                              *)
Refused ==
  /\ reply = "wait" /\ Fails
  /\ UNCHANGED <<purpose, portalSide, sessionHandle, sessionPath, tokens, casting>>

(* create_portal_session(): the session is remembered for the destructor, *)
(* and for is_session_closed().  One that was created before is forgotten. *)
HandleAfter(s) == s

SessionCreated ==
  /\ reply = "wait" /\ asking = "CreateSession" /\ created < MaxSessions
  /\ created' = created + 1 /\ openSessions' = openSessions \cup {created'}
  /\ sessionPath' = created' /\ sessionHandle' = HandleAfter(created')
  /\ GoOn
  /\ UNCHANGED <<purpose, started, lastToken, offered, tokens, casting>>

Selected ==
  /\ reply = "wait" /\ asking \in {"SelectDevices", "SelectSources"}
  /\ GoOn
  /\ UNCHANGED <<purpose, portalSide, sessionHandle, sessionPath, tokens, casting>>

(* start_portal_session(): without streams the new token is not looked at; *)
(* the token is kept in memory also if it cannot be written.              *)
TokenSaved(t) == t # token

Started(given, streams, written) ==
  /\ reply = "wait" /\ asking = "Start" /\ sessionPath \in openSessions
  /\ started' = sessionPath /\ offered' = streams
  /\ given \in {lastToken, lastToken + 1} /\ lastToken' = given
  /\ IF streams = {}
     THEN Fails /\ unsaved' = (unsaved \/ given # token) /\ UNCHANGED <<token, tokenFile>>
     ELSE /\ GoOn
          /\ token' = given
          /\ tokenFile' = IF TokenSaved(given) /\ written THEN given ELSE tokenFile
          /\ unsaved' = (unsaved \/ (given # token /\ ~written))
  /\ UNCHANGED <<purpose, created, openSessions, sessionHandle, sessionPath, casting>>

(* open_pipewire_remote(), and the choice of configure_stream(): the      *)
(* display asked for, else the first.                                     *)
Chosen(streams) == IF purpose \in streams THEN {purpose} ELSE streams

RemoteOpened ==
  /\ purpose # Nobody /\ reply = "make" /\ asking = "OpenPipeWireRemote"
  /\ \/ Fails /\ UNCHANGED casting
     \/ /\ purpose # AllDisplays /\ asking' = "capture" /\ casting' \in Chosen(offered)
        /\ UNCHANGED <<sessionType, reply>>
     \/ /\ purpose = AllDisplays /\ asking' = "listed" /\ UNCHANGED <<sessionType, reply, casting>>
  /\ UNCHANGED <<purpose, portalSide, sessionHandle, sessionPath, tokens>>

(* check_stream_dead(): is_session_closed() asks for the session of the   *)
(* handle.                                                                *)
SaysClosed == sessionHandle # NoSession /\ sessionHandle \notin openSessions

StreamDied ==
  /\ asking = "capture"
  /\ asking' = IF SaysClosed THEN "error" ELSE "reinit"
  /\ UNCHANGED <<purpose, sessionType, reply, portalSide, sessionHandle, sessionPath, tokens, casting>>

(* ~dbus_t(): the session of the handle is closed; those left, if any,    *)
(* when the connection goes.                                              *)
Release ==
  /\ asking \in {"failed", "listed", "error", "reinit"}
  /\ purpose' = Nobody /\ asking' = "none" /\ casting' = Nobody
  /\ openSessions' = {} /\ started' = NoSession /\ offered' = {}
  /\ sessionHandle' = NoSession /\ sessionPath' = NoSession
  /\ UNCHANGED <<sessionType, reply, created, lastToken, tokens>>

(* External: the user, or the desktop's shell, closes a session.          *)
UserCloses ==
  /\ \E s \in openSessions : openSessions' = openSessions \ {s}
  /\ UNCHANGED <<purpose, sessionType, asking, reply, created, started, lastToken, offered, sessionHandle,
                 sessionPath, tokens, casting>>

(* The process ends, or is ended, and starts again.                       *)
RestartPortal ==
  /\ asking # "none" /\ asking' = "none"
  /\ purpose' = Nobody /\ casting' = Nobody
  /\ openSessions' = {} /\ started' = NoSession /\ offered' = {}
  /\ sessionHandle' = NoSession /\ sessionPath' = NoSession
  /\ token' = 0
  /\ UNCHANGED <<sessionType, reply, created, lastToken, tokenFile, unsaved>>

PortalInit ==
  /\ purpose = Nobody /\ sessionType = "RemoteDesktop" /\ asking = "none" /\ reply = "make"
  /\ created = 0 /\ openSessions = {} /\ started = NoSession /\ lastToken = 0
  /\ sessionHandle = NoSession /\ sessionPath = NoSession
  /\ token = 0 /\ tokenFile = 0 /\ casting = Nobody /\ offered = {} /\ unsaved = FALSE

PortalNext ==
  \/ \E p \in Displays \cup {AllDisplays} : Begin(p)
  \/ CallPortal \/ Subscribe \/ Refused \/ SessionCreated \/ Selected
  \/ \E given \in 0..MaxSessions, streams \in SUBSET Displays, written \in BOOLEAN :
       Started(given, streams, written)
  \/ RemoteOpened \/ StreamDied \/ Release \/ UserCloses \/ RestartPortal

-----------------------------------------------------------------------------
PortalTypeOK ==
  /\ {purpose, casting} \subseteq Displays \cup {AllDisplays, Nobody}
  /\ sessionType \in {"RemoteDesktop", "ScreenCast"} /\ reply \in {"make", "made", "wait", "lost"}
  /\ asking \in {"none", "CreateSession", "SelectDevices", "SelectSources", "Start",
                  "OpenPipeWireRemote", "failed", "listed", "capture", "error", "reinit"}
  /\ {created, started, sessionHandle, sessionPath, token, tokenFile, lastToken} \subseteq 0..MaxSessions
  /\ openSessions \subseteq 1..MaxSessions /\ offered \subseteq Displays /\ unsaved \in BOOLEAN

(* A client is shown the display it asked for whenever the session offers *)
(* it, and its capture ends with an error exactly if the session that     *)
(* shows it was closed, whichever sessions were given up before.          *)
CastsTheDisplay ==
  /\ asking = "capture" => (purpose \in offered => casting = purpose)
  /\ asking = "capture" => (SaysClosed <=> started \notin openSessions)

(* The token the portal gave last is the one the next session will use,   *)
(* also after a restart.                                                  *)
TokenIsFresh == ~unsaved => tokenFile = lastToken
===============================================================================
