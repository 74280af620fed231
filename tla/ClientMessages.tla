----------------------------- MODULE ClientMessages -----------------------------
(***************************************************************************)
(* What a session exchanges with its client besides the streams           *)
(* (stream.cpp): the pings on the two media sockets, which tell the host  *)
(* where to send (recvThread, recv_ping), and the control stream with     *)
(* gamepad feedback, HDR mode and the client's messages                   *)
(* (controlBroadcastThread).  An instance is about one of the two.        *)
(***************************************************************************)
EXTENDS Integers, Sequences, FiniteSets, SequencesExt, FiniteSetsExt

CONSTANTS
  Watchers,   (* sessions                                                *)
  Streams,    (* the streams that wait for a ping: <<session, socket>>   *)
  Pings,      (* the pings that come: <<session, socket>>                *)
  Legacy,     (* those of clients without session ids                    *)
  AddressOf,  (* the address of a session's client                       *)
  NewsLimit,  (* max_elements of message_queue_queue                     *)
  FeedbackLimit,  (* max_elements of the feedback queue                  *)
  MaxMade,    (* bound: feedback made                                    *)
  MaxSent     (* bound: messages the client sends                        *)

ASSUME MessagesAssumption ==
  /\ Streams \cup Pings \subseteq Watchers \X {"video", "audio"}
  /\ Legacy \subseteq Watchers
  /\ AddressOf \in [Watchers -> STRING]
  /\ {NewsLimit, FeedbackLimit, MaxMade, MaxSent} \subseteq Nat \ {0}

Sockets == {"video", "audio"}
NoWatcher == "none"

VARIABLES
  topic,      (* "pings" or "control"                                    *)
  entries,    (* peer_to_video_session, peer_to_audio_session            *)
  news,       (* message_queue_queue: what is to be put in or taken out  *)
  waits,      (* recv_ping: "not yet", "waits", "has it", "gave up"      *)
  inbox,      (* per session and socket: the endpoints in its queue      *)
  packet,     (* per socket: the sender of what was received, its handler *)
              (* not run yet                                               *)
  stray,      (* sockets whose packet is no ping, though as long as one  *)
  peer,       (* recvThread: the endpoint both receives write to,        *)
              (* as long as a handler will read it                         *)
  target,     (* session->video.peer, session->audio.peer                *)
  shared,     (* history: sockets whose endpoint was overwritten since   *)
  crossed,    (* history: pings whose session was told another endpoint  *)
  heardPing,  (* history: pings handled while their session was waiting  *)
  cleared,    (* history: the sockets and keys of news that were cleared *)
  connected,  (* control: the client is connected                        *)
  sealed,     (* control: controlProtocolType is 13                      *)
  sessionLife,  (* control: "runs", "stopping", "gone"                   *)
  feedback,   (* feedback_queue                                          *)
  hdr,        (* hdr_queue, an event: the modes in it                    *)
  padEvents,  (* feedback made so far                                    *)
  lastHdr,    (* history: the mode raised last                           *)
  toldPads,   (* feedback the client was sent, in order                  *)
  toldHdr,    (* the mode it was sent last: "none", "lost" if that failed *)
  unsent,     (* history: what was cleared, or could not be sent         *)
  wrote,      (* messages the client sent                                *)
  effects     (* what the client's messages brought about                *)

pingVars == <<entries, news, waits, inbox, packet, stray, peer, target, shared, crossed, heardPing,
              cleared>>
outVars == <<feedback, hdr, padEvents, lastHdr, toldPads, toldHdr, unsent>>
controlVars == <<connected, sealed, sessionLife, outVars, wrote, effects>>
messageVars == <<topic, pingVars, controlVars>>

NoOne == <<"", "">>
Endpoint(s, k) == <<AddressOf[s], k>>
(* Keys of the maps: ids of sessions and, for those without, addresses.   *)
Keys == Watchers \cup Range(AddressOf)

MessagesInit ==
  /\ topic \in {"pings", "control"}
  /\ entries = [k \in Sockets |-> [a \in Keys |-> NoWatcher]] /\ news = <<>>
  /\ waits = [s \in Watchers |-> [k \in Sockets |-> "not yet"]]
  /\ inbox = [s \in Watchers |-> [k \in Sockets |-> <<>>]]
  /\ packet = [k \in Sockets |-> NoWatcher] /\ stray = {} /\ peer = NoOne
  /\ target = [s \in Watchers |-> [k \in Sockets |-> NoOne]]
  /\ shared = {} /\ crossed = {} /\ heardPing = {} /\ cleared = {}
  /\ connected = FALSE /\ sealed \in BOOLEAN /\ sessionLife = "runs"
  /\ feedback = <<>> /\ hdr = {}
  /\ padEvents = 0 /\ lastHdr = "none" /\ toldPads = <<>> /\ toldHdr = "none"
  /\ unsent = {} /\ wrote = 0 /\ effects = {}

-----------------------------------------------------------------------------
(* Variants: what is registered is not looked at before a ping, feedback  *)
(* is sent newest first, a new mode does not replace the old one.         *)
UpToDateBug == entries
DrainedBug == Reverse(feedback)
RaiseHdrBug(mode) == IF hdr = {} THEN {mode} ELSE hdr

-----------------------------------------------------------------------------
(* raise(): a full queue is cleared, then the element is put in.          *)
Raised(q, n) == IF Len(q) = NewsLimit THEN <<n>> ELSE Append(q, n)
Fits(q, more) == Len(q) + Len(more) <= NewsLimit
Tell(more) ==
  /\ news' = FoldLeft(Raised, news, more)
  /\ cleared' = IF Fits(news, more) THEN cleared
                ELSE cleared \cup {<<n.socket, n.key>> : n \in Range(news \o more) \ Range(news')}

(* recv_ping(): the queue of a session is registered, and taken out again *)
(* when a ping came or the timeout has passed.                            *)
Entry(k, keys, who) == [i \in DOMAIN keys |-> [socket |-> k, key |-> keys[i], who |-> who]]
IdKey(s) == <<s>>
AddressKey(s, e) == IF s \in Legacy THEN <<e[1]>> ELSE <<>>

Register(s, k) ==
  /\ waits[s][k] = "not yet"
  /\ waits' = [waits EXCEPT ![s][k] = "waits"]
  /\ Tell(Entry(k, AddressKey(s, Endpoint(s, k)) \o IdKey(s), s))
  /\ UNCHANGED <<entries, inbox, packet, stray, peer, target, shared, crossed, heardPing>>

TakePing(s, k) ==
  /\ waits[s][k] = "waits" /\ inbox[s][k] # <<>> /\ Head(inbox[s][k]).ping
  /\ waits' = [waits EXCEPT ![s][k] = "has it"]
  /\ target' = [target EXCEPT ![s][k] = Head(inbox[s][k]).from]
  /\ inbox' = [inbox EXCEPT ![s][k] = <<>>]
  /\ Tell(Entry(k, AddressKey(s, Head(inbox[s][k]).from) \o IdKey(s), NoWatcher))
  /\ heardPing' = heardPing \ {<<s, k>>}
  /\ UNCHANGED <<entries, packet, stray, peer, shared, crossed>>
(* What is not a ping is dropped, and the next one awaited.               *)
TakeOther(s, k) ==
  /\ waits[s][k] = "waits" /\ inbox[s][k] # <<>> /\ ~Head(inbox[s][k]).ping
  /\ inbox' = [inbox EXCEPT ![s][k] = Tail(@)]
  /\ UNCHANGED <<entries, news, cleared, waits, packet, stray, peer, target, shared, crossed,
                 heardPing>>

(* pop() with a delay may find that it has passed though a ping is there. *)
PingTimeout(s, k) ==
  /\ waits[s][k] = "waits"
  /\ waits' = [waits EXCEPT ![s][k] = "gave up"]
  /\ inbox' = [inbox EXCEPT ![s][k] = <<>>]
  /\ Tell(Entry(k, AddressKey(s, Endpoint(s, k)) \o IdKey(s), NoWatcher))
  /\ heardPing' = heardPing \ {<<s, k>>}
  /\ UNCHANGED <<entries, packet, stray, peer, target, shared, crossed>>

-----------------------------------------------------------------------------
(* A packet arrives: a receive is always outstanding on each socket, and  *)
(* both write the sender to the same endpoint.  Bound: one packet waits   *)
(* in each queue.                                                         *)
Receive(s, k, ping) ==
  /\ packet[k] = NoWatcher /\ inbox[s][k] = <<>> /\ (~ping => s \in Legacy)
  /\ packet' = [packet EXCEPT ![k] = s]
  /\ stray' = IF ping THEN stray ELSE stray \cup {k}
  /\ peer' = Endpoint(s, k)
  /\ shared' = shared \cup {j \in Sockets \ {k} : packet[j] # NoWatcher}
  /\ UNCHANGED <<entries, news, cleared, waits, inbox, target, crossed, heardPing>>

(* populate_peer_to_session(): emplace() leaves an entry that is there.   *)
Put(m, n) ==
  IF n.who = NoWatcher \/ m[n.socket][n.key] = NoWatcher
  THEN [m EXCEPT ![n.socket][n.key] = n.who]
  ELSE m
UpToDate == FoldLeft(Put, entries, news)

(* The handler: a ping of 4 bytes finds its session by the address, any   *)
(* other by the id in it.                                                 *)
Found(k) ==
  LET s == packet[k]
  IN  IF s \in Legacy /\ peer[1] \in Keys THEN UpToDate[k][peer[1]] ELSE UpToDate[k][s]

Handler(k) ==
  /\ packet[k] # NoWatcher
  /\ entries' = UpToDate /\ news' = <<>>
  /\ LET s == packet[k]
         f == Found(k)
     IN  /\ inbox' = IF f # NoWatcher /\ waits[f][k] = "waits"
                     THEN [inbox EXCEPT ![f][k] = Append(@, [from |-> peer, ping |-> k \notin stray])]
                     ELSE inbox
         /\ heardPing' = heardPing \cup {x \in {<<s, k>>} : waits[s][k] = "waits" /\ k \notin stray}
         /\ crossed' = crossed \cup {x \in {<<s, k>>, <<f, k>>} : k \in shared}
  /\ packet' = [packet EXCEPT ![k] = NoWatcher]
  /\ peer' = IF \A j \in Sockets : packet'[j] = NoWatcher THEN NoOne ELSE peer
  /\ shared' = shared \ {k} /\ stray' = stray \ {k}
  /\ UNCHANGED <<waits, target, cleared>>

PingStep ==
  \/ \E x \in Streams :
       \/ Register(x[1], x[2]) \/ TakePing(x[1], x[2]) \/ TakeOther(x[1], x[2])
       \/ PingTimeout(x[1], x[2])
  \/ \E x \in Pings, ping \in BOOLEAN : Receive(x[1], x[2], ping)
  \/ \E k \in Sockets : Handler(k)

-----------------------------------------------------------------------------
(* The gamepads' feedback and the capture's HDR mode wait for the control *)
(* thread; a full queue is cleared.                                       *)
MakeFeedback ==
  /\ padEvents < MaxMade
  /\ padEvents' = padEvents + 1
  /\ IF Len(feedback) = FeedbackLimit
     THEN feedback' = <<padEvents'>> /\ unsent' = unsent \cup Range(feedback)
     ELSE feedback' = Append(feedback, padEvents') /\ UNCHANGED unsent
  /\ UNCHANGED <<connected, sealed, sessionLife, hdr, lastHdr, toldPads, toldHdr, wrote,
                 effects>>

RaiseHdr(mode) == {mode}
ChangeHdr ==
  /\ \E mode \in {"on", "off"} \ {lastHdr} : hdr' = RaiseHdr(mode) /\ lastHdr' = mode
  /\ UNCHANGED <<connected, sealed, sessionLife, feedback, padEvents, toldPads, toldHdr, unsent,
                 wrote, effects>>

(* get_session(): the client connects its control stream.                 *)
LinkUp ==
  /\ ~connected /\ sessionLife = "runs"
  /\ connected' = TRUE
  /\ UNCHANGED <<sealed, sessionLife, outVars, wrote, effects>>

(* controlBroadcastThread: feedback first, then the mode; send() may fail, *)
(* and what could not be sent is not tried again.                         *)
Drained == feedback
Sweep ==
  /\ sessionLife # "gone"
  /\ IF sessionLife = "stopping"
     THEN /\ sessionLife' = "gone" /\ connected' = FALSE
          /\ UNCHANGED <<feedback, hdr, toldPads, toldHdr, unsent>>
     ELSE /\ connected /\ (feedback # <<>> \/ hdr # {})
          /\ \E failed \in SUBSET Range(feedback), reached \in BOOLEAN :
               /\ toldPads' = toldPads \o SelectSeq(Drained, LAMBDA m : m \notin failed)
               /\ unsent' = unsent \cup failed
               /\ toldHdr' = IF hdr = {} THEN toldHdr
                             ELSE IF reached THEN CHOOSE mode \in hdr : TRUE ELSE "lost"
          /\ feedback' = <<>> /\ hdr' = {}
          /\ UNCHANGED <<sessionLife, connected>>
  /\ UNCHANGED <<sealed, padEvents, lastHdr, wrote, effects>>

(* iterate(): a message is taken to its handler; on an encrypted stream   *)
(* only from inside an encrypted message, whose tag must be right and     *)
(* which holds no other of its kind.  Otherwise the session is stopped.   *)
Inside == {"idr frame", "invalidate frames", "input", "periodic ping", "encrypted"}
Effect(inside) ==
  CASE inside = "idr frame" -> {"idr"} [] inside = "invalidate frames" -> {"invalidate"}
    [] inside = "input" -> {"input"} [] OTHER -> {}

Tampered(wrapped, intact, inside) == ~intact /\ (wrapped \/ inside = "input")
FromClient(wrapped, intact, inside) ==
  /\ connected /\ wrote < MaxSent
  /\ wrote' = wrote + 1
  /\ \/ sealed /\ ~wrapped /\ UNCHANGED <<sessionLife, effects>>
     \/ /\ ~sealed \/ wrapped
        /\ Tampered(wrapped, intact, inside) \/ inside = "encrypted"
        /\ sessionLife' = IF sessionLife = "runs" THEN "stopping" ELSE sessionLife
        /\ UNCHANGED effects
     \/ /\ ~sealed \/ wrapped
        /\ ~Tampered(wrapped, intact, inside) /\ inside # "encrypted"
        /\ effects' = effects \cup Effect(inside) /\ UNCHANGED sessionLife
  /\ UNCHANGED <<connected, sealed, outVars>>

(* External: the client disconnects; its session is stopped.              *)
LinkDown ==
  /\ connected /\ sessionLife = "runs"
  /\ sessionLife' = "stopping"
  /\ UNCHANGED <<connected, sealed, outVars, wrote, effects>>

ControlStep ==
  \/ MakeFeedback \/ ChangeHdr \/ LinkUp \/ Sweep \/ LinkDown
  \/ \E wrapped, intact \in BOOLEAN, inside \in Inside :
       (inside = "encrypted" => wrapped) /\ FromClient(wrapped, intact, inside)

MessagesNext ==
  \/ topic = "pings" /\ PingStep /\ UNCHANGED <<topic, controlVars>>
  \/ topic = "control" /\ ControlStep /\ UNCHANGED <<topic, pingVars>>

-----------------------------------------------------------------------------
(* The domains of the variables.                                          *)
MessagesTypeOK ==
  /\ entries \in [Sockets -> [Keys -> Watchers \cup {NoWatcher}]]
  /\ waits \in [Watchers -> [Sockets -> {"not yet", "waits", "has it", "gave up"}]]
  /\ packet \in [Sockets -> Watchers \cup {NoWatcher}] /\ shared \cup stray \subseteq Sockets
  /\ Len(news) <= NewsLimit /\ cleared \subseteq Sockets \X Keys
  /\ {connected, sealed} \subseteq BOOLEAN /\ sessionLife \in {"runs", "stopping", "gone"}
  /\ Len(feedback) <= FeedbackLimit /\ Cardinality(hdr) < 2
  /\ effects \subseteq {"idr", "invalidate", "input"}

(* A stream is sent to where its client listens for it, unless two pings  *)
(* came at once and their shared endpoint was that of the other.          *)
SentWhereAwaited ==
  \A s \in Watchers, k \in Sockets :
    waits[s][k] = "has it" /\ <<s, k>> \notin crossed => target[s][k] = Endpoint(s, k)

(* A ping that is handled while its session waits reaches the session: its *)
(* endpoint was its own, no older session without an id has its address,  *)
(* and nothing told of its keys was cleared with a full queue.            *)
Alone(s) == s \in Legacy => \A t \in Legacy \ {s} : AddressOf[t] # AddressOf[s]
KeysOf(s) == {s} \cup (IF s \in Legacy THEN {AddressOf[s]} ELSE {})
PingsAreHeard ==
  \A h \in heardPing \ crossed :
    Alone(h[1]) /\ ({h[2]} \X KeysOf(h[1])) \cap cleared = {} => inbox[h[1]][h[2]] # <<>>

(* Feedback is told in the order it was made, all of it that was not      *)
(* cleared or failed to be sent.                                          *)
FeedbackInOrder ==
  /\ \A i, j \in DOMAIN toldPads : i < j => toldPads[i] < toldPads[j]
  /\ 1 .. padEvents = Range(toldPads) \cup Range(feedback) \cup unsent

(* A client whose session was swept knows the HDR mode raised last, or    *)
(* could not be told it.                                                  *)
HdrIsKnown == lastHdr # "none" /\ hdr = {} => toldHdr \in {lastHdr, "lost"}
=============================================================================
