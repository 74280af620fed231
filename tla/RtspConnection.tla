----------------------------- MODULE RtspConnection -----------------------------
(***************************************************************************)
(* The requests of an RTSP handshake (rtsp.cpp): a client opens one       *)
(* connection per request, the host reads it as TCP delivers it, answers  *)
(* and shuts the connection down.  DESCRIBE tells the client what         *)
(* encryption the host supports and requests, ANNOUNCE tells the host what *)
(* the client made of it, its bitrate, its codec and its sound.           *)
(*                                                                        *)
(* Bytes are counted in units: the blank line that ends a plain header has *)
(* 4, the header of an encrypted message 1.  Which launch a connection    *)
(* belongs to is in LaunchHandshake, what a session does in StreamSession. *)
(***************************************************************************)
EXTENDS Integers, Sequences, FiniteSets, FiniteSetsExt

CONSTANTS
  Heads,      (* lengths of plain headers without the blank line         *)
  Bodies,     (* lengths of payloads                                     *)
  BufSize,    (* length of msg_buf                                       *)
  Profiles,   (* what clients ask for: [chosen, fec, quality, channels,  *)
                (* layout, codec, rateX100], with the host's FEC share     *)
  Maximum,    (* maximumBitrateKbps of the clients                       *)
  Required    (* attributes without a default                            *)

BlankLine == 4
SecretHead == 1

ASSUME RtspAssumption ==
  /\ BufSize \in Nat /\ BufSize > BlankLine /\ Heads \subseteq Nat \ {0} /\ Bodies \subseteq Nat
  /\ Maximum \in Nat
  /\ \A p \in Profiles : /\ p.chosen \in Nat /\ p.fec \in 1 .. 255
                        /\ p.channels \in {2, 6, 8} /\ p.quality \in BOOLEAN

VARIABLES
  client,     (* what the client is and wants, and the host's configuration *)
  verbNr,     (* the request of the handshake it is at                   *)
  received,   (* the request on the connection: secret, head, body, type *)
  got,        (* bytes received: begin, and what was read behind it      *)
  crlf,       (* crlf: where the payload begins, 0 while it is not known *)
  reading,    (* the read under way: "none", "head", "payload",          *)
              (* "secret head", "secret", or "closed"                      *)
  answer,     (* status of the reply; 0 none yet                         *)
  heard,      (* the client received the reply whole                     *)
  offer,      (* encryptionSupported and encryptionRequested             *)
  codecs,     (* codecs that active_hevc_mode and active_av1_mode allow  *)
  session,    (* the session started, if any: encryption, profile, bitrate *)
  split       (* history: the blank line came in more than one read      *)

rtspVars == <<client, verbNr, received, got, crlf, reading, answer, heard, offer, codecs,
              session, split>>

-----------------------------------------------------------------------------
(* What is exchanged.                                                     *)
Verbs == <<"OPTIONS", "DESCRIBE", "SETUP", "ANNOUNCE", "PLAY">>
SetupTypes == {"audio", "video", "control", "other"}
RtspRequests ==
  {r \in [secret : BOOLEAN, head : Heads, body : Bodies, type : SetupTypes,
          intact : BOOLEAN] : r.secret => r.body > 0}
(* make_launch_session(): a client that reports it encrypts its requests.  *)
FirstRequests == {r \in RtspRequests : r.secret = client.secret /\ r.type = "other"}
NoOffer == [supported |-> {}, requested |-> {}]

Clients ==
  [knows : BOOLEAN, wishes : SUBSET {"video", "audio"},
   mode : {"never", "opportunistic", "mandatory"}, secret : BOOLEAN]

Total ==
  received.body + (IF received.secret THEN SecretHead ELSE received.head + BlankLine)

RtspInit ==
  /\ client \in Clients
  /\ verbNr = 1
  /\ received \in FirstRequests
  /\ got = 0 /\ crlf = 0 /\ reading = "none" /\ answer = 0 /\ heard = FALSE
  /\ offer = NoOffer /\ codecs = {"h264", "hevc"} /\ session = {}
  /\ split = FALSE

-----------------------------------------------------------------------------
(* Variants of the definitions below, each with a plausible mistake.      *)
CompleteBug(end) == end > crlf'
SearchFromBug(begin) == begin + BlankLine

-----------------------------------------------------------------------------
(* respond(): the reply may not get through.  Errors close the connection, *)
(* handle_msg() shuts it down after any other reply.                      *)
Respond(code) ==
  /\ answer' = code /\ reading' = "closed"
  /\ heard' \in BOOLEAN

(* What SETUP is asked for: a port of the host is known for three streams. *)
SetUp == Respond(IF received.type = "other" THEN 404 ELSE 200)

(* DESCRIBE: the encryption the host supports and asks for.               *)
Needs(mode) == IF mode = "mandatory" THEN {"video", "audio"} ELSE {}
Asks(mode) == {"control"} \cup Needs(mode)
Describe ==
  /\ Respond(200)
  /\ offer' = [supported |-> {"control", "audio"} \cup
                             (IF client.mode = "never" THEN {} ELSE {"video"}),
               requested |-> Asks(client.mode)]

-----------------------------------------------------------------------------
(* ANNOUNCE: what the client makes of the offer; an older one only has a  *)
(* flag for its sound.                                                    *)
Enables(f) ==
  \/ f \in offer.supported /\ f \in client.wishes
  \/ f \in offer.requested /\ f \notin client.wishes
Enabled ==
  (IF client.knows
   THEN {f \in {"video", "audio"} : Enables(f)} \cup ({"control"} \cap offer.supported)
   ELSE {})
  \cup ({"audio"} \cap client.wishes)

(* The rate of a display that is not the rate of the stream is dropped.   *)
StrictRate(rateX100, fps) ==
  IF rateX100 > 0 /\ (rateX100 < 99 * fps \/ rateX100 > 101 * fps) THEN 0 ELSE rateX100

(* The client's own layout of its loudspeakers, if it fits.               *)
OwnLayout(l, channels) ==
  /\ l.channels \in {6, 8} /\ l.channels = channels
  /\ l.streams + l.coupled = channels
  /\ \A i \in 1 .. channels : i \in DOMAIN l.mapping /\ l.mapping[i] < channels
  /\ Cardinality(DOMAIN l.mapping) = channels

(* The bitrate of the video, so that what is sent fits what the user chose: *)
(* parity, sound and overhead are taken off.                              *)
SoundShare(quality, channels) == (IF quality THEN 256 ELSE 96) * channels
VideoBitrate(chosen, fec, quality, channels) ==
  LET data == IF fec <= 80 THEN (chosen * (100 - fec)) \div 100 ELSE chosen
      rest == data - Min({SoundShare(quality, channels), data \div 5})
  IN  rest - Min({500, rest \div 10})

Refusal(p, given) ==
  IF given # Required \/ p.codec \notin codecs THEN 400
  ELSE IF ~ Needs(client.mode) \subseteq Enabled THEN 403
  ELSE 0

StartSession(p) ==
  session' = {[encryption |-> Enabled, profile |-> p,
               bitrate |-> IF p.chosen = 0 THEN Maximum
                           ELSE VideoBitrate(p.chosen, p.fec, p.quality, p.channels),
               rateX100 |-> StrictRate(p.rateX100, 60),
               custom |-> p.channels # 2 /\ OwnLayout(p.layout, p.channels)]}

Announce ==
  \E p \in Profiles, given \in {Required} \cup {Required \ {a} : a \in Required} :
    LET refused == Refusal(p, given)
    IN  \/ refused # 0 /\ Respond(refused) /\ UNCHANGED session
        \/ refused = 0 /\ Respond(500) /\ UNCHANGED session
        \/ refused = 0 /\ Respond(200) /\ StartSession(p)

(* handle_msg(): the command of the request.                              *)
Handle ==
  LET verb == Verbs[verbNr]
  IN  \/ verb \in {"OPTIONS", "PLAY"} /\ Respond(200) /\ UNCHANGED <<offer, session>>
      \/ verb = "DESCRIBE" /\ Describe /\ UNCHANGED session
      \/ verb = "SETUP" /\ SetUp /\ UNCHANGED <<offer, session>>
      \/ verb = "ANNOUNCE" /\ Announce /\ UNCHANGED offer

-----------------------------------------------------------------------------
(* read(): a full buffer, or one a header does not fit in, is refused.    *)
BadRequest == Respond(400) /\ UNCHANGED <<offer, session>>

NextRead(end) ==
  IF end = BufSize THEN BadRequest
  ELSE reading' = "head" /\ UNCHANGED <<answer, heard, offer, session>>

(* handle_accept(): the connection is given the pending launch.           *)
Accept ==
  /\ reading = "none"
  /\ reading' = IF received.secret THEN "secret head" ELSE "head"
  /\ UNCHANGED <<client, verbNr, received, got, crlf, answer, heard, offer, codecs, session,
                 split>>

(* handle_plaintext_payload(): the request is parsed again after each read *)
(* until its payload is as long as it says.                               *)
Complete(end) == end - crlf' >= received.body
Payload(end) ==
  IF ~received.intact THEN BadRequest
  ELSE IF Complete(end) THEN Handle
  ELSE IF end = BufSize THEN BadRequest
  ELSE reading' = "payload" /\ UNCHANGED <<answer, heard, offer, session>>

(* handle_read_plaintext(): the blank line is looked for in what was read, *)
(* from the greater of begin and begin - 4.                               *)
SearchFrom(begin) == Max({begin - BlankLine, begin})
Arrives(end) == end \in got + 1 .. Min({Total, BufSize})

ReadHead ==
  /\ reading = "head"
  /\ \E end \in 0 .. BufSize :
       /\ Arrives(end)
       /\ got' = end
       /\ IF received.head >= SearchFrom(got) /\ received.head + BlankLine <= end
          THEN crlf' = received.head + BlankLine /\ Payload(end) /\ UNCHANGED split
          ELSE /\ crlf' = crlf /\ NextRead(end)
               /\ split' = (split \/ end \in received.head + 1 .. received.head + BlankLine - 1)
  /\ UNCHANGED <<client, verbNr, received, codecs>>

ReadPayload ==
  /\ reading = "payload"
  /\ \E end \in 0 .. BufSize : Arrives(end) /\ got' = end /\ crlf' = crlf /\ Payload(end)
  /\ UNCHANGED <<client, verbNr, received, codecs, split>>

(* handle_read_encrypted_header(), handle_read_encrypted_message(): header *)
(* and message are read whole; one that would just fill the buffer is     *)
(* refused, and one that is not encrypted or was tampered with.           *)
ReadSecretHead ==
  /\ reading = "secret head"
  /\ got' = SecretHead
  /\ \/ Total >= BufSize /\ BadRequest
     \/ Total < BufSize /\ reading' = "secret" /\ UNCHANGED <<answer, heard, offer, session>>
  /\ UNCHANGED <<client, verbNr, received, crlf, codecs, split>>

ReadSecret ==
  /\ reading = "secret"
  /\ got' = Total /\ crlf' = SecretHead
  /\ IF received.intact THEN Handle ELSE BadRequest
  /\ UNCHANGED <<client, verbNr, received, codecs, split>>

(* The client gives up, or its connection breaks: an encrypted connection *)
(* is answered all the same.                                              *)
Breaks ==
  /\ reading \in {"head", "payload", "secret head", "secret"}
  /\ \/ ~received.secret /\ reading' = "closed" /\ UNCHANGED answer
     \/ received.secret /\ reading' = "closed" /\ answer' = 400
  /\ UNCHANGED <<client, verbNr, received, got, crlf, heard, offer, codecs, session, split>>

(* External: the client sends its next request on a new connection.       *)
NextRequest ==
  /\ reading = "closed" /\ heard /\ answer = 200 /\ verbNr < Len(Verbs)
  /\ verbNr' = verbNr + 1
  /\ received' \in {r \in RtspRequests : r.secret = client.secret
                                /\ (Verbs[verbNr'] # "SETUP" => r.type = "other")}
  /\ got' = 0 /\ crlf' = 0 /\ reading' = "none" /\ answer' = 0 /\ heard' = FALSE
  /\ split' = FALSE
  /\ UNCHANGED <<client, offer, codecs, session>>

RtspNext ==
  \/ Accept \/ ReadHead \/ ReadPayload \/ ReadSecretHead \/ ReadSecret \/ Breaks
  \/ NextRequest

-----------------------------------------------------------------------------
(* The domains of the variables.                                          *)
RtspTypeOK ==
  /\ client \in Clients /\ verbNr \in DOMAIN Verbs /\ received \in RtspRequests
  /\ got \in 0 .. BufSize /\ crlf \in 0 .. got
  /\ reading \in {"none", "head", "payload", "secret head", "secret", "closed"}
  /\ answer \in {0, 200, 400, 403, 404, 500} /\ {heard, split} \subseteq BOOLEAN
  /\ offer.requested \subseteq offer.supported
  /\ offer.supported \subseteq {"control", "video", "audio"}
  /\ Cardinality(session) < 2 /\ \A s \in session : s.profile \in Profiles /\ s.bitrate \in Nat

(* A command sees the request whole, however TCP cut it up.               *)
WholeRequest == answer \in {200, 403, 404, 500} => got = Total /\ crlf # 0

(* Once a request has come whole it is answered, and not refused for its  *)
(* form if it is in order: unless its blank line came in two reads, which *)
(* the search does not find.                                              *)
RequestAnswered ==
  got = Total /\ ~split =>
    /\ answer # 0 \/ reading = "closed"
    /\ answer = 400 => \/ ~received.intact \/ received.secret \/ Verbs[verbNr] = "ANNOUNCE"

(* What is encrypted is what both sides can do, all of it if the host     *)
(* insists; and a client that can encrypt is never turned away for it.    *)
EncryptionAgreed ==
  /\ \A s \in session : /\ s.encryption \subseteq offer.supported
                        /\ Needs(client.mode) \subseteq s.encryption
                        /\ client.knows =>
                             client.wishes \cap offer.supported \subseteq s.encryption
  /\ answer = 403 => ~client.knows

(* Video with its parity, sound and overhead fit what the user chose, if  *)
(* that leaves the video anything; it keeps most of it in any case.       *)
BitrateFits ==
  \A s \in session : s.profile.chosen > 0 /\ s.profile.fec <= 80 =>
    LET p == s.profile
        sound == (IF p.quality THEN 256 ELSE 96) * p.channels
    IN  /\ p.chosen * (100 - p.fec) >= 100 * Max({5 * sound, 5000 + sound}) =>
             s.bitrate + (s.bitrate * p.fec) \div 100 + sound + 500 <= p.chosen
        /\ 100 * s.bitrate >= 72 * ((p.chosen * (100 - p.fec)) \div 100) - 100
=============================================================================
