-------------------------------- MODULE Session --------------------------------
(***************************************************************************)
(* One MQTT connection on the level of bytes and time: a client writes      *)
(* packets to the stream, whole or cut off; handleConnection decodes the    *)
(* first and readLoop the others, dispatches them and writes the answers    *)
(* (handle_connection.go, read_loop.go, handle_publish.go,                  *)
(* handle_subscribe.go), all under the deadline of KeepAlive.               *)
(*                                                                         *)
(* What other connections decide is nondeterministic here: whether          *)
(* ClientManager.Add has room, whether a topic has another owner, and how   *)
(* long msgChan is full.  Connection models those, and cancellation.        *)
(***************************************************************************)
EXTENDS KeepAlive, Codec

CONSTANTS
    Requests,    \* packets a client may write: see Bytes
    Topics,      \* the allowed topics, as byte sequences
    Username, Password,
    MaxPending,  \* bound: packets written and not yet dealt with
    Lengths,     \* remaining lengths, up to and beyond the four-byte limit
    Connects     \* CONNECT packets: [flags, keepAlive, clientID, ...]

\* What has room in its encoding: two bytes for the length of a string, for a
\* keep-alive and for a packet ID, four for the length of a packet.
IsString(x) == x \in Seq(Byte) /\ Len(x) < 65536
IsUint16(n) == n \in Nat /\ n < 65536
MaxLength == 128 * 128 * 128 * 128

IsConnect(c) ==
    /\ c.flags \in Byte /\ IsUint16(c.keepAlive)
    /\ IsString(c.clientID) /\ IsString(c.willTopic) /\ IsString(c.willMessage)
    /\ IsString(c.username) /\ IsString(c.password)

IsPublish(r) ==
    IsString(r.topic) /\ r.payload \in Seq(Byte) /\ r.qos \in 0..3 /\ IsUint16(r.id)

IsSubscribe(r) ==
    /\ IsUint16(r.id) /\ r.subs \in Seq([topic : Seq(Byte), qos : Byte])
    /\ \A i \in DOMAIN r.subs : IsString(r.subs[i].topic)

\* Bytes the Build functions do not write: one packet, or no packet at all.
IsRaw(r) ==
    /\ r.bytes \in Seq(Byte) /\ r.bytes # << >>
    /\ \/ ReadPacket(r.bytes).kind = "error"
       \/ LET length == DecodeRemainingLength(Tail(r.bytes)) IN
          length.ok /\ length.val = Len(length.rest)

ASSUME SessionAssumption ==
    /\ Lengths \subseteq Nat
    /\ \A c \in Connects : IsConnect(c)
    /\ MaxPending \in Nat \ {0}
    /\ Username # << >> /\ Password # << >>  \* Load refuses empty ones
    /\ \A r \in Requests :
         \/ r.kind \in {"pingreq", "disconnect"}
         \/ r.kind = "connect" /\ IsConnect(r)
         \/ r.kind = "publish" /\ IsPublish(r)
         \/ r.kind = "subscribe" /\ IsSubscribe(r)
         \/ r.kind = "raw" /\ IsRaw(r)

VARIABLES
    phase,    \* connect, read, send (in handlePublish's select), dropped or left
    pending,  \* history: the requests written and not yet dealt with, oldest first
    stream,   \* bytes the client has written and the broker has not read
    cut,      \* the last packet is incomplete and the client has fallen silent
    current,  \* the PUBLISH that waits for msgChan, decoded, or None
    reply     \* what the broker wrote in the last step

vars == <<timing, phase, pending, stream, cut, current, reply>>

None == [qos |-> 0, topic |-> << >>, id |-> 0, payload |-> << >>]

Init ==
    /\ TimingInit
    /\ phase = "connect"
    /\ pending = << >> /\ stream = << >> /\ cut = FALSE
    /\ current = None /\ reply = << >>

-----------------------------------------------------------------------------
(* The client                                                               *)

Bytes(r) ==
    CASE r.kind = "connect" -> BuildConnectPacket(r)
      [] r.kind = "publish" -> BuildPublishPacket(r.topic, r.payload, r.qos, r.id)
      [] r.kind = "subscribe" -> BuildSubscribePacket(r.id, r.subs)
      [] r.kind = "pingreq" -> <<192, 0>>
      [] r.kind = "disconnect" -> <<224, 0>>
      [] r.kind = "raw" -> r.bytes

\* A client does not write packets longer than it can announce.
ASSUME RequestAssumption == \A r \in Requests : r.kind # "raw" => Len(Bytes(r)) < MaxLength

Open == phase \in {"connect", "read", "send"}

Write(r) ==
    /\ Open /\ ~cut /\ Len(pending) < MaxPending
    /\ pending' = Append(pending, r)
    /\ stream' = stream \o Bytes(r)
    /\ reply' = << >>
    /\ UNCHANGED <<timing, phase, cut, current>>

\* All of a packet but its last byte arrives.
WritePart(r) ==
    /\ Open /\ ~cut /\ Len(pending) < MaxPending
    /\ stream' = stream \o Front(Bytes(r))
    /\ cut' = TRUE /\ reply' = << >>
    /\ UNCHANGED <<timing, phase, pending, current>>

-----------------------------------------------------------------------------
(* handleConnection                                                         *)

Arrived == ReadPacket(stream)

\* ReadPacket has returned a packet.
Consume ==
    /\ ~Expired /\ Arrived.kind = "packet"
    /\ stream' = Arrived.rest
    /\ UNCHANGED cut

Dealt == pending' = Tail(pending)

End(how) == phase' = how /\ UNCHANGED <<timing, current>>

\* EnvAuthenticator
Authenticate(username, password) ==
    /\ username # << >> /\ password # << >>
    /\ username = Username /\ password = Password

Authenticated(p) ==
    HasUsername(p.flags) /\ Authenticate(p.payload.username, p.payload.password)

\* The first packet is decoded; room is what ClientManager.Add finds.
FirstPacket(room) ==
    /\ phase = "connect" /\ Consume /\ Dealt
    /\ LET c == DecodeConnect(Arrived.data) IN
       IF Arrived.type # CONNECT \/ ~c.ok THEN End("left") /\ reply' = << >>
       ELSE IF ~Authenticated(c.val) THEN End("left") /\ reply' = EncodeConnack(4)
       ELSE IF ~room THEN End("left") /\ reply' = EncodeConnack(3)
       ELSE /\ reply' = EncodeConnack(0)
            /\ phase' = "read" /\ ResetDeadline(c.val.keepAlive)
            /\ UNCHANGED current

-----------------------------------------------------------------------------
(* readLoop                                                                 *)

\* The end of an iteration and the ResetDeadline of the next one.
Continue ==
    /\ Dealt
    /\ phase' = "read" /\ current' = None
    /\ ResetDeadline(keepAlive)

Receives(type) == phase = "read" /\ Consume /\ Arrived.type = type

Puback(p) == IF p.qos = 1 THEN EncodePuback(p.id) ELSE << >>

\* A malformed PUBLISH is ignored, a refused one still acknowledged.
PublishRefused(owned) ==
    /\ Receives(PUBLISH)
    /\ LET p == DecodePublish(Arrived.flags, Arrived.data) IN
       \/ ~p.ok /\ reply' = << >>
       \/ /\ p.ok /\ (owned \/ p.val.topic \notin Topics)
          /\ reply' = Puback(p.val)
    /\ Continue

PublishClaimed ==
    /\ Receives(PUBLISH)
    /\ LET p == DecodePublish(Arrived.flags, Arrived.data) IN
       /\ p.ok /\ p.val.topic \in Topics
       /\ current' = p.val
    /\ phase' = "send" /\ reply' = << >>
    /\ UNCHANGED <<timing, pending>>

\* msgChan takes the message.  The PUBACK is lost if the deadline has passed:
\* the write fails and its error is ignored.
PublishSent ==
    /\ phase = "send"
    /\ reply' = IF Expired THEN << >> ELSE Puback(current)
    /\ Continue
    /\ UNCHANGED <<stream, cut>>

Subscribe ==
    /\ Receives(SUBSCRIBE)
    /\ LET p == DecodeSubscribe(Arrived.data) IN
       reply' = IF ~p.ok THEN << >>
                ELSE EncodeSuback(p.val.id,
                       [i \in DOMAIN p.val.subs |->
                          IF p.val.subs[i].topic \in Topics THEN p.val.subs[i].qos ELSE 128])
    /\ Continue

Pingreq ==
    /\ Receives(PINGREQ)
    /\ reply' = EncodePingresp
    /\ Continue

Unexpected ==
    /\ phase = "read" /\ Consume
    /\ Arrived.type \notin {PUBLISH, SUBSCRIBE, PINGREQ, DISCONNECT}
    /\ reply' = << >>
    /\ Continue

Disconnect ==
    /\ Receives(DISCONNECT) /\ Dealt
    /\ reply' = << >>
    /\ End("left")

\* ReadPacket fails: the bytes are no packet, the peer is gone with no complete
\* packet left to read, or the broker closed the connection.
ReadFails ==
    /\ phase \in {"connect", "read"} /\ ~Expired
    /\ reply' = << >>
    /\ End("left")
    /\ UNCHANGED <<pending, stream, cut>>

\* handleConnection's ReadPacket fails with a timeout: no CONNECT in time.
ConnectExpires ==
    /\ phase = "connect" /\ Expired
    /\ reply' = << >>
    /\ End("left")
    /\ UNCHANGED <<pending, stream, cut>>

\* readLoop's ReadPacket fails with a timeout.
Expire ==
    /\ phase = "read" /\ Expired
    /\ reply' = << >>
    /\ End("dropped")
    /\ UNCHANGED <<pending, stream, cut>>

\* Time passes; a read whose deadline is reached, or that has found an error in
\* the stream, returns first.
Tick ==
    /\ Open
    /\ phase \in {"connect", "read"} => ~Expired /\ Arrived.kind # "error"
    /\ Elapse
    /\ reply' = << >>
    /\ UNCHANGED <<phase, pending, stream, cut, current>>

Next ==
    \/ \E r \in Requests : Write(r) \/ WritePart(r)
    \/ \E room \in BOOLEAN : FirstPacket(room)
    \/ \E owned \in BOOLEAN : PublishRefused(owned)
    \/ PublishClaimed \/ PublishSent
    \/ Subscribe \/ Pingreq \/ Unexpected \/ Disconnect
    \/ ReadFails \/ ConnectExpires \/ Expire \/ Tick

Spec == Init /\ [][Next]_vars
-----------------------------------------------------------------------------
(* Properties                                                               *)

\* The requests whose bytes are still in the stream.
Unread == IF phase = "send" THEN Tail(pending) ELSE pending

\* ReadPacket stays in step with the client: after any sequence of packets, also
\* ones with malformed bodies, the next byte is the first byte of a packet.
InStep ==
    LET whole == FlattenSeq([i \in DOMAIN Unread |-> Bytes(Unread[i])])
    IN  Open => IF cut THEN IsPrefix(whole, stream) ELSE stream = whole

\* What a client may expect for a request, from what it meant to say.
ConnectValid(r) == r.kind = "connect" /\ r.flags % 2 = 0
Credentialed(r) ==
    r.flags >= 128 /\ r.username = Username
      /\ (IF Bit(r.flags, 64) THEN r.password ELSE << >>) = Password

PublishValid(r) == r.qos < 3 /\ r.topic # << >>
SubscribeValid(r) == r.subs # << >> /\ \A i \in DOMAIN r.subs : r.subs[i].qos < 3

Nothing == {<<"nothing">>}

ConnectAnswers(r) ==
    CASE ~ConnectValid(r) -> Nothing
      [] ConnectValid(r) /\ ~Credentialed(r) -> {<<"connack", 4>>}
      [] OTHER -> {<<"connack", 0>>, <<"connack", 3>>}

RequestAnswers(r) ==
    CASE r.kind = "publish" ->
           IF PublishValid(r) /\ r.qos = 1
             THEN {<<"puback", r.id>>} \cup (IF phase = "send" /\ Expired THEN Nothing ELSE {})
             ELSE Nothing
      [] r.kind = "subscribe" ->
           IF SubscribeValid(r)
             THEN {<<"suback", r.id,
                     [i \in DOMAIN r.subs |->
                        IF r.subs[i].topic \in Topics THEN r.subs[i].qos ELSE 128]>>}
             ELSE Nothing
      [] r.kind = "pingreq" -> {<<"pingresp">>}
      [] OTHER -> Nothing

\* Hypothesis of a theorem: the raw bytes are no requests that the broker answers.
RawAsksNothing ==
    \A r \in Requests : r.kind = "raw" =>
        LET p == ReadPacket(r.bytes) IN
        p.kind = "packet" =>
          /\ p.type # PINGREQ
          /\ p.type = CONNECT => ~DecodeConnect(p.data).ok
          /\ p.type = SUBSCRIBE => ~DecodeSubscribe(p.data).ok
          /\ p.type = PUBLISH =>
               LET m == DecodePublish(p.flags, p.data) IN m.ok => m.val.qos # 1

\* Every request gets its own answer and nothing else: CONNACK by its validity
\* and credentials, PUBACK with its packet ID for QoS 1 only (refused publishes
\* too), one SUBACK code per filter.  Only a PUBACK that was delayed past the
\* deadline by a full msgChan may be missing.
AnswersRequest ==
    [][Len(pending') < Len(pending) =>
         ClientReads(reply') \in IF phase = "connect" THEN ConnectAnswers(Head(pending))
                                                    ELSE RequestAnswers(Head(pending))]_vars

\* Before the client's first byte.
Fresh == phase = "connect" /\ stream = << >>

\* Whatever remaining length a packet may announce, up to the largest of four
\* bytes, DecodeRemainingLength finds it and leaves the bytes that follow
\* untouched; encodings of larger ones are refused.
LengthRoundTrip ==
    Fresh => \A n \in Lengths :
        DecodeRemainingLength(EncodeRemainingLength(n) \o <<200, 0>>) =
            IF n < MaxLength THEN Decoded(n, <<200, 0>>) ELSE Malformed

FieldsPresent(c) ==
    [clientID |-> c.clientID,
     willTopic |-> IF (c.flags \div 4) % 2 = 1 THEN c.willTopic ELSE << >>,
     willMessage |-> IF (c.flags \div 4) % 2 = 1 THEN c.willMessage ELSE << >>,
     username |-> IF c.flags >= 128 THEN c.username ELSE << >>,
     password |-> IF c.flags % 128 >= 64 THEN c.password ELSE << >>]

\* Whatever CONNECT the client may write, DecodeConnect recovers exactly its
\* fields, whichever of will, username and password are there, and refuses the
\* packet when it is cut at any byte.
ConnectRoundTrip ==
    Fresh => \A c \in Connects :
        LET body == BuildConnectBody(c) IN
        /\ DecodeConnect(body) =
             IF c.flags % 2 = 1 THEN Malformed
             ELSE Decoded([flags |-> c.flags, keepAlive |-> c.keepAlive,
                           payload |-> FieldsPresent(c)], << >>)
        /\ \A k \in 0..(Len(body) - 1) : ~DecodeConnect(SubSeq(body, 1, k)).ok

\* A silent client is found out: while the broker waits for a packet, no more
\* than 1.5 keep-alive intervals have passed since it last began to wait,
\* however long a publish was stalled before and however much of a packet came.
SilentClientDropped ==
    phase = "read" /\ keepAlive > 0 => now - lastSeen <= 3 * keepAlive

\* What ResetDeadline grants, odd keep-alives and 0 included: a client with a
\* keep-alive is dropped no earlier than 1.5 intervals after the broker last
\* began to wait for it, less the half second an odd interval loses when the
\* product is cut to whole seconds; one with keep-alive 0 only by the deadline
\* of CONNECT, which nothing replaces, and not before that has passed.
DroppedOnlyWhenSilent ==
    phase = "dropped" =>
        IF keepAlive > 0
          THEN now - lastSeen >= 3 * keepAlive - (keepAlive % 2)
          ELSE now >= Seconds(ConnectTimeout)
=============================================================================
