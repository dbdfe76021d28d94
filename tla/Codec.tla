--------------------------------- MODULE Codec ---------------------------------
(***************************************************************************)
(* MQTT 3.1.1 packets as the broker reads and writes them (protocol/), and *)
(* as a client builds them (testutil/mqtt_packets.go).  Bytes are numbers, *)
(* strings and binary data are byte sequences.  A decoder answers          *)
(* [ok |-> TRUE, val |-> result, rest |-> unread bytes] or Malformed: which *)
(* error it was only reaches the log.                                      *)
(***************************************************************************)
EXTENDS Integers, Sequences, SequencesExt

Byte == 0..255

Malformed == [ok |-> FALSE]
Decoded(v, r) == [ok |-> TRUE, val |-> v, rest |-> r]

Bit(byte, mask) == (byte \div mask) % 2 = 1
From(s, n) == SubSeq(s, n, Len(s))

\* Packet types (the ones the broker tells apart)
CONNECT == 1
PUBLISH == 3
SUBSCRIBE == 8
PINGREQ == 12
DISCONNECT == 14

-----------------------------------------------------------------------------
(* codec.go                                                                 *)

EncodeLength[n \in Nat] ==
    IF n < 128 THEN <<n>> ELSE <<128 + (n % 128)>> \o EncodeLength[n \div 128]

EncodeRemainingLength(n) == EncodeLength[n]

\* The number in the first k bytes, k <= 4: value += (byte & 0x7F) * multiplier.
LengthValue(s, k) ==
    LET digit(i) == IF i <= k THEN s[i] % 128 ELSE 0
    IN  digit(1) + 128 * (digit(2) + 128 * (digit(3) + 128 * digit(4)))

\* Faulty variant: a fifth byte is accepted.
DecodeLengthFiveBytes(s) ==
    LET last == {i \in DOMAIN s : i <= 5 /\ s[i] < 128 /\ \A j \in 1..(i - 1) : s[j] >= 128}
    IN  IF last = {} THEN Malformed
        ELSE LET k == CHOOSE i \in last : TRUE
             IN  Decoded(LengthValue(s, k), From(s, k + 1))

\* The value ends at the first byte without the continuation bit.  A fourth byte
\* with it makes the loop read a fifth, where the multiplier is refused.
DecodeRemainingLength(s) ==
    LET last == {i \in DOMAIN s : i <= 4 /\ s[i] < 128 /\ \A j \in 1..(i - 1) : s[j] >= 128}
    IN  IF last = {} THEN Malformed
        ELSE LET k == CHOOSE i \in last : TRUE
             IN  Decoded(LengthValue(s, k), From(s, k + 1))

\* Big-endian uint16; the conversion of a larger length keeps its low 16 bits.
Uint16(n) == <<(n \div 256) % 256, n % 256>>
ValueOf(hi, lo) == 256 * hi + lo

WriteUTF8String(str) == Uint16(Len(str)) \o str

\* io.ReadFull of n bytes
ReadFull(s, n) ==
    IF Len(s) < n THEN Malformed ELSE Decoded(SubSeq(s, 1, n), From(s, n + 1))

\* Also ReadBinaryData, which differs only in the Go type of its result.
ReadUTF8String(s) ==
    IF Len(s) < 2 THEN Malformed ELSE ReadFull(From(s, 3), ValueOf(s[1], s[2]))

-----------------------------------------------------------------------------
(* decoder.go.  Fields are read one after the other; the first that fails    *)
(* fails the packet.                                                        *)

Then(r, Op(_, _)) == IF r.ok THEN Op(r.val, r.rest) ELSE Malformed

\* A field that is on the wire only if its flag is set.
Optional(present, s) == IF present THEN ReadUTF8String(s) ELSE Decoded(<< >>, s)

MQTT == <<77, 81, 84, 84>>

HasUsername(flags) == Bit(flags, 128)
HasPassword(flags) == Bit(flags, 64)
HasWill(flags) == Bit(flags, 4)

\* Faulty variant: the username and password flags are swapped.
ConnectPayloadSwapped(flags, s) ==
    Then(ReadUTF8String(s), LAMBDA id, s1 :
    Then(Optional(HasWill(flags), s1), LAMBDA topic, s2 :
    Then(Optional(HasWill(flags), s2), LAMBDA message, s3 :
    Then(Optional(HasPassword(flags), s3), LAMBDA username, s4 :
    Then(Optional(HasUsername(flags), s4), LAMBDA password, s5 :
        Decoded([clientID |-> id, willTopic |-> topic, willMessage |-> message,
                 username |-> username, password |-> password], s5))))))

ConnectPayload(flags, s) ==
    Then(ReadUTF8String(s), LAMBDA id, s1 :
    Then(Optional(HasWill(flags), s1), LAMBDA topic, s2 :
    Then(Optional(HasWill(flags), s2), LAMBDA message, s3 :
    Then(Optional(HasUsername(flags), s3), LAMBDA username, s4 :
    Then(Optional(HasPassword(flags), s4), LAMBDA password, s5 :
        Decoded([clientID |-> id, willTopic |-> topic, willMessage |-> message,
                 username |-> username, password |-> password], s5))))))

\* Protocol name and level, flags with the reserved bit clear, keep-alive, payload.
DecodeConnect(s) ==
    Then(ReadUTF8String(s), LAMBDA name, s1 :
    Then(ReadFull(s1, 4), LAMBDA head, s2 :
        IF name # MQTT \/ head[1] # 4 \/ Bit(head[2], 1) THEN Malformed
        ELSE Then(ConnectPayload(head[2], s2), LAMBDA p, s3 :
                Decoded([flags |-> head[2], keepAlive |-> ValueOf(head[3], head[4]),
                         payload |-> p], s3))))

\* The packet ID is on the wire only if QoS > 0.
PublishHasID(flags) == (flags \div 2) % 4 > 0

DecodePublish(flags, s) ==
    LET qos == (flags \div 2) % 4 IN
    IF qos = 3 THEN Malformed
    ELSE Then(ReadUTF8String(s), LAMBDA topic, s1 :
         IF topic = << >> THEN Malformed
         ELSE IF ~PublishHasID(flags)
                THEN Decoded([qos |-> qos, topic |-> topic, id |-> 0, payload |-> s1], << >>)
                ELSE Then(ReadFull(s1, 2), LAMBDA b, s2 :
                       Decoded([qos |-> qos, topic |-> topic, id |-> ValueOf(b[1], b[2]),
                                payload |-> s2], << >>)))

\* (filter, QoS) pairs to the end of the packet.
Subscriptions[s \in Seq(Byte)] ==
    IF s = << >> THEN Decoded(<< >>, << >>)
    ELSE Then(ReadUTF8String(s), LAMBDA topic, s1 :
         Then(ReadFull(s1, 1), LAMBDA b, s2 :
         IF b[1] > 2 THEN Malformed
         ELSE Then(Subscriptions[s2], LAMBDA subs, s3 :
                Decoded(<<[topic |-> topic, qos |-> b[1]]>> \o subs, s3))))

DecodeSubscribe(s) ==
    IF Len(s) < 5 THEN Malformed
    ELSE Then(Subscriptions[From(s, 3)], LAMBDA subs, s1 :
            Decoded([id |-> ValueOf(s[1], s[2]), subs |-> subs], s1))

-----------------------------------------------------------------------------
(* reader.go: what ReadPacket does with the bytes that have arrived.  "short" *)
(* means that it goes on waiting, "error" that it has returned one.          *)

\* The remaining length is not complete: a fifth byte is read before it is refused.
LengthShort(s) == Len(s) < 5 /\ \A i \in DOMAIN s : s[i] >= 128

\* Faulty variant: the length counts the fixed header too.
BodyOverread(s, n) == ReadFull(s, n + 1)

Body(s, n) == ReadFull(s, n)

ReadPacket(s) ==
    IF s = << >> THEN [kind |-> "short"]
    ELSE IF s[1] \div 16 \in {0, 15} THEN [kind |-> "error"]
    ELSE IF LengthShort(Tail(s)) THEN [kind |-> "short"]
    ELSE LET length == DecodeRemainingLength(Tail(s)) IN
         IF ~length.ok THEN [kind |-> "error"]
         ELSE LET body == Body(length.rest, length.val) IN
              IF ~body.ok THEN [kind |-> "short"]
              ELSE [kind |-> "packet", type |-> s[1] \div 16, flags |-> s[1] % 16,
                    data |-> body.val, rest |-> body.rest]

-----------------------------------------------------------------------------
(* encoder.go                                                               *)

EncodeConnack(code) == <<32, 2, 0, code>>

\* Faulty variant: the bytes of the packet ID are swapped.
EncodePubackLittleEndian(id) == <<64, 2, id % 256, id \div 256>>

EncodePuback(id) == <<64, 2>> \o Uint16(id)

EncodeSuback(id, codes) ==
    <<144>> \o EncodeRemainingLength(2 + Len(codes)) \o Uint16(id) \o codes

EncodePingresp == <<208, 0>>

-----------------------------------------------------------------------------
(* A client's side: testutil/mqtt_packets.go, with any CONNECT flags.        *)

Packet(first, body) == <<first>> \o EncodeRemainingLength(Len(body)) \o body

BuildConnectBody(c) ==
    WriteUTF8String(MQTT) \o <<4, c.flags>> \o Uint16(c.keepAlive)
      \o WriteUTF8String(c.clientID)
      \o (IF HasWill(c.flags)
            THEN WriteUTF8String(c.willTopic) \o WriteUTF8String(c.willMessage) ELSE << >>)
      \o (IF HasUsername(c.flags) THEN WriteUTF8String(c.username) ELSE << >>)
      \o (IF HasPassword(c.flags) THEN WriteUTF8String(c.password) ELSE << >>)

BuildConnectPacket(c) == Packet(16, BuildConnectBody(c))

BuildPublishPacket(topic, payload, qos, id) ==
    Packet(48 + 2 * qos,
           WriteUTF8String(topic) \o (IF qos > 0 THEN Uint16(id) ELSE << >>) \o payload)

BuildSubscribePacket(id, subs) ==
    Packet(130, Uint16(id)
      \o FlattenSeq([i \in DOMAIN subs |-> WriteUTF8String(subs[i].topic) \o <<subs[i].qos>>]))

\* What a client makes of the broker's answer: its kind, and the return code or
\* packet ID (ReadConnack, ReadPuback; SUBACK and PINGRESP in the same way).
ClientReads(s) ==
    IF s = << >> THEN <<"nothing">>
    ELSE LET p == ReadPacket(s) IN
         IF p.kind # "packet" THEN <<"unreadable">>
         ELSE IF p.rest # << >> THEN <<"trailing bytes">>
         ELSE CASE p.type = 2 -> <<"connack", p.data[2]>>
                [] p.type = 4 -> <<"puback", ValueOf(p.data[1], p.data[2])>>
                [] p.type = 9 -> <<"suback", ValueOf(p.data[1], p.data[2]), From(p.data, 3)>>
                [] p.type = 13 -> <<"pingresp">>
                [] OTHER -> <<"unexpected">>

=============================================================================
