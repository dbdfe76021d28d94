------------------------------ MODULE MCSession ------------------------------
(* Packets for the session model: valid ones, ones with malformed bodies, and *)
(* bytes that are no packet.  Some payloads look like packets themselves.     *)
EXTENDS Session

Allowed == <<116>>
Other == <<117>>

MCTopics == {Allowed}
MCUsername == <<97>>
MCPassword == <<98>>

Conn(flags, k, pass) ==
    [kind |-> "connect", flags |-> flags, keepAlive |-> k, clientID |-> <<99>>,
     willTopic |-> <<100>>, willMessage |-> <<192, 0>>, username |-> MCUsername,
     password |-> pass]

Pub(topic, qos, id) ==
    [kind |-> "publish", topic |-> topic, qos |-> qos, id |-> id, payload |-> <<192, 0>>]

Sub(id, subs) == [kind |-> "subscribe", id |-> id, subs |-> subs]
Filter(topic, qos) == [topic |-> topic, qos |-> qos]
Raw(bytes) == [kind |-> "raw", bytes |-> bytes]

MCRequests ==
    {Conn(194, k, MCPassword) : k \in KeepAlives} \cup
    {Conn(198, 2, MCPassword), Conn(194, 2, << >>), Conn(66, 2, MCPassword),
     Conn(195, 2, MCPassword),
     Pub(Allowed, 0, 0), Pub(Allowed, 1, 258), Pub(Other, 1, 3), Pub(Other, 2, 4),
     Pub(Allowed, 3, 5), Pub(<< >>, 1, 6),
     Sub(7, <<Filter(Allowed, 1), Filter(Other, 2)>>), Sub(8, << >>),
     Sub(8, <<Filter(Allowed, 3)>>),
     [kind |-> "pingreq"], [kind |-> "disconnect"],
     Raw(<<50, 4, 0, 9, 116, 0>>),             \* PUBLISH with a topic longer than itself
     Raw(<<98, 2, 0, 1>>),                     \* PUBREL
     Raw(<<240, 0>>),                          \* a reserved type
     Raw(<<98, 128, 128, 128, 128, 0>>)}       \* a remaining length of five bytes

MCLengths ==
    (0..300) \cup UNION {{128^k - 1, 128^k, 128^k + 1} : k \in 1..4} \cup {2147483647}

Text == {<< >>, <<77>>, [i \in 1..256 |-> 1]}

MCConnects ==
    [flags : 0..255, keepAlive : {0, 258}, clientID : {<<1>>}, willTopic : {<<2>>},
     willMessage : {<<3, 3>>}, username : {<< >>, <<4>>}, password : {<<5>>}]
      \cup
    [flags : {194, 198, 66, 130, 4}, keepAlive : {65535}, clientID : Text, willTopic : {<<2>>},
     willMessage : {<< >>}, username : Text, password : {<<5>>}]

\* The instance meets the hypothesis of the theorem on AnswersRequest.
ASSUME InstanceAssumption == RawAsksNothing
=============================================================================
