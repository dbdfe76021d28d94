-------------------------------- MODULE Broker --------------------------------
(***************************************************************************)
(* The whole way of a message, from handlePublish to raw_data and the      *)
(* workers: Connection and Ingestion composed.  They share ctx and msgChan, *)
(* which Connection sees as the messages' clients (msgChan) and Ingestion   *)
(* as their numbers (input); Send and Submit, Drain and Route are the two   *)
(* ends of one channel operation and happen together.  A crash takes both   *)
(* layers down and leaves raw_data.                                        *)
(***************************************************************************)
EXTENDS Connection

CONSTANTS
    Workers,       \* the fan-out's workers
    MaxMsgs,       \* bound: messages per topic
    MaxCrashes,    \* bound: crashes
    StoreMayFail   \* may SaveRawData fail?

ASSUME BrokerAssumption ==
    /\ MsgChanCap # 0
    /\ MaxMsgs \in Nat /\ MaxCrashes \in Nat /\ StoreMayFail \in BOOLEAN
    /\ None \notin [topic : TopicNames, n : Nat]

VARIABLES
    input, rpc, rmsg, queue, cpc, cur, rawData, dispatch,
    fpc, fmsg, running, processed, crashes,   \* as in Ingestion
    author,  \* history: per topic, the client of each message put in msgChan
    since,   \* history: per topic, the messages sent before its owner claimed it
    lost     \* history: per topic, the messages that will never be stored

ingestion == <<input, rpc, rmsg, queue, cpc, cur, rawData, dispatch,
               fpc, fmsg, running, processed, crashes>>
history == <<author, since, lost>>
brokerVars == <<vars, ingestion, history>>

sent == [t \in TopicNames |-> Len(author[t])]

I == INSTANCE Ingestion WITH BufSize <- MsgChanCap, MayCancel <- TRUE

BrokerInit ==
    /\ Init
    /\ author = [t \in TopicNames |-> << >>]
    /\ since = [t \in Topics |-> 0]
    /\ lost = [t \in Topics |-> {}]
    /\ I!Init

-----------------------------------------------------------------------------
(* Steps of one layer                                                       *)

\* The bound on messages holds back the clients, never a handler at work.
MayPublish(t) ==
    Len(author[t]) + Cardinality({h \in Handlers : pkt[h] # None}) < MaxMsgs

Clients(h) ==
    /\ \/ \E x \in ClientIDs, cred \in Credentials : ReadConnect(h, x, cred)
       \/ \E t \in TopicNames, q \in QoS : MayPublish(t) /\ ReadPublish(h, t, q)
       \/ FirstPacketFails(h) \/ ReadEnds(h)
    /\ UNCHANGED <<ingestion, history>>

Handler(h) ==
    /\ Add(h) \/ Puback(h) \/ Release(h) \/ Remove(h) \/ CloseConn(h)
    /\ UNCHANGED <<ingestion, history>>

GiveUp(h) == SendCancelled(h) /\ UNCHANGED <<ingestion, history>>

Server ==
    /\ (\E h \in Handlers : Accept(h)) \/ CloseListener \/ CloseAll
    /\ UNCHANGED <<ingestion, history>>

\* A topic that nobody owned gets an owner.
ClaimTopic(h) ==
    /\ Claim(h)
    /\ since' = [t \in Topics |-> IF owners[t] = None /\ owners'[t] # None
                                    THEN Len(author[t]) ELSE since[t]]
    /\ UNCHANGED <<ingestion, author, lost>>

Router == UNCHANGED <<vars, history>> /\ I!Enqueue
RouterStops == UNCHANGED <<vars, history>> /\ I!RouterStops

Consumer(t) == UNCHANGED <<vars, history>> /\ (I!Receive(t) \/ I!SaveRawData(t))

LoseMessage(t) ==
    /\ UNCHANGED <<vars, author, since>>
    /\ I!SaveFails(t)
    /\ lost' = [lost EXCEPT ![t] = @ \cup {cur[t]}]

ConsumerStops(t) == UNCHANGED <<vars, history>> /\ I!ConsumerStops(t)
ForwardMessage(t) == UNCHANGED <<vars, history>> /\ I!Forward(t)

FanOut == UNCHANGED <<vars, history>> /\ (I!FanOutReceive \/ I!FanOutDone)
FanOutStops == UNCHANGED <<vars, history>> /\ I!FanOutStops
Work(w) == UNCHANGED <<vars, history>> /\ I!Process(w)

-----------------------------------------------------------------------------
(* Steps of both layers                                                     *)

\* s.msgChan <- msg
Publish(h) ==
    /\ Send(h)
    /\ author' = [author EXCEPT ![pkt[h].topic] = Append(@, id[h])]
    /\ I!Submit(pkt[h].topic)
    /\ UNCHANGED <<since, lost>>

\* msg := <-inputChan
RouteMessage == Drain /\ UNCHANGED history /\ I!Route

CancelAll == Cancel /\ UNCHANGED history /\ I!Cancel

Crash ==
    /\ UNCHANGED <<author, since>>
    /\ I!Crash
    /\ listening' = TRUE
    /\ pc' = [h \in Handlers |-> "idle"]
    /\ id' = [h \in Handlers |-> None]
    /\ sock' = [h \in Handlers |-> "none"]
    /\ pkt' = [h \in Handlers |-> None]
    /\ clients' = [x \in ClientIDs |-> None]
    /\ owners' = [t \in Topics |-> None]
    /\ msgChan' = << >>
    /\ lost' = [t \in Topics |->
                  1..Len(author[t]) \ {rawData[t][i] : i \in DOMAIN rawData[t]}]

BrokerNext ==
    \/ \E h \in Handlers :
         Clients(h) \/ Handler(h) \/ ClaimTopic(h) \/ Publish(h) \/ GiveUp(h)
    \/ Server
    \/ RouteMessage \/ Router \/ RouterStops
    \/ \E t \in Topics :
         Consumer(t) \/ LoseMessage(t) \/ ForwardMessage(t) \/ ConsumerStops(t)
    \/ FanOut \/ FanOutStops \/ \E w \in Workers : Work(w)
    \/ CancelAll \/ Crash

BrokerSpec == BrokerInit /\ [][BrokerNext]_brokerVars

-----------------------------------------------------------------------------
(* Properties                                                               *)

Numbers(s) == {s[i] : i \in DOMAIN s}
Stored(t) == Numbers(rawData[t])

\* Where the messages of topic t are, on their way to raw_data.
InChannel(t) == {m.n : m \in {x \in Numbers(input) : x.topic = t}}
InRouter(t)  == IF rpc = "enqueue" /\ rmsg.topic = t THEN {rmsg.n} ELSE {}
InQueue(t)   == Numbers(queue[t])
InSave(t)    == IF cpc[t] = "save" THEN {cur[t]} ELSE {}

\* A message that handlePublish put in msgChan never just disappears: it is in
\* exactly one place on its way to raw_data, is stored, or was lost by a failed
\* save or a crash.  This says nothing of a PUBLISH that Claim refused: it never
\* enters msgChan, and its PUBACK is part of AnswersRequest in Session.
AcceptedAccountedFor ==
    \A t \in Topics :
        LET places == <<InChannel(t), InRouter(t), InQueue(t), InSave(t), Stored(t), lost[t]>>
        IN  /\ UNION Numbers(places) = 1..Len(author[t])
            /\ \A i, j \in DOMAIN places : i # j => places[i] \cap places[j] = {}

\* raw_data shows each topic's owners one after the other: all that was stored
\* since the present owner claimed the topic is its own, and comes after all that
\* was accepted from earlier owners, although those messages were still in the
\* channels when their owner left.
RowsFollowOwnership ==
    \A t \in Topics : owners[t] # None =>
        \A i \in DOMAIN rawData[t] : rawData[t][i] > since[t] =>
            /\ author[t][rawData[t][i]] = owners[t]
            /\ \A j \in i..Len(rawData[t]) : rawData[t][j] > since[t]
=============================================================================
