----------------------------- MODULE BrokerProofs -----------------------------
(***************************************************************************)
(* The whole way of a message, for any handlers, clients, topics, workers,  *)
(* channel capacity and number of crashes.                                  *)
(*                                                                         *)
(* The composition inherits what was proved of its parts: each of its steps *)
(* is a step of Ingestion or leaves it alone, and a step of Connection,     *)
(* leaves it alone or starts it anew (a crash).  On top of their invariants *)
(* Accounted follows the messages of a topic, Ownership its clients.        *)
(***************************************************************************)
EXTENDS Broker, ConnectionProofs

P == INSTANCE IngestionProofs WITH BufSize <- MsgChanCap, MayCancel <- TRUE

-----------------------------------------------------------------------------
(* The parts of a step                                                      *)

LEMMA IngestionAssumed == P!IngestionAssumption
  BY BrokerAssumption, ConnectionAssumption DEF P!IngestionAssumption

\* A step that leaves both the pipeline and the accepted messages alone.
LEMMA PipelineIdle ==
    ASSUME UNCHANGED <<ingestion, author, cancelled>>
    PROVE  [I!Next]_(I!vars)
  BY DEF ingestion, sent, I!vars, I!router, I!consumer, I!fanout

\* Every step of the broker is one of the pipeline, or leaves it alone.
LEMMA StepOfPipeline ==
    ASSUME Inv1, [BrokerNext]_brokerVars
    PROVE  [I!Next]_(I!vars)
<1>1. ASSUME NEW h \in Handlers, Clients(h) \/ Handler(h) \/ ClaimTopic(h) \/ GiveUp(h)
      PROVE  [I!Next]_(I!vars)
  <2>1. UNCHANGED <<ingestion, author>>
    BY <1>1 DEF Clients, Handler, ClaimTopic, GiveUp, history
  <2>2. UNCHANGED cancelled
    BY <1>1 DEF Clients, Handler, ClaimTopic, GiveUp, ReadConnect, ReadPublish,
                FirstPacketFails, ReadEnds, Add, Puback, Release, Remove, CloseConn, Claim,
                SendCancelled
  <2> QED
    BY <2>1, <2>2, PipelineIdle
<1>2. ASSUME NEW h \in Handlers, Publish(h) PROVE [I!Next]_(I!vars)
  <2>1. pkt[h].topic \in TopicNames
    BY <1>2, ConnectionAssumption DEF Publish, Send, Inv1, HandlerState
  <2> QED
    BY <1>2, <2>1 DEF Publish, I!Next
<1>3. CASE Server
  BY <1>3, PipelineIdle DEF Server, Accept, CloseListener, CloseAll, history
<1>4. CASE RouteMessage \/ Router \/ RouterStops \/ CancelAll \/ Crash
  BY <1>4 DEF RouteMessage, Router, RouterStops, CancelAll, Crash, I!Next
<1>5. ASSUME NEW t \in Topics,
             Consumer(t) \/ LoseMessage(t) \/ ForwardMessage(t) \/ ConsumerStops(t)
      PROVE  [I!Next]_(I!vars)
  BY <1>5 DEF Consumer, LoseMessage, ForwardMessage, ConsumerStops, I!Next, I!ConsumerStep
<1>6. CASE FanOut \/ FanOutStops \/ \E w \in Workers : Work(w)
  BY <1>6 DEF FanOut, FanOutStops, Work, I!Next
<1>7. CASE UNCHANGED brokerVars
  BY <1>7, PipelineIdle DEF brokerVars, vars, history
<1> QED
  BY <1>1, <1>2, <1>3, <1>4, <1>5, <1>6, <1>7 DEF BrokerNext

\* The two copies of Ingestion, Broker's own and the one of its proofs, agree.
LEMMA StepsAgree == [I!Next]_(I!vars) => [P!Next]_(P!vars)
<1> USE DEF I!router, P!router, I!consumer, P!consumer, I!fanout, P!fanout, I!NoMsgs, P!NoMsgs
<1> SUFFICES ASSUME [I!Next]_(I!vars) PROVE [P!Next]_(P!vars)
  OBVIOUS
<1>1. ASSUME NEW t \in TopicNames, I!Submit(t) PROVE P!Submit(t)
  BY <1>1 DEF I!Submit, P!Submit
<1>2. I!Route \/ I!Enqueue \/ I!RouterStops => P!Route \/ P!Enqueue \/ P!RouterStops
  BY DEF I!Route, P!Route, I!Enqueue, P!Enqueue, I!RouterStops, P!RouterStops
<1>3. ASSUME NEW t \in Topics, I!ConsumerStep(t) \/ I!Forward(t)
      PROVE  P!ConsumerStep(t) \/ P!Forward(t)
  BY <1>3 DEF I!ConsumerStep, I!Receive, I!SaveRawData, I!SaveFails, I!ConsumerStops, I!Forward,
              P!ConsumerStep, P!Receive, P!SaveRawData, P!SaveFails, P!ConsumerStops, P!Forward
<1>4. I!FanOutReceive \/ I!FanOutDone \/ I!FanOutStops =>
        P!FanOutReceive \/ P!FanOutDone \/ P!FanOutStops
  BY DEF I!FanOutReceive, P!FanOutReceive, I!FanOutDone, P!FanOutDone,
         I!FanOutStops, P!FanOutStops
<1>5. ASSUME NEW w \in Workers, I!Process(w) PROVE P!Process(w)
  BY <1>5 DEF I!Process, P!Process
<1>6. I!Cancel \/ I!Crash => P!Cancel \/ P!Crash
  BY DEF I!Cancel, P!Cancel, I!Crash, P!Crash
<1>7. UNCHANGED I!vars => UNCHANGED P!vars
  BY DEF I!vars, P!vars
<1> QED
  BY <1>1, <1>2, <1>3, <1>4, <1>5, <1>6, <1>7 DEF I!Next, P!Next

\* Every step of the broker is one of the connections, leaves them alone, or is
\* a crash, after which they are as in the beginning.
LEMMA StepOfConnection ==
    ASSUME [BrokerNext]_brokerVars
    PROVE  [Next]_vars \/ Init'
<1>1. ASSUME NEW h \in Handlers,
             Clients(h) \/ Handler(h) \/ ClaimTopic(h) \/ Publish(h) \/ GiveUp(h)
      PROVE  Next
  BY <1>1 DEF Clients, Handler, ClaimTopic, Publish, GiveUp, Next, ClientAction, HandlerStep
<1>2. Server \/ RouteMessage \/ CancelAll => Next
  BY DEF Server, RouteMessage, CancelAll, Next
<1>3. Router \/ RouterStops \/ FanOut \/ FanOutStops => UNCHANGED vars
  BY DEF Router, RouterStops, FanOut, FanOutStops
<1>4. ASSUME NEW t \in Topics,
             Consumer(t) \/ LoseMessage(t) \/ ForwardMessage(t) \/ ConsumerStops(t)
      PROVE  UNCHANGED vars
  BY <1>4 DEF Consumer, LoseMessage, ForwardMessage, ConsumerStops
<1>5. ASSUME NEW w \in Workers, Work(w) PROVE UNCHANGED vars
  BY <1>5 DEF Work
<1>6. Crash => Init'
  BY DEF Crash, I!Crash, Init
<1>7. UNCHANGED brokerVars => UNCHANGED vars
  BY DEF brokerVars
<1> QED
  BY <1>1, <1>2, <1>3, <1>4, <1>5, <1>6, <1>7 DEF BrokerNext

-----------------------------------------------------------------------------
(* The inductive invariant                                                  *)

HistoryOK ==
    /\ author \in [TopicNames -> Seq(ClientIDs)]
    /\ since \in [Topics -> Nat]
    /\ lost \in [Topics -> SUBSET Nat]

\* The messages of topic t that are stored or on their way.
Kept(t) == InChannel(t) \cup InRouter(t) \cup InQueue(t) \cup InSave(t) \cup Stored(t)

Accounted(t) ==
    /\ Kept(t) \cup lost[t] = 1..Len(author[t])
    /\ Kept(t) \cap lost[t] = {}

\* All that was accepted since the owner's claim is the owner's.
Ownership(t) ==
    /\ since[t] <= Len(author[t])
    /\ owners[t] # None =>
         \A k \in (since[t] + 1)..Len(author[t]) : author[t][k] = owners[t]

BrokerInv ==
    /\ Inv1 /\ Inv2
    /\ P!PipelineInv
    /\ HistoryOK
    /\ \A t \in Topics : Accounted(t) /\ P!Increasing(rawData[t])

\* Without takeovers a sender owns its topic (Inv3).
OwnershipInv == Inv3 /\ \A t \in Topics : Ownership(t)

\* The places of a message, in the terms of the pipeline's proof.
LEMMA SamePlaces ==
    ASSUME NEW t \in Topics
    PROVE  /\ InChannel(t) = P!AtInput(t) /\ InRouter(t) = P!AtRouter(t)
           /\ InQueue(t) = P!AtQueue(t) /\ InSave(t) = P!AtSave(t)
           /\ Stored(t) = P!Stored(t)
<1>1. InChannel(t) = P!AtInput(t)
  BY DEF InChannel, Numbers, P!AtInput, P!OfTopic
<1>2. /\ InRouter(t) = P!AtRouter(t) /\ InQueue(t) = P!AtQueue(t)
      /\ InSave(t) = P!AtSave(t) /\ Stored(t) = P!Stored(t)
  BY DEF InRouter, InQueue, InSave, Stored, Numbers, P!AtRouter, P!AtQueue, P!AtSave,
         P!Stored, P!Elems
<1> QED
  BY <1>1, <1>2

-----------------------------------------------------------------------------
(* Moving a message                                                         *)

LEMMA TailNumbers ==
    ASSUME NEW S, NEW s \in Seq(S), s # << >>
    PROVE  Numbers(s) = {Head(s)} \cup Numbers(Tail(s))
<1>1. \A i \in DOMAIN s : i = 1 \/ (i - 1 \in DOMAIN Tail(s) /\ Tail(s)[i - 1] = s[i])
  OBVIOUS
<1>2. \A i \in DOMAIN Tail(s) : i + 1 \in DOMAIN s /\ Tail(s)[i] = s[i + 1]
  OBVIOUS
<1>3. 1 \in DOMAIN s /\ Head(s) = s[1]
  OBVIOUS
<1>4. ASSUME NEW x \in Numbers(s) PROVE x \in {Head(s)} \cup Numbers(Tail(s))
  <2>1. PICK i \in DOMAIN s : x = s[i]
    BY DEF Numbers
  <2> QED
    BY <1>1, <1>3, <2>1 DEF Numbers
<1>5. Numbers(Tail(s)) \subseteq Numbers(s) /\ Head(s) \in Numbers(s)
  BY <1>2, <1>3 DEF Numbers
<1> QED
  BY <1>4, <1>5

LEMMA AppendNumbers ==
    ASSUME NEW S, NEW s \in Seq(S), NEW e \in S
    PROVE  Numbers(Append(s, e)) = Numbers(s) \cup {e}
<1>1. /\ \A i \in DOMAIN s : i \in DOMAIN Append(s, e) /\ Append(s, e)[i] = s[i]
      /\ Len(s) + 1 \in DOMAIN Append(s, e) /\ Append(s, e)[Len(s) + 1] = e
      /\ \A i \in DOMAIN Append(s, e) : i \in DOMAIN s \/ i = Len(s) + 1
  OBVIOUS
<1> QED
  BY <1>1 DEF Numbers

LEMMA BrokerInitInv == BrokerInit => BrokerInv
<1> SUFFICES ASSUME BrokerInit PROVE BrokerInv
  OBVIOUS
<1>1. Inv1 /\ Inv2
  BY Inv1Init, Inv2Init DEF BrokerInit
<1>2. P!Init
  BY DEF BrokerInit, I!Init, P!Init, I!NoMsgs, P!NoMsgs
<1>3. P!PipelineInv
  BY <1>2, IngestionAssumed, P!InitInv
<1>4. HistoryOK
  BY DEF BrokerInit, HistoryOK
<1>5. ASSUME NEW t \in Topics PROVE Accounted(t) /\ P!Increasing(rawData[t])
  <2>1. /\ InChannel(t) = {} /\ InRouter(t) = {} /\ InQueue(t) = {} /\ InSave(t) = {}
        /\ Stored(t) = {}
    BY DEF BrokerInit, I!Init, I!NoMsgs, InChannel, InRouter, InQueue, InSave, Stored, Numbers
  <2>2. lost[t] = {} /\ 1..Len(author[t]) = {}
    BY ConnectionAssumption DEF BrokerInit
  <2>3. P!Increasing(rawData[t])
    BY DEF BrokerInit, I!Init, I!NoMsgs, P!Increasing
  <2> QED
    BY <2>1, <2>2, <2>3 DEF Accounted, Kept
<1> QED
  BY <1>1, <1>3, <1>4, <1>5 DEF BrokerInv

\* Every step keeps the invariants of the parts.
LEMMA PartsStep ==
    ASSUME BrokerInv, [BrokerNext]_brokerVars
    PROVE  Inv1' /\ Inv2' /\ P!PipelineInv'
<1>1. Inv1 /\ Inv2 /\ P!PipelineInv
  BY DEF BrokerInv
<1>2. [Next]_vars \/ Init'
  BY StepOfConnection
<1>3. Init' => Inv1' /\ Inv2'
  BY Inv1Init, Inv2Init, PTL
<1>4. [Next]_vars => Inv1' /\ Inv2'
  BY <1>1, Inv1Step, Inv2Step
<1>5. [P!Next]_(P!vars)
  BY <1>1, StepOfPipeline, StepsAgree
<1>6. P!PipelineInv'
  BY <1>1, <1>5, IngestionAssumed, P!NextInv
<1> QED
  BY <1>2, <1>3, <1>4, <1>6

\* The types the steps below need.
LEMMA BrokerTypes ==
    ASSUME BrokerInv
    PROVE  /\ input \in Seq([topic : TopicNames, n : Nat])
           /\ rpc = "enqueue" => rmsg \in [topic : Topics, n : Nat]
           /\ queue \in [Topics -> Seq(Nat)]
           /\ cpc \in [Topics -> {"select", "save", "forward", "stopped"}]
           /\ cur \in [Topics -> Nat] /\ rawData \in [Topics -> Seq(Nat)]
           /\ author \in [TopicNames -> Seq(ClientIDs)]
           /\ since \in [Topics -> Nat] /\ lost \in [Topics -> SUBSET Nat]
  BY DEF BrokerInv, HistoryOK, P!PipelineInv, P!TypeOK, P!Msgs, P!QueuedMsgs

\* A step that leaves alone the messages on their way to the table.
LEMMA AccountedIdle ==
    ASSUME NEW t \in Topics, Accounted(t), UNCHANGED <<author, lost, rawData, input, queue>>,
           InRouter(t)' = InRouter(t), InSave(t)' = InSave(t)
    PROVE  Accounted(t)'
  BY DEF Accounted, Kept, InChannel, InQueue, Stored, Numbers

\* A step that moves a message from one place to another.
LEMMA AccountedMove ==
    ASSUME NEW t \in Topics, Accounted(t), UNCHANGED <<author, lost>>, Kept(t)' = Kept(t)
    PROVE  Accounted(t)'
  BY DEF Accounted

LEMMA AccountedStep ==
    ASSUME BrokerInv, [BrokerNext]_brokerVars, NEW t \in Topics
    PROVE  Accounted(t)'
<1> USE DEF I!router, I!consumer, I!fanout
<1>a. Accounted(t) /\ t \in TopicNames
  BY ConnectionAssumption DEF BrokerInv
<1>i. ASSUME UNCHANGED <<author, lost, rawData, input, queue, rpc, rmsg, cpc, cur>>
      PROVE  Accounted(t)'
  BY <1>a, <1>i, AccountedIdle DEF InRouter, InSave
<1>1. ASSUME NEW h \in Handlers, Clients(h) \/ Handler(h) \/ ClaimTopic(h) \/ GiveUp(h)
      PROVE  Accounted(t)'
  BY <1>1, <1>i DEF Clients, Handler, ClaimTopic, GiveUp, history, ingestion
<1>2. ASSUME NEW h \in Handlers, Publish(h) PROVE Accounted(t)'
  <2> DEFINE u == pkt[h].topic
             m == [topic |-> u, n |-> sent[u] + 1]
             M == [topic : TopicNames, n : Nat]
  <2>1. u \in Topics /\ u \in TopicNames /\ id[h] \in ClientIDs
    BY <1>2, ConnectionAssumption
       DEF Publish, Send, BrokerInv, Inv1, HandlerState, Registered, Serving, Publishing
  <2>2. /\ author' = [author EXCEPT ![u] = Append(@, id[h])] /\ input' = Append(input, m)
        /\ UNCHANGED <<lost, rawData, queue, rpc, rmsg, cpc, cur>>
    BY <1>2 DEF Publish, I!Submit
  <2>3. sent[u] \in Nat /\ sent[u] = Len(author[u])
    BY <2>1, BrokerTypes DEF sent
  <2>4. m \in M /\ m.topic = u /\ m.n = Len(author[u]) + 1 /\ input \in Seq(M)
    BY <2>1, <2>3, BrokerTypes
  <2> HIDE DEF m, M
  <2>5. Numbers(input)' = Numbers(input) \cup {m}
    BY <2>2, <2>4, AppendNumbers
  <2>6. /\ InRouter(t)' = InRouter(t) /\ InQueue(t)' = InQueue(t) /\ InSave(t)' = InSave(t)
        /\ Stored(t)' = Stored(t)
    BY <2>2 DEF InRouter, InQueue, InSave, Stored, Numbers
  <2>7. CASE u = t
    <3>1. InChannel(t)' = InChannel(t) \cup {Len(author[t]) + 1}
      BY <2>4, <2>5, <2>7 DEF InChannel
    <3>2. Len(author'[t]) = Len(author[t]) + 1 /\ Len(author[t]) \in Nat
      BY <2>1, <2>2, <2>7, BrokerTypes
    <3>3. 1..Len(author'[t]) = 1..Len(author[t]) \cup {Len(author[t]) + 1}
      BY <3>2
    <3>4. Len(author[t]) + 1 \notin 1..Len(author[t])
      BY <3>2
    <3> QED
      BY <1>a, <2>2, <2>6, <3>1, <3>3, <3>4 DEF Accounted, Kept
  <2>8. CASE u # t
    <3>1. InChannel(t)' = InChannel(t)
      BY <2>4, <2>5, <2>8 DEF InChannel
    <3>2. author'[t] = author[t]
      BY <2>2, <2>8, <1>a, BrokerTypes
    <3> QED
      BY <1>a, <2>2, <2>6, <3>1, <3>2 DEF Accounted, Kept
  <2> QED
    BY <2>7, <2>8
<1>3. CASE Server \/ CancelAll \/ RouterStops \/ FanOut \/ FanOutStops \/ \E w \in Workers : Work(w)
  <2>1. CASE Server
    BY <2>1, <1>i DEF Server, history, ingestion
  <2>2. CASE CancelAll
    BY <2>2, <1>i DEF CancelAll, history, I!Cancel
  <2>3. CASE RouterStops
    <3>1. UNCHANGED <<author, lost, rawData, input, queue, cpc, cur>> /\ rpc = "select" /\ rpc' = "stopped"
      BY <2>3 DEF RouterStops, history, I!RouterStops
    <3> QED
      BY <1>a, <3>1, AccountedIdle DEF InRouter, InSave
  <2>4. CASE FanOut \/ FanOutStops \/ \E w \in Workers : Work(w)
    BY <2>4, <1>i DEF FanOut, FanOutStops, Work, history, I!FanOutReceive, I!FanOutDone,
                      I!FanOutStops, I!Process
  <2> QED
    BY <1>3, <2>1, <2>2, <2>3, <2>4
<1>4. CASE RouteMessage
  <2>1. /\ rpc = "select" /\ input # << >> /\ input' = Tail(input)
        /\ UNCHANGED <<author, lost, rawData, queue, cpc, cur>>
        /\ IF Head(input).topic \in Topics
             THEN rpc' = "enqueue" /\ rmsg' = Head(input)
             ELSE UNCHANGED <<rpc, rmsg>>
    BY <1>4 DEF RouteMessage, history, I!Route
  <2>2. Numbers(input) = {Head(input)} \cup Numbers(input)'
    BY <2>1, BrokerTypes, TailNumbers
  <2>3. InChannel(t) \cup InRouter(t) = InChannel(t)' \cup InRouter(t)'
    BY <2>1, <2>2 DEF InChannel, InRouter
  <2>4. InQueue(t)' = InQueue(t) /\ InSave(t)' = InSave(t) /\ Stored(t)' = Stored(t)
    BY <2>1 DEF InQueue, InSave, Stored, Numbers
  <2>5. Kept(t)' = Kept(t)
    BY <2>3, <2>4 DEF Kept
  <2> QED
    BY <1>a, <2>1, <2>5, AccountedMove
<1>5. CASE Router
  <2> DEFINE u == rmsg.topic
  <2>1. /\ rpc = "enqueue" /\ rpc' = "select" /\ queue' = [queue EXCEPT ![u] = Append(@, rmsg.n)]
        /\ UNCHANGED <<author, lost, rawData, input, cpc, cur>>
    BY <1>5 DEF Router, history, I!Enqueue
  <2>2. u \in Topics /\ rmsg.n \in Nat /\ queue[u] \in Seq(Nat)
    BY <2>1, BrokerTypes
  <2>3. InRouter(t)' = {}
    BY <2>1 DEF InRouter
  <2>4. InQueue(t)' = InQueue(t) \cup InRouter(t)
    <3>1. CASE u = t
      <4>1. queue'[t] = Append(queue[t], rmsg.n)
        BY <2>1, <2>2, <3>1, BrokerTypes
      <4>2. Numbers(Append(queue[t], rmsg.n)) = Numbers(queue[t]) \cup {rmsg.n}
        BY <2>2, <3>1, AppendNumbers
      <4> QED
        BY <2>1, <3>1, <4>1, <4>2 DEF InQueue, InRouter
    <3>2. CASE u # t
      <4>1. queue'[t] = queue[t]
        BY <2>1, <3>2, BrokerTypes
      <4> QED
        BY <3>2, <4>1 DEF InQueue, InRouter
    <3> QED
      BY <3>1, <3>2
  <2>5. InChannel(t)' = InChannel(t) /\ InSave(t)' = InSave(t) /\ Stored(t)' = Stored(t)
    BY <2>1 DEF InChannel, InSave, Stored, Numbers
  <2>6. Kept(t)' = Kept(t)
    BY <2>3, <2>4, <2>5 DEF Kept
  <2> QED
    BY <1>a, <2>1, <2>6, AccountedMove
<1>c. ASSUME NEW u \in Topics, u # t, UNCHANGED <<author, input, rpc, rmsg>>,
             queue'[t] = queue[t], rawData'[t] = rawData[t],
             cpc'[t] = cpc[t], cur'[t] = cur[t], lost'[t] = lost[t]
      PROVE  Accounted(t)'
  BY <1>a, <1>c DEF Accounted, Kept, InChannel, InRouter, InQueue, InSave, Stored, Numbers
<1>6. ASSUME NEW u \in Topics, Consumer(u) \/ ForwardMessage(u) \/ ConsumerStops(u)
      PROVE  Accounted(t)'
  <2>1. UNCHANGED <<author, lost, input, rpc, rmsg>>
    BY <1>6 DEF Consumer, ForwardMessage, ConsumerStops, history, I!Receive, I!SaveRawData,
                I!Forward, I!ConsumerStops
  <2>2. InChannel(t)' = InChannel(t) /\ InRouter(t)' = InRouter(t)
    BY <2>1 DEF InChannel, InRouter, Numbers
  <2>3. CASE u # t
    <3>1. /\ queue'[t] = queue[t] /\ rawData'[t] = rawData[t]
          /\ cpc'[t] = cpc[t] /\ cur'[t] = cur[t]
      BY <1>6, <2>3, BrokerTypes DEF Consumer, ForwardMessage, ConsumerStops,
         I!Receive, I!SaveRawData, I!Forward, I!ConsumerStops
    <3> QED
      BY <1>c, <2>1, <2>3, <3>1
  <2>4. CASE u = t /\ I!Receive(t)
    <3>1. /\ cpc[t] = "select" /\ queue[t] # << >> /\ queue'[t] = Tail(queue[t])
          /\ cur'[t] = Head(queue[t]) /\ cpc'[t] = "save" /\ rawData' = rawData
      BY <2>4, BrokerTypes DEF I!Receive
    <3>2. queue[t] \in Seq(Nat)
      BY BrokerTypes
    <3>3. InQueue(t) = InSave(t)' \cup InQueue(t)' /\ InSave(t) = {}
      BY <3>1, <3>2, TailNumbers DEF InQueue, InSave
    <3>4. Stored(t)' = Stored(t)
      BY <3>1 DEF Stored, Numbers
    <3>5. Kept(t)' = Kept(t)
      BY <2>2, <3>3, <3>4 DEF Kept
    <3> QED
      BY <1>a, <2>1, <3>5, AccountedMove
  <2>5. CASE u = t /\ I!SaveRawData(t)
    <3>1. /\ cpc[t] = "save" /\ rawData'[t] = Append(rawData[t], cur[t])
          /\ cpc'[t] = "forward" /\ queue' = queue
      BY <2>5, BrokerTypes DEF I!SaveRawData
    <3>2. rawData[t] \in Seq(Nat) /\ cur[t] \in Nat
      BY BrokerTypes
    <3>3. Stored(t)' = Stored(t) \cup InSave(t) /\ InSave(t)' = {}
      BY <3>1, <3>2, AppendNumbers DEF Stored, InSave
    <3>4. InQueue(t)' = InQueue(t)
      BY <3>1 DEF InQueue, Numbers
    <3>5. Kept(t)' = Kept(t)
      BY <2>2, <3>3, <3>4 DEF Kept
    <3> QED
      BY <1>a, <2>1, <3>5, AccountedMove
  <2>6. CASE u = t /\ (I!Forward(t) \/ I!ConsumerStops(t))
    <3>1. UNCHANGED <<rawData, queue>> /\ cpc[t] # "save" /\ cpc'[t] # "save"
      BY <2>6, BrokerTypes DEF I!Forward, I!ConsumerStops
    <3>2. InSave(t)' = InSave(t)
      BY <3>1 DEF InSave
    <3> QED
      BY <1>a, <2>1, <2>2, <3>1, <3>2, AccountedIdle
  <2> QED
    BY <1>6, <2>3, <2>4, <2>5, <2>6 DEF Consumer, ForwardMessage, ConsumerStops
<1>7. ASSUME NEW u \in Topics, LoseMessage(u) PROVE Accounted(t)'
  <2>1. /\ UNCHANGED <<author, input, rpc, rmsg, queue, rawData, cur>>
        /\ cpc[u] = "save" /\ cpc' = [cpc EXCEPT ![u] = "select"]
        /\ lost' = [lost EXCEPT ![u] = @ \cup {cur[u]}]
    BY <1>7 DEF LoseMessage, I!SaveFails
  <2>2. CASE u # t
    BY <1>c, <2>1, <2>2, BrokerTypes
  <2>3. CASE u = t
    <3>1. InSave(t) = {cur[t]} /\ InSave(t)' = {} /\ lost'[t] = lost[t] \cup {cur[t]}
      BY <2>1, <2>3, BrokerTypes DEF InSave
    <3>2. /\ InChannel(t)' = InChannel(t) /\ InRouter(t)' = InRouter(t)
          /\ InQueue(t)' = InQueue(t) /\ Stored(t)' = Stored(t)
      BY <2>1 DEF InChannel, InRouter, InQueue, Stored, Numbers
    <3>3. cur[t] \notin InChannel(t) \cup InRouter(t) \cup InQueue(t) \cup Stored(t)
      <4>1. P!Upstream(t)
        BY DEF BrokerInv, P!PipelineInv
      <4>2. /\ P!Before(Stored(t), {cur[t]})
            /\ P!Before({cur[t]}, InQueue(t) \cup InRouter(t) \cup InChannel(t))
        BY <3>1, <4>1, SamePlaces DEF P!Upstream, P!Before
      <4>3. ~(cur[t] < cur[t])
        BY BrokerTypes
      <4> QED
        BY <4>2, <4>3 DEF P!Before
    <3> QED
      BY <1>a, <2>1, <3>1, <3>2, <3>3 DEF Accounted, Kept
  <2> QED
    BY <2>2, <2>3
<1>8. CASE Crash
  <2>1. /\ input' = << >> /\ rpc' = "select" /\ queue'[t] = << >> /\ cpc'[t] = "select"
        /\ UNCHANGED <<author, rawData>>
        /\ lost'[t] = 1..Len(author[t]) \ Stored(t)
    BY <1>8 DEF Crash, I!Crash, I!NoMsgs, Stored, Numbers
  <2>2. InChannel(t)' = {} /\ InRouter(t)' = {} /\ InQueue(t)' = {} /\ InSave(t)' = {}
    BY <2>1 DEF InChannel, InRouter, InQueue, InSave, Numbers
  <2>3. Stored(t)' = Stored(t) /\ Stored(t) \subseteq 1..Len(author[t])
    BY <1>a, <2>1 DEF Stored, Numbers, Accounted, Kept
  <2> QED
    BY <2>1, <2>2, <2>3 DEF Accounted, Kept
<1>9. CASE UNCHANGED brokerVars
  BY <1>9, <1>i DEF brokerVars, history, ingestion
<1> QED
  BY <1>1, <1>2, <1>3, <1>4, <1>5, <1>6, <1>7, <1>8, <1>9 DEF BrokerNext

\* Only Publish extends author, by a client's ID.
LEMMA HistoryStep ==
    ASSUME BrokerInv, [BrokerNext]_brokerVars
    PROVE  HistoryOK'
<1>a. HistoryOK
  BY DEF BrokerInv
<1>1. ASSUME NEW h \in Handlers, ClaimTopic(h) PROVE HistoryOK'
  <2>1. \A t \in Topics : Len(author[t]) \in Nat /\ since[t] \in Nat
    BY <1>a, ConnectionAssumption DEF HistoryOK
  <2> QED
    BY <1>1, <1>a, <2>1 DEF ClaimTopic, HistoryOK
<1>2. ASSUME NEW h \in Handlers, Publish(h) PROVE HistoryOK'
  <2>1. pkt[h].topic \in TopicNames /\ id[h] \in ClientIDs
    BY <1>2, ConnectionAssumption
       DEF Publish, Send, BrokerInv, Inv1, HandlerState, Registered, Serving, Publishing
  <2> QED
    BY <1>2, <1>a, <2>1 DEF Publish, HistoryOK
<1>3. ASSUME NEW t \in Topics, LoseMessage(t) PROVE HistoryOK'
  BY <1>3, <1>a, BrokerTypes DEF LoseMessage, HistoryOK
<1>4. CASE Crash
  <2>1. \A t \in Topics : 1..Len(author[t]) \subseteq Nat
    BY <1>a, ConnectionAssumption DEF HistoryOK
  <2> QED
    BY <1>4, <1>a, <2>1 DEF Crash, HistoryOK
<1>5. CASE UNCHANGED history
  BY <1>5, <1>a DEF history, HistoryOK
<1>6. \/ \E h \in Handlers : ClaimTopic(h) \/ Publish(h)
      \/ \E t \in Topics : LoseMessage(t)
      \/ Crash \/ UNCHANGED history
  BY DEF BrokerNext, brokerVars, Clients, Handler, GiveUp, Server, RouteMessage, Router,
         RouterStops, Consumer, ForwardMessage, ConsumerStops, FanOut, FanOutStops, Work,
         CancelAll
<1> QED
  BY <1>1, <1>2, <1>3, <1>4, <1>5, <1>6

\* Only SaveRawData changes raw_data, by a row above all others.
LEMMA RowsStep ==
    ASSUME BrokerInv, [BrokerNext]_brokerVars, NEW t \in Topics
    PROVE  P!Increasing(rawData[t])'
<1>a. P!Increasing(rawData[t])
  BY DEF BrokerInv
<1>1. CASE I!SaveRawData(t)
  <2>1. cpc[t] = "save" /\ rawData'[t] = Append(rawData[t], cur[t])
    BY <1>1, BrokerTypes DEF I!SaveRawData
  <2>2. P!Before(P!Elems(rawData[t]), {cur[t]})
    BY <2>1 DEF BrokerInv, P!PipelineInv, P!Upstream, P!Stored, P!AtSave, P!Before
  <2>3. rawData[t] \in Seq(Nat) /\ cur[t] \in Nat
    BY BrokerTypes
  <2>4. P!Increasing(Append(rawData[t], cur[t]))
    BY <1>a, <2>2, <2>3, IngestionAssumed, P!SendElems
  <2> QED
    BY <2>1, <2>4 DEF P!Increasing
<1>2. CASE ~I!SaveRawData(t)
  <2>1. [I!Next]_(I!vars)
    BY StepOfPipeline DEF BrokerInv
  <2>2. rawData'[t] = rawData[t]
    BY <1>2, <2>1, BrokerTypes
       DEF I!Next, I!vars, I!Submit, I!Route, I!Enqueue, I!RouterStops, I!ConsumerStep,
           I!Receive, I!SaveRawData, I!SaveFails, I!ConsumerStops, I!Forward, I!FanOutReceive,
           I!FanOutDone, I!FanOutStops, I!Process, I!Cancel, I!Crash
  <2> QED
    BY <1>a, <2>2 DEF P!Increasing
<1> QED
  BY <1>1, <1>2

LEMMA BrokerNextInv == BrokerInv /\ [BrokerNext]_brokerVars => BrokerInv'
<1> SUFFICES ASSUME BrokerInv, [BrokerNext]_brokerVars PROVE BrokerInv'
  OBVIOUS
<1>1. \A t \in Topics : Accounted(t)' /\ P!Increasing(rawData[t])'
  BY AccountedStep, RowsStep
<1> QED
  BY <1>1, PartsStep, HistoryStep DEF BrokerInv

LEMMA BrokerInvariant == BrokerSpec => []BrokerInv
  BY BrokerInitInv, BrokerNextInv, PTL DEF BrokerSpec

-----------------------------------------------------------------------------
(* Theorems                                                                 *)

\* The composed broker implements the log: with real clients in front of it, a
\* full msgChan pushing back on them, cancellations and crashes of both layers,
\* raw_data and the workers still see one FIFO log per topic.
THEOREM BrokerImplementsLog == BrokerSpec => I!ImplementsTopicLog
<1>1. BrokerInit => P!Init
  BY DEF BrokerInit, I!Init, P!Init, I!NoMsgs, P!NoMsgs
<1>2. BrokerInv /\ [BrokerNext]_brokerVars => [P!Next]_(P!vars)
  BY StepOfPipeline, StepsAgree DEF BrokerInv
<1>3. BrokerSpec => P!Spec
  BY <1>1, <1>2, BrokerInvariant, PTL DEF BrokerSpec, P!Spec
<1>4. P!Spec => P!ImplementsTopicLog
  BY IngestionAssumed, P!PipelineImplementsLog
<1>5. P!Abstract!Init => I!Abstract!Init
  BY DEF P!Abstract!Init, I!Abstract!Init
<1>6. [P!Abstract!Next]_(P!Abstract!vars) => [I!Abstract!Next]_(I!Abstract!vars)
  BY DEF P!Abstract!Next, P!Abstract!vars, P!Abstract!Accept, P!Abstract!Persist,
         P!Abstract!Deliver, P!Abstract!Above, I!Abstract!Next, I!Abstract!vars,
         I!Abstract!Accept, I!Abstract!Persist, I!Abstract!Deliver, I!Abstract!Above
<1> QED
  BY <1>3, <1>4, <1>5, <1>6, PTL
     DEF P!ImplementsTopicLog, P!Abstract!Spec, I!ImplementsTopicLog, I!Abstract!Spec

\* A message that msgChan has taken is in one place on its way to raw_data, in
\* it, or among the losses of a failed save or a crash; never in two and never
\* nowhere.
THEOREM NothingDisappears == BrokerSpec => []AcceptedAccountedFor
<1>1. BrokerInv => AcceptedAccountedFor
  <2> SUFFICES ASSUME BrokerInv, NEW t \in Topics
               PROVE  LET places == <<InChannel(t), InRouter(t), InQueue(t), InSave(t),
                                      Stored(t), lost[t]>>
                      IN  /\ UNION Numbers(places) = 1..Len(author[t])
                          /\ \A i, j \in DOMAIN places :
                               i # j => places[i] \cap places[j] = {}
    BY DEF AcceptedAccountedFor
  <2> DEFINE places == <<InChannel(t), InRouter(t), InQueue(t), InSave(t), Stored(t), lost[t]>>
  <2>1. Accounted(t)
    BY DEF BrokerInv
  <2>2. /\ DOMAIN places = {1, 2, 3, 4, 5, 6}
        /\ places[1] = InChannel(t) /\ places[2] = InRouter(t) /\ places[3] = InQueue(t)
        /\ places[4] = InSave(t) /\ places[5] = Stored(t) /\ places[6] = lost[t]
    OBVIOUS
  <2> HIDE DEF places
  <2>3. UNION Numbers(places) = Kept(t) \cup lost[t]
    <3>1. Numbers(places) =
            {InChannel(t), InRouter(t), InQueue(t), InSave(t), Stored(t), lost[t]}
      BY <2>2 DEF Numbers
    <3> QED
      BY <3>1 DEF Kept
  <2>4. P!Upstream(t) /\ Kept(t) \subseteq Nat
    BY <2>1, BrokerTypes, ConnectionAssumption DEF BrokerInv, P!PipelineInv, Accounted
  <2>5. ASSUME NEW A \in SUBSET Kept(t), NEW B \in SUBSET Kept(t), P!Before(A, B)
        PROVE  A \cap B = {}
    <3>1. \A n \in Nat : ~(n < n)
      OBVIOUS
    <3> QED
      BY <2>4, <2>5, <3>1 DEF P!Before
  <2>6. /\ Stored(t) \cap (InSave(t) \cup InQueue(t) \cup InRouter(t) \cup InChannel(t)) = {}
        /\ InSave(t) \cap (InQueue(t) \cup InRouter(t) \cup InChannel(t)) = {}
        /\ InQueue(t) \cap (InRouter(t) \cup InChannel(t)) = {}
        /\ InRouter(t) \cap InChannel(t) = {}
    <3>1. /\ P!Before(Stored(t), InSave(t) \cup InQueue(t) \cup InRouter(t) \cup InChannel(t))
          /\ P!Before(InSave(t), InQueue(t) \cup InRouter(t) \cup InChannel(t))
          /\ P!Before(InQueue(t), InRouter(t) \cup InChannel(t))
          /\ P!Before(InRouter(t), InChannel(t))
      BY <2>4, SamePlaces DEF P!Upstream
    <3> QED
      BY <2>5, <3>1 DEF Kept
  <2>7. \A i, j \in DOMAIN places : i # j => places[i] \cap places[j] = {}
    BY <2>1, <2>2, <2>6 DEF Accounted, Kept
  <2>8. UNION Numbers(places) = 1..Len(author[t])
    BY <2>1, <2>3 DEF Accounted
  <2> QED
    BY <2>7, <2>8 DEF places
<1> QED
  BY <1>1, BrokerInvariant, PTL

-----------------------------------------------------------------------------
(* From here on clients never reuse an ID that is still being served.       *)

LEMMA OwnershipStep ==
    ~AllowTakeover /\ BrokerInv /\ OwnershipInv /\ [BrokerNext]_brokerVars => OwnershipInv'
<1> SUFFICES ASSUME ~AllowTakeover, BrokerInv, OwnershipInv, [BrokerNext]_brokerVars
             PROVE  OwnershipInv'
  OBVIOUS
<1>a. Inv1 /\ Inv2 /\ Inv3 /\ \A t \in Topics : Ownership(t)
  BY DEF BrokerInv, OwnershipInv
<1>b. Inv3'
  <2>1. [Next]_vars \/ Init'
    BY StepOfConnection
  <2>2. Init' => Inv3'
    BY Inv3Init, PTL
  <2>3. [Next]_vars => Inv3'
    BY <1>a, Inv3Step
  <2> QED
    BY <2>1, <2>2, <2>3
<1>c. \A t \in Topics : t \in TopicNames /\ author[t] \in Seq(ClientIDs) /\ since[t] \in Nat
  BY BrokerTypes, ConnectionAssumption
<1> SUFFICES ASSUME NEW t \in Topics PROVE Ownership(t)'
  BY <1>b DEF OwnershipInv
<1>1. ASSUME NEW h \in Handlers, Publish(h) PROVE Ownership(t)'
  <2> DEFINE u == pkt[h].topic
  <2>1. u \in Topics /\ u \in TopicNames /\ id[h] \in ClientIDs
    BY <1>1, ConnectionAssumption, <1>a
       DEF Publish, Send, Inv1, HandlerState, Registered, Serving, Publishing
  <2>2. owners[u] = id[h]
    BY <1>1, <1>a DEF Publish, Send, Inv3, SenderOwnsTopic
  <2>3. /\ author' = [author EXCEPT ![u] = Append(@, id[h])] /\ UNCHANGED <<since, owners>>
    BY <1>1 DEF Publish, Send
  <2>4. CASE u # t
    <3>1. author'[t] = author[t]
      BY <2>3, <2>4, <1>c, BrokerTypes
    <3> QED
      BY <1>a, <2>3, <3>1 DEF Ownership
  <2>5. CASE u = t
    <3>1. author'[t] = Append(author[t], owners[t])
      BY <2>1, <2>2, <2>3, <2>5, BrokerTypes
    <3>2. author[t] \in Seq(ClientIDs) /\ since[t] \in Nat /\ owners[t] \in ClientIDs
      BY <1>c, <2>1, <2>2, <2>5
    <3>3. /\ Len(author'[t]) = Len(author[t]) + 1 /\ Len(author[t]) \in Nat
          /\ \A k \in 1..Len(author[t]) : author'[t][k] = author[t][k]
          /\ author'[t][Len(author[t]) + 1] = owners[t]
      BY <3>1, <3>2
    <3>4. since[t] <= Len(author'[t])
      BY <1>a, <3>2, <3>3 DEF Ownership
    <3>5. ASSUME owners[t] # None, NEW k \in (since[t] + 1)..Len(author'[t])
          PROVE  author'[t][k] = owners[t]
      <4>1. k = Len(author[t]) + 1 \/ (k \in (since[t] + 1)..Len(author[t]) /\ k \in 1..Len(author[t]))
        BY <3>2, <3>3
      <4> QED
        BY <1>a, <3>3, <3>5, <4>1 DEF Ownership
    <3> QED
      BY <2>3, <3>4, <3>5 DEF Ownership
  <2> QED
    BY <2>4, <2>5
<1>2. ASSUME NEW h \in Handlers, ClaimTopic(h) PROVE Ownership(t)'
  <2>1. /\ author' = author
        /\ since'[t] = IF owners[t] = None /\ owners'[t] # None
                        THEN Len(author[t]) ELSE since[t]
    BY <1>2 DEF ClaimTopic
  <2>2. owners[t] # None => owners'[t] = owners[t]
    <3>1. owners \in [Topics -> ClientIDs \cup {None}]
      BY <1>a DEF Inv1, TypeOK
    <3> QED
      BY <1>2, <3>1 DEF ClaimTopic, Claim, ClaimRefused
  <2>3. CASE owners[t] = None /\ owners'[t] # None
    <3>1. since'[t] = Len(author'[t]) /\ Len(author'[t]) \in Nat
      BY <1>c, <2>1, <2>3
    <3>2. since'[t] <= Len(author'[t]) /\ (since'[t] + 1)..Len(author'[t]) = {}
      BY <3>1
    <3> QED
      BY <3>2 DEF Ownership
  <2>4. CASE ~(owners[t] = None /\ owners'[t] # None)
    BY <1>a, <2>1, <2>2, <2>4 DEF Ownership
  <2> QED
    BY <2>3, <2>4
<1>3. CASE UNCHANGED <<author, since>> /\ owners'[t] \in {None, owners[t]}
  BY <1>a, <1>3 DEF Ownership
<1>4. \/ \E h \in Handlers : ClaimTopic(h) \/ Publish(h)
      \/ UNCHANGED <<author, since>> /\ owners'[t] \in {None, owners[t]}
  <2>1. ASSUME NEW h \in Handlers, Clients(h) \/ Handler(h) \/ GiveUp(h)
        PROVE  UNCHANGED <<author, since>> /\ owners'[t] \in {None, owners[t]}
    BY <2>1 DEF Clients, Handler, GiveUp, history, ReadConnect, ReadPublish, FirstPacketFails,
                ReadEnds, Add, Puback, Release, Remove, CloseConn, SendCancelled
  <2>2. Server \/ RouteMessage \/ CancelAll \/ Crash =>
          UNCHANGED <<author, since>> /\ owners'[t] \in {None, owners[t]}
    BY DEF Server, RouteMessage, CancelAll, Crash, history, Accept, CloseListener, CloseAll,
           Drain, Cancel
  <2>3. UNCHANGED vars => owners' = owners
    BY DEF vars
  <2>4. ASSUME NEW u \in Topics,
               Consumer(u) \/ LoseMessage(u) \/ ForwardMessage(u) \/ ConsumerStops(u)
        PROVE  UNCHANGED <<vars, author, since>>
    BY <2>4 DEF Consumer, LoseMessage, ForwardMessage, ConsumerStops, history
  <2>5. Router \/ RouterStops \/ FanOut \/ FanOutStops \/ (\E w \in Workers : Work(w))
          \/ UNCHANGED brokerVars => UNCHANGED <<vars, author, since>>
    BY DEF Router, RouterStops, FanOut, FanOutStops, Work, brokerVars, history
  <2> QED
    BY <2>1, <2>2, <2>3, <2>4, <2>5 DEF BrokerNext
<1> QED
  BY <1>1, <1>2, <1>3, <1>4

\* raw_data shows a topic's owners one after the other, although the messages of
\* earlier owners may still be in the channels when the next one claims the topic.
THEOREM OwnersInTurn == ~AllowTakeover /\ BrokerSpec => []RowsFollowOwnership
<1> SUFFICES ASSUME ~AllowTakeover PROVE BrokerSpec => []RowsFollowOwnership
  OBVIOUS
<1>1. BrokerInit => OwnershipInv
  <2> SUFFICES ASSUME BrokerInit PROVE OwnershipInv
    OBVIOUS
  <2>1. Inv3
    BY Inv3Init DEF BrokerInit
  <2>2. ASSUME NEW t \in Topics PROVE Ownership(t)
    BY ConnectionAssumption DEF BrokerInit, Init, Ownership
  <2> QED
    BY <2>1, <2>2 DEF OwnershipInv
<1>2. BrokerInv /\ OwnershipInv /\ [BrokerNext]_brokerVars => OwnershipInv'
  BY OwnershipStep
<1>3. BrokerInv /\ OwnershipInv => RowsFollowOwnership
  <2> SUFFICES ASSUME BrokerInv, OwnershipInv, NEW t \in Topics, owners[t] # None,
                      NEW i \in DOMAIN rawData[t], rawData[t][i] > since[t]
               PROVE  /\ author[t][rawData[t][i]] = owners[t]
                      /\ \A j \in i..Len(rawData[t]) : rawData[t][j] > since[t]
    BY DEF RowsFollowOwnership
  <2>1. rawData[t] \in Seq(Nat) /\ since[t] \in Nat /\ author[t] \in Seq(ClientIDs)
    BY BrokerTypes, ConnectionAssumption
  <2>2. rawData[t][i] \in 1..Len(author[t])
    BY DEF BrokerInv, Accounted, Kept, Stored, Numbers
  <2>3. rawData[t][i] \in (since[t] + 1)..Len(author[t])
    BY <2>1, <2>2
  <2>4. author[t][rawData[t][i]] = owners[t]
    BY <2>3 DEF OwnershipInv, Ownership
  <2>5. ASSUME NEW j \in i..Len(rawData[t]) PROVE rawData[t][j] > since[t]
    <3>1. j \in DOMAIN rawData[t] /\ rawData[t][j] \in Nat /\ rawData[t][i] \in Nat
      BY <2>1
    <3>2. j = i \/ rawData[t][i] < rawData[t][j]
      BY <2>1, <3>1 DEF BrokerInv, P!Increasing
    <3> QED
      BY <2>1, <3>1, <3>2
  <2> QED
    BY <2>4, <2>5
<1> QED
  BY <1>1, <1>2, <1>3, BrokerInvariant, PTL DEF BrokerSpec
=============================================================================
