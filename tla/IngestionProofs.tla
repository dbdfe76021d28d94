--------------------------- MODULE IngestionProofs ---------------------------
(***************************************************************************)
(* The ingestion and processing pipeline implements one FIFO log per topic, *)
(* for any topics, workers, buffer size and number of crashes.              *)
(*                                                                         *)
(* The argument follows a message through the stages it passes.  Per topic, *)
(* everything a stage holds comes before everything the stages behind it    *)
(* hold (Upstream), what the stages after the store hold is stored and is   *)
(* in the same order (Forwarded, Downstream), and the channels keep the     *)
(* order of each topic (Channels).  Lockstep compares the workers.          *)
(***************************************************************************)
EXTENDS Ingestion, TLAPS

QueuedMsgs == [topic : Topics, n : Nat]

\* The values of the variables; rmsg and fmsg matter only while they are held.
TypeOK ==
    /\ sent \in [TopicNames -> Nat]
    /\ input \in Seq(Msgs)
    /\ rpc \in {"select", "enqueue", "stopped"}
    /\ rpc = "enqueue" => rmsg \in QueuedMsgs
    /\ queue \in [Topics -> Seq(Nat)]
    /\ cpc \in [Topics -> {"select", "save", "forward", "stopped"}]
    /\ cur \in [Topics -> Nat]
    /\ rawData \in [Topics -> Seq(Nat)]
    /\ dispatch \in Seq(QueuedMsgs)
    /\ fpc \in {"select", "wait", "stopped"}
    /\ running \subseteq Workers
    /\ running # {} => fmsg \in QueuedMsgs
    /\ processed \in [Workers -> [Topics -> Seq(Nat)]]
    /\ crashes \in Nat

-----------------------------------------------------------------------------
(* What each stage holds of topic t, as sets of message numbers             *)

Elems(s) == {s[i] : i \in DOMAIN s}
OfTopic(c, t) == {c[i].n : i \in {j \in DOMAIN c : c[j].topic = t}}

AtInput(t)     == OfTopic(input, t)
AtRouter(t)    == IF rpc = "enqueue" /\ rmsg.topic = t THEN {rmsg.n} ELSE {}
AtQueue(t)     == Elems(queue[t])
AtSave(t)      == IF cpc[t] = "save" THEN {cur[t]} ELSE {}
Stored(t)      == Elems(rawData[t])
AtForward(t)   == IF cpc[t] = "forward" THEN {cur[t]} ELSE {}
AtDispatch(t)  == OfTopic(dispatch, t)
AtWorker(w, t) == IF w \in running /\ fmsg.topic = t THEN {fmsg.n} ELSE {}
Done(w, t)     == Elems(processed[w][t])

Before(A, B) == \A a \in A, b \in B : a < b

Increasing(s) == \A i, j \in DOMAIN s : i < j => s[i] < s[j]

\* A channel shared by the topics keeps the order of each of them.
TopicsIncreasing(c) ==
    \A i, j \in DOMAIN c : i < j /\ c[i].topic = c[j].topic => c[i].n < c[j].n

\* The four places of a message on its way to the table, last one first.
Upstream(t) ==
    /\ AtInput(t) \cup AtRouter(t) \cup AtQueue(t) \cup AtSave(t) \cup Stored(t)
         \subseteq 1..sent[t]
    /\ Before(Stored(t), AtSave(t) \cup AtQueue(t) \cup AtRouter(t) \cup AtInput(t))
    /\ Before(AtSave(t), AtQueue(t) \cup AtRouter(t) \cup AtInput(t))
    /\ Before(AtQueue(t), AtRouter(t) \cup AtInput(t))
    /\ Before(AtRouter(t), AtInput(t))

\* The places of a stored message on its way to the fan-out.
Forwarded(t) ==
    /\ AtDispatch(t) \cup AtForward(t) \subseteq Stored(t)
    /\ Before(AtDispatch(t), AtForward(t))

\* What worker w has processed, is processing and will be handed.
Downstream(w, t) ==
    /\ Done(w, t) \cup AtWorker(w, t) \subseteq Stored(t)
    /\ Before(Done(w, t), AtWorker(w, t) \cup AtDispatch(t) \cup AtForward(t))
    /\ Before(AtWorker(w, t), AtDispatch(t) \cup AtForward(t))

Channels ==
    /\ TopicsIncreasing(input) /\ TopicsIncreasing(dispatch)
    /\ \A t \in TopicNames : AtInput(t) \subseteq 1..sent[t]
    /\ \A t \in Topics : Increasing(queue[t])

\* Workers that have not ended their Process call are one message behind.
Progress(w, t) ==
    IF w \in running /\ fmsg.topic = t
      THEN Len(processed[w][t]) + 1 ELSE Len(processed[w][t])

Lockstep ==
    /\ fpc # "wait" => running = {}
    /\ crashes = 0 => \A v, w \in Workers, t \in Topics : Progress(v, t) = Progress(w, t)

PipelineInv ==
    /\ TypeOK
    /\ \A t \in Topics : Upstream(t) /\ Forwarded(t)
    /\ \A w \in Workers, t \in Topics : Downstream(w, t)
    /\ Channels
    /\ Lockstep

-----------------------------------------------------------------------------
(* Receiving from a channel and sending to it                               *)

\* Tail(s) is s without its first element.
LEMMA TailShift ==
    ASSUME NEW S, NEW s \in Seq(S), s # << >>
    PROVE  /\ Tail(s) \in Seq(S) /\ Head(s) = s[1] /\ Head(s) \in S /\ 1 \in DOMAIN s
           /\ \A i \in DOMAIN Tail(s) : i + 1 \in DOMAIN s /\ 1 < i + 1 /\ Tail(s)[i] = s[i + 1]
  OBVIOUS

\* Append(s, e) is s followed by e.
LEMMA AppendEnd ==
    ASSUME NEW S, NEW s \in Seq(S), NEW e \in S
    PROVE  /\ Append(s, e) \in Seq(S) /\ Len(Append(s, e)) = Len(s) + 1
           /\ \A i \in DOMAIN s : i \in DOMAIN Append(s, e) /\ Append(s, e)[i] = s[i]
           /\ Len(s) + 1 \in DOMAIN Append(s, e) /\ Append(s, e)[Len(s) + 1] = e
           /\ \A i \in DOMAIN Append(s, e) :
                i \in Nat /\ (i \in DOMAIN s \/ (i = Len(s) + 1 /\ \A j \in DOMAIN s : j < i))
  OBVIOUS

\* Receiving from a queue takes the first number and keeps the order.
LEMMA ReceiveElems ==
    ASSUME NEW s \in Seq(Nat), s # << >>, Increasing(s)
    PROVE  /\ Tail(s) \in Seq(Nat) /\ Increasing(Tail(s))
           /\ Elems(Tail(s)) \subseteq Elems(s) /\ Head(s) \in Elems(s) /\ Head(s) \in Nat
           /\ Before({Head(s)}, Elems(Tail(s)))
<1>1. /\ Tail(s) \in Seq(Nat) /\ Head(s) = s[1] /\ Head(s) \in Nat /\ 1 \in DOMAIN s
      /\ \A i \in DOMAIN Tail(s) : i + 1 \in DOMAIN s /\ 1 < i + 1 /\ Tail(s)[i] = s[i + 1]
  BY TailShift
<1>2. ASSUME NEW i \in DOMAIN Tail(s), NEW j \in DOMAIN Tail(s), i < j
      PROVE  Tail(s)[i] < Tail(s)[j]
  <2>1. i \in Nat /\ j \in Nat
    BY <1>1
  <2> QED
    BY <1>1, <1>2, <2>1 DEF Increasing
<1>3. \A i \in DOMAIN Tail(s) : s[1] < Tail(s)[i] /\ Tail(s)[i] \in Elems(s)
  BY <1>1 DEF Increasing, Elems
<1> QED
  BY <1>1, <1>2, <1>3 DEF Increasing, Elems, Before

\* Sending a number above all others to a queue keeps the order.
LEMMA SendElems ==
    ASSUME NEW s \in Seq(Nat), NEW k \in Nat, Increasing(s), Before(Elems(s), {k})
    PROVE  Append(s, k) \in Seq(Nat) /\ Increasing(Append(s, k))
<1>1. /\ Append(s, k) \in Seq(Nat)
      /\ \A i \in DOMAIN s : i \in DOMAIN Append(s, k) /\ Append(s, k)[i] = s[i] /\ s[i] < k
      /\ Append(s, k)[Len(s) + 1] = k
      /\ \A i \in DOMAIN Append(s, k) :
           i \in Nat /\ (i \in DOMAIN s \/ (i = Len(s) + 1 /\ \A j \in DOMAIN s : j < i))
  BY AppendEnd DEF Before, Elems
<1>2. ASSUME NEW i \in DOMAIN Append(s, k), NEW j \in DOMAIN Append(s, k), i < j
      PROVE  Append(s, k)[i] < Append(s, k)[j]
  <2>1. i \in DOMAIN s
    <3>1. ASSUME i = Len(s) + 1 PROVE FALSE
      BY <1>1, <1>2, <3>1
    <3> QED
      BY <1>1, <3>1
  <2> QED
    BY <1>1, <1>2, <2>1 DEF Increasing
<1> QED
  BY <1>1, <1>2 DEF Increasing

LEMMA AppendElems ==
    ASSUME NEW s \in Seq(Nat), NEW k \in Nat
    PROVE  Append(s, k) \in Seq(Nat) /\ Elems(Append(s, k)) = Elems(s) \cup {k}
<1>1. ASSUME NEW x \in Elems(Append(s, k)) PROVE x \in Elems(s) \cup {k}
  BY AppendEnd DEF Elems
<1>2. ASSUME NEW x \in Elems(s) PROVE x \in Elems(Append(s, k))
  BY AppendEnd DEF Elems
<1>3. k \in Elems(Append(s, k))
  BY AppendEnd DEF Elems
<1> QED
  BY <1>1, <1>2, <1>3, AppendEnd

\* Receiving from a shared channel takes a message that comes before all the
\* others of its topic and keeps the order of every topic.
LEMMA ReceiveOfTopic ==
    ASSUME NEW T, NEW c \in Seq([topic : T, n : Nat]), c # << >>, TopicsIncreasing(c)
    PROVE  /\ Tail(c) \in Seq([topic : T, n : Nat]) /\ TopicsIncreasing(Tail(c))
           /\ Head(c) \in [topic : T, n : Nat]
           /\ \A t : OfTopic(Tail(c), t) \subseteq OfTopic(c, t)
           /\ Head(c).n \in OfTopic(c, Head(c).topic)
           /\ Before({Head(c).n}, OfTopic(Tail(c), Head(c).topic))
<1> DEFINE M == [topic : T, n : Nat]
<1>1. /\ Tail(c) \in Seq(M) /\ Head(c) = c[1] /\ Head(c) \in M /\ 1 \in DOMAIN c
      /\ \A i \in DOMAIN Tail(c) : i + 1 \in DOMAIN c /\ 1 < i + 1 /\ Tail(c)[i] = c[i + 1]
  BY TailShift
<1>2. ASSUME NEW i \in DOMAIN Tail(c), NEW j \in DOMAIN Tail(c), i < j,
             Tail(c)[i].topic = Tail(c)[j].topic
      PROVE  Tail(c)[i].n < Tail(c)[j].n
  <2>1. i \in Nat /\ j \in Nat
    BY <1>1
  <2>2. /\ i + 1 \in DOMAIN c /\ j + 1 \in DOMAIN c /\ i + 1 < j + 1
        /\ Tail(c)[i] = c[i + 1] /\ Tail(c)[j] = c[j + 1]
    BY <1>1, <1>2, <2>1
  <2>3. c[i + 1].n < c[j + 1].n
    BY <1>2, <2>2 DEF TopicsIncreasing
  <2> QED
    BY <2>2, <2>3
<1>3. ASSUME NEW t, NEW x \in OfTopic(Tail(c), t) PROVE x \in OfTopic(c, t)
  BY <1>1 DEF OfTopic
<1>4. ASSUME NEW x \in OfTopic(Tail(c), Head(c).topic) PROVE Head(c).n < x
  BY <1>1 DEF OfTopic, TopicsIncreasing
<1> QED
  BY <1>1, <1>2, <1>3, <1>4 DEF OfTopic, TopicsIncreasing, Before

\* Sending to a shared channel keeps the order of every topic when the message
\* comes after the others of its topic.
LEMMA SendOfTopic ==
    ASSUME NEW T, NEW c \in Seq([topic : T, n : Nat]), NEW m \in [topic : T, n : Nat],
           TopicsIncreasing(c), Before(OfTopic(c, m.topic), {m.n})
    PROVE  /\ Append(c, m) \in Seq([topic : T, n : Nat]) /\ TopicsIncreasing(Append(c, m))
<1> DEFINE M == [topic : T, n : Nat]
<1>1. /\ Append(c, m) \in Seq(M)
      /\ \A i \in DOMAIN c : i \in DOMAIN Append(c, m) /\ Append(c, m)[i] = c[i]
      /\ Len(c) + 1 \in DOMAIN Append(c, m) /\ Append(c, m)[Len(c) + 1] = m
      /\ \A i \in DOMAIN Append(c, m) :
           i \in Nat /\ (i \in DOMAIN c \/ (i = Len(c) + 1 /\ \A j \in DOMAIN c : j < i))
  BY AppendEnd
<1>2. \A i \in DOMAIN c : c[i].topic = m.topic => c[i].n < m.n
  BY DEF OfTopic, Before
<1>3. ASSUME NEW i \in DOMAIN Append(c, m), NEW j \in DOMAIN Append(c, m), i < j,
             Append(c, m)[i].topic = Append(c, m)[j].topic
      PROVE  Append(c, m)[i].n < Append(c, m)[j].n
  <2>1. i \in DOMAIN c
    <3>1. ASSUME i = Len(c) + 1 PROVE FALSE
      BY <1>1, <1>3, <3>1
    <3> QED
      BY <1>1, <3>1
  <2> QED
    BY <1>1, <1>2, <1>3, <2>1 DEF TopicsIncreasing
<1> QED
  BY <1>1, <1>3 DEF TopicsIncreasing

-----------------------------------------------------------------------------
(* The inductive invariant                                                  *)

LEMMA InitInv == Init => PipelineInv
<1> SUFFICES ASSUME Init PROVE PipelineInv
  OBVIOUS
<1>1. TypeOK
  BY IngestionAssumption DEF Init, TypeOK, NoMsgs
<1>2. ASSUME NEW t \in Topics
      PROVE  AtInput(t) = {} /\ AtRouter(t) = {} /\ AtQueue(t) = {} /\ AtSave(t) = {}
             /\ Stored(t) = {} /\ AtForward(t) = {} /\ AtDispatch(t) = {}
  BY DEF Init, NoMsgs, AtInput, AtRouter, AtQueue, AtSave, Stored, AtForward, AtDispatch,
         OfTopic, Elems
<1>3. ASSUME NEW w \in Workers, NEW t \in Topics
      PROVE  Done(w, t) = {} /\ AtWorker(w, t) = {}
  BY DEF Init, NoMsgs, Done, AtWorker, Elems
<1>4. \A t \in Topics : Upstream(t) /\ Forwarded(t)
  BY <1>2 DEF Upstream, Forwarded, Before
<1>5. \A w \in Workers, t \in Topics : Downstream(w, t)
  BY <1>2, <1>3 DEF Downstream, Before
<1>6. Channels
  BY DEF Init, NoMsgs, Channels, TopicsIncreasing, Increasing, AtInput, OfTopic
<1>7. Lockstep
  BY DEF Init, NoMsgs, Lockstep, Progress
<1> QED
  BY <1>1, <1>4, <1>5, <1>6, <1>7 DEF PipelineInv

LEMMA NextType == TypeOK /\ [Next]_vars => TypeOK'
<1> SUFFICES ASSUME TypeOK, [Next]_vars PROVE TypeOK'
  OBVIOUS
<1> USE DEF router, consumer, fanout
<1>1. ASSUME NEW t \in TopicNames, Submit(t) PROVE TypeOK'
  <2>1. [topic |-> t, n |-> sent[t] + 1] \in Msgs
    BY DEF TypeOK, Msgs
  <2>2. input' \in Seq(Msgs)
    BY <1>1, <2>1 DEF TypeOK, Submit
  <2> QED
    BY <1>1, <2>2 DEF TypeOK, Submit
<1>2. CASE Route
  <2>1. Head(input) \in Msgs /\ input' \in Seq(Msgs)
    BY <1>2 DEF TypeOK, Route
  <2>2. Head(input).topic \in Topics => Head(input) \in QueuedMsgs
    BY <2>1 DEF Msgs, QueuedMsgs
  <2> QED
    BY <1>2, <2>1, <2>2 DEF TypeOK, Route
<1>3. CASE Enqueue
  <2>1. rmsg.topic \in Topics /\ rmsg.n \in Nat
    BY <1>3 DEF TypeOK, Enqueue, QueuedMsgs
  <2>2. queue' \in [Topics -> Seq(Nat)]
    BY <1>3, <2>1 DEF TypeOK, Enqueue
  <2> QED
    BY <1>3, <2>2 DEF TypeOK, Enqueue
<1>4. CASE RouterStops
  BY <1>4 DEF TypeOK, RouterStops
<1>5. ASSUME NEW t \in Topics, Receive(t) PROVE TypeOK'
  <2>1. Head(queue[t]) \in Nat /\ Tail(queue[t]) \in Seq(Nat)
    BY <1>5 DEF TypeOK, Receive
  <2> QED
    BY <1>5, <2>1 DEF TypeOK, Receive
<1>6. ASSUME NEW t \in Topics, SaveRawData(t) PROVE TypeOK'
  BY <1>6 DEF TypeOK, SaveRawData
<1>7. ASSUME NEW t \in Topics, SaveFails(t) \/ ConsumerStops(t) PROVE TypeOK'
  BY <1>7 DEF TypeOK, SaveFails, ConsumerStops
<1>8. ASSUME NEW t \in Topics, Forward(t) PROVE TypeOK'
  <2>1. [topic |-> t, n |-> cur[t]] \in QueuedMsgs
    BY DEF TypeOK, QueuedMsgs
  <2>2. dispatch' \in Seq(QueuedMsgs)
    BY <1>8, <2>1 DEF TypeOK, Forward
  <2> QED
    BY <1>8, <2>2 DEF TypeOK, Forward
<1>9. CASE FanOutReceive
  <2>1. Head(dispatch) \in QueuedMsgs /\ Tail(dispatch) \in Seq(QueuedMsgs)
    BY <1>9 DEF TypeOK, FanOutReceive
  <2> QED
    BY <1>9, <2>1 DEF TypeOK, FanOutReceive
<1>10. CASE FanOutDone \/ FanOutStops
  BY <1>10 DEF TypeOK, FanOutDone, FanOutStops
<1>11. ASSUME NEW w \in Workers, Process(w) PROVE TypeOK'
  <2>1. fmsg.topic \in Topics /\ fmsg.n \in Nat
    BY <1>11 DEF TypeOK, Process, QueuedMsgs
  <2>2. processed' \in [Workers -> [Topics -> Seq(Nat)]]
    BY <1>11, <2>1 DEF TypeOK, Process
  <2> QED
    BY <1>11, <2>2 DEF TypeOK, Process
<1>12. CASE Cancel
  BY <1>12 DEF TypeOK, Cancel
<1>13. CASE Crash
  BY <1>13 DEF TypeOK, Crash, NoMsgs
<1>14. CASE UNCHANGED vars
  BY <1>14 DEF TypeOK, vars
<1> QED
  BY <1>1, <1>2, <1>3, <1>4, <1>5, <1>6, <1>7, <1>8, <1>9, <1>10, <1>11, <1>12, <1>13, <1>14
     DEF Next, ConsumerStep

\* Submit adds the next message of its topic to msgChan.
LEMMA SubmitOfTopic ==
    ASSUME TypeOK, NEW u \in TopicNames, NEW t \in TopicNames, Submit(u)
    PROVE  \A x \in AtInput(t)' : x \in AtInput(t) \/ (u = t /\ x = sent[t] + 1)
<1> DEFINE m == [topic |-> u, n |-> sent[u] + 1]
<1>1. m \in Msgs /\ input \in Seq(Msgs) /\ input' = Append(input, m)
  BY DEF Submit, TypeOK, Msgs
<1>2. \A i \in DOMAIN input' : input'[i] = m \/ (i \in DOMAIN input /\ input'[i] = input[i])
  BY <1>1, AppendEnd
<1> QED
  BY <1>2 DEF AtInput, OfTopic

\* The messages on their way to the table stay in order: a step of the router
\* or of a consumer hands the first message of one stage to the next one.
LEMMA NextUpstream ==
    ASSUME PipelineInv, [Next]_vars, NEW t \in Topics
    PROVE  Upstream(t)'
<1> USE DEF router, consumer, fanout
<1>t. /\ TypeOK /\ Upstream(t) /\ TopicsIncreasing(input) /\ Increasing(queue[t])
      /\ t \in TopicNames /\ queue[t] \in Seq(Nat) /\ rawData[t] \in Seq(Nat)
      /\ cur[t] \in Nat /\ sent[t] \in Nat
  BY IngestionAssumption DEF PipelineInv, Channels, TypeOK
<1>0. ASSUME UNCHANGED <<sent, input, rpc, rmsg, queue, cpc, cur, rawData>> PROVE Upstream(t)'
  BY <1>0, <1>t DEF Upstream, AtInput, AtRouter, AtQueue, AtSave, Stored
<1>1. ASSUME NEW u \in TopicNames, Submit(u) PROVE Upstream(t)'
  <2>1. UNCHANGED <<rpc, rmsg, queue, cpc, cur, rawData>>
    BY <1>1 DEF Submit
  <2>2. /\ AtRouter(t)' = AtRouter(t) /\ AtQueue(t)' = AtQueue(t)
        /\ AtSave(t)' = AtSave(t) /\ Stored(t)' = Stored(t)
    BY <2>1 DEF AtRouter, AtQueue, AtSave, Stored
  <2>3. \A x \in AtInput(t)' : x \in AtInput(t) \/ (u = t /\ x = sent[t] + 1)
    BY <1>1, <1>t, SubmitOfTopic
  <2>4. sent'[t] = IF u = t THEN sent[t] + 1 ELSE sent[t]
    BY <1>1, <1>t DEF Submit, TypeOK
  <2> QED
    BY <1>t, <2>2, <2>3, <2>4 DEF Upstream, Before
<1>2. CASE Route
  <2>1. UNCHANGED <<sent, queue, cpc, cur, rawData>> /\ input # << >> /\ input' = Tail(input)
    BY <1>2 DEF Route
  <2>2. /\ AtQueue(t)' = AtQueue(t) /\ AtSave(t)' = AtSave(t) /\ Stored(t)' = Stored(t)
        /\ sent'[t] = sent[t]
    BY <2>1 DEF AtQueue, AtSave, Stored
  <2>3. /\ AtInput(t)' \subseteq AtInput(t)
        /\ Head(input).n \in OfTopic(input, Head(input).topic)
        /\ Before({Head(input).n}, OfTopic(input', Head(input).topic))
    BY <1>t, <2>1, ReceiveOfTopic DEF TypeOK, Msgs, AtInput
  <2>4. \/ AtRouter(t)' = {}
        \/ AtRouter(t)' = {Head(input).n} /\ Head(input).topic = t
    BY <1>2 DEF Route, AtRouter
  <2>5. AtRouter(t)' \subseteq AtInput(t) /\ Before(AtRouter(t)', AtInput(t)')
    BY <2>3, <2>4 DEF AtInput, Before
  <2> QED
    BY <1>t, <2>2, <2>3, <2>5 DEF Upstream, Before
<1>3. CASE Enqueue
  <2>1. UNCHANGED <<sent, input, cpc, cur, rawData>>
    BY <1>3 DEF Enqueue
  <2>2. /\ AtInput(t)' = AtInput(t) /\ AtSave(t)' = AtSave(t) /\ Stored(t)' = Stored(t)
        /\ sent'[t] = sent[t] /\ AtRouter(t)' = {}
    BY <1>3, <2>1 DEF Enqueue, AtInput, AtSave, Stored, AtRouter
  <2>3. rmsg.n \in Nat /\ rmsg.topic \in Topics
    BY <1>3, <1>t DEF Enqueue, TypeOK, QueuedMsgs
  <2>4. AtQueue(t)' = AtQueue(t) \cup AtRouter(t)
    <3>1. CASE rmsg.topic = t
      <4>1. queue'[t] = Append(queue[t], rmsg.n) /\ AtRouter(t) = {rmsg.n}
        BY <1>3, <1>t, <3>1 DEF Enqueue, TypeOK, AtRouter
      <4> QED
        BY <1>t, <2>3, <4>1, AppendElems DEF AtQueue
    <3>2. CASE rmsg.topic # t
      <4>1. queue'[t] = queue[t] /\ AtRouter(t) = {}
        BY <1>3, <1>t, <2>3, <3>2 DEF Enqueue, TypeOK, AtRouter
      <4> QED
        BY <4>1 DEF AtQueue
    <3> QED
      BY <3>1, <3>2
  <2> QED
    BY <1>t, <2>2, <2>4 DEF Upstream, Before
<1>4. CASE RouterStops
  <2>1. UNCHANGED <<sent, input, queue, cpc, cur, rawData>> /\ AtRouter(t)' = {}
    BY <1>4 DEF RouterStops, AtRouter
  <2> QED
    BY <1>t, <2>1 DEF Upstream, Before, AtInput, AtQueue, AtSave, Stored
<1>5. ASSUME NEW u \in Topics, Receive(u) PROVE Upstream(t)'
  <2>1. UNCHANGED <<sent, input, rpc, rmsg, rawData>>
    BY <1>5 DEF Receive
  <2>2. /\ AtInput(t)' = AtInput(t) /\ AtRouter(t)' = AtRouter(t) /\ Stored(t)' = Stored(t)
        /\ sent'[t] = sent[t]
    BY <2>1 DEF AtInput, AtRouter, Stored
  <2>3. CASE u = t
    <3>1. /\ cpc'[t] = "save" /\ cur'[t] = Head(queue[t]) /\ queue'[t] = Tail(queue[t])
          /\ queue[t] # << >>
      BY <1>5, <1>t, <2>3 DEF Receive, TypeOK
    <3>2. /\ AtSave(t)' = {Head(queue[t])} /\ AtQueue(t)' = Elems(Tail(queue[t]))
      BY <3>1 DEF AtSave, AtQueue
    <3>3. /\ AtQueue(t)' \subseteq AtQueue(t) /\ AtSave(t)' \subseteq AtQueue(t)
          /\ Before(AtSave(t)', AtQueue(t)')
      BY <1>t, <3>1, <3>2, ReceiveElems DEF AtQueue
    <3> QED
      BY <1>t, <2>2, <3>3 DEF Upstream, Before
  <2>4. CASE u # t
    <3>1. cpc'[t] = cpc[t] /\ cur'[t] = cur[t] /\ queue'[t] = queue[t]
      BY <1>5, <1>t, <2>4 DEF Receive, TypeOK
    <3>2. AtSave(t)' = AtSave(t) /\ AtQueue(t)' = AtQueue(t)
      BY <3>1 DEF AtSave, AtQueue
    <3> QED
      BY <1>t, <2>2, <3>2 DEF Upstream
  <2> QED
    BY <2>3, <2>4
<1>6. ASSUME NEW u \in Topics, SaveRawData(u) PROVE Upstream(t)'
  <2>1. UNCHANGED <<sent, input, rpc, rmsg, queue, cur>>
    BY <1>6 DEF SaveRawData
  <2>2. /\ AtInput(t)' = AtInput(t) /\ AtRouter(t)' = AtRouter(t) /\ AtQueue(t)' = AtQueue(t)
        /\ sent'[t] = sent[t]
    BY <2>1 DEF AtInput, AtRouter, AtQueue
  <2>3. CASE u = t
    <3>1. cpc[t] = "save" /\ cpc'[t] = "forward" /\ rawData'[t] = Append(rawData[t], cur[t])
      BY <1>6, <1>t, <2>3 DEF SaveRawData, TypeOK
    <3>2. AtSave(t)' = {} /\ Stored(t)' = Stored(t) \cup AtSave(t)
      BY <1>t, <3>1, AppendElems DEF AtSave, Stored
    <3> QED
      BY <1>t, <2>2, <3>2 DEF Upstream, Before
  <2>4. CASE u # t
    <3>1. cpc'[t] = cpc[t] /\ cur'[t] = cur[t] /\ rawData'[t] = rawData[t]
      BY <1>6, <1>t, <2>4 DEF SaveRawData, TypeOK
    <3>2. AtSave(t)' = AtSave(t) /\ Stored(t)' = Stored(t)
      BY <3>1 DEF AtSave, Stored
    <3> QED
      BY <1>t, <2>2, <3>2 DEF Upstream
  <2> QED
    BY <2>3, <2>4
<1>7. ASSUME NEW u \in Topics, SaveFails(u) \/ ConsumerStops(u) \/ Forward(u)
      PROVE  Upstream(t)'
  <2>1. UNCHANGED <<sent, input, rpc, rmsg, queue, cur, rawData>>
    BY <1>7 DEF SaveFails, ConsumerStops, Forward
  <2>2. cpc'[t] = "save" => cpc[t] = "save"
    BY <1>7, <1>t DEF SaveFails, ConsumerStops, Forward, TypeOK
  <2>3. AtSave(t)' \subseteq AtSave(t)
    BY <2>1, <2>2 DEF AtSave
  <2>4. /\ AtInput(t)' = AtInput(t) /\ AtRouter(t)' = AtRouter(t) /\ AtQueue(t)' = AtQueue(t)
        /\ Stored(t)' = Stored(t) /\ sent'[t] = sent[t]
    BY <2>1 DEF AtInput, AtRouter, AtQueue, Stored
  <2> QED
    BY <1>t, <2>3, <2>4 DEF Upstream, Before
<1>8. CASE Crash
  <2>1. AtInput(t)' = {} /\ AtRouter(t)' = {} /\ AtQueue(t)' = {} /\ AtSave(t)' = {}
    BY <1>8 DEF Crash, NoMsgs, AtInput, AtRouter, AtQueue, AtSave, OfTopic, Elems
  <2>2. Stored(t)' = Stored(t) /\ sent'[t] = sent[t]
    BY <1>8 DEF Crash, Stored
  <2> QED
    BY <1>t, <2>1, <2>2 DEF Upstream, Before
<1>9. ASSUME \/ FanOutReceive \/ FanOutDone \/ FanOutStops \/ Cancel \/ UNCHANGED vars
             \/ \E w \in Workers : Process(w)
      PROVE  Upstream(t)'
  BY <1>0, <1>9 DEF FanOutReceive, FanOutDone, FanOutStops, Process, Cancel, vars
<1> QED
  BY <1>1, <1>2, <1>3, <1>4, <1>5, <1>6, <1>7, <1>8, <1>9 DEF Next, ConsumerStep

\* Forward adds the message its consumer holds to processChan.
LEMMA ForwardOfTopic ==
    ASSUME TypeOK, NEW u \in Topics, NEW t \in Topics, Forward(u)
    PROVE  \A x \in AtDispatch(t)' : x \in AtDispatch(t) \/ (u = t /\ x = cur[t])
<1> DEFINE m == [topic |-> u, n |-> cur[u]]
<1>1. m \in QueuedMsgs /\ dispatch \in Seq(QueuedMsgs) /\ dispatch' = Append(dispatch, m)
  BY DEF Forward, TypeOK, QueuedMsgs
<1>2. \A i \in DOMAIN dispatch' :
         dispatch'[i] = m \/ (i \in DOMAIN dispatch /\ dispatch'[i] = dispatch[i])
  BY <1>1, AppendEnd
<1> QED
  BY <1>2 DEF AtDispatch, OfTopic

\* What a consumer forwards is stored and comes after what it forwarded before.
LEMMA NextForwarded ==
    ASSUME PipelineInv, [Next]_vars, NEW t \in Topics
    PROVE  Forwarded(t)'
<1> USE DEF router, consumer, fanout
<1>t. /\ TypeOK /\ Upstream(t) /\ Forwarded(t) /\ TopicsIncreasing(dispatch)
      /\ rawData[t] \in Seq(Nat) /\ cur[t] \in Nat
  BY DEF PipelineInv, Channels, TypeOK
<1>1. ASSUME NEW u \in Topics, Receive(u) \/ SaveFails(u) \/ ConsumerStops(u)
      PROVE  Forwarded(t)'
  <2>1. UNCHANGED <<rawData, dispatch>>
    BY <1>1 DEF Receive, SaveFails, ConsumerStops
  <2>2. cpc'[t] = "forward" => cpc[t] = "forward" /\ cur'[t] = cur[t]
    BY <1>1, <1>t DEF Receive, SaveFails, ConsumerStops, TypeOK
  <2>3. AtForward(t)' \subseteq AtForward(t)
    BY <2>2 DEF AtForward
  <2> QED
    BY <1>t, <2>1, <2>3 DEF Forwarded, Before, Stored, AtDispatch
<1>2. ASSUME NEW u \in Topics, SaveRawData(u) PROVE Forwarded(t)'
  <2>1. UNCHANGED <<cur, dispatch>> /\ AtDispatch(t)' = AtDispatch(t)
    BY <1>2 DEF SaveRawData, AtDispatch
  <2>2. CASE u = t
    <3>1. cpc[t] = "save" /\ cpc'[t] = "forward" /\ rawData'[t] = Append(rawData[t], cur[t])
      BY <1>2, <1>t, <2>2 DEF SaveRawData, TypeOK
    <3>2. /\ AtSave(t) = {cur[t]} /\ AtForward(t)' = {cur[t]}
          /\ Stored(t)' = Stored(t) \cup {cur[t]}
      BY <1>t, <2>1, <3>1, AppendElems DEF AtSave, AtForward, Stored
    <3>3. Before(Stored(t), {cur[t]})
      BY <1>t, <3>2 DEF Upstream, Before
    <3> QED
      BY <1>t, <2>1, <3>2, <3>3 DEF Forwarded, Before
  <2>3. CASE u # t
    <3>1. cpc'[t] = cpc[t] /\ cur'[t] = cur[t] /\ rawData'[t] = rawData[t]
      BY <1>2, <1>t, <2>3 DEF SaveRawData, TypeOK
    <3>2. AtForward(t)' = AtForward(t) /\ Stored(t)' = Stored(t)
      BY <3>1 DEF AtForward, Stored
    <3> QED
      BY <1>t, <2>1, <3>2 DEF Forwarded
  <2> QED
    BY <2>2, <2>3
<1>3. ASSUME NEW u \in Topics, Forward(u) PROVE Forwarded(t)'
  <2>1. UNCHANGED <<cur, rawData>> /\ Stored(t)' = Stored(t)
    BY <1>3 DEF Forward, Stored
  <2>2. \A x \in AtDispatch(t)' : x \in AtDispatch(t) \/ (u = t /\ x = cur[t])
    BY <1>3, <1>t, ForwardOfTopic
  <2>3. CASE u = t
    <3>1. AtForward(t) = {cur[t]} /\ AtForward(t)' = {}
      BY <1>3, <1>t, <2>1, <2>3 DEF Forward, TypeOK, AtForward
    <3> QED
      BY <1>t, <2>1, <2>2, <3>1 DEF Forwarded, Before
  <2>4. CASE u # t
    <3>1. AtForward(t)' = AtForward(t)
      BY <1>3, <1>t, <2>1, <2>4 DEF Forward, TypeOK, AtForward
    <3> QED
      BY <1>t, <2>1, <2>2, <2>4, <3>1 DEF Forwarded, Before
  <2> QED
    BY <2>3, <2>4
<1>4. CASE FanOutReceive
  <2>1. /\ UNCHANGED <<cpc, cur, rawData>> /\ dispatch # << >> /\ dispatch' = Tail(dispatch)
    BY <1>4 DEF FanOutReceive
  <2>2. AtDispatch(t)' \subseteq AtDispatch(t)
    BY <1>t, <2>1, ReceiveOfTopic DEF TypeOK, QueuedMsgs, AtDispatch
  <2> QED
    BY <1>t, <2>1, <2>2 DEF Forwarded, Before, Stored, AtForward
<1>5. CASE Crash
  <2>1. AtForward(t)' = {} /\ AtDispatch(t)' = {}
    BY <1>5 DEF Crash, AtForward, AtDispatch, OfTopic
  <2> QED
    BY <2>1 DEF Forwarded, Before
<1>6. ASSUME \/ \E u \in TopicNames : Submit(u)
             \/ Route \/ Enqueue \/ RouterStops \/ FanOutDone \/ FanOutStops
             \/ \E w \in Workers : Process(w)
             \/ Cancel \/ UNCHANGED vars
      PROVE  Forwarded(t)'
  <2>1. UNCHANGED <<cpc, cur, rawData, dispatch>>
    BY <1>6 DEF Submit, Route, Enqueue, RouterStops, FanOutDone, FanOutStops, Process,
                Cancel, vars
  <2> QED
    BY <1>t, <2>1 DEF Forwarded, Stored, AtForward, AtDispatch
<1> QED
  BY <1>1, <1>2, <1>3, <1>4, <1>5, <1>6 DEF Next, ConsumerStep

\* The stored messages on their way to a worker stay in order.  What is saved
\* comes after everything stored, hence after everything being delivered.
LEMMA NextDownstream ==
    ASSUME PipelineInv, [Next]_vars, NEW w \in Workers, NEW t \in Topics
    PROVE  Downstream(w, t)'
<1> USE DEF router, consumer, fanout
<1>t. /\ TypeOK /\ Upstream(t) /\ Forwarded(t) /\ Downstream(w, t)
      /\ TopicsIncreasing(dispatch)
      /\ rawData[t] \in Seq(Nat) /\ cur[t] \in Nat
  BY DEF PipelineInv, Channels, TypeOK
<1>0. ASSUME UNCHANGED <<cpc, cur, rawData, dispatch, fmsg, running, processed>>
      PROVE  Downstream(w, t)'
  BY <1>0, <1>t DEF Downstream, Stored, AtForward, AtDispatch, AtWorker, Done
<1>1. ASSUME NEW u \in Topics, Receive(u) \/ SaveFails(u) \/ ConsumerStops(u)
      PROVE  Downstream(w, t)'
  <2>1. UNCHANGED <<rawData, dispatch, fmsg, running, processed>>
    BY <1>1 DEF Receive, SaveFails, ConsumerStops
  <2>2. AtForward(t)' \subseteq AtForward(t)
    <3>1. cpc'[t] = "forward" => cpc[t] = "forward" /\ cur'[t] = cur[t]
      BY <1>1, <1>t DEF Receive, SaveFails, ConsumerStops, TypeOK
    <3> QED
      BY <3>1 DEF AtForward
  <2>3. /\ Stored(t)' = Stored(t) /\ AtDispatch(t)' = AtDispatch(t)
        /\ AtWorker(w, t)' = AtWorker(w, t) /\ Done(w, t)' = Done(w, t)
    BY <2>1 DEF Stored, AtDispatch, AtWorker, Done
  <2> QED
    BY <1>t, <2>2, <2>3 DEF Downstream, Before
<1>2. ASSUME NEW u \in Topics, SaveRawData(u) PROVE Downstream(w, t)'
  <2>1. UNCHANGED <<cur, dispatch, fmsg, running, processed>>
    BY <1>2 DEF SaveRawData
  <2>2. /\ AtDispatch(t)' = AtDispatch(t)
        /\ AtWorker(w, t)' = AtWorker(w, t) /\ Done(w, t)' = Done(w, t)
    BY <2>1 DEF AtDispatch, AtWorker, Done
  <2>3. CASE u = t
    <3>1. cpc[t] = "save" /\ cpc'[t] = "forward" /\ rawData'[t] = Append(rawData[t], cur[t])
      BY <1>2, <1>t, <2>3 DEF SaveRawData, TypeOK
    <3>2. /\ AtSave(t) = {cur[t]} /\ AtForward(t)' = {cur[t]}
          /\ Stored(t)' = Stored(t) \cup {cur[t]}
      BY <1>t, <2>1, <3>1, AppendElems DEF AtSave, AtForward, Stored
    <3>3. Before(Stored(t), {cur[t]})
      BY <1>t, <3>2 DEF Upstream, Before
    <3> QED
      BY <1>t, <2>2, <3>2, <3>3 DEF Downstream, Before
  <2>4. CASE u # t
    <3>1. cpc'[t] = cpc[t] /\ cur'[t] = cur[t] /\ rawData'[t] = rawData[t]
      BY <1>2, <1>t, <2>4 DEF SaveRawData, TypeOK
    <3>2. AtForward(t)' = AtForward(t) /\ Stored(t)' = Stored(t)
      BY <3>1 DEF AtForward, Stored
    <3> QED
      BY <1>t, <2>2, <3>2 DEF Downstream
  <2> QED
    BY <2>3, <2>4
<1>3. ASSUME NEW u \in Topics, Forward(u) PROVE Downstream(w, t)'
  <2>1. UNCHANGED <<cur, rawData, fmsg, running, processed>>
    BY <1>3 DEF Forward
  <2>2. /\ Stored(t)' = Stored(t)
        /\ AtWorker(w, t)' = AtWorker(w, t) /\ Done(w, t)' = Done(w, t)
    BY <2>1 DEF Stored, AtWorker, Done
  <2>3. \A x \in AtDispatch(t)' : x \in AtDispatch(t) \/ (u = t /\ x = cur[t])
    BY <1>3, <1>t, ForwardOfTopic
  <2>4. CASE u = t
    <3>1. AtForward(t) = {cur[t]} /\ AtForward(t)' = {}
      BY <1>3, <1>t, <2>1, <2>4 DEF Forward, TypeOK, AtForward
    <3> QED
      BY <1>t, <2>2, <2>3, <3>1 DEF Downstream, Before
  <2>5. CASE u # t
    <3>1. AtForward(t)' = AtForward(t)
      BY <1>3, <1>t, <2>1, <2>5 DEF Forward, TypeOK, AtForward
    <3> QED
      BY <1>t, <2>2, <2>3, <2>5, <3>1 DEF Downstream, Before
  <2> QED
    BY <2>4, <2>5
<1>4. CASE FanOutReceive
  <2>1. /\ UNCHANGED <<cpc, cur, rawData, processed>> /\ dispatch # << >>
        /\ dispatch' = Tail(dispatch) /\ fmsg' = Head(dispatch)
    BY <1>4 DEF FanOutReceive
  <2>2. Stored(t)' = Stored(t) /\ AtForward(t)' = AtForward(t) /\ Done(w, t)' = Done(w, t)
    BY <2>1 DEF Stored, AtForward, Done
  <2>3. /\ AtDispatch(t)' \subseteq AtDispatch(t)
        /\ Head(dispatch).n \in OfTopic(dispatch, Head(dispatch).topic)
        /\ Before({Head(dispatch).n}, OfTopic(dispatch', Head(dispatch).topic))
    BY <1>t, <2>1, ReceiveOfTopic DEF TypeOK, QueuedMsgs, AtDispatch
  <2>4. \/ AtWorker(w, t)' = {}
        \/ AtWorker(w, t)' = {Head(dispatch).n} /\ Head(dispatch).topic = t
    BY <2>1 DEF AtWorker
  <2>5. AtWorker(w, t)' \subseteq AtDispatch(t) /\ Before(AtWorker(w, t)', AtDispatch(t)')
    BY <2>3, <2>4 DEF AtDispatch, Before
  <2> QED
    BY <1>t, <2>2, <2>3, <2>5 DEF Forwarded, Downstream, Before
<1>5. CASE FanOutDone
  <2>1. UNCHANGED <<cpc, cur, rawData, dispatch, processed>>
    BY <1>5 DEF FanOutDone
  <2>2. AtWorker(w, t)' = {}
    BY <1>5 DEF FanOutDone, AtWorker
  <2> QED
    BY <1>t, <2>1, <2>2 DEF Downstream, Before, Stored, AtForward, AtDispatch, Done
<1>6. ASSUME NEW v \in Workers, Process(v) PROVE Downstream(w, t)'
  <2>1. UNCHANGED <<cpc, cur, rawData, dispatch, fmsg>> /\ running' = running \ {v}
    BY <1>6 DEF Process
  <2>2. /\ Stored(t)' = Stored(t) /\ AtForward(t)' = AtForward(t)
        /\ AtDispatch(t)' = AtDispatch(t)
    BY <2>1 DEF Stored, AtForward, AtDispatch
  <2>3. fmsg.topic \in Topics /\ fmsg.n \in Nat /\ v \in running
    BY <1>6, <1>t DEF Process, TypeOK, QueuedMsgs
  <2>4. AtWorker(w, t)' \subseteq AtWorker(w, t)
    BY <2>1 DEF AtWorker
  <2>5. CASE v = w /\ fmsg.topic = t
    <3>1. processed'[w][t] = Append(processed[w][t], fmsg.n) /\ processed[w][t] \in Seq(Nat)
      BY <1>6, <1>t, <2>5 DEF Process, TypeOK
    <3>2. Done(w, t)' = Done(w, t) \cup AtWorker(w, t) /\ AtWorker(w, t)' = {}
      BY <2>1, <2>3, <2>5, <3>1, AppendElems DEF Done, AtWorker
    <3> QED
      BY <1>t, <2>2, <3>2 DEF Downstream, Before
  <2>6. CASE ~(v = w /\ fmsg.topic = t)
    <3>1. processed'[w][t] = processed[w][t]
      BY <1>6, <1>t, <2>3, <2>6 DEF Process, TypeOK
    <3> QED
      BY <1>t, <2>2, <2>4, <3>1 DEF Downstream, Before, Done
  <2> QED
    BY <2>5, <2>6
<1>7. CASE Crash
  <2>1. AtForward(t)' = {} /\ AtDispatch(t)' = {} /\ AtWorker(w, t)' = {}
    BY <1>7 DEF Crash, AtForward, AtDispatch, AtWorker, OfTopic
  <2>2. Stored(t)' = Stored(t) /\ Done(w, t)' = Done(w, t)
    BY <1>7 DEF Crash, Stored, Done
  <2> QED
    BY <1>t, <2>1, <2>2 DEF Downstream, Before
<1>8. ASSUME \/ \E u \in TopicNames : Submit(u)
             \/ Route \/ Enqueue \/ RouterStops \/ FanOutStops \/ Cancel \/ UNCHANGED vars
      PROVE  Downstream(w, t)'
  BY <1>0, <1>8 DEF Submit, Route, Enqueue, RouterStops, FanOutStops, Cancel, vars
<1> QED
  BY <1>1, <1>2, <1>3, <1>4, <1>5, <1>6, <1>7, <1>8 DEF Next, ConsumerStep

\* Every channel stays in order: what is sent to it comes after what it holds.
LEMMA NextChannels ==
    ASSUME PipelineInv, [Next]_vars
    PROVE  Channels'
<1> USE DEF router, consumer, fanout
<1>t. /\ TypeOK /\ Channels
      /\ \A t \in Topics : Upstream(t) /\ Forwarded(t) /\ queue[t] \in Seq(Nat)
  BY DEF PipelineInv, TypeOK
<1>1. ASSUME NEW u \in TopicNames, Submit(u) PROVE Channels'
  <2> DEFINE m == [topic |-> u, n |-> sent[u] + 1]
  <2>1. /\ m \in Msgs /\ m.topic = u /\ m.n = sent[u] + 1 /\ sent[u] \in Nat
        /\ input' = Append(input, m)
    BY <1>1, <1>t DEF Submit, TypeOK, Msgs
  <2>2. Before(OfTopic(input, m.topic), {m.n})
    BY <1>t, <2>1 DEF Channels, Before, AtInput
  <2>3. TopicsIncreasing(input')
    <3> HIDE DEF m
    <3> QED
      BY <1>t, <2>1, <2>2, SendOfTopic DEF TypeOK, Msgs, Channels
  <2>4. ASSUME NEW t \in TopicNames PROVE AtInput(t)' \subseteq 1..sent'[t]
    <3>1. sent'[t] = (IF t = u THEN sent[u] + 1 ELSE sent[t]) /\ sent[t] \in Nat
      BY <1>1, <1>t DEF Submit, TypeOK
    <3>2. AtInput(t) \subseteq 1..sent[t]
      BY <1>t DEF Channels
    <3>3. \A x \in AtInput(t)' : x \in AtInput(t) \/ (u = t /\ x = sent[t] + 1)
      BY <1>1, <1>t, SubmitOfTopic
    <3> QED
      BY <3>1, <3>2, <3>3
  <2> QED
    BY <1>1, <1>t, <2>3, <2>4 DEF Submit, Channels
<1>2. CASE Route
  <2>1. /\ TopicsIncreasing(input') /\ \A t : OfTopic(input', t) \subseteq OfTopic(input, t)
    BY <1>2, <1>t, ReceiveOfTopic DEF Route, TypeOK, Msgs, Channels
  <2> QED
    BY <1>2, <1>t, <2>1 DEF Route, Channels, AtInput
<1>3. CASE Enqueue
  <2>1. rmsg.n \in Nat /\ rmsg.topic \in Topics
    BY <1>3, <1>t DEF Enqueue, TypeOK, QueuedMsgs
  <2>2. Before(Elems(queue[rmsg.topic]), {rmsg.n})
    BY <1>3, <1>t, <2>1 DEF Enqueue, Upstream, Before, AtQueue, AtRouter
  <2>3. Increasing(Append(queue[rmsg.topic], rmsg.n))
    BY <1>t, <2>1, <2>2, SendElems DEF Channels
  <2>4. \A t \in Topics : Increasing(queue'[t])
    BY <1>3, <1>t, <2>1, <2>3 DEF Enqueue, Channels, TypeOK
  <2> QED
    BY <1>3, <1>t, <2>4 DEF Enqueue, Channels, AtInput
<1>4. ASSUME NEW u \in Topics, Receive(u) PROVE Channels'
  <2>1. Increasing(Tail(queue[u]))
    BY <1>4, <1>t, ReceiveElems DEF Receive, Channels
  <2>2. \A t \in Topics : Increasing(queue'[t])
    BY <1>4, <1>t, <2>1 DEF Receive, Channels, TypeOK
  <2> QED
    BY <1>4, <1>t, <2>2 DEF Receive, Channels, AtInput
<1>5. ASSUME NEW u \in Topics, Forward(u) PROVE Channels'
  <2> DEFINE m == [topic |-> u, n |-> cur[u]]
  <2>1. m \in QueuedMsgs /\ m.topic = u /\ m.n = cur[u] /\ dispatch' = Append(dispatch, m)
    BY <1>5, <1>t DEF Forward, TypeOK, QueuedMsgs
  <2>2. Before(OfTopic(dispatch, m.topic), {m.n})
    BY <1>5, <1>t, <2>1 DEF Forward, Forwarded, Before, AtDispatch, AtForward
  <2>3. TopicsIncreasing(dispatch')
    <3> HIDE DEF m
    <3> QED
      BY <1>t, <2>1, <2>2, SendOfTopic DEF TypeOK, QueuedMsgs, Channels
  <2> QED
    BY <1>5, <1>t, <2>3 DEF Forward, Channels, AtInput
<1>6. CASE FanOutReceive
  BY <1>6, <1>t, ReceiveOfTopic DEF FanOutReceive, TypeOK, QueuedMsgs, Channels, AtInput
<1>7. CASE Crash
  BY <1>7 DEF Crash, NoMsgs, Channels, TopicsIncreasing, Increasing, AtInput, OfTopic
<1>8. ASSUME \/ RouterStops \/ FanOutDone \/ FanOutStops \/ Cancel \/ UNCHANGED vars
             \/ \E u \in Topics : SaveRawData(u) \/ SaveFails(u) \/ ConsumerStops(u)
             \/ \E w \in Workers : Process(w)
      PROVE  Channels'
  <2>1. UNCHANGED <<sent, input, queue, dispatch>>
    BY <1>8 DEF RouterStops, FanOutDone, FanOutStops, Cancel, SaveRawData, SaveFails,
                ConsumerStops, Process, vars
  <2> QED
    BY <1>t, <2>1 DEF Channels, AtInput
<1> QED
  BY <1>1, <1>2, <1>3, <1>4, <1>5, <1>6, <1>7, <1>8 DEF Next, ConsumerStep

\* Workers move one message at a time and together, until a crash.
LEMMA NextLockstep ==
    ASSUME PipelineInv, [Next]_vars
    PROVE  Lockstep'
<1> USE DEF router, consumer, fanout
<1>t. TypeOK /\ Lockstep
  BY DEF PipelineInv
<1>1. CASE FanOutReceive
  <2>1. /\ UNCHANGED <<processed, crashes>> /\ running = {} /\ running' = Workers
        /\ fpc' = "wait"
    BY <1>1, <1>t DEF FanOutReceive, Lockstep
  <2>2. ASSUME NEW w \in Workers, NEW t \in Topics
        PROVE  /\ Progress(w, t) = Len(processed[w][t])
               /\ Progress(w, t)' =
                    IF fmsg'.topic = t THEN Len(processed[w][t]) + 1 ELSE Len(processed[w][t])
    <3>1. Len(processed[w][t]) \in Nat
      BY <1>t DEF TypeOK
    <3> QED
      BY <2>1, <3>1 DEF Progress
  <2>3. ASSUME crashes' = 0, NEW v \in Workers, NEW w \in Workers, NEW t \in Topics
        PROVE  Progress(v, t)' = Progress(w, t)'
    <3>1. Progress(v, t) = Progress(w, t)
      BY <1>t, <2>1, <2>3 DEF Lockstep
    <3> QED
      BY <2>2, <3>1
  <2> QED
    BY <2>1, <2>3 DEF Lockstep
<1>2. ASSUME NEW u \in Workers, Process(u) PROVE Lockstep'
  <2>1. /\ UNCHANGED <<fpc, fmsg, crashes>> /\ running' = running \ {u} /\ u \in running
        /\ fmsg.topic \in Topics /\ fmsg.n \in Nat
    BY <1>2, <1>t DEF Process, TypeOK, QueuedMsgs
  <2>2. ASSUME NEW w \in Workers, NEW t \in Topics
        PROVE  Progress(w, t)' = Progress(w, t)
    <3>1. processed[w][t] \in Seq(Nat) /\ Len(processed[w][t]) \in Nat
      BY <1>t DEF TypeOK
    <3>2. CASE w = u /\ fmsg.topic = t
      <4>1. processed'[w][t] = Append(processed[w][t], fmsg.n)
        BY <1>2, <1>t, <3>2 DEF Process, TypeOK
      <4>2. Len(processed'[w][t]) = Len(processed[w][t]) + 1
        BY <2>1, <3>1, <4>1, AppendEnd
      <4> QED
        BY <2>1, <3>1, <3>2, <4>2 DEF Progress
    <3>3. CASE ~(w = u /\ fmsg.topic = t)
      <4>1. processed'[w][t] = processed[w][t]
        BY <1>2, <1>t, <2>1, <3>3 DEF Process, TypeOK
      <4> QED
        BY <2>1, <3>3, <4>1 DEF Progress
    <3> QED
      BY <3>2, <3>3
  <2> QED
    <3>1. fpc' = "wait"
      BY <1>t, <2>1 DEF Lockstep
    <3>2. ASSUME crashes' = 0, NEW v \in Workers, NEW w \in Workers, NEW t \in Topics
          PROVE  Progress(v, t)' = Progress(w, t)'
      <4>1. Progress(v, t) = Progress(w, t)
        BY <1>t, <2>1, <3>2 DEF Lockstep
      <4> QED
        BY <2>2, <4>1
    <3> QED
      BY <3>1, <3>2 DEF Lockstep
<1>3. CASE FanOutDone
  <2>1. UNCHANGED <<processed, crashes>> /\ running = {} /\ running' = {}
    BY <1>3 DEF FanOutDone
  <2> QED
    BY <1>t, <2>1 DEF Lockstep, Progress
<1>4. CASE Crash
  <2>1. running' = {} /\ crashes' # 0
    BY <1>4, <1>t DEF Crash, TypeOK
  <2> QED
    BY <2>1 DEF Lockstep
<1>5. ASSUME \/ \E u \in TopicNames : Submit(u)
             \/ Route \/ Enqueue \/ RouterStops \/ FanOutStops \/ Cancel \/ UNCHANGED vars
             \/ \E u \in Topics : ConsumerStep(u) \/ Forward(u)
      PROVE  Lockstep'
  <2>1. UNCHANGED <<processed, crashes, running, fmsg>> /\ (fpc' = "wait" <=> fpc = "wait")
    BY <1>5 DEF Submit, Route, Enqueue, RouterStops, FanOutStops, Cancel, vars, ConsumerStep,
                Receive, SaveRawData, SaveFails, ConsumerStops, Forward
  <2> QED
    BY <1>t, <2>1 DEF Lockstep, Progress
<1> QED
  BY <1>1, <1>2, <1>3, <1>4, <1>5 DEF Next

LEMMA NextInv == PipelineInv /\ [Next]_vars => PipelineInv'
  BY NextType, NextUpstream, NextForwarded, NextDownstream, NextChannels, NextLockstep
     DEF PipelineInv

LEMMA PipelineInvariant == Spec => []PipelineInv
  BY InitInv, NextInv, PTL DEF Spec

-----------------------------------------------------------------------------
(* Theorems                                                                 *)

\* wg.Wait() in the fan-out: without a crash, the workers' histories of a topic
\* never differ by more than the message that is being handed out.
THEOREM WorkersKeepStep == Spec => []WorkersInStep
<1>1. PipelineInv => WorkersInStep
  <2> SUFFICES ASSUME PipelineInv, crashes = 0,
                      NEW v \in Workers, NEW w \in Workers, NEW t \in Topics
               PROVE  Len(processed[v][t]) - Len(processed[w][t]) \in -1..1
    BY DEF WorkersInStep
  <2>1. Len(processed[v][t]) \in Nat /\ Len(processed[w][t]) \in Nat
    BY DEF PipelineInv, TypeOK
  <2>2. Progress(v, t) = Progress(w, t)
    BY DEF PipelineInv, Lockstep
  <2>3. /\ Progress(v, t) \in {Len(processed[v][t]), Len(processed[v][t]) + 1}
        /\ Progress(w, t) \in {Len(processed[w][t]), Len(processed[w][t]) + 1}
    BY <2>1 DEF Progress
  <2> DEFINE a == Len(processed[v][t])
             b == Len(processed[w][t])
  <2>4. a \in Nat /\ b \in Nat /\ a <= b + 1 /\ b <= a + 1
    BY <2>1, <2>2, <2>3
  <2> HIDE DEF a, b
  <2>5. a - b \in -1..1
    BY <2>4
  <2> QED
    BY <2>5 DEF a, b
<1> QED
  BY <1>1, PipelineInvariant, PTL

\* A step of the pipeline is a step of the abstract log or leaves it alone.
LEMMA StepImplementsLog ==
    ASSUME PipelineInv, [Next]_vars
    PROVE  [Abstract!Next]_(Abstract!vars)
<1> USE DEF router, consumer, fanout
<1>t. TypeOK /\ Topics \subseteq TopicNames
  BY IngestionAssumption DEF PipelineInv
<1> DEFINE accepted == [t \in Topics |-> sent[t]]
<1>0. ASSUME UNCHANGED <<sent, rawData, processed>> PROVE UNCHANGED Abstract!vars
  BY <1>0 DEF Abstract!vars
<1>1. ASSUME NEW t \in TopicNames, Submit(t) PROVE [Abstract!Next]_(Abstract!vars)
  <2>1. UNCHANGED <<rawData, processed>> /\ sent' = [sent EXCEPT ![t] = @ + 1]
    BY <1>1 DEF Submit
  <2>2. CASE t \in Topics
    <3>1. accepted' = [accepted EXCEPT ![t] = @ + 1]
      BY <1>t, <2>1, <2>2 DEF TypeOK
    <3>2. Abstract!Accept(t)
      BY <2>1, <3>1 DEF Abstract!Accept
    <3> QED
      BY <2>2, <3>2 DEF Abstract!Next
  <2>3. CASE t \notin Topics
    <3>1. accepted' = accepted
      BY <1>t, <2>1, <2>3 DEF TypeOK
    <3> QED
      BY <2>1, <3>1 DEF Abstract!vars
  <2> QED
    BY <2>2, <2>3
<1>2. ASSUME NEW t \in Topics, SaveRawData(t) PROVE [Abstract!Next]_(Abstract!vars)
  <2>1. UNCHANGED <<sent, processed>> /\ rawData' = [rawData EXCEPT ![t] = Append(@, cur[t])]
    BY <1>2 DEF SaveRawData
  <2>2. AtSave(t) = {cur[t]} /\ Upstream(t)
    BY <1>2 DEF SaveRawData, AtSave, PipelineInv
  <2>3. cur[t] \in 1..accepted[t] /\ Abstract!Above(cur[t], rawData[t])
    BY <2>2 DEF Upstream, Before, Stored, Elems, Abstract!Above
  <2>4. Abstract!Persist(t)
    BY <2>1, <2>3 DEF Abstract!Persist
  <2> QED
    BY <2>4 DEF Abstract!Next
<1>3. ASSUME NEW w \in Workers, Process(w) PROVE [Abstract!Next]_(Abstract!vars)
  <2> DEFINE t == fmsg.topic
  <2>1. /\ UNCHANGED <<sent, rawData>>
        /\ processed' = [processed EXCEPT ![w][t] = Append(@, fmsg.n)]
        /\ t \in Topics /\ w \in running
    BY <1>3, <1>t DEF Process, TypeOK, QueuedMsgs
  <2>2. AtWorker(w, t) = {fmsg.n} /\ Downstream(w, t)
    BY <2>1 DEF AtWorker, PipelineInv
  <2>3. PICK i \in DOMAIN rawData[t] : rawData[t][i] = fmsg.n
    BY <2>2 DEF Downstream, Stored, Elems
  <2>4. Abstract!Above(rawData[t][i], processed[w][t])
    BY <2>2, <2>3 DEF Downstream, Before, Done, Elems, Abstract!Above
  <2>5. Abstract!Deliver(w, t)
    BY <2>1, <2>3, <2>4 DEF Abstract!Deliver
  <2> QED
    BY <2>1, <2>5 DEF Abstract!Next
<1>4. ASSUME \/ Route \/ Enqueue \/ RouterStops \/ FanOutReceive \/ FanOutDone \/ FanOutStops
             \/ \E t \in Topics : Receive(t) \/ SaveFails(t) \/ ConsumerStops(t) \/ Forward(t)
             \/ Cancel \/ Crash \/ UNCHANGED vars
      PROVE  [Abstract!Next]_(Abstract!vars)
  <2>1. UNCHANGED <<sent, rawData, processed>>
    BY <1>4 DEF Route, Enqueue, RouterStops, FanOutReceive, FanOutDone, FanOutStops, Receive,
                SaveFails, ConsumerStops, Forward, Cancel, Crash, vars
  <2> QED
    BY <1>0, <2>1
<1> QED
  BY <1>1, <1>2, <1>3, <1>4 DEF Next, ConsumerStep

\* The router, the per-topic queues and consumers, the store and the fan-out
\* together implement one FIFO log per topic, whatever the interleaving, the
\* failed saves, the cancellations and the crashes.
THEOREM PipelineImplementsLog == Spec => ImplementsTopicLog
<1>1. Init => Abstract!Init
  BY IngestionAssumption DEF Init, NoMsgs, Abstract!Init
<1>2. PipelineInv /\ [Next]_vars => [Abstract!Next]_(Abstract!vars)
  BY StepImplementsLog
<1> QED
  BY <1>1, <1>2, PipelineInvariant, PTL DEF Spec, ImplementsTopicLog, Abstract!Spec

-----------------------------------------------------------------------------
(* What the abstract log promises                                           *)

\* The rows and the messages handed over, as the abstract log sees them.
LogInv == Abstract!TypeOK /\ Abstract!InOrder

\* Appending a number above all others keeps a sequence increasing.
LEMMA AppendIncreasing ==
    ASSUME NEW s \in Seq(Nat), NEW k \in Nat, Abstract!Increasing(s), Abstract!Above(k, s)
    PROVE  Append(s, k) \in Seq(Nat) /\ Abstract!Increasing(Append(s, k))
<1>1. \A i \in DOMAIN s : Append(s, k)[i] = s[i] /\ s[i] < k
  BY DEF Abstract!Above
<1>2. Append(s, k)[Len(s) + 1] = k /\ DOMAIN Append(s, k) = 1..(Len(s) + 1)
  OBVIOUS
<1>3. ASSUME NEW i \in DOMAIN Append(s, k), NEW j \in DOMAIN Append(s, k), i < j
      PROVE  Append(s, k)[i] < Append(s, k)[j]
  <2>1. i \in DOMAIN s
    BY <1>2, <1>3
  <2>2. CASE j \in DOMAIN s
    BY <1>1, <1>3, <2>1, <2>2 DEF Abstract!Increasing
  <2>3. CASE j = Len(s) + 1
    BY <1>1, <1>2, <2>1, <2>3
  <2> QED
    BY <1>2, <2>2, <2>3
<1> QED
  BY <1>3 DEF Abstract!Increasing

LEMMA LogInit == Abstract!Init => LogInv
  BY DEF Abstract!Init, LogInv, Abstract!TypeOK, Abstract!InOrder, Abstract!Increasing

LEMMA LogNext == LogInv /\ [Abstract!Next]_(Abstract!vars) => LogInv'
<1> SUFFICES ASSUME LogInv, [Abstract!Next]_(Abstract!vars) PROVE LogInv'
  OBVIOUS
<1> USE DEF LogInv
<1> DEFINE accepted == [t \in Topics |-> sent[t]]
<1>1. ASSUME NEW t \in Topics, Abstract!Accept(t) PROVE LogInv'
  <2>1. /\ accepted' = [accepted EXCEPT ![t] = @ + 1]
        /\ UNCHANGED <<rawData, processed>>
    BY <1>1 DEF Abstract!Accept
  <2>2. accepted \in [Topics -> Nat]
    BY DEF Abstract!TypeOK
  <2> HIDE DEF accepted
  <2>3. accepted' \in [Topics -> Nat]
    BY <2>1, <2>2
  <2>4. Abstract!TypeOK'
    BY <2>1, <2>3 DEF accepted, Abstract!TypeOK
  <2> QED
    BY <2>1, <2>4 DEF Abstract!InOrder
<1>2. ASSUME NEW t \in Topics, Abstract!Persist(t) PROVE LogInv'
  <2>1. PICK k \in 1..accepted[t] :
          Abstract!Above(k, rawData[t]) /\ rawData' = [rawData EXCEPT ![t] = Append(@, k)]
    BY <1>2 DEF Abstract!Persist
  <2>2. UNCHANGED <<accepted, processed>>
    BY <1>2 DEF Abstract!Persist
  <2>3. k \in Nat /\ rawData[t] \in Seq(Nat)
    BY <2>1 DEF Abstract!TypeOK
  <2>4. rawData'[t] = Append(rawData[t], k) /\ \A u \in Topics \ {t} : rawData'[u] = rawData[u]
    BY <2>1 DEF Abstract!TypeOK
  <2>5. rawData'[t] \in Seq(Nat) /\ Abstract!Increasing(rawData'[t])
    BY <2>1, <2>3, <2>4, AppendIncreasing DEF Abstract!InOrder
  <2>6. Abstract!TypeOK'
    BY <2>1, <2>2, <2>5 DEF Abstract!TypeOK
  <2>7. \A i \in DOMAIN rawData[t] : i \in DOMAIN rawData'[t] /\ rawData'[t][i] = rawData[t][i]
    BY <2>3, <2>4
  <2>8. ASSUME NEW u \in Topics
        PROVE  /\ Abstract!Increasing(rawData'[u])
               /\ \A i \in DOMAIN rawData[u] : i \in DOMAIN rawData'[u] /\ rawData'[u][i] = rawData[u][i]
    BY <2>4, <2>5, <2>7 DEF Abstract!InOrder
  <2>9. Abstract!InOrder'
    BY <2>2, <2>8 DEF Abstract!InOrder
  <2> QED
    BY <2>6, <2>9
<1>3. ASSUME NEW t \in Topics, NEW w \in Workers, Abstract!Deliver(w, t) PROVE LogInv'
  <2>1. PICK i \in DOMAIN rawData[t] :
          /\ Abstract!Above(rawData[t][i], processed[w][t])
          /\ processed' = [processed EXCEPT ![w][t] = Append(@, rawData[t][i])]
    BY <1>3 DEF Abstract!Deliver
  <2>2. UNCHANGED <<accepted, rawData>>
    BY <1>3 DEF Abstract!Deliver
  <2> DEFINE s == processed[w][t]
             k == rawData[t][i]
  <2>3. s \in Seq(Nat) /\ k \in Nat
    BY DEF Abstract!TypeOK
  <2>4. /\ processed'[w][t] = Append(s, k)
        /\ \A v \in Workers, u \in Topics :
             <<v, u>> # <<w, t>> => processed'[v][u] = processed[v][u]
    BY <2>1 DEF Abstract!TypeOK
  <2>5. Append(s, k) \in Seq(Nat) /\ Abstract!Increasing(Append(s, k))
    BY <2>1, <2>3, AppendIncreasing DEF Abstract!InOrder
  <2>6. Abstract!TypeOK'
    BY <2>1, <2>2, <2>5 DEF Abstract!TypeOK
  <2>7. ASSUME NEW j \in DOMAIN Append(s, k)
        PROVE  \E l \in DOMAIN rawData[t] : rawData[t][l] = Append(s, k)[j]
    <3>1. CASE j \in DOMAIN s
      BY <2>3, <3>1 DEF Abstract!InOrder
    <3>2. CASE j = Len(s) + 1
      BY <2>3, <3>2
    <3> QED
      BY <2>3, <3>1, <3>2
  <2>8. ASSUME NEW v \in Workers, NEW u \in Topics
        PROVE  /\ Abstract!Increasing(processed'[v][u])
               /\ \A j \in DOMAIN processed'[v][u] :
                    \E l \in DOMAIN rawData[u] : rawData[u][l] = processed'[v][u][j]
    <3>1. CASE v = w /\ u = t
      <4>1. processed'[v][u] = Append(s, k)
        BY <2>4, <3>1
      <4>2. \A j \in DOMAIN Append(s, k) : \E l \in DOMAIN rawData[u] : rawData[u][l] = Append(s, k)[j]
        BY <2>7, <3>1
      <4> HIDE DEF s, k
      <4> QED
        BY <2>5, <4>1, <4>2
    <3>2. CASE ~(v = w /\ u = t)
      BY <2>4, <3>2 DEF Abstract!InOrder
    <3> QED
      BY <3>1, <3>2
  <2>9. Abstract!InOrder'
    BY <2>2, <2>8 DEF Abstract!InOrder
  <2> QED
    BY <2>6, <2>9
<1>4. CASE UNCHANGED Abstract!vars
  BY <1>4 DEF Abstract!vars, Abstract!TypeOK, Abstract!InOrder
<1> QED
  BY <1>1, <1>2, <1>3, <1>4 DEF Abstract!Next

\* Whatever is skipped, a topic's table is in acceptance order without
\* duplicates, and every worker sees persisted messages only, in that order.
THEOREM LogInOrder == Abstract!Spec => []Abstract!InOrder
<1>1. LogInv => Abstract!InOrder
  BY DEF LogInv
<1> QED
  BY <1>1, LogInit, LogNext, PTL DEF Abstract!Spec

\* Hence, at any time, a topic's rows are in acceptance order without
\* duplicates, and a worker has seen rows of the table only, in that order.
THEOREM RowsInOrder == Spec => []Abstract!InOrder
  BY LogInOrder, PipelineImplementsLog, PTL DEF ImplementsTopicLog
=============================================================================
