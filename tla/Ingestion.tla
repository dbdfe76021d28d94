------------------------------- MODULE Ingestion -------------------------------
(***************************************************************************)
(* Ingestion and processing: the router goroutine (pipeline.go) moves       *)
(* messages from msgChan to one bounded queue per topic; one consumer       *)
(* goroutine per queue (queue.go) persists each message in raw_data         *)
(* (repository.go) and forwards it to processChan; the fan-out goroutine    *)
(* (fanout.go) hands it to all workers concurrently and waits for them.     *)
(*                                                                         *)
(* A message is its topic and its number among the messages of that topic.  *)
(* raw_data is kept per topic, as GetByTopic reads it (ORDER BY id).        *)
(* A crash loses everything but raw_data and the history variables.         *)
(***************************************************************************)
EXTENDS Integers, Sequences

CONSTANTS
    TopicNames,    \* topics of messages that reach msgChan
    Topics,        \* topics that have a queue
    Workers,       \* the fan-out's workers
    BufSize,       \* capacity of msgChan, of each queue and of processChan
    MaxMsgs,       \* bound: messages per topic
    MaxCrashes,    \* bound: crashes
    StoreMayFail,  \* may SaveRawData fail?
    MayCancel,     \* may ctx be cancelled?
    None

ASSUME IngestionAssumption ==
    /\ Topics \subseteq TopicNames
    /\ BufSize \in Nat \ {0}
    /\ MaxMsgs \in Nat /\ MaxCrashes \in Nat
    /\ StoreMayFail \in BOOLEAN /\ MayCancel \in BOOLEAN
    /\ None \notin [topic : TopicNames, n : Nat]

VARIABLES
    sent,       \* per topic, messages put in msgChan so far
    input,      \* msgChan
    rpc, rmsg,  \* router: where it is, and the message it is enqueuing
    queue,      \* Queue.messages of each topic (message numbers)
    cpc, cur,   \* consumers: where they are, and the message each one holds
    rawData,    \* per topic, the rows of raw_data in id order
    dispatch,   \* processChan
    fpc, fmsg,  \* fan-out: where it is, and the message it is handing out
    running,    \* workers whose Process call for fmsg has not ended
    processed,  \* history: per worker and topic, the messages processed
    cancelled,  \* ctx is cancelled
    crashes

router   == <<rpc, rmsg>>
consumer == <<cpc, cur>>
fanout   == <<fpc, fmsg, running>>
vars == <<sent, input, router, queue, consumer, rawData, dispatch, fanout,
          processed, cancelled, crashes>>

Msgs == [topic : TopicNames, n : Nat]

NoMsgs == [t \in Topics |-> << >>]

\* The goroutines and channels as bootstrap creates them.
Init ==
    /\ input = << >> /\ dispatch = << >>
    /\ rpc = "select" /\ rmsg = None
    /\ queue = NoMsgs
    /\ cpc = [t \in Topics |-> "select"] /\ cur = [t \in Topics |-> 0]
    /\ fpc = "select" /\ fmsg = None /\ running = {}
    /\ cancelled = FALSE
    /\ sent = [t \in TopicNames |-> 0]
    /\ rawData = NoMsgs
    /\ processed = [w \in Workers |-> NoMsgs]
    /\ crashes = 0

-----------------------------------------------------------------------------
(* handlePublish puts an accepted message in msgChan.                       *)
Submit(t) ==
    /\ sent[t] < MaxMsgs /\ Len(input) < BufSize
    /\ sent' = [sent EXCEPT ![t] = @ + 1]
    /\ input' = Append(input, [topic |-> t, n |-> sent[t] + 1])
    /\ UNCHANGED <<router, queue, consumer, rawData, dispatch, fanout,
                   processed, cancelled, crashes>>

-----------------------------------------------------------------------------
(* Pipeline.Start, the router                                               *)

Route ==
    /\ rpc = "select" /\ input # << >>
    /\ input' = Tail(input)
    /\ IF Head(input).topic \in Topics
         THEN rpc' = "enqueue" /\ rmsg' = Head(input)
         ELSE UNCHANGED router
    /\ UNCHANGED <<sent, queue, consumer, rawData, dispatch, fanout,
                   processed, cancelled, crashes>>

\* Faulty variant: a full queue drops the message.
EnqueueOrDrop ==
    /\ rpc = "enqueue"
    /\ queue' = IF Len(queue[rmsg.topic]) < BufSize
                  THEN [queue EXCEPT ![rmsg.topic] = Append(@, rmsg.n)] ELSE queue
    /\ rpc' = "select" /\ rmsg' = None
    /\ UNCHANGED <<sent, input, consumer, rawData, dispatch, fanout,
                   processed, cancelled, crashes>>

\* q.Enqueue(msg): a plain channel send, which does not watch ctx.
Enqueue ==
    /\ rpc = "enqueue"
    /\ Len(queue[rmsg.topic]) < BufSize
    /\ queue' = [queue EXCEPT ![rmsg.topic] = Append(@, rmsg.n)]
    /\ rpc' = "select" /\ rmsg' = None
    /\ UNCHANGED <<sent, input, consumer, rawData, dispatch, fanout,
                   processed, cancelled, crashes>>

RouterStops ==
    /\ rpc = "select" /\ cancelled
    /\ rpc' = "stopped" /\ UNCHANGED rmsg
    /\ UNCHANGED <<sent, input, queue, consumer, rawData, dispatch, fanout,
                   processed, cancelled, crashes>>

-----------------------------------------------------------------------------
(* Queue.StartConsumer                                                      *)

Receive(t) ==
    /\ cpc[t] = "select" /\ queue[t] # << >>
    /\ cur' = [cur EXCEPT ![t] = Head(queue[t])]
    /\ queue' = [queue EXCEPT ![t] = Tail(@)]
    /\ cpc' = [cpc EXCEPT ![t] = "save"]
    /\ UNCHANGED <<sent, input, router, rawData, dispatch, fanout,
                   processed, cancelled, crashes>>

\* SaveRawData commits one row in one transaction, under the store's mutex.
SaveRawData(t) ==
    /\ cpc[t] = "save"
    /\ rawData' = [rawData EXCEPT ![t] = Append(@, cur[t])]
    /\ cpc' = [cpc EXCEPT ![t] = "forward"]
    /\ UNCHANGED <<sent, input, router, queue, cur, dispatch, fanout,
                   processed, cancelled, crashes>>

\* Faulty variant: the "continue" after a failed save is missing.
SaveFailsForwards(t) ==
    /\ cpc[t] = "save" /\ (StoreMayFail \/ cancelled)
    /\ cpc' = [cpc EXCEPT ![t] = "forward"]
    /\ UNCHANGED <<sent, input, router, queue, cur, rawData, dispatch, fanout,
                   processed, cancelled, crashes>>

\* SaveRawData returns an error (rolled back): the message is skipped.
SaveFails(t) ==
    /\ cpc[t] = "save" /\ (StoreMayFail \/ cancelled)
    /\ cpc' = [cpc EXCEPT ![t] = "select"]
    /\ UNCHANGED <<sent, input, router, queue, cur, rawData, dispatch, fanout,
                   processed, cancelled, crashes>>

\* Faulty variant: a message that finds processChan full is dropped.
ForwardOrDrop(t) ==
    /\ cpc[t] = "forward"
    /\ dispatch' = IF Len(dispatch) < BufSize
                     THEN Append(dispatch, [topic |-> t, n |-> cur[t]]) ELSE dispatch
    /\ cpc' = [cpc EXCEPT ![t] = "select"]
    /\ UNCHANGED <<sent, input, router, queue, cur, rawData, fanout,
                   processed, cancelled, crashes>>

\* case dispatchChan <- msg
Forward(t) ==
    /\ cpc[t] = "forward" /\ Len(dispatch) < BufSize
    /\ dispatch' = Append(dispatch, [topic |-> t, n |-> cur[t]])
    /\ cpc' = [cpc EXCEPT ![t] = "select"]
    /\ UNCHANGED <<sent, input, router, queue, cur, rawData, fanout,
                   processed, cancelled, crashes>>

\* Faulty variant: the send to processChan does not watch ctx.
ConsumerStopsIdle(t) ==
    /\ cpc[t] = "select" /\ cancelled
    /\ cpc' = [cpc EXCEPT ![t] = "stopped"]
    /\ UNCHANGED <<sent, input, router, queue, cur, rawData, dispatch, fanout,
                   processed, cancelled, crashes>>

ConsumerStops(t) ==
    /\ cpc[t] \in {"select", "forward"} /\ cancelled
    /\ cpc' = [cpc EXCEPT ![t] = "stopped"]
    /\ UNCHANGED <<sent, input, router, queue, cur, rawData, dispatch, fanout,
                   processed, cancelled, crashes>>

-----------------------------------------------------------------------------
(* FanOut.Start and fanOut                                                  *)

FanOutReceive ==
    /\ fpc = "select" /\ dispatch # << >>
    /\ fmsg' = Head(dispatch) /\ dispatch' = Tail(dispatch)
    /\ running' = Workers /\ fpc' = "wait"
    /\ UNCHANGED <<sent, input, router, queue, consumer, rawData,
                   processed, cancelled, crashes>>

\* One worker's Process call; an error is logged and a panic recovered.
Process(w) ==
    /\ w \in running
    /\ running' = running \ {w}
    /\ processed' = [processed EXCEPT ![w][fmsg.topic] = Append(@, fmsg.n)]
    /\ UNCHANGED <<sent, input, router, queue, consumer, rawData, dispatch,
                   fpc, fmsg, cancelled, crashes>>

\* Faulty variant: without wg.Wait, the next message replaces slow workers' one.
FanOutNoWait ==
    /\ fpc = "wait"
    /\ fpc' = "select" /\ fmsg' = None /\ running' = {}
    /\ UNCHANGED <<sent, input, router, queue, consumer, rawData, dispatch,
                   processed, cancelled, crashes>>

\* wg.Wait() returns
FanOutDone ==
    /\ fpc = "wait" /\ running = {}
    /\ fpc' = "select" /\ fmsg' = None
    /\ UNCHANGED <<sent, input, router, queue, consumer, rawData, dispatch,
                   running, processed, cancelled, crashes>>

FanOutStops ==
    /\ fpc = "select" /\ cancelled
    /\ fpc' = "stopped"
    /\ UNCHANGED <<sent, input, router, queue, consumer, rawData, dispatch,
                   fmsg, running, processed, cancelled, crashes>>

-----------------------------------------------------------------------------
Cancel ==
    /\ MayCancel /\ ~cancelled
    /\ cancelled' = TRUE
    /\ UNCHANGED <<sent, input, router, queue, consumer, rawData, dispatch,
                   fanout, processed, crashes>>

\* The process dies and is started again; nothing replays raw_data.
Crash ==
    /\ crashes < MaxCrashes
    /\ crashes' = crashes + 1
    /\ input' = << >> /\ dispatch' = << >>
    /\ rpc' = "select" /\ rmsg' = None
    /\ queue' = NoMsgs
    /\ cpc' = [t \in Topics |-> "select"] /\ cur' = [t \in Topics |-> 0]
    /\ fpc' = "select" /\ fmsg' = None /\ running' = {}
    /\ cancelled' = FALSE
    /\ UNCHANGED <<sent, rawData, processed>>

ConsumerStep(t) ==
    Receive(t) \/ SaveRawData(t) \/ SaveFails(t) \/ ConsumerStops(t)

Next ==
    \/ \E t \in TopicNames : Submit(t)
    \/ Route \/ Enqueue \/ RouterStops
    \/ \E t \in Topics : ConsumerStep(t) \/ Forward(t)
    \/ FanOutReceive \/ FanOutDone \/ FanOutStops
    \/ \E w \in Workers : Process(w)
    \/ Cancel \/ Crash

Spec == Init /\ [][Next]_vars

(***************************************************************************)
(* Fairness.  Every goroutine that can run is scheduled (WF); consumers     *)
(* blocked on processChan wait in the runtime's FIFO of senders (SF).       *)
(* Nothing forces clients to publish, ctx to be cancelled or a crash.       *)
(***************************************************************************)
Fairness ==
    /\ WF_vars(Route \/ Enqueue) /\ WF_vars(RouterStops)
    /\ \A t \in Topics :
         WF_vars(ConsumerStep(t)) /\ WF_vars(ConsumerStops(t)) /\ SF_vars(Forward(t))
    /\ WF_vars(FanOutReceive \/ FanOutDone) /\ WF_vars(FanOutStops)
    /\ \A w \in Workers : WF_vars(Process(w))

FairSpec == Spec /\ Fairness

-----------------------------------------------------------------------------
(* Properties                                                               *)

Abstract == INSTANCE TopicLog WITH
                accepted <- [t \in Topics |-> sent[t]],
                log <- rawData,
                delivered <- processed

\* Routing, queueing, saving and fanning out implement one FIFO log per topic:
\* the concurrency, the store failures and the crashes never reorder or
\* duplicate the messages of a topic, and workers only see persisted ones.
ImplementsTopicLog == Abstract!Spec

\* "waits for all of them to complete": no worker is handed a message before
\* every worker has finished the previous one.
WorkersInStep ==
    crashes = 0 =>
      \A v, w \in Workers, t \in Topics :
         Len(processed[v][t]) - Len(processed[w][t]) \in -1..1

\* Message k of topic t was received and is not in the table: its save failed.
PassedOver(t, k) ==
    /\ cur[t] >= k /\ ~(cur[t] = k /\ cpc[t] = "save")
    /\ \A i \in DOMAIN rawData[t] : rawData[t][i] # k

\* Nothing is lost without a failed save of that very message, a crash or
\* cancellation: every other message reaches the table and every worker,
\* although the router and processChan are shared and every channel can be full.
EveryMessageProcessed ==
    \A t \in Topics, k \in 1..MaxMsgs :
        (sent[t] >= k) ~>
            \/ cancelled \/ crashes > 0
            \/ PassedOver(t, k)
            \/ \A w \in Workers : \E i \in DOMAIN processed[w][t] : processed[w][t][i] = k

\* After cancellation every consumer and the fan-out return, even when
\* processChan is full and nobody reads it.  The router returns too, unless it
\* is in Enqueue, which does not watch ctx and may have lost its consumer.
\* (cancelled becomes FALSE again only when a crash ends them all.)
GoroutinesStop ==
    cancelled ~> \/ ~cancelled
                 \/ /\ fpc = "stopped"
                    /\ \A t \in Topics : cpc[t] = "stopped"
                    /\ rpc \in {"stopped", "enqueue"}
=============================================================================
