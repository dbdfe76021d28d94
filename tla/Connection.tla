------------------------------ MODULE Connection ------------------------------
(***************************************************************************)
(* The MQTT connection layer: the accept loop (server.go), one             *)
(* handleConnection goroutine per TCP connection (handle_connection.go,    *)
(* read_loop.go, handle_publish.go), the ClientManager (a mutex-protected  *)
(* map from client ID to connection, bounded by maxClients) and the        *)
(* TopicRegistry (a mutex-protected map from topic to owning client ID).   *)
(*                                                                         *)
(* One step of a handler is one critical section or one blocking call, so  *)
(* the steps of two handlers interleave exactly where the Go code lets     *)
(* them.  A handler is a goroutine slot: when its connection is over the   *)
(* slot is idle and Accept may use it again, so the number of connections  *)
(* over time is unbounded and only the number alive at once is bounded.    *)
(*                                                                         *)
(* Packets without an effect on this state (PINGREQ, SUBSCRIBE, malformed  *)
(* PUBLISH, unexpected types) only produce a reply or a log line and are   *)
(* steps that change nothing; so is a connection that Accept turns away.   *)
(***************************************************************************)
EXTENDS Integers, Sequences, FiniteSets

CONSTANTS
    Handlers,       \* goroutine slots for handleConnection
    ClientIDs,      \* client identifiers a CONNECT may carry
    TopicNames,     \* topic names a PUBLISH may carry
    Topics,         \* the allowed topics (BROKER_TOPICS)
    MaxClients,     \* BROKER_MAX_CLIENTS
    MsgChanCap,     \* capacity of msgChan (BROKER_QUEUE_BUFFER_SIZE)
    AllowTakeover,  \* may a CONNECT carry the ID of a connection still being served?
    None            \* no client, no handler, no packet

ASSUME ConnectionAssumption ==
    /\ IsFiniteSet(Handlers) /\ IsFiniteSet(ClientIDs)
    /\ Topics \subseteq TopicNames
    /\ MaxClients \in Nat \ {0}
    /\ MsgChanCap \in Nat
    /\ AllowTakeover \in BOOLEAN
    /\ None \notin Handlers \cup ClientIDs

VARIABLES
    listening,  \* the listener is open
    cancelled,  \* ctx is cancelled
    pc,         \* where each handler goroutine is
    id,         \* cl.ID of each handler, None before CONNECT was decoded
    sock,       \* the server's end of each handler's TCP connection
    pkt,        \* the PUBLISH each handler is working on, or None
    clients,    \* ClientManager.clients
    owners,     \* TopicRegistry.owners
    msgChan     \* the channel from the handlers to the ingestion pipeline

vars == <<listening, cancelled, pc, id, sock, pkt, clients, owners, msgChan>>

-----------------------------------------------------------------------------
(* "publishing" states: inside handlePublish.  A handler is registered from *)
(* its Add to its deferred Remove, and may own topics until its Release.    *)

Publishing == {"claim", "send", "puback"}
Serving    == {"read", "release"} \cup Publishing
Registered == Serving \cup {"remove"}
PCs        == {"idle", "connect", "add", "close"} \cup Registered

QoS      == {0, 1, 2}
Packets  == [topic : TopicNames, qos : QoS]
Messages == [client : ClientIDs, topic : Topics]

\* What a CONNECT presents: the configured username and password, some other
\* pair (an empty one included), or no username at all.
Credentials == {"configured", "other", "absent"}

TypeOK ==
    /\ listening \in BOOLEAN /\ cancelled \in BOOLEAN
    /\ pc \in [Handlers -> PCs]
    /\ id \in [Handlers -> ClientIDs \cup {None}]
    /\ sock \in [Handlers -> {"none", "open", "closed"}]
    /\ pkt \in [Handlers -> Packets \cup {None}]
    /\ clients \in [ClientIDs -> Handlers \cup {None}]
    /\ owners \in [Topics -> ClientIDs \cup {None}]
    /\ msgChan \in Seq(Messages)

Init ==
    /\ listening = TRUE /\ cancelled = FALSE
    /\ pc = [h \in Handlers |-> "idle"]
    /\ id = [h \in Handlers |-> None]
    /\ sock = [h \in Handlers |-> "none"]
    /\ pkt = [h \in Handlers |-> None]
    /\ clients = [x \in ClientIDs |-> None]
    /\ owners = [t \in Topics |-> None]
    /\ msgChan = << >>

Goto(h, l) == pc' = [pc EXCEPT ![h] = l]

-----------------------------------------------------------------------------
(* ClientManager                                                            *)

RegisteredIDs == {x \in ClientIDs : clients[x] # None}

CanAccept == Cardinality(RegisteredIDs) < MaxClients

\* Faulty variant: Add trusts the CanAccept of the accept loop.
AddNeverRefused(x) == FALSE

AddRefused(x) == Cardinality(RegisteredIDs) >= MaxClients /\ clients[x] = None

\* Faulty variant: the new connection is not entered in the map.
RegisterNoEntry(h) ==
    LET x == id[h] IN
    /\ ~AddRefused(x)
    /\ sock' = [g \in Handlers |-> IF g = clients[x] THEN "closed" ELSE sock[g]]
    /\ UNCHANGED clients

\* The branch of Add that registers: an existing connection of the same ID
\* is closed and its entry replaced.
Register(h) ==
    LET x == id[h] IN
    /\ ~AddRefused(x)
    /\ clients' = [clients EXCEPT ![x] = h]
    /\ sock' = [g \in Handlers |-> IF g = clients[x] THEN "closed" ELSE sock[g]]

-----------------------------------------------------------------------------
(* The accept loop                                                          *)

Accept(h) ==
    /\ listening /\ CanAccept
    /\ pc[h] = "idle"
    /\ Goto(h, "connect")
    /\ sock' = [sock EXCEPT ![h] = "open"]
    /\ UNCHANGED <<listening, cancelled, id, pkt, clients, owners, msgChan>>

-----------------------------------------------------------------------------
(* handleConnection                                                         *)

Authenticate(cred) == cred = "configured"

\* The first packet is a CONNECT with client ID x.  Without takeovers the
\* clients never reuse an ID whose previous connection the broker still serves.
ReadConnect(h, x, cred) ==
    /\ pc[h] = "connect"
    /\ AllowTakeover \/ \A g \in Handlers : id[g] # x
    /\ IF Authenticate(cred)
         THEN Goto(h, "add") /\ id' = [id EXCEPT ![h] = x]
         ELSE Goto(h, "close") /\ UNCHANGED id
    /\ UNCHANGED <<listening, cancelled, sock, pkt, clients, owners, msgChan>>

\* Read error, connect timeout, a packet that is not CONNECT, or a malformed one.
FirstPacketFails(h) ==
    /\ pc[h] = "connect"
    /\ Goto(h, "close")
    /\ UNCHANGED <<listening, cancelled, id, sock, pkt, clients, owners, msgChan>>

Add(h) ==
    /\ pc[h] = "add"
    /\ \/ Register(h) /\ Goto(h, "read")
       \/ AddRefused(id[h]) /\ Goto(h, "close") /\ UNCHANGED <<clients, sock>>
    /\ UNCHANGED <<listening, cancelled, id, pkt, owners, msgChan>>

\* Faulty variant: a connection that was taken over does not release.
ReleaseIfCurrent(h) ==
    /\ pc[h] = "release"
    /\ owners' = [t \in Topics |->
                    IF owners[t] = id[h] /\ clients[id[h]] = h THEN None ELSE owners[t]]
    /\ Goto(h, "remove")
    /\ UNCHANGED <<listening, cancelled, id, sock, pkt, clients, msgChan>>

\* defer topics.Release(cl.ID)
Release(h) ==
    /\ pc[h] = "release"
    /\ owners' = [t \in Topics |-> IF owners[t] = id[h] THEN None ELSE owners[t]]
    /\ Goto(h, "remove")
    /\ UNCHANGED <<listening, cancelled, id, sock, pkt, clients, msgChan>>

\* defer connMgr.Remove(cl.ID): the entry of that ID, whoever it belongs to.
Remove(h) ==
    /\ pc[h] = "remove"
    /\ clients' = [clients EXCEPT ![id[h]] = None]
    /\ Goto(h, "close")
    /\ UNCHANGED <<listening, cancelled, id, sock, pkt, owners, msgChan>>

\* defer conn.Close(), and the goroutine ends.
CloseConn(h) ==
    /\ pc[h] = "close"
    /\ Goto(h, "idle")
    /\ id' = [id EXCEPT ![h] = None]
    /\ sock' = [sock EXCEPT ![h] = "none"]
    /\ UNCHANGED <<listening, cancelled, pkt, clients, owners, msgChan>>

-----------------------------------------------------------------------------
(* readLoop and handlePublish                                               *)

\* Faulty variant: the QoS bits of the fixed header are not shifted down.
ReadPublishUnshifted(h, t, q) ==
    /\ pc[h] = "read" /\ sock[h] = "open"
    /\ pkt' = [pkt EXCEPT ![h] = [topic |-> t, qos |-> 2 * q]]
    /\ Goto(h, "claim")
    /\ UNCHANGED <<listening, cancelled, id, sock, clients, owners, msgChan>>

ReadPublish(h, t, q) ==
    /\ pc[h] = "read" /\ sock[h] = "open"
    /\ pkt' = [pkt EXCEPT ![h] = [topic |-> t, qos |-> q]]
    /\ Goto(h, "claim")
    /\ UNCHANGED <<listening, cancelled, id, sock, clients, owners, msgChan>>

\* Faulty variant: the read loop goes on after the error of a closed connection.
ReadErrorIgnored(h) ==
    /\ pc[h] = "read" /\ sock[h] = "open"
    /\ Goto(h, "release")
    /\ UNCHANGED <<listening, cancelled, id, sock, pkt, clients, owners, msgChan>>

\* DISCONNECT, or ReadPacket failed: the peer left, the keep-alive deadline
\* passed, the packet was malformed, or this end was closed by the broker.
ReadEnds(h) ==
    /\ pc[h] = "read"
    /\ Goto(h, "release")
    /\ UNCHANGED <<listening, cancelled, id, sock, pkt, clients, owners, msgChan>>

\* Faulty variant: Claim checks the allow-list but not the owner.
ClaimIgnoresOwner(t, x) == t \notin Topics

ClaimRefused(t, x) == t \notin Topics \/ owners[t] \notin {None, x}

\* Only QoS 1 is answered, whether or not the claim succeeded.
AfterPublish(h) == IF pkt[h].qos = 1 THEN "puback" ELSE "read"

\* The packet is kept while its PUBACK is still to be written.
DonePacket(h) == pkt' = IF pkt[h].qos = 1 THEN pkt ELSE [pkt EXCEPT ![h] = None]

Claim(h) ==
    /\ pc[h] = "claim"
    /\ IF ClaimRefused(pkt[h].topic, id[h])
         THEN Goto(h, AfterPublish(h)) /\ DonePacket(h) /\ UNCHANGED owners
         ELSE /\ owners' = [owners EXCEPT ![pkt[h].topic] = id[h]]
              /\ Goto(h, "send") /\ UNCHANGED pkt
    /\ UNCHANGED <<listening, cancelled, id, sock, clients, msgChan>>

\* case s.msgChan <- msg
Send(h) ==
    /\ pc[h] = "send" /\ Len(msgChan) < MsgChanCap
    /\ msgChan' = Append(msgChan, [client |-> id[h], topic |-> pkt[h].topic])
    /\ Goto(h, AfterPublish(h)) /\ DonePacket(h)
    /\ UNCHANGED <<listening, cancelled, id, sock, clients, owners>>

\* Faulty variant: the send to msgChan does not watch ctx.
SendBlocks(h) == FALSE /\ UNCHANGED vars

\* case <-ctx.Done(): no PUBACK
SendCancelled(h) ==
    /\ pc[h] = "send" /\ cancelled
    /\ Goto(h, "read")
    /\ pkt' = [pkt EXCEPT ![h] = None]
    /\ UNCHANGED <<listening, cancelled, id, sock, clients, owners, msgChan>>

\* cl.Write(EncodePuback): a write error is ignored.
Puback(h) ==
    /\ pc[h] = "puback"
    /\ Goto(h, "read")
    /\ pkt' = [pkt EXCEPT ![h] = None]
    /\ UNCHANGED <<listening, cancelled, id, sock, clients, owners, msgChan>>

-----------------------------------------------------------------------------
(* The pipeline's end of msgChan, and shutdown                              *)

Drain ==
    /\ msgChan # << >>
    /\ msgChan' = Tail(msgChan)
    /\ UNCHANGED <<listening, cancelled, pc, id, sock, pkt, clients, owners>>

\* Server.Close, from GracefulShutdown
CloseListener ==
    /\ listening
    /\ listening' = FALSE
    /\ UNCHANGED <<cancelled, pc, id, sock, pkt, clients, owners, msgChan>>

\* ctx is cancelled; ListenAndServe's goroutine then closes the listener.
Cancel ==
    /\ ~cancelled
    /\ cancelled' = TRUE
    /\ UNCHANGED <<listening, pc, id, sock, pkt, clients, owners, msgChan>>

\* Faulty variants: CloseAll keeps the entries of the connections it closed;
\* CloseAll drops the entries without closing the connections.
CloseAllKeepsEntries ==
    /\ ~listening
    /\ sock' = [h \in Handlers |->
                  IF \E x \in ClientIDs : clients[x] = h THEN "closed" ELSE sock[h]]
    /\ UNCHANGED <<listening, cancelled, pc, id, pkt, clients, owners, msgChan>>

CloseAllOnlyForgets ==
    /\ ~listening
    /\ clients' = [x \in ClientIDs |-> None]
    /\ UNCHANGED <<listening, cancelled, pc, id, sock, pkt, owners, msgChan>>

\* ClientManager.CloseAll, which GracefulShutdown calls after Server.Close.
CloseAll ==
    /\ ~listening
    /\ sock' = [h \in Handlers |->
                  IF \E x \in ClientIDs : clients[x] = h THEN "closed" ELSE sock[h]]
    /\ clients' = [x \in ClientIDs |-> None]
    /\ UNCHANGED <<listening, cancelled, pc, id, pkt, owners, msgChan>>

-----------------------------------------------------------------------------
ClientAction(h) ==
    \/ \E x \in ClientIDs, cred \in Credentials : ReadConnect(h, x, cred)
    \/ \E t \in TopicNames, q \in QoS : ReadPublish(h, t, q)
    \/ FirstPacketFails(h)
    \/ ReadEnds(h)

\* The steps a handler goroutine takes by itself once it is scheduled.
HandlerStep(h) ==
    Add(h) \/ Claim(h) \/ Puback(h) \/ Release(h) \/ Remove(h) \/ CloseConn(h)

Next ==
    \/ \E h \in Handlers :
         Accept(h) \/ ClientAction(h) \/ HandlerStep(h) \/ Send(h) \/ SendCancelled(h)
    \/ Drain \/ CloseListener \/ Cancel \/ CloseAll

Spec == Init /\ [][Next]_vars

(***************************************************************************)
(* Fairness.  Goroutines are scheduled; ReadPacket on a connection this    *)
(* end has closed returns an error; the router receives until ctx is       *)
(* cancelled; a goroutine blocked in a channel send waits in the runtime's *)
(* FIFO queue of senders, so a slot that keeps being freed reaches it (SF). *)
(***************************************************************************)
Fairness ==
    /\ \A h \in Handlers :
         /\ WF_vars(HandlerStep(h))
         /\ WF_vars(ReadEnds(h) /\ sock[h] = "closed")
         /\ SF_vars(Send(h))
         /\ WF_vars(SendCancelled(h))
    /\ WF_vars(~cancelled /\ Drain)

FairSpec == Spec /\ Fairness

-----------------------------------------------------------------------------
(* Safety                                                                   *)

\* ClientManager never holds more than maxClients entries: Add re-checks the
\* limit that Accept's CanAccept saw before an arbitrary delay.
RegistryBound == Cardinality(RegisteredIDs) <= MaxClients

\* Every entry of ClientManager is an open connection of that ID whose handler
\* has not yet run its deferred Remove: the map never names a dead connection,
\* also when connections of one ID replace each other and clean up by ID.
RegisteredIsServing ==
    \A x \in ClientIDs : clients[x] # None =>
        LET h == clients[x] IN id[h] = x /\ pc[h] \in Registered /\ sock[h] = "open"

\* A topic never stays owned by a client that is gone: some handler of the
\* owner has yet to run its deferred Release (registry.go: "Called when a
\* client disconnects").
NoOrphanOwner ==
    \A t \in Topics : owners[t] # None =>
        \E h \in Handlers : id[h] = owners[t] /\ pc[h] \in Serving

\* Connections the broker serves and has not closed.
OpenServed == {h \in Handlers : pc[h] \in Registered /\ sock[h] = "open"}

\* BROKER_MAX_CLIENTS, "Maximum concurrent connections": at most maxClients
\* open connections are past CONNACK.
ConnectionLimit == Cardinality(OpenServed) <= MaxClients

\* A handler that is about to put a message in msgChan still owns its topic:
\* the claim is not lost while the handler waits for space in the channel.
SenderOwnsTopic ==
    \A h \in Handlers : pc[h] = "send" => owners[pkt[h].topic] = id[h]

\* CloseAll reaches every served connection: none survives unregistered.
CloseAllReachesAll ==
    [][CloseAll => \A h \in OpenServed : sock'[h] = "closed"]_vars

-----------------------------------------------------------------------------
(* Liveness                                                                 *)

\* A handler never stays in handlePublish: back-pressure from msgChan ends by
\* the pipeline draining it or by cancellation.
PublishCompletes == \A h \in Handlers : pkt[h] # None ~> pkt[h] = None

\* A connection the broker closed (taken over, or shut down) gives up its
\* goroutine, even if it was blocked on a full msgChan.
ClosedConnEnds == \A h \in Handlers : sock[h] = "closed" ~> sock[h] = "none"
=============================================================================
