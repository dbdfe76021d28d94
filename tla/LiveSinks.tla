------------------------------- MODULE LiveSinks -------------------------------
(***************************************************************************)
(* The live path of OEE availability after the engine's memory: the tick    *)
(* loop (engine.go) emits one snapshot per tracked machine into the         *)
(* CompositeSink (composite/sink.go), a channel of size 1 and a drain       *)
(* goroutine per sink; the log sink keeps the latest snapshot per machine   *)
(* (logsink/sink.go); the websocket sink broadcasts to the Hub's            *)
(* connections of that machine (websocket/sink.go), each of which also has  *)
(* a read loop that unregisters it (http_handler/handler.go).               *)
(*                                                                         *)
(* A snapshot is its machine and the number of the tick that computed it.   *)
(***************************************************************************)
EXTENDS Integers, Sequences, SequencesExt

CONSTANTS
    Machines,   \* machines the engine tracks
    Conns,      \* websocket connections, each used once
    MaxTicks,   \* bound: ticks
    None

ASSUME LiveSinksAssumption ==
    /\ MaxTicks \in Nat
    /\ None \notin Machines \cup [machine : Machines, tick : Nat]

VARIABLES
    tick,      \* ticks so far
    pending,   \* snapshots of the current tick still to be computed
    current,   \* the snapshot the engine is calling Update with
    chans,     \* CompositeSink.chans, one per sink
    work,      \* the snapshot each drain goroutine is delivering
    stopped,   \* CompositeSink.Close was called
    alive,     \* sinks whose drain goroutine has not returned
    latest,    \* LogSink.latest, per machine (0: none)
    hub,       \* Hub.conns, per machine
    copied,    \* Broadcast: the Hub's connections have been copied
    targets,   \* Broadcast: connections still to be written
    dead,      \* Broadcast: connections whose write failed
    conn,      \* per connection: none, open, broken (peer gone) or closed
    sub,       \* the machine each connection subscribed to
    reading,   \* connections whose readLoop runs
    seen       \* history: per connection, the last tick it was sent

engine  == <<tick, pending, current>>
wsVars  == <<hub, conn, sub, reading>>
casting == <<copied, targets, dead, seen>>
closing == <<stopped, alive>>
vars == <<engine, chans, work, closing, latest, wsVars, casting>>

Sinks     == {"log", "ws"}
Snapshots == [machine : Machines, tick : 1..MaxTicks]

Init ==
    /\ tick = 0 /\ pending = {} /\ current = None
    /\ chans = [s \in Sinks |-> << >>]
    /\ work = [s \in Sinks |-> None]
    /\ stopped = FALSE /\ alive = Sinks
    /\ latest = [m \in Machines |-> 0]
    /\ hub = [m \in Machines |-> << >>]
    /\ copied = FALSE /\ targets = << >> /\ dead = << >>
    /\ conn = [c \in Conns |-> "none"] /\ sub = [c \in Conns |-> None]
    /\ reading = {} /\ seen = [c \in Conns |-> 0]

-----------------------------------------------------------------------------
(* Engine.Start and tick                                                    *)

\* Faulty variant: a new tick starts while the last one is being emitted.
TickOverlaps ==
    /\ tick < MaxTicks
    /\ tick' = tick + 1
    /\ pending' = pending \cup {[machine |-> m, tick |-> tick'] : m \in Machines}
    /\ UNCHANGED <<current, chans, work, closing, latest, wsVars, casting>>

Tick ==
    /\ pending = {} /\ current = None /\ tick < MaxTicks
    /\ tick' = tick + 1
    /\ pending' = {[machine |-> m, tick |-> tick'] : m \in Machines}
    /\ UNCHANGED <<current, chans, work, closing, latest, wsVars, casting>>

\* The machines of a tick come in map order, that is, in any order.
Compute(s) ==
    /\ s \in pending /\ current = None
    /\ pending' = pending \ {s}
    /\ current' = s
    /\ UNCHANGED <<tick, chans, work, closing, latest, wsVars, casting>>

\* ForMachineWindow fails: the machine is skipped in this tick.
ShiftReadFails(s) ==
    /\ s \in pending /\ current = None
    /\ pending' = pending \ {s}
    /\ UNCHANGED <<tick, current, chans, work, closing, latest, wsVars, casting>>

\* Faulty variant: a blocking send.
UpdateBlocks(s) ==
    /\ \A k \in Sinks : chans[k] = << >>
    /\ chans' = [k \in Sinks |-> <<s>>]

\* CompositeSink.Update: a non-blocking send to every sink's channel.
Update(s) == chans' = [k \in Sinks |-> IF chans[k] = << >> THEN <<s>> ELSE chans[k]]

Emit ==
    /\ current # None
    /\ Update(current)
    /\ current' = None
    /\ UNCHANGED <<tick, pending, work, closing, latest, wsVars, casting>>

-----------------------------------------------------------------------------
(* CompositeSink.drain, Close and LogSink.Update                            *)

Receive(k) ==
    /\ k \in alive /\ work[k] = None /\ chans[k] # << >>
    /\ work' = [work EXCEPT ![k] = Head(chans[k])]
    /\ chans' = [chans EXCEPT ![k] = Tail(@)]
    /\ UNCHANGED <<engine, closing, latest, wsVars, casting>>

\* case <-ctx.Done(), between two snapshots
DrainStops(k) ==
    /\ stopped /\ k \in alive /\ work[k] = None
    /\ alive' = alive \ {k}
    /\ UNCHANGED <<engine, chans, work, stopped, latest, wsVars, casting>>

CloseSinks ==
    /\ ~stopped
    /\ stopped' = TRUE
    /\ UNCHANGED <<engine, chans, work, alive, latest, wsVars, casting>>

LogUpdate ==
    /\ work["log"] # None
    /\ latest' = [latest EXCEPT ![work["log"].machine] = work["log"].tick]
    /\ work' = [work EXCEPT !["log"] = None]
    /\ UNCHANGED <<engine, chans, closing, wsVars, casting>>

-----------------------------------------------------------------------------
(* Hub: Register, Unregister, Broadcast; the handler's readLoop             *)

\* Faulty variant: the connection is closed but stays in the Hub.
UnregisterKeeps(m, c) ==
    /\ conn' = [conn EXCEPT ![c] = "closed"]
    /\ UNCHANGED hub

\* removeUnsafe takes out the first occurrence, and the connection is closed.
Unregister(m, c) ==
    /\ hub' = [hub EXCEPT ![m] = RemoveFirst(@, c)]
    /\ conn' = [conn EXCEPT ![c] = "closed"]

\* serveWS: upgrade, Register, go readLoop
Register(c, m) ==
    /\ conn[c] = "none"
    /\ conn' = [conn EXCEPT ![c] = "open"]
    /\ sub' = [sub EXCEPT ![c] = m]
    /\ hub' = [hub EXCEPT ![m] = Append(@, c)]
    /\ reading' = reading \cup {c}
    /\ UNCHANGED <<engine, chans, work, closing, latest, casting>>

PeerLeaves(c) ==
    /\ conn[c] = "open"
    /\ conn' = [conn EXCEPT ![c] = "broken"]
    /\ UNCHANGED <<engine, chans, work, closing, latest, hub, sub, reading, casting>>

\* Faulty variant: the read loop does not notice that the peer is gone.
ReadLoopWaits(c) ==
    /\ c \in reading /\ conn[c] = "closed"
    /\ reading' = reading \ {c}
    /\ Unregister(sub[c], c)
    /\ UNCHANGED <<engine, chans, work, closing, latest, sub, casting>>

\* ReadMessage returns an error, and the deferred Unregister runs.
ReadLoopEnds(c) ==
    /\ c \in reading /\ conn[c] \in {"broken", "closed"}
    /\ reading' = reading \ {c}
    /\ Unregister(sub[c], c)
    /\ UNCHANGED <<engine, chans, work, closing, latest, sub, casting>>

\* Broadcast copies the machine's connections under the Hub's lock.
CopyConns ==
    /\ work["ws"] # None /\ ~copied
    /\ copied' = TRUE
    /\ targets' = hub[work["ws"].machine]
    /\ UNCHANGED <<engine, chans, work, closing, latest, wsVars, dead, seen>>

\* One WriteMessage of Broadcast; a broken peer may still be unnoticed.
WriteOK ==
    /\ targets # << >>
    /\ conn[Head(targets)] # "closed"
    /\ targets' = Tail(targets)
    /\ seen' = [seen EXCEPT ![Head(targets)] = work["ws"].tick]
    /\ UNCHANGED <<engine, chans, work, closing, latest, wsVars, copied, dead>>

\* Closed, dead, or slower than writeTimeout.
WriteFails ==
    /\ targets # << >>
    /\ targets' = Tail(targets)
    /\ dead' = Append(dead, Head(targets))
    /\ UNCHANGED <<engine, chans, work, closing, latest, wsVars, copied, seen>>

Reap ==
    /\ targets = << >> /\ dead # << >>
    /\ dead' = Tail(dead)
    /\ Unregister(work["ws"].machine, Head(dead))
    /\ UNCHANGED <<engine, chans, work, closing, latest, sub, reading, copied, targets, seen>>

BroadcastDone ==
    /\ copied /\ targets = << >> /\ dead = << >>
    /\ copied' = FALSE
    /\ work' = [work EXCEPT !["ws"] = None]
    /\ UNCHANGED <<engine, chans, closing, latest, wsVars, targets, dead, seen>>

-----------------------------------------------------------------------------
EngineStep == Emit \/ \E s \in pending : Compute(s) \/ ShiftReadFails(s)

BroadcastStep == CopyConns \/ WriteOK \/ WriteFails \/ Reap \/ BroadcastDone

Next ==
    \/ Tick \/ EngineStep
    \/ \E k \in Sinks : Receive(k) \/ DrainStops(k)
    \/ CloseSinks \/ LogUpdate \/ BroadcastStep
    \/ \E c \in Conns : PeerLeaves(c) \/ ReadLoopEnds(c) \/ \E m \in Machines : Register(c, m)

Spec == Init /\ [][Next]_vars

\* The engine's goroutine runs, and ReadMessage returns an error once the peer
\* is gone or this end is closed.  Nothing is assumed of the sinks: a drain
\* goroutine or a write may hang.
FairSpec == Spec /\ WF_vars(EngineStep) /\ \A c \in Conns : WF_vars(ReadLoopEnds(c))

-----------------------------------------------------------------------------
(* Properties                                                               *)

\* The Hub holds no closed connection and none twice, and every connection in
\* it still has the read loop that will remove it: Broadcast and the read loop
\* may both unregister the same connection, in any order.
HubHoldsLiveConns ==
    \A m \in Machines :
        /\ \A c \in ToSet(hub[m]) : conn[c] # "closed" /\ c \in reading /\ sub[c] = m
        /\ IsInjective(hub[m])

\* Neither the log sink nor a websocket client ever goes back to an older
\* snapshot of a machine.
SnapshotsAdvance ==
    [][/\ \A m \in Machines : latest[m] <= latest'[m]
       /\ \A c \in Conns : seen[c] <= seen'[c]]_vars

\* "the engine ticker is never delayed by a slow sink": a tick ends although
\* no sink and no client makes any progress.
TickCompletes == pending # {} ~> (pending = {} /\ current = None)

\* A connection whose peer is gone leaves the Hub, although a broadcast may be
\* in the middle of writing to it or hang, and may unregister it as well.
BrokenConnLeavesHub ==
    \A c \in Conns : conn[c] = "broken" ~>
        (conn[c] = "closed" /\ \A m \in Machines : c \notin ToSet(hub[m]))

=============================================================================
