------------------------------ MODULE Lifecycle ------------------------------
(***************************************************************************)
(* The process from start to exit: Startup, then the goroutines that share  *)
(* the one pooled database connection (sqlite.go: SetMaxOpenConns(1)) and   *)
(* the mutexes of the repositories and the engine, then the signal,         *)
(* GracefulShutdown and main's deferred db.Close and cancel.                *)
(*                                                                         *)
(* A call is the sequence of what it holds: mutexes and connections.  Each  *)
(* repository method locks its mutex, takes a connection (a transaction or  *)
(* open rows) and gives both back.  What the calls read and write is the    *)
(* subject of the other modules.                                            *)
(*                                                                         *)
(* ctx is not cancelled before exit (it is only when ListenAndServe fails,  *)
(* which ends calls early), so the consumers, the state worker and the      *)
(* engine go on until the process ends.                                     *)
(***************************************************************************)
EXTENDS Startup

CONSTANTS
    Consumers,     \* queue consumers, one per topic
    Audits,        \* audit requests in flight at once
    Queries        \* availability requests in flight at once

VARIABLE call      \* per goroutine: position in its call, 0 between calls

vars == <<startup, call>>

MaxOpenConns == 1

StateWorker == "state worker"
Ticker == "engine"
Requests == Audits \cup Queries
Callers == Consumers \cup Requests \cup {StateWorker, Ticker}
Idle == [c \in Callers |-> 0]

Init == StartupInit /\ call = Idle

-----------------------------------------------------------------------------
(* The calls                                                                *)

Hold(mutexes, conns) == [mutexes |-> mutexes, conns |-> conns]
Released == Hold({}, 0)

\* A repository method with one statement or transaction under its mutex.
Locked(mu) == <<Hold({mu}, 0), Hold({mu}, 1), Released>>

SaveRawData == Locked("raw")

\* LastOpen, CloseOpen, OpenInterval, Engine.Apply
ApplyTransition ==
    Locked("interval") \o Locked("interval") \o Locked("interval")
        \o <<Hold({"engine"}, 0), Released>>

\* Faulty variant: the rows of the shifts stay open during the break queries.
ForMachineWindowNested ==
    <<Hold({"shift"}, 0), Hold({"shift"}, 1), Hold({"shift"}, 2), Released>>

\* queryShifts closes its rows before queryBreaks, under one lock
ForMachineWindow ==
    <<Hold({"shift"}, 0), Hold({"shift"}, 1), Hold({"shift"}, 0), Hold({"shift"}, 1), Released>>

\* The copy under the engine's mutex, then one machine's shifts
Tick == <<Hold({"engine"}, 0), Released>> \o ForMachineWindow

\* Execute; the last step of a request is writing its response
GetAvailability == Locked("query") \o ForMachineWindow

\* GetByTopic and CountByTopic, which have no mutex
Audit == <<Hold({}, 1), Released>>

Program(c) ==
    IF c \in Consumers THEN SaveRawData
    ELSE IF c = StateWorker THEN ApplyTransition
    ELSE IF c = Ticker THEN Tick
    ELSE IF c \in Queries THEN GetAvailability
    ELSE Audit

Holds(c) == IF call[c] = 0 THEN Released ELSE Program(c)[call[c]]

\* c can hold what h says: nobody else has the mutexes, and if it takes a
\* connection the pool is open and has its only one.
Available(c, h) ==
    /\ \A d \in Callers \ {c} : h.mutexes \cap Holds(d).mutexes = {}
    /\ h.conns > Holds(c).conns =>
         /\ phase # "dbClosed" /\ h.conns <= MaxOpenConns
         /\ \A d \in Callers \ {c} : Holds(d).conns = 0

ShuttingDown == phase \in {"draining", "closing", "dbClosed"}
Alive == phase = "serving" \/ ShuttingDown

-----------------------------------------------------------------------------
(* Requests, ticks, messages                                                *)

AtEnd(c) == call[c] = Len(Program(c))
Responding(c) == c \in Requests /\ AtEnd(c)

\* A message, a tick or a request arrives.  The HTTP server takes requests
\* until Shutdown; the OEE parts exist only if enabled.
Begin(c) ==
    /\ Alive /\ call[c] = 0
    /\ c \in Requests => phase = "serving"
    /\ c \notin Consumers \cup Audits => config.oee
    /\ Available(c, Program(c)[1])
    /\ call' = [call EXCEPT ![c] = 1]
    /\ UNCHANGED startup

Step(c) ==
    /\ Alive /\ call[c] \in 1..(Len(Program(c)) - 1)
    /\ Available(c, Program(c)[call[c] + 1])
    /\ call' = [call EXCEPT ![c] = @ + 1]
    /\ UNCHANGED startup

\* A statement fails, the database is closed, or there is nothing to do: the
\* call releases what it holds; a request answers with the error.
EndsEarly(c) ==
    /\ Alive /\ call[c] \in 1..(Len(Program(c)) - 1)
    /\ call' = [call EXCEPT ![c] = Len(Program(c))]
    /\ UNCHANGED startup

\* A worker's call returns; a request's response has been written, which
\* depends on its client.
Returns(c) ==
    /\ Alive /\ AtEnd(c)
    /\ call' = [call EXCEPT ![c] = 0]
    /\ UNCHANGED startup

-----------------------------------------------------------------------------
(* GracefulShutdown and the deferred calls of main                          *)

ToPhase(p) ==
    /\ phase' = p
    /\ UNCHANGED <<starts, config, applied, next, staged, seeded, durable, call>>

\* <-sigCh; Server.Close does not wait, and Shutdown closes the HTTP listener ...
Signal == phase = "serving" /\ ToPhase("draining")

\* Faulty variant: Server.Close, which does not wait for requests.
HTTPClosesAll == phase = "draining" /\ ToPhase("closing")

\* Faulty variant: waits for a moment at which consumers, worker and engine are
\* idle too.
HTTPAndWorkersIdle ==
    phase = "draining" /\ (\A c \in Callers : call[c] = 0) /\ ToPhase("closing")

\* ... and waits for the requests; websockets are hijacked and not waited for.
HTTPDrained ==
    phase = "draining" /\ (\A c \in Requests : call[c] = 0) /\ ToPhase("closing")

\* FanOut.Close, CloseAll and CompositeSink.Close wait for nobody; then db.Close,
\* which fails those that wait for a connection.
CloseComponents == phase = "closing" /\ ToPhase("dbClosed")

\* The deferred cancel, and main returns.
Exit == phase = "dbClosed" /\ GoDown /\ call' = Idle

Crash == GoDown /\ call' = Idle

Shutdown == HTTPDrained \/ CloseComponents \/ Exit

Next ==
    \/ StartupStep /\ UNCHANGED call
    \/ \E c \in Callers : Begin(c) \/ Step(c) \/ EndsEarly(c) \/ Returns(c)
    \/ Signal \/ HTTPDrained \/ CloseComponents \/ Exit \/ Crash

(***************************************************************************)
(* Fairness.  main goes on when it can.  A goroutine in a call is scheduled *)
(* and not starved: Go's mutexes hand over to a waiter after a millisecond  *)
(* and the pool serves requests for a connection in order (SF).  Clients    *)
(* need not read their responses, and nothing forces a signal or a crash.   *)
(***************************************************************************)
Fairness ==
    /\ WF_vars(Shutdown)
    /\ \A c \in Callers : SF_vars(Step(c))
    /\ \A c \in Callers \ Requests : WF_vars(Returns(c))

Spec == Init /\ [][Next]_vars /\ Fairness

-----------------------------------------------------------------------------
(* Properties                                                               *)

\* Although consumers, worker, engine and requests share one connection and
\* nest it under five mutexes, no call waits forever: every one returns, or is
\* writing its response.  A client that never reads its response stalls nobody
\* else.
CallsReturn ==
    \A c \in Callers : []<>(call[c] = 0 \/ Responding(c))

\* Once a signal came the process ends, whatever consumers, worker and engine
\* are doing, provided that HTTP clients read their responses: Shutdown has no
\* deadline and waits for them.
ShutdownCompletes ==
    (\A c \in Requests : []<>~Responding(c)) => []<>~ShuttingDown

\* No request in flight, waiting for a mutex or for the connection, ever has the
\* database closed under it.
RequestsKeepDatabase ==
    phase = "dbClosed" => \A c \in Requests : call[c] = 0
=============================================================================
