------------------------------ MODULE StateIngest ------------------------------
(***************************************************************************)
(* OEE state ingestion: the state-change worker (worker.go) decodes an     *)
(* event and the use case (usecase.go) turns it into rows of               *)
(* state_intervals, each repository call a transaction of its own, and     *)
(* then into an update of the live engine's memory (engine.go).  The       *)
(* fan-out waits for the worker, so events are applied one at a time; the  *)
(* engine's rehydration runs in a goroutine of its own, any store call may *)
(* fail, and the process may crash between any two calls.                  *)
(*                                                                         *)
(* Messages of other topics and payloads that do not decode are skipped    *)
(* and change nothing.  Timestamps are naturals from 1; 0 is NULL.         *)
(***************************************************************************)
EXTENDS Integers, Sequences, FiniteSets

CONSTANTS
    Machines,      \* machine_id values
    States,        \* machine states
    Times,         \* event timestamps
    RehydrateIDs,  \* the machineIDs argument of Engine.Start
    MaxFailures,   \* bound: repository calls that fail
    MaxCrashes,    \* bound: crashes
    MaxRows,       \* bound: rows per machine
    None

ASSUME StateIngestAssumption ==
    /\ IsFiniteSet(Machines)
    /\ Times \subseteq Nat \ {0}
    /\ RehydrateIDs \subseteq Machines
    /\ MaxFailures \in Nat /\ MaxCrashes \in Nat /\ MaxRows \in Nat
    /\ None \notin [machine : Machines, state : States, ts : Times]

VARIABLES
    rows,      \* per machine, its rows of state_intervals in id order
    engine,    \* per machine, Engine.machines[m].intervals; empty if untracked
    pc, ev,    \* the worker: where it is, and the event it is applying
    hydrated,  \* Engine.Start has run rehydrate
    skipped,   \* machines whose read failed in rehydrate, until their next event
    failures, crashes

vars == <<rows, engine, pc, ev, hydrated, skipped, failures, crashes>>

NULL == 0

Events    == [machine : Machines, state : States, ts : Times]
Intervals == [state : States, start : Times, end : Times \cup {NULL}]

TypeOK ==
    /\ rows \in [Machines -> Seq(Intervals)]
    /\ engine \in [Machines -> Seq(Intervals)]
    /\ pc \in {"idle", "close", "open", "observe"}
    /\ ev \in Events \cup {None}
    /\ pc # "idle" => ev # None
    /\ hydrated \in BOOLEAN /\ skipped \subseteq Machines
    /\ failures \in Nat /\ crashes \in Nat

Init ==
    /\ rows = [m \in Machines |-> << >>]
    /\ engine = [m \in Machines |-> << >>]
    /\ pc = "idle" /\ ev = None
    /\ hydrated = FALSE /\ skipped = {}
    /\ failures = 0 /\ crashes = 0

IsOpen(iv) == iv.end = NULL

OpenRows(m) == {i \in DOMAIN rows[m] : IsOpen(rows[m][i])}

\* SELECT ... WHERE ended_at IS NULL ORDER BY started_at DESC LIMIT 1
LastOpen(m) ==
    rows[m][CHOOSE i \in OpenRows(m) :
              \A j \in OpenRows(m) : rows[m][j].start <= rows[m][i].start]

\* Faulty variant: started_at is left unset.
NewIntervalUnset(e) == [state |-> e.state, start |-> NULL, end |-> NULL]

NewInterval(e) == [state |-> e.state, start |-> e.ts, end |-> NULL]

Closed(iv, ts) == IF IsOpen(iv) THEN [iv EXCEPT !.end = ts] ELSE iv

-----------------------------------------------------------------------------
(* UseCase.Apply                                                            *)

\* Faulty variant: only repeated states are ignored.
IgnoredRepeatOnly(e) ==
    OpenRows(e.machine) # {} /\ LastOpen(e.machine).state = e.state

\* A repeated state, or a timestamp that is not after the open interval's.
Ignored(e) ==
    /\ OpenRows(e.machine) # {}
    /\ \/ LastOpen(e.machine).state = e.state
       \/ e.ts <= LastOpen(e.machine).start

\* The worker hands an event to Apply, which reads LastOpen.
Process(e) ==
    /\ pc = "idle" /\ Len(rows[e.machine]) < MaxRows
    /\ ~Ignored(e)
    /\ ev' = e
    /\ pc' = IF OpenRows(e.machine) # {} THEN "close" ELSE "open"
    /\ UNCHANGED <<rows, engine, hydrated, skipped, failures, crashes>>

\* Faulty variant: the row is closed at the time of receipt, not of the event.
CloseOpenAtReceipt ==
    /\ pc = "close"
    /\ LET latest == CHOOSE t \in Times : \A u \in Times : u <= t
       IN rows' = [rows EXCEPT ![ev.machine] =
                     [i \in DOMAIN @ |-> Closed(@[i], latest)]]
    /\ pc' = "open"
    /\ UNCHANGED <<engine, ev, hydrated, skipped, failures, crashes>>

\* UPDATE ... SET ended_at WHERE ended_at IS NULL: every open row of the machine.
CloseOpen ==
    /\ pc = "close"
    /\ rows' = [rows EXCEPT ![ev.machine] =
                  [i \in DOMAIN @ |-> Closed(@[i], ev.ts)]]
    /\ pc' = "open"
    /\ UNCHANGED <<engine, ev, hydrated, skipped, failures, crashes>>

OpenInterval ==
    /\ pc = "open"
    /\ rows' = [rows EXCEPT ![ev.machine] = Append(@, NewInterval(ev))]
    /\ pc' = "observe"
    /\ UNCHANGED <<engine, ev, hydrated, skipped, failures, crashes>>

\* Faulty variant: the error of CloseOpen is ignored.
StoreFailsIgnored ==
    /\ failures < MaxFailures /\ failures' = failures + 1
    /\ pc = "close"
    /\ pc' = "open"
    /\ UNCHANGED <<rows, engine, ev, hydrated, skipped, crashes>>

\* A repository call returns an error: Apply returns, keeping what it had done.
StoreFails ==
    /\ failures < MaxFailures /\ failures' = failures + 1
    /\ pc \in {"close", "open"}
    /\ pc' = "idle" /\ ev' = None
    /\ UNCHANGED <<rows, engine, hydrated, skipped, crashes>>

\* Faulty variant: the engine does not close its last interval.
EngineAppend(ivs, e) == Append(ivs, NewInterval(e))

\* observer.Apply(t): Engine.Apply closes the last interval and appends the new one.
EngineApply(ivs, e) ==
    LET n == Len(ivs)
        closed == IF n > 0 THEN [ivs EXCEPT ![n] = Closed(@, e.ts)] ELSE ivs
    IN Append(closed, NewInterval(e))

Observe ==
    /\ pc = "observe"
    /\ engine' = [engine EXCEPT ![ev.machine] = EngineApply(@, ev)]
    /\ skipped' = skipped \ {ev.machine}
    /\ pc' = "idle" /\ ev' = None
    /\ UNCHANGED <<rows, hydrated, failures, crashes>>

-----------------------------------------------------------------------------
(* Engine.Start and a crash                                                 *)

Untracked == {m \in RehydrateIDs : engine[m] = << >>}

\* Faulty variant: the oldest row is loaded, not the open one.
RehydrateOldest(failed) ==
    /\ ~hydrated
    /\ failures + Cardinality(failed) <= MaxFailures
    /\ failures' = failures + Cardinality(failed)
    /\ hydrated' = TRUE /\ skipped' = failed
    /\ engine' = [m \in Machines |->
                    IF m \in Untracked \ failed /\ OpenRows(m) # {}
                      THEN <<rows[m][1]>> ELSE engine[m]]
    /\ UNCHANGED <<rows, pc, ev, crashes>>

\* rehydrate: under Engine.mu; tracked machines and failed reads are skipped.
Rehydrate(failed) ==
    /\ ~hydrated
    /\ failures + Cardinality(failed) <= MaxFailures
    /\ failures' = failures + Cardinality(failed)
    /\ hydrated' = TRUE /\ skipped' = failed
    /\ engine' = [m \in Machines |->
                    IF m \in Untracked \ failed /\ OpenRows(m) # {}
                      THEN <<LastOpen(m)>> ELSE engine[m]]
    /\ UNCHANGED <<rows, pc, ev, crashes>>

\* The process dies and starts again: the tables survive, memory does not.
Crash ==
    /\ crashes < MaxCrashes
    /\ crashes' = crashes + 1
    /\ engine' = [m \in Machines |-> << >>]
    /\ pc' = "idle" /\ ev' = None
    /\ hydrated' = FALSE /\ skipped' = {}
    /\ UNCHANGED <<rows, failures>>

Next ==
    \/ \E e \in Events : Process(e)
    \/ CloseOpen \/ OpenInterval \/ StoreFails \/ Observe
    \/ \E failed \in SUBSET Untracked : Rehydrate(failed)
    \/ Crash

Spec == Init /\ [][Next]_vars

-----------------------------------------------------------------------------
(* Properties                                                               *)

\* A machine has at most one open row, and it is its newest one: CloseOpen and
\* OpenInterval are separate transactions, yet no failure or crash between
\* them leaves two intervals open.
OneOpenInterval ==
    \A m \in Machines : \A i \in OpenRows(m) : i = Len(rows[m])

\* A closed row has a positive duration ("never produce negative durations").
PositiveDurations ==
    \A m \in Machines : \A i \in DOMAIN rows[m] :
        ~IsOpen(rows[m][i]) => rows[m][i].start < rows[m][i].end

Undisturbed == failures = 0 /\ crashes = 0

\* Until something fails a machine's intervals leave no gap and do not overlap.
IntervalsContiguous ==
    Undisturbed => \A m \in Machines : \A i \in DOMAIN rows[m] :
        i > 1 => rows[m][i - 1].end = rows[m][i].start

\* ivs are the intervals of the table, possibly after one of no length.
SameIntervals(ivs, table) ==
    \/ ivs = table
    \/ /\ ivs # << >> /\ ivs[1].start = ivs[1].end
       /\ table # << >> /\ Tail(ivs) = table

\* Until something fails the engine's memory is the table, between events.  (A
\* rehydration that reads a machine's first row before the worker has called
\* Engine.Apply adds an interval of no length, which Aggregate does not count.)
EngineMatchesStore ==
    Undisturbed /\ pc = "idle" =>
        \A m \in Machines : SameIntervals(engine[m], rows[m])

\* Between events the engine never works with an interval the table has closed
\* or replaced: of a machine with an open row it knows that row as its last
\* interval, or nothing at all, and it does know it if Start was given the
\* machine and could read it.  Failed calls, a crash and a rehydration between
\* OpenInterval and Engine.Apply included, and also when Start is given no
\* machine, as the bootstrap does.
EngineTracksOpenRow ==
    pc = "idle" =>
        \A m \in Machines : OpenRows(m) # {} =>
            /\ engine[m] # << >> => engine[m][Len(engine[m])] = LastOpen(m)
            /\ hydrated /\ m \in RehydrateIDs \ skipped => engine[m] # << >>

\* "open in-memory intervals SHALL be rebuilt from the last persisted
\* interval": between events a started engine has the open interval of the
\* table as its last interval, unless reading it failed and was logged.
EngineKnowsOpenInterval ==
    (pc = "idle" /\ hydrated) =>
        \A m \in Machines \ skipped : OpenRows(m) # {} =>
            engine[m] # << >> /\ engine[m][Len(engine[m])] = LastOpen(m)
=============================================================================
