-------------------------- MODULE StateIngestProofs --------------------------
(***************************************************************************)
(* Proofs about StateIngest, for every set of machines, states and times,   *)
(* with store failures and crashes at any point.                            *)
(*                                                                         *)
(* OneOpenInterval and PositiveDurations are not inductive: what LastOpen    *)
(* returned is acted on two transactions later.  WorkerKnows says what of    *)
(* it still holds at each program point of Apply.                           *)
(***************************************************************************)
EXTENDS StateIngest, FiniteSetTheorems, SequenceTheorems, TLAPS

\* Before CloseOpen the event is later than every open row's start; after it
\* the machine has no open row; after OpenInterval the newest row is the event's.
WorkerKnows ==
    /\ pc = "close" =>
         \A i \in OpenRows(ev.machine) : rows[ev.machine][i].start < ev.ts
    /\ pc = "open" => OpenRows(ev.machine) = {}
    /\ pc = "observe" =>
         /\ rows[ev.machine] # << >>
         /\ rows[ev.machine][Len(rows[ev.machine])] = NewInterval(ev)

Inv == TypeOK /\ OneOpenInterval /\ PositiveDurations /\ WorkerKnows

-----------------------------------------------------------------------------
\* The rows of a machine are intervals with natural start times.
LEMMA RowTypes ==
    ASSUME TypeOK, NEW m \in Machines, NEW i \in DOMAIN rows[m]
    PROVE  /\ rows[m][i] \in Intervals
           /\ rows[m][i].start \in Nat
<1>1. rows[m] \in Seq(Intervals)
  BY DEF TypeOK
<1>2. rows[m][i] \in Intervals
  BY <1>1
<1> QED
  BY <1>2, StateIngestAssumption DEF Intervals

LEMMA ClosedType ==
    ASSUME NEW iv \in Intervals, NEW ts \in Times
    PROVE  /\ Closed(iv, ts) \in Intervals
           /\ ~IsOpen(Closed(iv, ts))
           /\ Closed(iv, ts).start = iv.start
           /\ IsOpen(iv) => Closed(iv, ts).end = ts
           /\ ~IsOpen(iv) => Closed(iv, ts) = iv
<1>1. ts # NULL
  BY StateIngestAssumption DEF NULL
<1>2. CASE IsOpen(iv)
  <2>1. Closed(iv, ts) = [iv EXCEPT !.end = ts]
    BY <1>2 DEF Closed
  <2>2. [iv EXCEPT !.end = ts] \in Intervals
    BY DEF Intervals
  <2>3. [iv EXCEPT !.end = ts].end = ts /\ [iv EXCEPT !.end = ts].start = iv.start
    BY DEF Intervals
  <2> QED
    BY <1>1, <1>2, <2>1, <2>2, <2>3 DEF IsOpen
<1>3. CASE ~IsOpen(iv)
  BY <1>3 DEF Closed
<1> QED
  BY <1>2, <1>3

\* With at most one open row, LastOpen is the newest row.
LEMMA LastOpenIsNewest ==
    ASSUME TypeOK, OneOpenInterval, NEW m \in Machines, OpenRows(m) # {}
    PROVE  /\ OpenRows(m) = {Len(rows[m])}
           /\ Len(rows[m]) \in DOMAIN rows[m]
           /\ LastOpen(m) = rows[m][Len(rows[m])]
<1>1. OpenRows(m) = {Len(rows[m])}
  BY DEF OneOpenInterval
<1>2. Len(rows[m]) \in DOMAIN rows[m]
  BY <1>1 DEF OpenRows
<1>3. rows[m][Len(rows[m])].start \in Nat
  BY <1>2, RowTypes
<1>4. \A i \in OpenRows(m) :
        (\A j \in OpenRows(m) : rows[m][j].start <= rows[m][i].start) <=> i = Len(rows[m])
  BY <1>1, <1>3
<1>5. (CHOOSE i \in OpenRows(m) :
         \A j \in OpenRows(m) : rows[m][j].start <= rows[m][i].start) = Len(rows[m])
  BY <1>1, <1>4
<1> QED
  BY <1>1, <1>2, <1>5 DEF LastOpen

\* The fields of an event, while the worker has one.
LEMMA EventFields ==
    ASSUME TypeOK, pc # "idle"
    PROVE  /\ ev \in Events
           /\ ev.machine \in Machines /\ ev.state \in States
           /\ ev.ts \in Times /\ ev.ts \in Nat /\ ev.ts # NULL
           /\ NewInterval(ev) \in Intervals
           /\ IsOpen(NewInterval(ev))
  BY StateIngestAssumption DEF TypeOK, Events, Intervals, NewInterval, IsOpen, NULL

\* What one transaction does to the rows of a machine.
LEMMA CloseOpenEffect ==
    ASSUME Inv, CloseOpen
    PROVE  /\ rows' \in [Machines -> Seq(Intervals)]
           /\ \A m \in Machines : m # ev.machine => rows'[m] = rows[m]
           /\ DOMAIN rows'[ev.machine] = DOMAIN rows[ev.machine]
           /\ \A i \in DOMAIN rows[ev.machine] :
                rows'[ev.machine][i] = Closed(rows[ev.machine][i], ev.ts)
<1> DEFINE m == ev.machine
           s == [i \in DOMAIN rows[m] |-> Closed(rows[m][i], ev.ts)]
<1>1. ev.machine \in Machines /\ ev.ts \in Times
  BY EventFields DEF Inv, CloseOpen
<1>2. rows' = [rows EXCEPT ![m] = s] /\ rows \in [Machines -> Seq(Intervals)]
  BY DEF CloseOpen, Inv, TypeOK
<1>3. \A i \in DOMAIN rows[m] : Closed(rows[m][i], ev.ts) \in Intervals
  BY <1>1, ClosedType, RowTypes DEF Inv
<1>4. s \in Seq(Intervals)
  <2>1. rows[m] \in Seq(Intervals)
    BY <1>1, <1>2
  <2>2. Len(rows[m]) \in Nat /\ DOMAIN rows[m] = 1..Len(rows[m])
    BY <2>1
  <2>3. s \in [1..Len(rows[m]) -> Intervals]
    BY <1>3, <2>2
  <2> QED
    BY <2>2, <2>3
<1> QED
  BY <1>1, <1>2, <1>4

LEMMA OpenIntervalEffect ==
    ASSUME Inv, OpenInterval
    PROVE  /\ rows' \in [Machines -> Seq(Intervals)]
           /\ \A m \in Machines : m # ev.machine => rows'[m] = rows[m]
           /\ Len(rows'[ev.machine]) = Len(rows[ev.machine]) + 1
           /\ \A i \in 1..Len(rows[ev.machine]) :
                rows'[ev.machine][i] = rows[ev.machine][i]
           /\ rows'[ev.machine][Len(rows[ev.machine]) + 1] = NewInterval(ev)
<1>1. ev.machine \in Machines /\ NewInterval(ev) \in Intervals
  BY EventFields DEF Inv, OpenInterval
<1>2. /\ rows' = [rows EXCEPT ![ev.machine] = Append(@, NewInterval(ev))]
      /\ rows \in [Machines -> Seq(Intervals)]
  BY DEF OpenInterval, Inv, TypeOK
<1> QED
  BY <1>1, <1>2

-----------------------------------------------------------------------------
LEMMA InvInit == Init => Inv
<1> SUFFICES ASSUME Init PROVE Inv
  OBVIOUS
<1>1. rows \in [Machines -> Seq(Intervals)]
  BY DEF Init
<1>2. engine \in [Machines -> Seq(Intervals)]
  BY DEF Init
<1>3. TypeOK
  <2>1. hydrated \in BOOLEAN
    BY DEF Init
  <2> QED
    BY <1>1, <1>2, <2>1 DEF Init, TypeOK
<1>4. \A m \in Machines : DOMAIN rows[m] = {}
  <2>1. \A m \in Machines : rows[m] = << >>
    BY DEF Init
  <2>2. DOMAIN << >> = {}
    OBVIOUS
  <2> QED
    BY <2>1, <2>2
<1> QED
  BY <1>3, <1>4 DEF Init, Inv, OneOpenInterval, PositiveDurations, WorkerKnows, OpenRows

LEMMA InvStep == Inv /\ [Next]_vars => Inv'
<1> SUFFICES ASSUME Inv, [Next]_vars PROVE Inv'
  OBVIOUS
<1> USE StateIngestAssumption
<1>1. ASSUME NEW e \in Events, Process(e) PROVE Inv'
  <2>1. e.machine \in Machines /\ e.ts \in Nat
    BY DEF Events
  <2>2. ASSUME OpenRows(e.machine) # {}
        PROVE  \A i \in OpenRows(e.machine) : rows[e.machine][i].start < e.ts
    <3>1. ~ (e.ts <= LastOpen(e.machine).start)
      BY <1>1, <2>2 DEF Process, Ignored
    <3>2. rows[e.machine][Len(rows[e.machine])].start \in Nat
      BY <2>1, <2>2, LastOpenIsNewest, RowTypes DEF Inv
    <3> QED
      BY <2>1, <2>2, <3>1, <3>2, LastOpenIsNewest DEF Inv
  <2>3. TypeOK'
    BY <1>1 DEF Inv, TypeOK, Process, Events
  <2> QED
    BY <1>1, <2>2, <2>3
    DEF Inv, Process, OneOpenInterval, PositiveDurations, WorkerKnows, OpenRows
<1>2. CASE CloseOpen
  <2> USE CloseOpenEffect, EventFields
  <2>1. TypeOK'
    BY <1>2 DEF Inv, CloseOpen, TypeOK
  <2>2. \A i \in DOMAIN rows[ev.machine] :
          ~IsOpen(rows'[ev.machine][i]) /\ rows'[ev.machine][i].start < rows'[ev.machine][i].end
    <3> SUFFICES ASSUME NEW i \in DOMAIN rows[ev.machine]
                 PROVE  /\ ~IsOpen(rows'[ev.machine][i])
                        /\ rows'[ev.machine][i].start < rows'[ev.machine][i].end
      OBVIOUS
    <3>1. rows[ev.machine][i] \in Intervals /\ ev.ts # NULL /\ ev.machine \in Machines
      BY <1>2 DEF Inv, TypeOK, CloseOpen
    <3>2. CASE IsOpen(rows[ev.machine][i])
      <4>1. rows[ev.machine][i].start < ev.ts
        BY <1>2, <3>2 DEF Inv, WorkerKnows, CloseOpen, OpenRows
      <4> QED
        BY <1>2, <3>1, <3>2, <4>1, ClosedType DEF CloseOpen, Inv
    <3>3. CASE ~IsOpen(rows[ev.machine][i])
      BY <1>2, <3>1, <3>3, ClosedType DEF CloseOpen, Inv, PositiveDurations
    <3> QED
      BY <3>2, <3>3
  <2>3. OpenRows(ev.machine)' = {}
    BY <1>2, <2>2 DEF OpenRows, CloseOpen
  <2>4. \A m \in Machines : m # ev.machine => OpenRows(m)' = OpenRows(m)
    BY <1>2 DEF OpenRows
  <2>5. OneOpenInterval'
    BY <1>2, <2>3, <2>4 DEF Inv, OneOpenInterval, CloseOpen
  <2>6. PositiveDurations'
    BY <1>2, <2>2 DEF Inv, PositiveDurations, CloseOpen
  <2>7. WorkerKnows'
    BY <1>2, <2>3 DEF WorkerKnows, CloseOpen
  <2> QED
    BY <2>1, <2>5, <2>6, <2>7 DEF Inv
<1>3. CASE OpenInterval
  <2> USE OpenIntervalEffect, EventFields
  <2> DEFINE m == ev.machine
             n == Len(rows[m])
  <2>0. m \in Machines /\ n \in Nat /\ DOMAIN rows[m] = 1..n
    BY <1>3 DEF Inv, TypeOK, OpenInterval
  <2>1. TypeOK'
    BY <1>3 DEF Inv, OpenInterval, TypeOK
  <2>2. DOMAIN rows'[m] = 1..(n + 1)
    BY <1>3, <2>0, <2>1 DEF TypeOK
  <2>3. OpenRows(m)' = {n + 1}
    BY <1>3, <2>0, <2>2 DEF Inv, WorkerKnows, OpenInterval, OpenRows
  <2>4. \A k \in Machines : k # m => OpenRows(k)' = OpenRows(k)
    BY <1>3 DEF OpenRows
  <2>5. OneOpenInterval'
    BY <1>3, <2>3, <2>4 DEF Inv, OneOpenInterval, OpenInterval
  <2>6. PositiveDurations'
    BY <1>3, <2>0, <2>2 DEF Inv, PositiveDurations, OpenInterval
  <2>7. WorkerKnows'
    <3>1. rows'[m] # << >> /\ rows'[m][Len(rows'[m])] = NewInterval(ev)
      BY <1>3, <2>0, <2>2
    <3>2. pc' = "observe" /\ ev' = ev
      BY <1>3 DEF OpenInterval
    <3> QED
      BY <3>1, <3>2 DEF WorkerKnows, NewInterval
  <2> QED
    BY <2>1, <2>5, <2>6, <2>7 DEF Inv
<1>4. CASE StoreFails
  BY <1>4 DEF StoreFails, Inv, TypeOK, OneOpenInterval, PositiveDurations, WorkerKnows,
              OpenRows
<1>5. ASSUME UNCHANGED rows, TypeOK', pc' = "idle" \/ UNCHANGED <<pc, ev>> PROVE Inv'
  BY <1>5 DEF Inv, OneOpenInterval, PositiveDurations, WorkerKnows, OpenRows
<1>6. CASE Observe
  <2>1. EngineApply(engine[ev.machine], ev) \in Seq(Intervals)
    <3> DEFINE ivs == engine[ev.machine]
               n == Len(ivs)
               closed == IF n > 0 THEN [ivs EXCEPT ![n] = Closed(@, ev.ts)] ELSE ivs
    <3>1. ivs \in Seq(Intervals) /\ n \in Nat /\ NewInterval(ev) \in Intervals
      BY <1>6, EventFields DEF Observe, Inv, TypeOK
    <3>2. ASSUME n > 0 PROVE Closed(ivs[n], ev.ts) \in Intervals
      <4>1. ivs[n] \in Intervals
        BY <3>1, <3>2
      <4> QED
        BY <1>6, <4>1, EventFields, ClosedType DEF Observe, Inv
    <3>3. closed \in Seq(Intervals)
      BY <3>1, <3>2
    <3> QED
      BY <3>1, <3>3 DEF EngineApply
  <2>2. TypeOK'
    BY <1>6, <2>1 DEF Observe, Inv, TypeOK
  <2> QED
    BY <1>5, <1>6, <2>2 DEF Observe
<1>7. ASSUME NEW failed \in SUBSET Untracked, Rehydrate(failed) PROVE Inv'
  <2>1. \A m \in Machines : OpenRows(m) # {} => LastOpen(m) \in Intervals
    BY LastOpenIsNewest DEF Inv, TypeOK
  <2>2. Cardinality(failed) \in Nat
    BY StateIngestAssumption, FS_Subset, FS_CardinalityType DEF Untracked
  <2>3. TypeOK'
    BY <1>7, <2>1, <2>2 DEF Rehydrate, Untracked, Inv, TypeOK
  <2> QED
    BY <1>5, <1>7, <2>3 DEF Rehydrate
<1>8. CASE Crash
  <2>1. engine' \in [Machines -> Seq(Intervals)]
    BY <1>8 DEF Crash
  <2>2. hydrated' \in BOOLEAN
    BY <1>8 DEF Crash
  <2>3. TypeOK'
    BY <1>8, <2>1, <2>2 DEF Crash, Inv, TypeOK
  <2> QED
    BY <1>5, <1>8, <2>3 DEF Crash
<1>9. CASE UNCHANGED vars
  <2>1. TypeOK'
    BY <1>9 DEF vars, Inv, TypeOK
  <2> QED
    BY <1>5, <1>9, <2>1 DEF vars
<1> QED
  BY <1>1, <1>2, <1>3, <1>4, <1>6, <1>7, <1>8, <1>9 DEF Next

\* Rows, the event in hand and the engine's memory keep their types: no NULL
\* start and no row of an unknown state ever enters state_intervals.
THEOREM TypeCorrect == Spec => []TypeOK
<1>1. Inv => TypeOK
  BY DEF Inv
<1> QED
  BY <1>1, InvInit, InvStep, PTL DEF Spec

(***************************************************************************)
(* state_intervals never holds two open intervals of one machine, and the    *)
(* open one is the newest row, although Apply closes and opens in separate   *)
(* transactions and may fail or crash between them.                          *)
(***************************************************************************)
THEOREM SingleOpenInterval == Spec => []OneOpenInterval
<1>1. Inv => OneOpenInterval
  BY DEF Inv
<1> QED
  BY <1>1, InvInit, InvStep, PTL DEF Spec

(***************************************************************************)
(* Every closed interval in state_intervals ends after it starts, whatever    *)
(* the order of the events' timestamps.                                       *)
(***************************************************************************)
THEOREM DurationsPositive == Spec => []PositiveDurations
<1>1. Inv => PositiveDurations
  BY DEF Inv
<1> QED
  BY <1>1, InvInit, InvStep, PTL DEF Spec

-----------------------------------------------------------------------------
(* The engine's memory across failures and restarts.                        *)

Newest(s) == s[Len(s)]

\* The engine's last interval, if it has any, is the newest row; and it has one
\* once rehydrate has read the machine.
Tracked(m) ==
    /\ engine[m] # << >> => Newest(engine[m]) = Newest(rows[m])
    /\ hydrated /\ m \in RehydrateIDs \ skipped => engine[m] # << >>

\* That is so for every open row, except between OpenInterval and Observe.
EngineInv ==
    \A m \in Machines :
        OpenRows(m) # {} /\ (pc = "observe" => m # ev.machine) => Tracked(m)

\* Engine.Apply always ends with the event's open interval.
LEMMA EngineApplyEndsWithEvent ==
    ASSUME NEW ivs \in Seq(Intervals), NEW e, NewInterval(e) \in Intervals, e.ts \in Times
    PROVE  /\ EngineApply(ivs, e) # << >>
           /\ Newest(EngineApply(ivs, e)) = NewInterval(e)
<1> DEFINE n == Len(ivs)
           closed == IF n > 0 THEN [ivs EXCEPT ![n] = Closed(@, e.ts)] ELSE ivs
<1>1. closed \in Seq(Intervals)
  <2>1. ASSUME n > 0 PROVE Closed(ivs[n], e.ts) \in Intervals
    <3>1. ivs[n] \in Intervals
      BY <2>1
    <3> QED
      BY <3>1, ClosedType
  <2> QED
    BY <2>1
<1>2. EngineApply(ivs, e) = Append(closed, NewInterval(e))
  BY DEF EngineApply
<1> HIDE DEF closed
<1> QED
  BY <1>1, <1>2 DEF Newest

\* Process, CloseOpen and StoreFails leave the engine and the open rows that
\* remain alone; the other steps put the newest row into the engine.
LEMMA EngineInvStep == Inv /\ EngineInv /\ [Next]_vars => EngineInv'
<1> SUFFICES ASSUME Inv, EngineInv, [Next]_vars, NEW m \in Machines,
                    (OpenRows(m) # {})', (pc = "observe" => m # ev.machine)'
             PROVE  Tracked(m)'
  BY DEF EngineInv
<1>1. ASSUME NEW e \in Events, Process(e) PROVE Tracked(m)'
  BY <1>1 DEF Process, EngineInv, Tracked, OpenRows, Newest
<1>2. CASE CloseOpen
  <2>1. CASE m = ev.machine
    <3>1. OpenRows(ev.machine)' = {}
      BY <1>2, InvStep DEF Inv, WorkerKnows, CloseOpen
    <3> QED
      BY <2>1, <3>1, <1>2 DEF CloseOpen
  <2>2. CASE m # ev.machine
    BY <1>2, <2>2, CloseOpenEffect DEF CloseOpen, EngineInv, Tracked, OpenRows, Newest
  <2> QED
    BY <2>1, <2>2
<1>3. CASE OpenInterval
  BY <1>3, OpenIntervalEffect DEF OpenInterval, EngineInv, Tracked, OpenRows, Newest
<1>4. CASE StoreFails
  BY <1>4 DEF StoreFails, EngineInv, Tracked, OpenRows, Newest
<1>5. CASE Observe
  <2>1. /\ ev.machine \in Machines /\ NewInterval(ev) \in Intervals /\ ev.ts \in Times
        /\ engine \in [Machines -> Seq(Intervals)]
    BY <1>5, EventFields DEF Observe, Inv, TypeOK
  <2>2. CASE m = ev.machine
    <3>1. engine'[m] = EngineApply(engine[m], ev) /\ rows' = rows
      BY <1>5, <2>1, <2>2 DEF Observe
    <3>2. Newest(rows[m]) = NewInterval(ev)
      BY <1>5, <2>2 DEF Observe, Inv, WorkerKnows, Newest
    <3>3. engine[m] \in Seq(Intervals)
      BY <2>1
    <3> QED
      BY <2>1, <3>1, <3>2, <3>3, EngineApplyEndsWithEvent DEF Tracked, Newest
  <2>3. CASE m # ev.machine
    BY <1>5, <2>1, <2>3 DEF Observe, EngineInv, Tracked, OpenRows, Newest
  <2> QED
    BY <2>2, <2>3
<1>6. ASSUME NEW failed \in SUBSET Untracked, Rehydrate(failed) PROVE Tracked(m)'
  <2>1. /\ OpenRows(m) # {} /\ rows' = rows /\ pc' = pc /\ ev' = ev
        /\ skipped' = failed
    BY <1>6 DEF Rehydrate, OpenRows
  <2>2. LastOpen(m) = Newest(rows[m])
    BY <2>1, LastOpenIsNewest DEF Inv, Newest
  <2>3. CASE m \in Untracked \ failed
    <3>1. engine'[m] = <<LastOpen(m)>>
      BY <1>6, <2>1, <2>3 DEF Rehydrate
    <3> QED
      BY <2>1, <2>2, <3>1 DEF Tracked, Newest
  <2>4. CASE m \notin Untracked \ failed
    <3>1. engine'[m] = engine[m]
      BY <1>6, <2>4 DEF Rehydrate
    <3>2. m \in RehydrateIDs \ failed => engine[m] # << >>
      BY <2>4 DEF Untracked
    <3> QED
      BY <2>1, <3>1, <3>2 DEF EngineInv, Tracked, Newest
  <2> QED
    BY <2>3, <2>4
<1>7. CASE Crash
  BY <1>7 DEF Crash, Tracked
<1>8. CASE UNCHANGED vars
  BY <1>8 DEF vars, EngineInv, Tracked, OpenRows, Newest
<1> QED
  BY <1>1, <1>2, <1>3, <1>4, <1>5, <1>6, <1>7, <1>8 DEF Next

(***************************************************************************)
(* Whatever machine IDs Engine.Start is given, none included, the engine     *)
(* between events knows an open row of the table as its last interval or     *)
(* knows nothing of the machine, through store failures, crashes and a       *)
(* rehydration that races with the worker; and it does know the row of a     *)
(* machine that Start was given and could read.                              *)
(***************************************************************************)
THEOREM EngineNeverStale == Spec => []EngineTracksOpenRow
<1>1. Init => EngineInv
  BY DEF Init, EngineInv, OpenRows
<1>2. Inv /\ EngineInv => EngineTracksOpenRow
  <2> SUFFICES ASSUME Inv, EngineInv, pc = "idle", NEW m \in Machines, OpenRows(m) # {}
               PROVE  /\ engine[m] # << >> => engine[m][Len(engine[m])] = LastOpen(m)
                      /\ hydrated /\ m \in RehydrateIDs \ skipped => engine[m] # << >>
    BY DEF EngineTracksOpenRow
  <2>1. Tracked(m)
    BY DEF EngineInv
  <2>2. LastOpen(m) = Newest(rows[m])
    BY LastOpenIsNewest DEF Inv, Newest
  <2> QED
    BY <2>1, <2>2 DEF Tracked, Newest
<1> QED
  BY <1>1, <1>2, InvInit, InvStep, EngineInvStep, PTL DEF Spec
-----------------------------------------------------------------------------
(* Without failures the intervals are contiguous.                            *)

LastRow(m) == rows[m][Len(rows[m])]

Contiguous(m) ==
    \A i \in DOMAIN rows[m] : i > 1 => rows[m][i - 1].end = rows[m][i].start

\* The newest row is open, except between CloseOpen and OpenInterval, when it
\* ends where the new one will start.
NewestRow(m) ==
    rows[m] # << >> =>
        IF pc = "open" /\ ev.machine = m THEN LastRow(m).end = ev.ts ELSE IsOpen(LastRow(m))

Chain == Undisturbed => \A m \in Machines : Contiguous(m) /\ NewestRow(m)

LEMMA ChainStep == Inv /\ Chain /\ [Next]_vars => Chain'
<1> SUFFICES ASSUME Inv, Chain, [Next]_vars, Undisturbed', NEW m \in Machines
             PROVE  Contiguous(m)' /\ NewestRow(m)'
  BY DEF Chain
<1>type. TypeOK /\ OneOpenInterval /\ rows[m] \in Seq(Intervals)
  BY DEF Inv, TypeOK
<1>last. rows[m] # << >> => Len(rows[m]) \in DOMAIN rows[m]
  BY <1>type
<1>1. ASSUME NEW e \in Events, Process(e) PROVE Contiguous(m)' /\ NewestRow(m)'
  <2>1. Undisturbed /\ Contiguous(m) /\ NewestRow(m)
    BY <1>1 DEF Process, Undisturbed, Chain
  <2>2. rows[m] # << >> => IsOpen(LastRow(m))
    BY <1>1, <2>1 DEF Process, NewestRow
  <2>3. pc' = "open" /\ ev'.machine = m => rows[m] = << >>
    BY <1>1, <1>last, <2>2 DEF Process, OpenRows, LastRow
  <2> QED
    BY <1>1, <2>1, <2>2, <2>3 DEF Process, Contiguous, NewestRow, LastRow
<1>2. CASE CloseOpen
  <2>1. Undisturbed /\ Contiguous(m) /\ NewestRow(m)
    BY <1>2 DEF CloseOpen, Undisturbed, Chain
  <2>2. CASE m # ev.machine
    <3>1. rows'[m] = rows[m]
      BY <1>2, <2>2, CloseOpenEffect
    <3> QED
      BY <1>2, <2>1, <2>2, <3>1 DEF CloseOpen, Contiguous, NewestRow, LastRow
  <2>3. CASE m = ev.machine
    <3>1. /\ DOMAIN rows'[m] = DOMAIN rows[m] /\ rows'[m] \in Seq(Intervals)
          /\ \A i \in DOMAIN rows[m] : rows'[m][i] = Closed(rows[m][i], ev.ts)
      BY <1>2, <2>3, CloseOpenEffect
    <3>2. Len(rows'[m]) = Len(rows[m])
      BY <1>type, <3>1
    <3>3. \A i \in DOMAIN rows[m] :
            /\ rows'[m][i].start = rows[m][i].start
            /\ IsOpen(rows[m][i]) => rows'[m][i].end = ev.ts
            /\ ~IsOpen(rows[m][i]) => rows'[m][i] = rows[m][i]
      <4>1. ev.ts \in Times
        BY <1>2, <1>type, EventFields DEF CloseOpen
      <4> QED
        BY <1>type, <3>1, <4>1, RowTypes, ClosedType
    <3>4. Contiguous(m)'
      <4> SUFFICES ASSUME NEW i \in DOMAIN rows[m], i > 1
                   PROVE  rows'[m][i - 1].end = rows'[m][i].start
        BY <3>1 DEF Contiguous
      <4>1. i - 1 \in DOMAIN rows[m] /\ i - 1 # Len(rows[m])
        BY <1>type
      <4>2. ~IsOpen(rows[m][i - 1])
        BY <1>type, <4>1 DEF OneOpenInterval, OpenRows
      <4> QED
        BY <2>1, <3>3, <4>1, <4>2 DEF Contiguous
    <3>5. rows'[m] # << >> => LastRow(m)'.end = ev.ts
      <4>1. rows'[m] # << >> => rows[m] # << >>
        BY <1>type, <3>1, <3>2
      <4>2. rows[m] # << >> => IsOpen(LastRow(m))
        BY <1>2, <2>1 DEF CloseOpen, NewestRow
      <4> QED
        BY <1>last, <3>2, <3>3, <4>1, <4>2 DEF LastRow
    <3> QED
      BY <1>2, <2>3, <3>4, <3>5 DEF CloseOpen, NewestRow
  <2> QED
    BY <2>2, <2>3
<1>3. CASE OpenInterval
  <2>1. Undisturbed /\ Contiguous(m) /\ NewestRow(m)
    BY <1>3 DEF OpenInterval, Undisturbed, Chain
  <2>2. CASE m # ev.machine
    <3>1. rows'[m] = rows[m]
      BY <1>3, <2>2, OpenIntervalEffect
    <3> QED
      BY <1>3, <2>1, <2>2, <3>1 DEF OpenInterval, Contiguous, NewestRow, LastRow
  <2>3. CASE m = ev.machine
    <3> DEFINE n == Len(rows[m])
    <3>1. /\ n \in Nat /\ DOMAIN rows[m] = 1..n
          /\ Len(rows'[m]) = n + 1 /\ DOMAIN rows'[m] = 1..(n + 1)
          /\ \A i \in 1..n : rows'[m][i] = rows[m][i]
          /\ rows'[m][n + 1] = NewInterval(ev)
      BY <1>type, <1>3, <2>3, OpenIntervalEffect
    <3>2. NewInterval(ev).start = ev.ts /\ IsOpen(NewInterval(ev))
      BY <1>type, <1>3, EventFields DEF OpenInterval, NewInterval
    <3>3. n > 0 => rows[m][n].end = ev.ts
      BY <1>type, <1>3, <2>1, <2>3 DEF OpenInterval, NewestRow, LastRow
    <3>4. Contiguous(m)'
      <4> SUFFICES ASSUME NEW i \in 1..(n + 1), i > 1
                   PROVE  rows'[m][i - 1].end = rows'[m][i].start
        BY <3>1 DEF Contiguous
      <4>1. CASE i = n + 1
        BY <3>1, <3>2, <3>3, <4>1
      <4>2. CASE i \in 1..n
        BY <2>1, <3>1, <4>2 DEF Contiguous
      <4> QED
        BY <3>1, <4>1, <4>2
    <3> QED
      BY <1>3, <3>1, <3>2, <3>4 DEF OpenInterval, NewestRow, LastRow
  <2> QED
    BY <2>2, <2>3
<1>4. CASE StoreFails
  <2>1. failures' # 0
    BY <1>4, <1>type DEF StoreFails, TypeOK
  <2> QED
    BY <2>1 DEF Undisturbed
<1>5. CASE Observe
  BY <1>5 DEF Observe, Undisturbed, Chain, Contiguous, NewestRow, LastRow
<1>6. ASSUME NEW failed \in SUBSET Untracked, Rehydrate(failed)
      PROVE  Contiguous(m)' /\ NewestRow(m)'
  <2>1. Cardinality(failed) \in Nat
    BY StateIngestAssumption, FS_Subset, FS_CardinalityType DEF Untracked
  <2>2. Undisturbed
    BY <1>6, <1>type, <2>1 DEF Rehydrate, Undisturbed, TypeOK
  <2> QED
    BY <1>6, <2>2 DEF Rehydrate, Chain, Contiguous, NewestRow, LastRow
<1>7. CASE Crash
  <2>1. crashes' # 0
    BY <1>7, <1>type DEF Crash, TypeOK
  <2> QED
    BY <2>1 DEF Undisturbed
<1>8. CASE UNCHANGED vars
  BY <1>8 DEF vars, Undisturbed, Chain, Contiguous, NewestRow, LastRow
<1> QED
  BY <1>1, <1>2, <1>3, <1>4, <1>5, <1>6, <1>7, <1>8 DEF Next

(***************************************************************************)
(* As long as no store call failed and the process has not died, every       *)
(* interval of a machine starts exactly where the previous one ended, in     *)
(* whatever order the events' timestamps come.                               *)
(***************************************************************************)
THEOREM NoGaps == Spec => []IntervalsContiguous
<1>1. Init => Chain
  BY DEF Init, Chain, Contiguous, NewestRow
<1>2. Chain => IntervalsContiguous
  BY DEF Chain, Contiguous, IntervalsContiguous
<1> QED
  BY <1>1, <1>2, InvInit, InvStep, ChainStep, PTL DEF Spec
-----------------------------------------------------------------------------
(* Without failures the engine's memory is the table.                        *)

\* What Engine.Apply does before it appends.
CloseLast(ivs, ts) ==
    IF Len(ivs) > 0 THEN [ivs EXCEPT ![Len(ivs)] = Closed(@, ts)] ELSE ivs

LEMMA EngineApplyIs ==
    ASSUME NEW ivs, NEW e
    PROVE  EngineApply(ivs, e) = Append(CloseLast(ivs, e.ts), NewInterval(e))
  BY DEF EngineApply, CloseLast

LEMMA CloseLastIs ==
    ASSUME NEW ivs \in Seq(Intervals), NEW ts \in Times
    PROVE  /\ CloseLast(ivs, ts) \in Seq(Intervals) /\ Len(CloseLast(ivs, ts)) = Len(ivs)
           /\ \A i \in 1..Len(ivs) : i # Len(ivs) => CloseLast(ivs, ts)[i] = ivs[i]
           /\ Len(ivs) > 0 => CloseLast(ivs, ts)[Len(ivs)] = Closed(ivs[Len(ivs)], ts)
<1>1. CASE Len(ivs) > 0
  <2>1. ivs[Len(ivs)] \in Intervals /\ Len(ivs) \in 1..Len(ivs)
    BY <1>1
  <2>2. Closed(ivs[Len(ivs)], ts) \in Intervals
    BY <2>1, ClosedType
  <2>3. CloseLast(ivs, ts) = [ivs EXCEPT ![Len(ivs)] = Closed(ivs[Len(ivs)], ts)]
    BY <1>1 DEF CloseLast
  <2> QED
    BY <2>1, <2>2, <2>3
<1>2. CASE ~(Len(ivs) > 0)
  BY <1>2 DEF CloseLast
<1> QED
  BY <1>1, <1>2

\* Engine and table stay the same when both close their last interval ...
LEMMA SameClosed ==
    ASSUME NEW ivs \in Seq(Intervals), NEW table \in Seq(Intervals), NEW ts \in Times,
           SameIntervals(ivs, table)
    PROVE  SameIntervals(CloseLast(ivs, ts), CloseLast(table, ts))
<1>1. CASE ivs = table
  BY <1>1 DEF SameIntervals
<1>2. CASE ivs # << >> /\ ivs[1].start = ivs[1].end /\ table # << >> /\ Tail(ivs) = table
  <2> DEFINE c == CloseLast(ivs, ts)
             d == CloseLast(table, ts)
             n == Len(table)
  <2>1. /\ n \in Nat /\ n > 0 /\ Len(ivs) = n + 1
        /\ \A i \in 1..n : table[i] = ivs[i + 1]
    BY <1>2
  <2>2. /\ c \in Seq(Intervals) /\ Len(c) = n + 1
        /\ \A i \in 1..(n + 1) : i # n + 1 => c[i] = ivs[i]
        /\ c[n + 1] = Closed(ivs[n + 1], ts)
    BY <2>1, CloseLastIs
  <2>3. /\ d \in Seq(Intervals) /\ Len(d) = n
        /\ \A i \in 1..n : i # n => d[i] = table[i]
        /\ d[n] = Closed(table[n], ts)
    BY <2>1, CloseLastIs
  <2> HIDE DEF c, d, n
  <2>4. c # << >> /\ d # << >> /\ c[1] = ivs[1]
    BY <2>1, <2>2, <2>3
  <2>5. Tail(c) \in Seq(Intervals) /\ Len(Tail(c)) = n /\ \A i \in 1..n : Tail(c)[i] = c[i + 1]
    BY <2>1, <2>2
  <2>6. ASSUME NEW i \in 1..n PROVE Tail(c)[i] = d[i]
    <3>1. CASE i = n
      BY <2>1, <2>2, <2>3, <2>5, <3>1
    <3>2. CASE i # n
      <4>1. i + 1 \in 1..(n + 1) /\ i + 1 # n + 1
        BY <2>1, <3>2
      <4> QED
        BY <2>1, <2>2, <2>3, <2>5, <3>2, <4>1
    <3> QED
      BY <3>1, <3>2
  <2>7. Tail(c) = d
    BY <2>3, <2>5, <2>6, SeqEqual
  <2>8. SameIntervals(c, d)
    BY <1>2, <2>4, <2>7 DEF SameIntervals
  <2> QED
    BY <2>8 DEF c, d
<1> QED
  BY <1>1, <1>2 DEF SameIntervals

\* ... and when both get the same new one.
LEMMA SameAppended ==
    ASSUME NEW ivs \in Seq(Intervals), NEW table \in Seq(Intervals), NEW iv \in Intervals,
           SameIntervals(ivs, table)
    PROVE  SameIntervals(Append(ivs, iv), Append(table, iv))
<1>1. CASE ivs = table
  BY <1>1 DEF SameIntervals
<1>2. CASE ivs # << >> /\ ivs[1].start = ivs[1].end /\ table # << >> /\ Tail(ivs) = table
  <2>1. /\ Append(ivs, iv) # << >> /\ Append(table, iv) # << >>
        /\ Append(ivs, iv)[1] = ivs[1]
    BY <1>2
  <2>2. Tail(Append(ivs, iv)) = Append(Tail(ivs), iv)
    BY <1>2
  <2> QED
    BY <1>2, <2>1, <2>2 DEF SameIntervals
<1> QED
  BY <1>1, <1>2 DEF SameIntervals

\* Machine m's intervals in the engine once Apply has caught up with the table.
CaughtUp(m) ==
    CASE pc = "open" /\ ev.machine = m -> CloseLast(engine[m], ev.ts)
      [] pc = "observe" /\ ev.machine = m -> EngineApply(engine[m], ev)
      [] OTHER -> engine[m]

Mirror == Undisturbed => \A m \in Machines : SameIntervals(CaughtUp(m), rows[m])

LEMMA MirrorStep == Inv /\ Mirror /\ [Next]_vars => Mirror'
<1> SUFFICES ASSUME Inv, Mirror, [Next]_vars, Undisturbed', NEW m \in Machines
             PROVE  SameIntervals(CaughtUp(m), rows[m])'
  BY DEF Mirror
<1>type. /\ TypeOK /\ OneOpenInterval
         /\ rows[m] \in Seq(Intervals) /\ engine[m] \in Seq(Intervals)
  BY DEF Inv, TypeOK
\* A step that concerns other machines only.
<1>other. ASSUME Undisturbed, rows'[m] = rows[m], engine'[m] = engine[m],
                 pc \in {"open", "observe"} => ev.machine # m,
                 pc' \in {"open", "observe"} => ev'.machine # m
          PROVE  SameIntervals(CaughtUp(m), rows[m])'
  <2>1. CaughtUp(m) = engine[m] /\ CaughtUp(m)' = engine'[m]
    BY <1>other DEF CaughtUp
  <2> QED
    BY <1>other, <2>1 DEF Mirror, SameIntervals
<1>1. ASSUME NEW e \in Events, Process(e) PROVE SameIntervals(CaughtUp(m), rows[m])'
  <2>1. /\ Undisturbed /\ pc = "idle" /\ rows' = rows /\ engine' = engine /\ ev' = e
        /\ pc' \in {"close", "open"}
    BY <1>1 DEF Process, Undisturbed
  <2>2. SameIntervals(engine[m], rows[m])
    BY <2>1 DEF Mirror, CaughtUp
  <2>3. CASE ~(pc' = "open" /\ e.machine = m)
    BY <1>other, <2>1, <2>3
  <2>4. CASE pc' = "open" /\ e.machine = m
    <3>1. OpenRows(m) = {}
      BY <1>1, <2>4 DEF Process
    <3>2. e.ts \in Times
      BY DEF Events
    <3>3. SameIntervals(CloseLast(engine[m], e.ts), CloseLast(rows[m], e.ts))
      BY <1>type, <2>2, <3>2, SameClosed
    <3>4. CloseLast(rows[m], e.ts) = rows[m]
      <4>1. CASE Len(rows[m]) > 0
        <5>1. Len(rows[m]) \in DOMAIN rows[m]
          BY <1>type, <4>1
        <5>2. Closed(rows[m][Len(rows[m])], e.ts) = rows[m][Len(rows[m])]
          BY <3>1, <5>1 DEF OpenRows, Closed
        <5> QED
          BY <1>type, <5>2 DEF CloseLast
      <4>2. CASE ~(Len(rows[m]) > 0)
        BY <4>2 DEF CloseLast
      <4> QED
        BY <4>1, <4>2
    <3>5. CaughtUp(m)' = CloseLast(engine[m], e.ts)
      BY <2>1, <2>4 DEF CaughtUp
    <3> QED
      BY <2>1, <3>3, <3>4, <3>5 DEF SameIntervals
  <2> QED
    BY <2>3, <2>4
<1>2. CASE CloseOpen
  <2>1. /\ Undisturbed /\ pc = "close" /\ pc' = "open" /\ engine' = engine /\ ev' = ev
    BY <1>2 DEF CloseOpen, Undisturbed
  <2>2. CASE m # ev.machine
    BY <1>2, <1>other, <2>1, <2>2, CloseOpenEffect
  <2>3. CASE m = ev.machine
    <3>1. /\ DOMAIN rows'[m] = DOMAIN rows[m] /\ rows'[m] \in Seq(Intervals)
          /\ \A i \in DOMAIN rows[m] : rows'[m][i] = Closed(rows[m][i], ev.ts)
      BY <1>2, <2>3, CloseOpenEffect
    <3>2. ev.ts \in Times
      BY <1>type, <2>1, EventFields
    <3>3. /\ Len(rows'[m]) = Len(rows[m]) /\ Len(rows[m]) \in Nat
          /\ DOMAIN rows[m] = 1..Len(rows[m])
      BY <1>type, <3>1
    <3>4. \A i \in 1..Len(rows[m]) : i # Len(rows[m]) => rows'[m][i] = rows[m][i]
      BY <1>type, <3>1, <3>3 DEF OneOpenInterval, OpenRows, Closed
    <3>5. rows'[m] = CloseLast(rows[m], ev.ts)
      <4> DEFINE d == CloseLast(rows[m], ev.ts)
      <4>1. /\ d \in Seq(Intervals) /\ Len(d) = Len(rows[m])
            /\ \A i \in 1..Len(rows[m]) : i # Len(rows[m]) => d[i] = rows[m][i]
            /\ Len(rows[m]) > 0 => d[Len(rows[m])] = Closed(rows[m][Len(rows[m])], ev.ts)
        BY <1>type, <3>2, CloseLastIs
      <4> HIDE DEF d
      <4>2. \A i \in 1..Len(rows'[m]) : rows'[m][i] = d[i]
        BY <3>1, <3>3, <3>4, <4>1
      <4>3. rows'[m] = d
        BY <3>1, <3>3, <4>1, <4>2, SeqEqual
      <4> QED
        BY <4>3 DEF d
    <3>6. SameIntervals(engine[m], rows[m])
      BY <2>1 DEF Mirror, CaughtUp
    <3>7. SameIntervals(CloseLast(engine[m], ev.ts), CloseLast(rows[m], ev.ts))
      BY <1>type, <3>2, <3>6, SameClosed
    <3>8. CaughtUp(m)' = CloseLast(engine[m], ev.ts)
      BY <2>1, <2>3 DEF CaughtUp
    <3> QED
      BY <3>5, <3>7, <3>8 DEF SameIntervals
  <2> QED
    BY <2>2, <2>3
<1>3. CASE OpenInterval
  <2>1. /\ Undisturbed /\ pc = "open" /\ pc' = "observe" /\ engine' = engine /\ ev' = ev
        /\ rows' = [rows EXCEPT ![ev.machine] = Append(@, NewInterval(ev))]
    BY <1>3 DEF OpenInterval, Undisturbed
  <2>2. CASE m # ev.machine
    BY <1>3, <1>other, <2>1, <2>2, OpenIntervalEffect
  <2>3. CASE m = ev.machine
    <3>1. NewInterval(ev) \in Intervals /\ ev.ts \in Times
      BY <1>type, <2>1, EventFields
    <3>2. rows'[m] = Append(rows[m], NewInterval(ev))
      BY <1>type, <2>1, <2>3 DEF TypeOK
    <3>3. SameIntervals(CloseLast(engine[m], ev.ts), rows[m])
      BY <2>1, <2>3 DEF Mirror, CaughtUp
    <3>4. CloseLast(engine[m], ev.ts) \in Seq(Intervals)
      BY <1>type, <3>1, CloseLastIs
    <3>5. SameIntervals(EngineApply(engine[m], ev), Append(rows[m], NewInterval(ev)))
      BY <1>type, <3>1, <3>3, <3>4, SameAppended, EngineApplyIs
    <3>6. CaughtUp(m)' = EngineApply(engine[m], ev)
      BY <2>1, <2>3 DEF CaughtUp, EngineApply
    <3> QED
      BY <3>2, <3>5, <3>6 DEF SameIntervals
  <2> QED
    BY <2>2, <2>3
<1>4. CASE StoreFails
  <2>1. failures' # 0
    BY <1>4, <1>type DEF StoreFails, TypeOK
  <2> QED
    BY <2>1 DEF Undisturbed
<1>5. CASE Observe
  <2>1. /\ Undisturbed /\ pc = "observe" /\ pc' = "idle" /\ rows' = rows
        /\ engine' = [engine EXCEPT ![ev.machine] = EngineApply(@, ev)]
    BY <1>5 DEF Observe, Undisturbed
  <2>2. CASE m # ev.machine
    <3>1. engine'[m] = engine[m]
      BY <1>type, <2>1, <2>2 DEF TypeOK
    <3> QED
      BY <1>other, <2>1, <2>2, <3>1
  <2>3. CASE m = ev.machine
    <3>1. engine'[m] = EngineApply(engine[m], ev)
      BY <1>type, <2>1, <2>3 DEF TypeOK
    <3>2. SameIntervals(EngineApply(engine[m], ev), rows[m])
      BY <2>1, <2>3 DEF Mirror, CaughtUp
    <3>3. CaughtUp(m)' = engine'[m]
      BY <2>1 DEF CaughtUp
    <3> QED
      BY <2>1, <3>1, <3>2, <3>3 DEF SameIntervals
  <2> QED
    BY <2>2, <2>3
<1>6. ASSUME NEW failed \in SUBSET Untracked, Rehydrate(failed)
      PROVE  SameIntervals(CaughtUp(m), rows[m])'
  <2>1. Cardinality(failed) \in Nat
    BY StateIngestAssumption, FS_Subset, FS_CardinalityType DEF Untracked
  <2>2. Undisturbed /\ rows' = rows /\ pc' = pc /\ ev' = ev
    BY <1>6, <1>type, <2>1 DEF Rehydrate, Undisturbed, TypeOK
  <2>3. SameIntervals(CaughtUp(m), rows[m])
    BY <2>2 DEF Mirror
  <2>4. CASE engine'[m] = engine[m]
    <3>1. CaughtUp(m)' = CaughtUp(m)
      BY <2>2, <2>4 DEF CaughtUp, CloseLast, EngineApply
    <3> QED
      BY <2>2, <2>3, <3>1 DEF SameIntervals
  \* The engine had nothing of m and the table has an open row: Apply is on its
  \* way with m's first event.
  <2>5. CASE engine'[m] # engine[m]
    <3>1. engine[m] = << >> /\ OpenRows(m) # {} /\ engine'[m] = <<LastOpen(m)>>
      BY <1>6, <2>5 DEF Rehydrate, Untracked
    <3>2. rows[m] # << >>
      BY <3>1 DEF OpenRows
    <3>3. pc = "observe" /\ ev.machine = m
      <4>1. CASE pc = "open" /\ ev.machine = m
        BY <3>1, <4>1 DEF Inv, WorkerKnows
      <4>2. CASE ~(pc = "open" /\ ev.machine = m) /\ ~(pc = "observe" /\ ev.machine = m)
        <5>1. CaughtUp(m) = << >>
          BY <3>1, <4>2 DEF CaughtUp
        <5> QED
          BY <2>3, <3>2, <5>1 DEF SameIntervals
      <4> QED
        BY <4>1, <4>2
    <3> DEFINE new == NewInterval(ev)
    <3>4. /\ new \in Intervals /\ ev.ts \in Times /\ IsOpen(new) /\ new.start = ev.ts
      BY <1>type, <3>3, EventFields DEF NewInterval
    <3>5. rows[m] = <<new>>
      <4>1. CaughtUp(m) = <<new>>
        BY <3>1, <3>3 DEF CaughtUp, EngineApply
      <4> QED
        BY <2>3, <3>2, <4>1 DEF SameIntervals
    <3>6. LastOpen(m) = new
      BY <1>type, <3>1, <3>5, LastOpenIsNewest
    <3> DEFINE z == Closed(new, ev.ts)
    <3>7. z \in Intervals /\ z.start = z.end
      BY <3>4, ClosedType
    <3>8. CaughtUp(m)' = <<z, new>>
      <4> HIDE DEF new
      <4>1. CloseLast(<<new>>, ev.ts) = <<z>>
        BY DEF CloseLast
      <4>2. EngineApply(<<new>>, ev) = Append(<<z>>, new)
        BY <4>1, EngineApplyIs DEF new
      <4>3. CaughtUp(m)' = EngineApply(engine'[m], ev)
        BY <2>2, <3>3 DEF CaughtUp, EngineApply
      <4>4. engine'[m] = <<new>>
        BY <3>1, <3>6
      <4> HIDE DEF z
      <4>5. Append(<<z>>, new) = <<z, new>>
        <5>1. /\ Append(<<z>>, new) \in Seq(Intervals) /\ Len(Append(<<z>>, new)) = 2
              /\ Append(<<z>>, new)[1] = z /\ Append(<<z>>, new)[2] = new
          BY <3>4, <3>7
        <5>2. <<z, new>> \in Seq(Intervals) /\ Len(<<z, new>>) = 2
          BY <3>4, <3>7
        <5>3. \A i \in 1..2 : Append(<<z>>, new)[i] = <<z, new>>[i]
          BY <5>1
        <5> QED
          BY <5>1, <5>2, <5>3, SeqEqual
      <4> QED
        BY <4>2, <4>3, <4>4, <4>5
    <3> HIDE DEF new, z
    <3>9. <<z, new>> # << >> /\ <<z, new>>[1] = z /\ Tail(<<z, new>>) = <<new>>
      BY <3>4, <3>7
    <3> QED
      BY <2>2, <3>2, <3>5, <3>7, <3>8, <3>9 DEF SameIntervals
  <2> QED
    BY <2>4, <2>5
<1>7. CASE Crash
  <2>1. crashes' # 0
    BY <1>7, <1>type DEF Crash, TypeOK
  <2> QED
    BY <2>1 DEF Undisturbed
<1>8. CASE UNCHANGED vars
  BY <1>8 DEF vars, Undisturbed, Mirror, CaughtUp, CloseLast, EngineApply, SameIntervals
<1> QED
  BY <1>1, <1>2, <1>3, <1>4, <1>5, <1>6, <1>7, <1>8 DEF Next

(***************************************************************************)
(* As long as no store call failed and the process has not died, the live    *)
(* engine holds the intervals of the table between any two events, also when *)
(* rehydrate ran while Apply was between its transactions; that race adds at *)
(* most one interval, the first, and it has no length.                       *)
(***************************************************************************)
THEOREM EngineMirrorsTable == Spec => []EngineMatchesStore
<1>1. Init => Mirror
  BY DEF Init, Mirror, CaughtUp, SameIntervals
<1>2. Mirror => EngineMatchesStore
  BY DEF Mirror, CaughtUp, EngineMatchesStore
<1> QED
  BY <1>1, <1>2, InvInit, InvStep, MirrorStep, PTL DEF Spec
=============================================================================
