--------------------------- MODULE LiveSinksProofs ---------------------------
(***************************************************************************)
(* The Hub holds live connections only, and snapshots only go forward, for  *)
(* any machines, connections and number of ticks.                           *)
(*                                                                         *)
(* HubInv: a connection that a broadcast still has to write or to unregister *)
(* is subscribed to the machine of the broadcast, so that unregistering it  *)
(* takes it out of the one list that may hold it.                           *)
(* TickInv: whatever a sink has delivered is not newer than what its drain  *)
(* goroutine holds, which is not newer than what its channel holds, which   *)
(* is not newer than the tick the engine is emitting.                       *)
(***************************************************************************)
EXTENDS LiveSinks, SequenceTheorems, TLAPS

Snaps == [machine : Machines, tick : Nat]

\* A channel of size 1.
Chan == {<< >>} \cup {<<s>> : s \in Snaps}

TypeOK ==
    /\ tick \in Nat /\ pending \subseteq Snaps /\ current \in Snaps \cup {None}
    /\ chans \in [Sinks -> Chan]
    /\ work \in [Sinks -> Snaps \cup {None}]
    /\ latest \in [Machines -> Nat]
    /\ hub \in [Machines -> Seq(Conns)]
    /\ targets \in Seq(Conns) /\ dead \in Seq(Conns)
    /\ conn \in [Conns -> {"none", "open", "broken", "closed"}]
    /\ sub \in [Conns -> Machines \cup {None}]
    /\ reading \subseteq Conns
    /\ seen \in [Conns -> Nat]

\* The connections a broadcast in progress still has to deal with.
Casting(c) == c \in ToSet(targets) \/ c \in ToSet(dead)

HubInv ==
    /\ HubHoldsLiveConns
    /\ \A c \in Conns : Casting(c) => work["ws"] # None /\ sub[c] = work["ws"].machine
    /\ \A c \in Conns : conn[c] = "none" => sub[c] = None /\ c \notin reading
    /\ \A c \in reading : sub[c] \in Machines
    /\ work["ws"] = None => ~copied
    /\ ~copied => targets = << >> /\ dead = << >>

TickInv ==
    /\ \A s \in pending : s.tick = tick
    /\ current # None => current.tick = tick
    /\ \A k \in Sinks :
         /\ work[k] # None => work[k].tick <= tick
         /\ chans[k] # << >> => chans[k][1].tick <= tick
         /\ work[k] # None /\ chans[k] # << >> => work[k].tick <= chans[k][1].tick
    /\ \A m \in Machines :
         /\ latest[m] <= tick
         /\ work["log"] # None => latest[m] <= work["log"].tick
         /\ chans["log"] # << >> => latest[m] <= chans["log"][1].tick
    /\ \A c \in Conns :
         /\ seen[c] <= tick
         /\ work["ws"] # None => seen[c] <= work["ws"].tick
         /\ chans["ws"] # << >> => seen[c] <= chans["ws"][1].tick

SinkInv == TypeOK /\ HubInv /\ TickInv

-----------------------------------------------------------------------------
(* Lists of connections                                                     *)

LEMMA TailElems ==
    ASSUME NEW S, NEW s \in Seq(S), s # << >>
    PROVE  /\ Tail(s) \in Seq(S) /\ ToSet(Tail(s)) \subseteq ToSet(s)
           /\ Head(s) \in ToSet(s) /\ Head(s) \in S
<1>1. \A i \in DOMAIN Tail(s) : i + 1 \in DOMAIN s /\ Tail(s)[i] = s[i + 1]
  OBVIOUS
<1> QED
  BY <1>1 DEF ToSet

LEMMA AppendElems ==
    ASSUME NEW S, NEW s \in Seq(S), NEW e \in S
    PROVE  /\ Append(s, e) \in Seq(S)
           /\ \A x \in ToSet(Append(s, e)) : x \in ToSet(s) \/ x = e
           /\ IsInjective(s) /\ e \notin ToSet(s) => IsInjective(Append(s, e))
<1>1. /\ \A i \in DOMAIN Append(s, e) : i \in DOMAIN s \/ i = Len(s) + 1
      /\ \A i \in DOMAIN s : Append(s, e)[i] = s[i]
      /\ Append(s, e)[Len(s) + 1] = e
  OBVIOUS
<1>2. \A x \in ToSet(Append(s, e)) : x \in ToSet(s) \/ x = e
  BY <1>1 DEF ToSet
<1>3. ASSUME IsInjective(s), e \notin ToSet(s) PROVE IsInjective(Append(s, e))
  BY <1>1, <1>3 DEF ToSet, IsInjective
<1> QED
  BY <1>2, <1>3

\* Removing the first occurrence from a list without duplicates removes the
\* element and leaves the others, once each.
LEMMA RemoveElems ==
    ASSUME NEW S, NEW s \in Seq(S), NEW e, IsInjective(s)
    PROVE  /\ RemoveFirst(s, e) \in Seq(S) /\ IsInjective(RemoveFirst(s, e))
           /\ ToSet(RemoveFirst(s, e)) \subseteq ToSet(s) \ {e}
<1>1. CASE \E i \in 1..Len(s) : s[i] = e
  <2>1. PICK i \in 1..Len(s) : s[i] = e
    BY <1>1
  <2>2. \A j \in 1..Len(s) : s[j] = e => j = i
    BY <2>1 DEF IsInjective
  <2>3. {j \in 1..Len(s) : s[j] = e} = {i}
    BY <2>1, <2>2
  <2>4. Min({i}) = i
    BY DEF Min
  <2>5. SelectInSeq(s, LAMBDA v : v = e) = i
    BY <2>3, <2>4 DEF SelectInSeq
  <2>6. RemoveFirst(s, e) = RemoveAt(s, i)
    BY <1>1, <2>5 DEF RemoveFirst
  <2> DEFINE r == RemoveAt(s, i)
             a == SubSeq(s, 1, i - 1)
             b == SubSeq(s, i + 1, Len(s))
  <2>7. /\ r \in Seq(S) /\ Len(r) = Len(s) - 1
        /\ \A j \in 1..Len(r) : r[j] = IF j < i THEN s[j] ELSE s[j + 1]
    <3>1. i \in Nat /\ Len(s) \in Nat /\ 1 <= i /\ i <= Len(s) /\ r = a \o b
      BY DEF RemoveAt
    <3>2. a \in Seq(S) /\ Len(a) = i - 1 /\ \A j \in 1..(i - 1) : a[j] = s[j]
      BY <3>1
    <3>3. b \in Seq(S) /\ Len(b) = Len(s) - i /\ \A j \in 1..(Len(s) - i) : b[j] = s[j + i]
      BY <3>1
    <3> HIDE DEF a, b, r
    <3>4. r \in Seq(S) /\ Len(r) = Len(a) + Len(b)
      BY <3>1, <3>2, <3>3, ConcatProperties
    <3>5. \A j \in 1..Len(r) : r[j] = IF j <= Len(a) THEN a[j] ELSE b[j - Len(a)]
      BY <3>1, <3>2, <3>3, <3>4, ConcatProperties
    <3>6. ASSUME NEW j \in 1..Len(r) PROVE r[j] = IF j < i THEN s[j] ELSE s[j + 1]
      <4>1. CASE j < i
        BY <3>1, <3>2, <3>5, <4>1
      <4>2. CASE ~(j < i)
        <5>1. j - Len(a) \in 1..(Len(s) - i) /\ (j - Len(a)) + i = j + 1
          BY <3>1, <3>2, <3>3, <3>4, <4>2
        <5> QED
          BY <3>1, <3>2, <3>3, <3>5, <4>2, <5>1
      <4> QED
        BY <4>1, <4>2
    <3> QED
      BY <3>1, <3>2, <3>3, <3>4, <3>6
  <2> QED
    BY <2>2, <2>6, <2>7 DEF IsInjective, ToSet
<1>2. CASE ~ \E i \in 1..Len(s) : s[i] = e
  <2>1. RemoveFirst(s, e) = s
    BY <1>2 DEF RemoveFirst
  <2> QED
    BY <1>2, <2>1 DEF ToSet
<1> QED
  BY <1>1, <1>2

-----------------------------------------------------------------------------
(* The inductive invariant                                                  *)

LEMMA InitInv == Init => SinkInv
<1> SUFFICES ASSUME Init PROVE SinkInv
  OBVIOUS
<1>1. TypeOK
  BY DEF Init, TypeOK, Chan
<1>2. HubInv
  BY DEF Init, HubInv, HubHoldsLiveConns, Casting, ToSet, IsInjective, Sinks
<1>3. TickInv
  BY DEF Init, TickInv, Sinks
<1> QED
  BY <1>1, <1>2, <1>3 DEF SinkInv

\* What receiving from a channel of size 1 leaves and yields.
LEMMA ChanReceive ==
    ASSUME NEW q \in Chan, q # << >>
    PROVE  Head(q) = q[1] /\ q[1] \in Snaps /\ Tail(q) = << >>
<1>1. PICK s \in Snaps : q = <<s>>
  BY DEF Chan
<1>2. Head(<<s>>) = s /\ <<s>>[1] = s /\ Tail(<<s>>) = << >>
  OBVIOUS
<1> QED
  BY <1>1, <1>2

LEMMA NextType == SinkInv /\ [Next]_vars => TypeOK'
<1> SUFFICES ASSUME SinkInv, [Next]_vars PROVE TypeOK'
  OBVIOUS
<1> USE DEF engine, wsVars, casting, closing
<1>t. TypeOK /\ HubInv
  BY DEF SinkInv
<1>1. CASE Tick
  <2>1. tick' \in Nat /\ pending' \subseteq Snaps
    BY <1>1, <1>t DEF Tick, TypeOK, Snaps
  <2> QED
    BY <1>1, <1>t, <2>1 DEF Tick, TypeOK
<1>2. ASSUME NEW s \in pending, Compute(s) \/ ShiftReadFails(s) PROVE TypeOK'
  BY <1>2, <1>t DEF Compute, ShiftReadFails, TypeOK
<1>3. CASE Emit
  <2>1. <<current>> \in Chan
    BY <1>3, <1>t DEF Emit, TypeOK, Chan
  <2>2. chans' \in [Sinks -> Chan]
    BY <1>3, <1>t, <2>1 DEF Emit, Update, TypeOK
  <2> QED
    BY <1>3, <1>t, <2>2 DEF Emit, TypeOK
<1>4. ASSUME NEW k \in Sinks, Receive(k) PROVE TypeOK'
  <2>1. Head(chans[k]) \in Snaps /\ Tail(chans[k]) \in Chan
    BY <1>4, <1>t, ChanReceive DEF Receive, TypeOK, Chan
  <2> QED
    BY <1>4, <1>t, <2>1 DEF Receive, TypeOK
<1>5. CASE (\E k \in Sinks : DrainStops(k)) \/ CloseSinks
  BY <1>5, <1>t DEF DrainStops, CloseSinks, TypeOK
<1>6. CASE LogUpdate
  <2>1. work["log"].machine \in Machines /\ work["log"].tick \in Nat
    BY <1>6, <1>t DEF LogUpdate, TypeOK, Sinks, Snaps
  <2>2. latest' \in [Machines -> Nat] /\ work' \in [Sinks -> Snaps \cup {None}]
    BY <1>6, <1>t, <2>1 DEF LogUpdate, TypeOK
  <2> QED
    BY <1>6, <1>t, <2>2 DEF LogUpdate, TypeOK
<1>7. CASE CopyConns
  <2>1. work["ws"].machine \in Machines
    BY <1>7, <1>t DEF CopyConns, TypeOK, Sinks, Snaps
  <2> QED
    BY <1>7, <1>t, <2>1 DEF CopyConns, TypeOK
<1>8. CASE WriteOK
  <2>1. Head(targets) \in Conns /\ Tail(targets) \in Seq(Conns) /\ Casting(Head(targets))
    BY <1>8, <1>t, TailElems DEF WriteOK, TypeOK, Casting
  <2>2. work["ws"].tick \in Nat
    BY <1>t, <2>1 DEF HubInv, TypeOK, Sinks, Snaps
  <2> QED
    BY <1>8, <1>t, <2>1, <2>2 DEF WriteOK, TypeOK
<1>9. CASE WriteFails
  <2>1. Head(targets) \in Conns /\ Tail(targets) \in Seq(Conns)
    BY <1>9, <1>t, TailElems DEF WriteFails, TypeOK
  <2>2. Append(dead, Head(targets)) \in Seq(Conns)
    BY <1>t, <2>1, AppendElems DEF TypeOK
  <2> QED
    BY <1>9, <1>t, <2>1, <2>2 DEF WriteFails, TypeOK
<1>10. CASE Reap
  <2>1. Head(dead) \in Conns /\ Tail(dead) \in Seq(Conns) /\ Casting(Head(dead))
    BY <1>10, <1>t, TailElems DEF Reap, TypeOK, Casting
  <2>2. work["ws"].machine \in Machines
    BY <1>t, <2>1 DEF HubInv, TypeOK, Sinks, Snaps
  <2>3. RemoveFirst(hub[work["ws"].machine], Head(dead)) \in Seq(Conns)
    BY <1>t, <2>2, RemoveElems DEF HubInv, HubHoldsLiveConns, TypeOK
  <2> QED
    BY <1>10, <1>t, <2>1, <2>2, <2>3 DEF Reap, Unregister, TypeOK
<1>11. CASE BroadcastDone
  BY <1>11, <1>t DEF BroadcastDone, TypeOK
<1>12. ASSUME NEW c \in Conns, PeerLeaves(c) PROVE TypeOK'
  BY <1>12, <1>t DEF PeerLeaves, TypeOK
<1>13. ASSUME NEW c \in Conns, ReadLoopEnds(c) PROVE TypeOK'
  <2>1. sub[c] \in Machines
    BY <1>13, <1>t DEF ReadLoopEnds, HubInv
  <2>2. RemoveFirst(hub[sub[c]], c) \in Seq(Conns)
    BY <1>t, <2>1, RemoveElems DEF HubInv, HubHoldsLiveConns, TypeOK
  <2> QED
    BY <1>13, <1>t, <2>1, <2>2 DEF ReadLoopEnds, Unregister, TypeOK
<1>14. ASSUME NEW c \in Conns, NEW m \in Machines, Register(c, m) PROVE TypeOK'
  <2>1. Append(hub[m], c) \in Seq(Conns)
    BY <1>t, AppendElems DEF TypeOK
  <2> QED
    BY <1>14, <1>t, <2>1 DEF Register, TypeOK
<1>15. CASE UNCHANGED vars
  BY <1>15, <1>t DEF vars, TypeOK
<1> QED
  BY <1>1, <1>2, <1>3, <1>4, <1>5, <1>6, <1>7, <1>8, <1>9, <1>10, <1>11, <1>12, <1>13, <1>14,
     <1>15 DEF Next, EngineStep, BroadcastStep

\* Unregistering a connection from its machine takes it out of every list.
LEMMA UnregisterRemoves ==
    ASSUME TypeOK, HubHoldsLiveConns, NEW c \in Conns, NEW n \in Machines, sub[c] = n,
           Unregister(n, c), NEW m \in Machines
    PROVE  ToSet(hub'[m]) \subseteq ToSet(hub[m]) \ {c} /\ IsInjective(hub'[m])
<1>1. hub[m] \in Seq(Conns) /\ IsInjective(hub[m])
  BY DEF TypeOK, HubHoldsLiveConns
<1>2. CASE m = n
  <2>1. hub'[m] = RemoveFirst(hub[m], c)
    BY <1>2 DEF Unregister, TypeOK
  <2> QED
    BY <1>1, <2>1, RemoveElems
<1>3. CASE m # n
  <2>1. hub'[m] = hub[m] /\ c \notin ToSet(hub[m])
    BY <1>3 DEF Unregister, TypeOK, HubHoldsLiveConns
  <2> QED
    BY <1>1, <2>1
<1> QED
  BY <1>2, <1>3

\* The two ways to unregister a connection, Broadcast and the read loop, keep
\* the Hub's lists exact in any order.
LEMMA NextHub == SinkInv /\ [Next]_vars => HubInv'
<1> SUFFICES ASSUME SinkInv, [Next]_vars PROVE HubInv'
  OBVIOUS
<1> USE DEF engine, wsVars, casting, closing
<1>t. TypeOK /\ HubInv /\ HubHoldsLiveConns /\ None \notin Machines
  BY LiveSinksAssumption DEF SinkInv, HubInv
<1>0. ASSUME UNCHANGED <<wsVars, copied, targets, dead>>, work'["ws"] = work["ws"] PROVE HubInv'
  BY <1>0, <1>t DEF HubInv, HubHoldsLiveConns, Casting
<1>1. ASSUME \/ Tick \/ EngineStep \/ \E k \in Sinks : DrainStops(k)
             \/ CloseSinks \/ UNCHANGED vars
      PROVE  HubInv'
  <2>1. UNCHANGED <<work, wsVars, copied, targets, dead>>
    BY <1>1 DEF Tick, EngineStep, Emit, Compute, ShiftReadFails, DrainStops, CloseSinks, vars
  <2> QED
    BY <1>0, <2>1
<1>2. ASSUME NEW k \in Sinks, Receive(k) PROVE HubInv'
  <2>1. UNCHANGED <<wsVars, copied, targets, dead>>
    BY <1>2 DEF Receive
  <2>2. CASE k = "log"
    <3>1. work'["ws"] = work["ws"]
      BY <1>2, <1>t, <2>2 DEF Receive, TypeOK, Sinks
    <3> QED
      BY <1>0, <2>1, <3>1
  <2>3. CASE k = "ws"
    <3>1. /\ ~copied /\ targets = << >> /\ dead = << >>
      BY <1>2, <1>t, <2>3 DEF Receive, HubInv
    <3>2. \A c : ~Casting(c)'
      BY <2>1, <3>1 DEF Casting, ToSet
    <3> QED
      BY <1>t, <2>1, <3>1, <3>2 DEF HubInv, HubHoldsLiveConns
  <2> QED
    BY <2>2, <2>3 DEF Sinks
<1>3. CASE LogUpdate
  <2>1. UNCHANGED <<wsVars, copied, targets, dead>> /\ work'["ws"] = work["ws"]
    BY <1>3, <1>t DEF LogUpdate, TypeOK, Sinks
  <2> QED
    BY <1>0, <2>1
<1>4. CASE CopyConns
  <2>1. /\ UNCHANGED <<work, wsVars, dead>> /\ copied' = TRUE /\ work["ws"] # None
        /\ targets' = hub[work["ws"].machine] /\ dead = << >>
    BY <1>4, <1>t DEF CopyConns, HubInv
  <2>2. work["ws"].machine \in Machines
    BY <1>t, <2>1 DEF TypeOK, Sinks, Snaps
  <2>3. \A c \in Conns : Casting(c)' => sub[c] = work["ws"].machine
    BY <1>t, <2>1, <2>2 DEF Casting, ToSet, HubHoldsLiveConns
  <2> QED
    BY <1>t, <2>1, <2>3 DEF HubInv, HubHoldsLiveConns
<1>5. CASE WriteFails
  <2>1. UNCHANGED <<work, wsVars, copied>> /\ copied
    BY <1>5, <1>t DEF WriteFails, HubInv
  <2>2. \A c \in Conns : Casting(c)' => Casting(c)
    <3>1. /\ targets' = Tail(targets) /\ targets # << >> /\ dead' = Append(dead, Head(targets))
          /\ targets \in Seq(Conns) /\ dead \in Seq(Conns)
      BY <1>5, <1>t DEF WriteFails, TypeOK
    <3>2. ToSet(targets') \subseteq ToSet(targets) /\ Head(targets) \in ToSet(targets)
          /\ Head(targets) \in Conns
      BY <3>1, TailElems
    <3>3. \A c \in ToSet(dead') : c \in ToSet(dead) \/ c = Head(targets)
      BY <3>1, <3>2, AppendElems
    <3> QED
      BY <3>2, <3>3 DEF Casting
  <2> QED
    BY <1>t, <2>1, <2>2 DEF HubInv, HubHoldsLiveConns
<1>6. CASE Reap
  <2> DEFINE c == Head(dead)
  <2>1. /\ UNCHANGED <<work, sub, reading, copied, targets>> /\ dead' = Tail(dead) /\ copied
        /\ conn' = [conn EXCEPT ![c] = "closed"]
    BY <1>6, <1>t DEF Reap, Unregister, HubInv
  <2>2. c \in Conns /\ c \in ToSet(dead) /\ ToSet(dead') \subseteq ToSet(dead)
    BY <1>6, <1>t, TailElems DEF Reap, TypeOK
  <2>3. sub[c] = work["ws"].machine /\ work["ws"].machine \in Machines
    BY <1>t, <2>2 DEF HubInv, Casting, TypeOK, Sinks, Snaps
  <2>4. \A m \in Machines : ToSet(hub'[m]) \subseteq ToSet(hub[m]) \ {c} /\ IsInjective(hub'[m])
    BY <1>6, <1>t, <2>2, <2>3, UnregisterRemoves DEF Reap
  <2>5. \A d \in Conns : Casting(d)' => Casting(d)
    BY <2>1, <2>2 DEF Casting
  <2> HIDE DEF c
  <2>6. \A d \in Conns : conn'[d] = IF d = c THEN "closed" ELSE conn[d]
    BY <1>t, <2>1, <2>2 DEF TypeOK
  <2>7. HubHoldsLiveConns'
    BY <1>t, <2>1, <2>4, <2>6 DEF HubHoldsLiveConns, TypeOK
  <2> QED
    BY <1>t, <2>1, <2>5, <2>6, <2>7 DEF HubInv
<1>7. CASE BroadcastDone
  <2>1. /\ UNCHANGED wsVars /\ copied' = FALSE /\ targets' = << >> /\ dead' = << >>
    BY <1>7 DEF BroadcastDone
  <2>2. \A c : ~Casting(c)'
    BY <2>1 DEF Casting, ToSet
  <2> QED
    BY <1>t, <2>1, <2>2 DEF HubInv, HubHoldsLiveConns
<1>8. ASSUME NEW c \in Conns, PeerLeaves(c) PROVE HubInv'
  <2>1. UNCHANGED <<work, hub, sub, reading, copied, targets, dead>>
    BY <1>8 DEF PeerLeaves
  <2>2. \A d \in Conns : (conn'[d] = "closed" <=> conn[d] = "closed")
                      /\ (conn'[d] = "none" <=> conn[d] = "none")
    BY <1>8, <1>t DEF PeerLeaves, TypeOK
  <2>3. \A m \in Machines : ToSet(hub[m]) \subseteq Conns
    BY <1>t DEF TypeOK, ToSet
  <2> QED
    BY <1>t, <2>1, <2>2, <2>3 DEF HubInv, HubHoldsLiveConns, Casting
<1>9. ASSUME NEW c \in Conns, ReadLoopEnds(c) PROVE HubInv'
  <2>1. /\ UNCHANGED <<work, sub, copied, targets, dead>> /\ reading' = reading \ {c}
        /\ conn' = [conn EXCEPT ![c] = "closed"] /\ sub[c] \in Machines
    BY <1>9, <1>t DEF ReadLoopEnds, Unregister, HubInv
  <2>2. \A m \in Machines : ToSet(hub'[m]) \subseteq ToSet(hub[m]) \ {c} /\ IsInjective(hub'[m])
    BY <1>9, <1>t, <2>1, UnregisterRemoves DEF ReadLoopEnds
  <2>3. \A d \in Conns : conn'[d] = IF d = c THEN "closed" ELSE conn[d]
    BY <1>t, <2>1 DEF TypeOK
  <2>4. HubHoldsLiveConns'
    BY <1>t, <2>1, <2>2, <2>3 DEF HubHoldsLiveConns, TypeOK
  <2> QED
    BY <1>t, <2>1, <2>3, <2>4 DEF HubInv, Casting
<1>10. ASSUME NEW c \in Conns, NEW m \in Machines, Register(c, m) PROVE HubInv'
  <2>1. /\ UNCHANGED <<work, copied, targets, dead>> /\ reading' = reading \cup {c}
        /\ conn' = [conn EXCEPT ![c] = "open"] /\ sub' = [sub EXCEPT ![c] = m]
        /\ hub' = [hub EXCEPT ![m] = Append(@, c)] /\ conn[c] = "none"
    BY <1>10 DEF Register
  <2>2. \A d \in Conns : /\ conn'[d] = IF d = c THEN "open" ELSE conn[d]
                         /\ sub'[d] = IF d = c THEN m ELSE sub[d]
    BY <1>t, <2>1 DEF TypeOK
  <2>3. sub[c] = None /\ c \notin reading /\ \A n \in Machines : c \notin ToSet(hub[n])
    BY <1>t, <2>1 DEF HubInv, HubHoldsLiveConns
  <2>4. ~Casting(c)
    <3>1. ASSUME Casting(c) PROVE work["ws"].machine \in Machines
      BY <1>t, <3>1 DEF HubInv, TypeOK, Sinks, Snaps
    <3> QED
      BY <1>t, <2>3, <3>1 DEF HubInv
  <2>5. ASSUME NEW n \in Machines
        PROVE  /\ \A d \in ToSet(hub'[n]) : d \in ToSet(hub[n]) \/ (d = c /\ n = m)
               /\ IsInjective(hub'[n])
    <3>1. hub[n] \in Seq(Conns) /\ IsInjective(hub[n])
      BY <1>t DEF TypeOK, HubHoldsLiveConns
    <3>2. hub'[n] = IF n = m THEN Append(hub[n], c) ELSE hub[n]
      BY <1>t, <2>1 DEF TypeOK
    <3> QED
      BY <2>3, <3>1, <3>2, AppendElems
  <2>6. HubHoldsLiveConns'
    <3> SUFFICES ASSUME NEW n \in Machines, NEW d \in ToSet(hub'[n])
                 PROVE  conn'[d] # "closed" /\ d \in reading' /\ sub'[d] = n
      BY <2>5 DEF HubHoldsLiveConns
    <3>1. CASE d = c /\ n = m
      BY <2>1, <2>2, <3>1
    <3>2. CASE d \in ToSet(hub[n])
      <4>1. d \in Conns /\ d # c
        BY <1>t, <2>3, <3>2 DEF TypeOK, ToSet
      <4> QED
        BY <1>t, <2>1, <2>2, <3>2, <4>1 DEF HubHoldsLiveConns
    <3> QED
      BY <2>5, <3>1, <3>2
  <2>7. \A d \in Conns : Casting(d)' => Casting(d) /\ d # c
    BY <2>1, <2>4 DEF Casting
  <2> QED
    BY <1>t, <2>1, <2>2, <2>6, <2>7 DEF HubInv, TypeOK
<1>11. CASE WriteOK
  <2>1. UNCHANGED <<work, wsVars, copied, dead>> /\ copied
    BY <1>11, <1>t DEF WriteOK, HubInv
  <2>2. ToSet(targets') \subseteq ToSet(targets)
    BY <1>11, <1>t, TailElems DEF WriteOK, TypeOK
  <2> QED
    BY <1>t, <2>1, <2>2 DEF HubInv, HubHoldsLiveConns, Casting
<1> QED
  BY <1>1, <1>2, <1>3, <1>4, <1>5, <1>6, <1>7, <1>8, <1>9, <1>10, <1>11
     DEF Next, BroadcastStep

\* Delivered, held by the drain goroutine, in the channel, being emitted: the
\* ticks never decrease along the way, for either sink.
LEMMA NextTick == SinkInv /\ [Next]_vars => TickInv'
<1> SUFFICES ASSUME SinkInv, [Next]_vars PROVE TickInv'
  OBVIOUS
<1> USE DEF engine, wsVars, casting, closing
<1>t. /\ TypeOK /\ HubInv /\ TickInv /\ tick \in Nat
      /\ \A k \in Sinks : chans[k] \in Chan /\ work[k] \in Snaps \cup {None}
  BY DEF SinkInv, TypeOK
<1>s. /\ \A k \in Sinks : work[k] # None => work[k].tick \in Nat /\ work[k].machine \in Machines
      /\ \A k \in Sinks : chans[k] # << >> => chans[k][1] \in Snaps /\ chans[k][1].tick \in Nat
      /\ \A m \in Machines : latest[m] \in Nat
      /\ \A c \in Conns : seen[c] \in Nat
      /\ "log" \in Sinks /\ "ws" \in Sinks
  BY <1>t, ChanReceive DEF TypeOK, Snaps, Sinks
<1>0. ASSUME UNCHANGED <<engine, chans, work, latest, seen>> PROVE TickInv'
  BY <1>0, <1>t DEF TickInv
<1>1. CASE Tick
  <2>1. UNCHANGED <<current, chans, work, latest, seen>> /\ current = None /\ tick' = tick + 1
    BY <1>1 DEF Tick
  <2>2. \A s \in pending' : s.tick = tick'
    BY <1>1 DEF Tick
  <2> QED
    BY <1>t, <1>s, <2>1, <2>2 DEF TickInv
<1>2. ASSUME NEW s \in pending, Compute(s) \/ ShiftReadFails(s) PROVE TickInv'
  <2>1. UNCHANGED <<tick, chans, work, latest, seen>> /\ pending' \subseteq pending
        /\ current' \in {current, s}
    BY <1>2 DEF Compute, ShiftReadFails
  <2> QED
    BY <1>t, <2>1 DEF TickInv
<1>3. CASE Emit
  <2>1. /\ UNCHANGED <<tick, pending, work, latest, seen>> /\ current' = None
        /\ current # None /\ current.tick = tick
    BY <1>3, <1>t DEF Emit, TickInv
  <2>2. \A k \in Sinks : \/ chans'[k] = chans[k]
                         \/ chans'[k] # << >> /\ chans'[k][1] = current
    BY <1>3 DEF Emit, Update
  <2> QED
    BY <1>t, <1>s, <2>1, <2>2 DEF TickInv
<1>4. ASSUME NEW k \in Sinks, Receive(k) PROVE TickInv'
  <2>1. UNCHANGED <<engine, latest, seen>> /\ chans[k] # << >>
    BY <1>4 DEF Receive
  <2>2. /\ work'[k] = chans[k][1] /\ chans'[k] = << >>
        /\ \A j \in Sinks \ {k} : work'[j] = work[j] /\ chans'[j] = chans[j]
    BY <1>4, <1>t, ChanReceive DEF Receive, TypeOK
  <2> QED
    BY <1>t, <1>s, <2>1, <2>2 DEF TickInv
<1>5. CASE LogUpdate
  <2>1. UNCHANGED <<engine, chans, seen>> /\ work["log"] # None
    BY <1>5 DEF LogUpdate
  <2>2. work'["log"] = None /\ \A j \in Sinks \ {"log"} : work'[j] = work[j]
    BY <1>5, <1>t DEF LogUpdate, TypeOK, Sinks
  <2>3. \A m \in Machines : latest'[m] \in {latest[m], work["log"].tick}
    BY <1>5, <1>t DEF LogUpdate, TypeOK
  <2> QED
    BY <1>t, <1>s, <2>1, <2>2, <2>3 DEF TickInv
<1>6. CASE WriteOK
  <2>1. UNCHANGED <<engine, chans, work, latest>>
    BY <1>6 DEF WriteOK
  <2>2. Head(targets) \in Conns /\ Casting(Head(targets))
    BY <1>6, <1>t, TailElems DEF WriteOK, TypeOK, Casting
  <2>3. work["ws"] # None
    BY <1>t, <2>2 DEF HubInv
  <2>4. \A c \in Conns : seen'[c] \in {seen[c], work["ws"].tick}
    BY <1>6, <1>t DEF WriteOK, TypeOK
  <2> QED
    BY <1>t, <1>s, <2>1, <2>3, <2>4 DEF TickInv
<1>7. CASE BroadcastDone
  <2>1. UNCHANGED <<engine, chans, latest, seen>>
    BY <1>7 DEF BroadcastDone
  <2>2. work'["ws"] = None /\ \A j \in Sinks \ {"ws"} : work'[j] = work[j]
    BY <1>7, <1>t DEF BroadcastDone, TypeOK, Sinks
  <2> QED
    BY <1>t, <1>s, <2>1, <2>2 DEF TickInv
<1>8. ASSUME \/ \E k \in Sinks : DrainStops(k)
             \/ CloseSinks \/ CopyConns \/ WriteFails \/ Reap \/ UNCHANGED vars
             \/ \E c \in Conns : PeerLeaves(c) \/ ReadLoopEnds(c)
             \/ \E c \in Conns, m \in Machines : Register(c, m)
      PROVE  TickInv'
  <2>1. UNCHANGED <<engine, chans, work, latest, seen>>
    BY <1>8 DEF DrainStops, CloseSinks, CopyConns, WriteFails, Reap, PeerLeaves, ReadLoopEnds,
                Register, vars
  <2> QED
    BY <1>0, <2>1
<1> QED
  BY <1>1, <1>2, <1>3, <1>4, <1>5, <1>6, <1>7, <1>8 DEF Next, EngineStep, BroadcastStep

LEMMA SinkInvariant == Spec => []SinkInv
<1>1. SinkInv /\ [Next]_vars => SinkInv'
  BY NextType, NextHub, NextTick DEF SinkInv
<1> QED
  BY <1>1, InitInv, PTL DEF Spec

-----------------------------------------------------------------------------
(* Theorems                                                                 *)

\* Hub.Register, Unregister and Broadcast: whatever the order in which a
\* broadcast and the read loop unregister a connection, the Hub's lists hold no
\* closed connection, none twice and none in the wrong list.
THEOREM HubExact == Spec => []HubHoldsLiveConns
<1>1. SinkInv => HubHoldsLiveConns
  BY DEF SinkInv, HubInv
<1> QED
  BY <1>1, SinkInvariant, PTL

\* CompositeSink's non-blocking send may drop snapshots, but neither the log
\* sink nor a websocket client ever goes back to an older one.
THEOREM SnapshotsOnlyAdvance == Spec => SnapshotsAdvance
<1> DEFINE Advance ==
      /\ \A m \in Machines : latest[m] <= latest'[m]
      /\ \A c \in Conns : seen[c] <= seen'[c]
<1>1. SinkInv /\ [Next]_vars => [Advance]_vars
  <2> SUFFICES ASSUME SinkInv, Next PROVE Advance
    OBVIOUS
  <2> USE DEF engine, wsVars, casting, closing
  <2>t. /\ TypeOK /\ HubInv /\ TickInv
        /\ \A m \in Machines : latest[m] \in Nat
        /\ \A c \in Conns : seen[c] \in Nat
    BY DEF SinkInv, TypeOK
  <2>1. CASE LogUpdate
    <3>1. UNCHANGED seen /\ \A m \in Machines : latest'[m] \in {latest[m], work["log"].tick}
      BY <2>1, <2>t DEF LogUpdate, TypeOK
    <3> QED
      BY <2>1, <2>t, <3>1 DEF LogUpdate, TickInv
  <2>2. CASE WriteOK
    <3>1. UNCHANGED latest /\ \A c \in Conns : seen'[c] \in {seen[c], work["ws"].tick}
      BY <2>2, <2>t DEF WriteOK, TypeOK
    <3>2. Head(targets) \in Conns /\ Casting(Head(targets))
      BY <2>2, <2>t, TailElems DEF WriteOK, TypeOK, Casting
    <3>3. work["ws"] # None
      BY <2>t, <3>2 DEF HubInv
    <3> QED
      BY <2>t, <3>1, <3>3 DEF TickInv
  <2>3. CASE ~LogUpdate /\ ~WriteOK
    <3>1. UNCHANGED <<latest, seen>>
      BY <2>3 DEF Next, EngineStep, BroadcastStep, Tick, Emit, Compute, ShiftReadFails, Receive,
                  DrainStops, CloseSinks, CopyConns, WriteFails, Reap, BroadcastDone, PeerLeaves,
                  ReadLoopEnds, Register
    <3> QED
      BY <2>t, <3>1
  <2> QED
    BY <2>1, <2>2, <2>3
<1> QED
  BY <1>1, SinkInvariant, PTL DEF Spec, SnapshotsAdvance
=============================================================================
