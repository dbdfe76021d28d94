--------------------------- MODULE ConnectionProofs ---------------------------
(***************************************************************************)
(* Proofs about Connection, for every number of handlers, client IDs and   *)
(* topics, every limit and every channel capacity.                         *)
(*                                                                         *)
(* The invariants are proved in layers, each one using those before it:    *)
(*   Inv1  types, and what a handler holds at each program point;          *)
(*   Inv2  the registry only names open connections past their Add;        *)
(*   NoOrphanOwner and RegistryBound on top of them;                       *)
(*   Inv3  without takeovers: IDs are unique, every open connection past   *)
(*         Add is registered, and a waiting sender owns its topic.         *)
(***************************************************************************)
EXTENDS Connection, FiniteSetTheorems, FunctionTheorems, TLAPS

\* What a handler knows at each program point.
HandlerState ==
    \A h \in Handlers :
        /\ pc[h] \in Registered \cup {"add"} => id[h] \in ClientIDs
        /\ pc[h] \in Publishing => pkt[h] \in Packets
        /\ pc[h] = "send" => pkt[h].topic \in Topics

Inv1 == TypeOK /\ HandlerState

\* A connection is open until it is registered.
OpenBeforeAdd == \A h \in Handlers : pc[h] \in {"connect", "add"} => sock[h] = "open"

Inv2 == OpenBeforeAdd /\ RegisteredIsServing

-----------------------------------------------------------------------------
LEMMA Inv1Init == Init => Inv1
<1> SUFFICES ASSUME Init PROVE Inv1
  OBVIOUS
<1>1. TypeOK
  <2>1. listening \in BOOLEAN /\ cancelled \in BOOLEAN
    BY DEF Init
  <2>2. pc \in [Handlers -> PCs] /\ sock \in [Handlers -> {"none", "open", "closed"}]
    BY DEF Init, PCs
  <2>3. id \in [Handlers -> ClientIDs \cup {None}]
    BY DEF Init
  <2>4. pkt \in [Handlers -> Packets \cup {None}]
    BY DEF Init
  <2>5. clients \in [ClientIDs -> Handlers \cup {None}]
    BY DEF Init
  <2>6. owners \in [Topics -> ClientIDs \cup {None}]
    BY DEF Init
  <2>7. msgChan \in Seq(Messages)
    BY DEF Init
  <2> QED
    BY <2>1, <2>2, <2>3, <2>4, <2>5, <2>6, <2>7 DEF TypeOK
<1>2. HandlerState
  BY DEF Init, HandlerState, Registered, Serving, Publishing
<1> QED
  BY <1>1, <1>2 DEF Inv1

LEMMA Inv1Step == Inv1 /\ [Next]_vars => Inv1'
<1> SUFFICES ASSUME Inv1, [Next]_vars PROVE Inv1'
  OBVIOUS
<1> USE ConnectionAssumption
    DEF Inv1, TypeOK, HandlerState, PCs, Registered, Serving, Publishing, Goto
<1>1. ASSUME NEW h \in Handlers, Accept(h) PROVE Inv1'
  BY <1>1 DEF Accept
<1>2. ASSUME NEW h \in Handlers, NEW x \in ClientIDs, NEW cred \in Credentials,
             ReadConnect(h, x, cred)
      PROVE  Inv1'
  BY <1>2 DEF ReadConnect
<1>3. ASSUME NEW h \in Handlers, NEW t \in TopicNames, NEW q \in QoS,
             ReadPublish(h, t, q)
      PROVE  Inv1'
  BY <1>3 DEF ReadPublish, Packets
<1>4. ASSUME NEW h \in Handlers, FirstPacketFails(h) PROVE Inv1'
  BY <1>4 DEF FirstPacketFails
<1>5. ASSUME NEW h \in Handlers, ReadEnds(h) PROVE Inv1'
  BY <1>5 DEF ReadEnds
<1>6. ASSUME NEW h \in Handlers, Add(h) PROVE Inv1'
  BY <1>6 DEF Add, Register
<1>7. ASSUME NEW h \in Handlers, Claim(h) PROVE Inv1'
  BY <1>7 DEF Claim, ClaimRefused, AfterPublish, DonePacket, Packets
<1>8. ASSUME NEW h \in Handlers, Puback(h) PROVE Inv1'
  BY <1>8 DEF Puback
<1>9. ASSUME NEW h \in Handlers, Release(h) PROVE Inv1'
  BY <1>9 DEF Release
<1>10. ASSUME NEW h \in Handlers, Remove(h) PROVE Inv1'
  BY <1>10 DEF Remove
<1>11. ASSUME NEW h \in Handlers, CloseConn(h) PROVE Inv1'
  BY <1>11 DEF CloseConn
<1>12. ASSUME NEW h \in Handlers, Send(h) PROVE Inv1'
  <2>1. [client |-> id[h], topic |-> pkt[h].topic] \in Messages
    BY <1>12 DEF Send, Messages
  <2>2. msgChan' \in Seq(Messages)
    BY <1>12, <2>1 DEF Send
  <2> QED
    BY <1>12, <2>2 DEF Send, AfterPublish, DonePacket, Packets
<1>13. ASSUME NEW h \in Handlers, SendCancelled(h) PROVE Inv1'
  BY <1>13 DEF SendCancelled
<1>14. CASE Drain
  BY <1>14 DEF Drain
<1>15. CASE CloseListener
  BY <1>15 DEF CloseListener
<1>16. CASE Cancel
  BY <1>16 DEF Cancel
<1>17. CASE CloseAll
  BY <1>17 DEF CloseAll
<1>18. CASE UNCHANGED vars
  BY <1>18 DEF vars
<1> QED
  BY <1>1, <1>2, <1>3, <1>4, <1>5, <1>6, <1>7, <1>8, <1>9, <1>10, <1>11, <1>12,
     <1>13, <1>14, <1>15, <1>16, <1>17, <1>18
  DEF Next, ClientAction, HandlerStep

(***************************************************************************)
(* Type correctness of the connection layer's state: the handlers' program  *)
(* points, ClientManager.clients, TopicRegistry.owners and msgChan.         *)
(***************************************************************************)
THEOREM TypeCorrect == Spec => []TypeOK
<1>1. Inv1 => TypeOK
  BY DEF Inv1
<1> QED
  BY <1>1, Inv1Init, Inv1Step, PTL DEF Spec

-----------------------------------------------------------------------------
LEMMA Inv2Init == Init => Inv2
  BY DEF Init, Inv2, OpenBeforeAdd, RegisteredIsServing

LEMMA Inv2Step == Inv1 /\ Inv2 /\ [Next]_vars => Inv2'
<1> SUFFICES ASSUME Inv1, Inv2, [Next]_vars PROVE Inv2'
  OBVIOUS
<1> USE ConnectionAssumption
    DEF Inv1, TypeOK, HandlerState, Inv2, OpenBeforeAdd, RegisteredIsServing,
        Registered, Serving, Publishing, Goto
<1>1. ASSUME NEW h \in Handlers, Accept(h) PROVE Inv2'
  BY <1>1 DEF Accept
<1>2. ASSUME NEW h \in Handlers, NEW x \in ClientIDs, NEW cred \in Credentials,
             ReadConnect(h, x, cred)
      PROVE  Inv2'
  BY <1>2 DEF ReadConnect
<1>3. ASSUME NEW h \in Handlers, NEW t \in TopicNames, NEW q \in QoS,
             ReadPublish(h, t, q)
      PROVE  Inv2'
  BY <1>3 DEF ReadPublish
<1>4. ASSUME NEW h \in Handlers, FirstPacketFails(h) PROVE Inv2'
  BY <1>4 DEF FirstPacketFails
<1>5. ASSUME NEW h \in Handlers, ReadEnds(h) PROVE Inv2'
  BY <1>5 DEF ReadEnds
<1>6. ASSUME NEW h \in Handlers, Add(h) PROVE Inv2'
  <2>1. CASE AddRefused(id[h]) /\ Goto(h, "close") /\ UNCHANGED <<clients, sock>>
    BY <1>6, <2>1 DEF Add
  <2>2. CASE Register(h) /\ Goto(h, "read")
    <3>1. clients[id[h]] # h
      BY <1>6 DEF Add
    <3>2. sock'[h] = "open"
      BY <1>6, <2>2, <3>1 DEF Add, Register
    <3> QED
      BY <1>6, <2>2, <3>2 DEF Add, Register
  <2> QED
    BY <1>6, <2>1, <2>2 DEF Add
<1>7. ASSUME NEW h \in Handlers, Claim(h) PROVE Inv2'
  BY <1>7 DEF Claim, AfterPublish
<1>8. ASSUME NEW h \in Handlers, Puback(h) PROVE Inv2'
  BY <1>8 DEF Puback
<1>9. ASSUME NEW h \in Handlers, Release(h) PROVE Inv2'
  BY <1>9 DEF Release
<1>10. ASSUME NEW h \in Handlers, Remove(h) PROVE Inv2'
  BY <1>10 DEF Remove
<1>11. ASSUME NEW h \in Handlers, CloseConn(h) PROVE Inv2'
  BY <1>11 DEF CloseConn
<1>12. ASSUME NEW h \in Handlers, Send(h) PROVE Inv2'
  BY <1>12 DEF Send, AfterPublish
<1>13. ASSUME NEW h \in Handlers, SendCancelled(h) PROVE Inv2'
  BY <1>13 DEF SendCancelled
<1>14. CASE Drain
  BY <1>14 DEF Drain
<1>15. CASE CloseListener
  BY <1>15 DEF CloseListener
<1>16. CASE Cancel
  BY <1>16 DEF Cancel
<1>17. CASE CloseAll
  BY <1>17 DEF CloseAll
<1>18. CASE UNCHANGED vars
  BY <1>18 DEF vars
<1> QED
  BY <1>1, <1>2, <1>3, <1>4, <1>5, <1>6, <1>7, <1>8, <1>9, <1>10, <1>11, <1>12,
     <1>13, <1>14, <1>15, <1>16, <1>17, <1>18
  DEF Next, ClientAction, HandlerStep

(***************************************************************************)
(* ClientManager.clients only names open connections of the right client    *)
(* that have not yet run their deferred Remove, although Add replaces and    *)
(* Remove deletes by client ID.                                              *)
(***************************************************************************)
THEOREM RegistrySound == Spec => []RegisteredIsServing
<1>1. Inv2 => RegisteredIsServing
  BY DEF Inv2
<1> QED
  BY <1>1, Inv1Init, Inv1Step, Inv2Init, Inv2Step, PTL DEF Spec

-----------------------------------------------------------------------------
LEMMA NoOrphanOwnerStep == Inv1 /\ NoOrphanOwner /\ [Next]_vars => NoOrphanOwner'
<1> SUFFICES ASSUME Inv1, NoOrphanOwner, [Next]_vars PROVE NoOrphanOwner'
  OBVIOUS
<1> USE ConnectionAssumption
    DEF Inv1, TypeOK, HandlerState, NoOrphanOwner, Serving, Publishing, Goto
<1>1. ASSUME NEW h \in Handlers, Accept(h) PROVE NoOrphanOwner'
  BY <1>1 DEF Accept
<1>2. ASSUME NEW h \in Handlers, NEW x \in ClientIDs, NEW cred \in Credentials,
             ReadConnect(h, x, cred)
      PROVE  NoOrphanOwner'
  BY <1>2 DEF ReadConnect
<1>3. ASSUME NEW h \in Handlers, NEW t \in TopicNames, NEW q \in QoS,
             ReadPublish(h, t, q)
      PROVE  NoOrphanOwner'
  BY <1>3 DEF ReadPublish
<1>4. ASSUME NEW h \in Handlers, FirstPacketFails(h) PROVE NoOrphanOwner'
  BY <1>4 DEF FirstPacketFails
<1>5. ASSUME NEW h \in Handlers, ReadEnds(h) PROVE NoOrphanOwner'
  BY <1>5 DEF ReadEnds
<1>6. ASSUME NEW h \in Handlers, Add(h) PROVE NoOrphanOwner'
  BY <1>6 DEF Add
<1>7. ASSUME NEW h \in Handlers, Claim(h) PROVE NoOrphanOwner'
  BY <1>7 DEF Claim, ClaimRefused, AfterPublish, Registered
<1>8. ASSUME NEW h \in Handlers, Puback(h) PROVE NoOrphanOwner'
  BY <1>8 DEF Puback
<1>9. ASSUME NEW h \in Handlers, Release(h) PROVE NoOrphanOwner'
  BY <1>9 DEF Release
<1>10. ASSUME NEW h \in Handlers, Remove(h) PROVE NoOrphanOwner'
  BY <1>10 DEF Remove
<1>11. ASSUME NEW h \in Handlers, CloseConn(h) PROVE NoOrphanOwner'
  BY <1>11 DEF CloseConn
<1>12. ASSUME NEW h \in Handlers, Send(h) PROVE NoOrphanOwner'
  BY <1>12 DEF Send, AfterPublish
<1>13. ASSUME NEW h \in Handlers, SendCancelled(h) PROVE NoOrphanOwner'
  BY <1>13 DEF SendCancelled
<1>14. CASE Drain
  BY <1>14 DEF Drain
<1>15. CASE CloseListener
  BY <1>15 DEF CloseListener
<1>16. CASE Cancel
  BY <1>16 DEF Cancel
<1>17. CASE CloseAll
  BY <1>17 DEF CloseAll
<1>18. CASE UNCHANGED vars
  BY <1>18 DEF vars
<1> QED
  BY <1>1, <1>2, <1>3, <1>4, <1>5, <1>6, <1>7, <1>8, <1>9, <1>10, <1>11, <1>12,
     <1>13, <1>14, <1>15, <1>16, <1>17, <1>18
  DEF Next, ClientAction, HandlerStep

(***************************************************************************)
(* No topic stays owned by a client that is gone: TopicRegistry.owners only  *)
(* names clients one of whose handlers has yet to run its deferred Release.  *)
(***************************************************************************)
THEOREM OwnersServed == Spec => []NoOrphanOwner
<1>1. Init => NoOrphanOwner
  BY DEF Init, NoOrphanOwner
<1> QED
  BY <1>1, Inv1Init, Inv1Step, NoOrphanOwnerStep, PTL DEF Spec

-----------------------------------------------------------------------------
LEMMA RegisteredIDsFinite ==
    /\ IsFiniteSet(RegisteredIDs)
    /\ Cardinality(RegisteredIDs) \in Nat
<1>1. RegisteredIDs \in SUBSET ClientIDs
  BY DEF RegisteredIDs
<1>2. IsFiniteSet(RegisteredIDs)
  BY <1>1, FS_Subset, ConnectionAssumption
<1> QED
  BY <1>2, FS_CardinalityType

\* Only Register adds an ID to the registry.
LEMMA RegistryOnlyGrowsByAdd ==
    ASSUME Inv1, [Next]_vars,
           ~ \E h \in Handlers : pc[h] = "add" /\ Register(h)
    PROVE  RegisteredIDs' \subseteq RegisteredIDs
<1> USE ConnectionAssumption DEF Inv1, TypeOK, RegisteredIDs
<1>1. CASE UNCHANGED clients
  BY <1>1
<1>2. ASSUME NEW h \in Handlers, Remove(h) PROVE RegisteredIDs' \subseteq RegisteredIDs
  BY <1>2 DEF Remove, HandlerState, Registered
<1>3. CASE CloseAll
  BY <1>3 DEF CloseAll
<1>4. ASSUME NEW h \in Handlers, Add(h) PROVE UNCHANGED clients
  BY <1>4 DEF Add
<1> QED
  BY <1>1, <1>2, <1>3, <1>4
  DEF Next, ClientAction, HandlerStep, vars, Accept, ReadConnect, ReadPublish,
      FirstPacketFails, ReadEnds, Claim, Puback, Release, CloseConn, Send,
      SendCancelled, Drain, CloseListener, Cancel

LEMMA RegistryBoundStep == Inv1 /\ RegistryBound /\ [Next]_vars => RegistryBound'
<1> SUFFICES ASSUME Inv1, RegistryBound, [Next]_vars PROVE RegistryBound'
  OBVIOUS
<1>1. ASSUME NEW h \in Handlers, pc[h] = "add", Register(h) PROVE RegistryBound'
  <2> DEFINE x == id[h]
  <2>1. x \in ClientIDs
    BY <1>1 DEF Inv1, HandlerState
  <2>2. RegisteredIDs' = RegisteredIDs \cup {x}
    BY <1>1, <2>1, ConnectionAssumption DEF Inv1, TypeOK, Register, RegisteredIDs
  <2>3. x \in RegisteredIDs \/ Cardinality(RegisteredIDs) < MaxClients
    BY <1>1, <2>1, RegisteredIDsFinite, ConnectionAssumption
    DEF Register, AddRefused, RegisteredIDs
  <2>4. Cardinality(RegisteredIDs') =
          IF x \in RegisteredIDs THEN Cardinality(RegisteredIDs)
                                 ELSE Cardinality(RegisteredIDs) + 1
    BY <2>2, RegisteredIDsFinite, FS_AddElement
  <2> QED
    BY <2>3, <2>4, RegisteredIDsFinite, ConnectionAssumption DEF RegistryBound
<1>2. CASE ~ \E h \in Handlers : pc[h] = "add" /\ Register(h)
  <2>1. RegisteredIDs' \in SUBSET RegisteredIDs
    BY <1>2, RegistryOnlyGrowsByAdd
  <2>2. /\ IsFiniteSet(RegisteredIDs')
        /\ Cardinality(RegisteredIDs') <= Cardinality(RegisteredIDs)
    BY <2>1, RegisteredIDsFinite, FS_Subset
  <2>3. Cardinality(RegisteredIDs') \in Nat
    BY <2>2, FS_CardinalityType
  <2> QED
    BY <2>2, <2>3, RegisteredIDsFinite, ConnectionAssumption DEF RegistryBound
<1> QED
  BY <1>1, <1>2

(***************************************************************************)
(* ClientManager never holds more than maxClients entries, however long ago  *)
(* the CanAccept of the connections being registered was.                    *)
(***************************************************************************)
THEOREM RegistryBounded == Spec => []RegistryBound
<1>1. Init => RegistryBound
  <2> SUFFICES ASSUME Init PROVE RegistryBound
    OBVIOUS
  <2>1. RegisteredIDs = {}
    BY DEF Init, RegisteredIDs
  <2> QED
    BY <2>1, FS_EmptySet, ConnectionAssumption DEF RegistryBound
<1> QED
  BY <1>1, Inv1Init, Inv1Step, RegistryBoundStep, PTL DEF Spec

-----------------------------------------------------------------------------
(* From here on clients never reuse an ID that is still being served.       *)

UniqueIDs == \A g, h \in Handlers : id[g] = id[h] /\ id[g] # None => g = h

IdleHasNoID == \A h \in Handlers : pc[h] \in {"idle", "connect"} => id[h] = None

ServedIsRegistered ==
    \A h \in Handlers : pc[h] \in Registered /\ sock[h] = "open" => clients[id[h]] = h

Inv3 == UniqueIDs /\ IdleHasNoID /\ ServedIsRegistered /\ SenderOwnsTopic

LEMMA Inv3Init == Init => Inv3
  BY DEF Init, Inv3, UniqueIDs, IdleHasNoID, ServedIsRegistered, SenderOwnsTopic,
         Registered, Serving, Publishing

LEMMA Inv3Step ==
    ~AllowTakeover /\ Inv1 /\ Inv2 /\ Inv3 /\ [Next]_vars => Inv3'
<1> SUFFICES ASSUME ~AllowTakeover, Inv1, Inv2, Inv3, [Next]_vars PROVE Inv3'
  OBVIOUS
<1> USE ConnectionAssumption
    DEF Inv1, TypeOK, HandlerState, Inv2, OpenBeforeAdd, RegisteredIsServing, Inv3,
        UniqueIDs, IdleHasNoID, ServedIsRegistered, SenderOwnsTopic,
        Registered, Serving, Publishing, Goto
<1>1. ASSUME NEW h \in Handlers, Accept(h) PROVE Inv3'
  BY <1>1 DEF Accept
<1>2. ASSUME NEW h \in Handlers, NEW x \in ClientIDs, NEW cred \in Credentials,
             ReadConnect(h, x, cred)
      PROVE  Inv3'
  BY <1>2 DEF ReadConnect
<1>3. ASSUME NEW h \in Handlers, NEW t \in TopicNames, NEW q \in QoS,
             ReadPublish(h, t, q)
      PROVE  Inv3'
  BY <1>3 DEF ReadPublish
<1>4. ASSUME NEW h \in Handlers, FirstPacketFails(h) PROVE Inv3'
  BY <1>4 DEF FirstPacketFails
<1>5. ASSUME NEW h \in Handlers, ReadEnds(h) PROVE Inv3'
  BY <1>5 DEF ReadEnds
<1>6. ASSUME NEW h \in Handlers, Add(h) PROVE Inv3'
  <2>1. CASE AddRefused(id[h]) /\ Goto(h, "close") /\ UNCHANGED <<clients, sock>>
    BY <1>6, <2>1 DEF Add
  <2>2. CASE Register(h) /\ Goto(h, "read")
    BY <1>6, <2>2 DEF Add, Register
  <2> QED
    BY <1>6, <2>1, <2>2 DEF Add
<1>7. ASSUME NEW h \in Handlers, Claim(h) PROVE Inv3'
  BY <1>7 DEF Claim, ClaimRefused, AfterPublish, DonePacket
<1>8. ASSUME NEW h \in Handlers, Puback(h) PROVE Inv3'
  BY <1>8 DEF Puback
<1>9. ASSUME NEW h \in Handlers, Release(h) PROVE Inv3'
  BY <1>9 DEF Release
<1>10. ASSUME NEW h \in Handlers, Remove(h) PROVE Inv3'
  BY <1>10 DEF Remove
<1>11. ASSUME NEW h \in Handlers, CloseConn(h) PROVE Inv3'
  BY <1>11 DEF CloseConn
<1>12. ASSUME NEW h \in Handlers, Send(h) PROVE Inv3'
  BY <1>12 DEF Send, AfterPublish, DonePacket
<1>13. ASSUME NEW h \in Handlers, SendCancelled(h) PROVE Inv3'
  BY <1>13 DEF SendCancelled
<1>14. CASE Drain
  BY <1>14 DEF Drain
<1>15. CASE CloseListener
  BY <1>15 DEF CloseListener
<1>16. CASE Cancel
  BY <1>16 DEF Cancel
<1>17. CASE CloseAll
  BY <1>17 DEF CloseAll
<1>18. CASE UNCHANGED vars
  BY <1>18 DEF vars
<1> QED
  BY <1>1, <1>2, <1>3, <1>4, <1>5, <1>6, <1>7, <1>8, <1>9, <1>10, <1>11, <1>12,
     <1>13, <1>14, <1>15, <1>16, <1>17, <1>18
  DEF Next, ClientAction, HandlerStep

(***************************************************************************)
(* If clients do not reuse an ID still being served, a handler waiting for   *)
(* space in msgChan keeps the topic it claimed: no Release and no Claim of    *)
(* another handler takes it away.                                            *)
(***************************************************************************)
THEOREM SenderKeepsTopic == ~AllowTakeover /\ Spec => []SenderOwnsTopic
<1>1. Inv3 => SenderOwnsTopic
  BY DEF Inv3
<1> SUFFICES ASSUME ~AllowTakeover PROVE Spec => []SenderOwnsTopic
  OBVIOUS
<1>2. Inv1 /\ Inv2 /\ Inv3 /\ [Next]_vars => Inv3'
  BY Inv3Step
<1> QED
  BY <1>1, <1>2, Inv1Init, Inv1Step, Inv2Init, Inv2Step, Inv3Init, PTL DEF Spec

LEMMA ServedFitRegistry ==
    ASSUME Inv1, Inv3, RegistryBound
    PROVE  ConnectionLimit
<1> DEFINE f == [h \in OpenServed |-> id[h]]
<1>1. f \in [OpenServed -> RegisteredIDs]
  BY ConnectionAssumption
  DEF Inv1, TypeOK, HandlerState, Inv3, ServedIsRegistered, OpenServed, RegisteredIDs
<1>2. \A g, h \in OpenServed : f[g] = f[h] => g = h
  BY ConnectionAssumption DEF Inv1, HandlerState, Inv3, UniqueIDs, OpenServed
<1>3. f \in Injection(OpenServed, RegisteredIDs)
  BY <1>1, <1>2, Fun_IsInj
<1>4. /\ IsFiniteSet(OpenServed)
      /\ Cardinality(OpenServed) <= Cardinality(RegisteredIDs)
  BY <1>3, RegisteredIDsFinite, FS_Injection
<1>5. Cardinality(OpenServed) \in Nat
  BY <1>4, FS_CardinalityType
<1> QED
  BY <1>4, <1>5, RegisteredIDsFinite, ConnectionAssumption
  DEF RegistryBound, ConnectionLimit

(***************************************************************************)
(* If clients do not reuse an ID still being served, at most maxClients open  *)
(* connections are past CONNACK (README: "Maximum concurrent connections").   *)
(***************************************************************************)
THEOREM ConnectionsLimited == ~AllowTakeover /\ Spec => []ConnectionLimit
<1> SUFFICES ASSUME ~AllowTakeover PROVE Spec => []ConnectionLimit
  OBVIOUS
<1>1. Inv1 /\ Inv2 /\ Inv3 /\ [Next]_vars => Inv3'
  BY Inv3Step
<1>2. Inv1 /\ Inv3 /\ RegistryBound => ConnectionLimit
  BY ServedFitRegistry
<1> QED
  BY <1>1, <1>2, Inv1Init, Inv1Step, Inv2Init, Inv2Step, Inv3Init, RegistryBounded,
     PTL DEF Spec

(***************************************************************************)
(* If clients do not reuse an ID still being served, CloseAll closes every    *)
(* connection past CONNACK: none survives the shutdown unregistered.          *)
(***************************************************************************)
THEOREM CloseAllComplete == ~AllowTakeover /\ Spec => CloseAllReachesAll
<1> SUFFICES ASSUME ~AllowTakeover PROVE Spec => CloseAllReachesAll
  OBVIOUS
<1>1. Inv1 /\ Inv2 /\ Inv3 /\ [Next]_vars => Inv3'
  BY Inv3Step
<1>2. Inv1 /\ Inv3 => (CloseAll => \A h \in OpenServed : sock'[h] = "closed")
  BY ConnectionAssumption
  DEF Inv1, TypeOK, HandlerState, Inv3, ServedIsRegistered, OpenServed, CloseAll
<1> QED
  BY <1>1, <1>2, Inv1Init, Inv1Step, Inv2Init, Inv2Step, Inv3Init,
     PTL DEF Spec, CloseAllReachesAll
=============================================================================
