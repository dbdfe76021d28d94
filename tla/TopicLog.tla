------------------------------- MODULE TopicLog -------------------------------
(***************************************************************************)
(* What the ingestion and processing layers promise, without channels,     *)
(* goroutines or crashes: every topic is a log of its own.  Messages of a   *)
(* topic are numbered in the order the broker took them in.  Some of them   *)
(* are persisted, in that order and never twice; every worker is handed     *)
(* persisted messages only, in log order and never twice.  A message may be *)
(* skipped (a failed save, a crash), but nothing is ever reordered.         *)
(***************************************************************************)
EXTENDS Integers, Sequences

CONSTANTS Topics, Workers

VARIABLES
    accepted,   \* per topic, how many messages were taken in
    log,        \* per topic, the persisted message numbers in table order
    delivered   \* per worker and topic, the messages handed over, in order

vars == <<accepted, log, delivered>>

TypeOK ==
    /\ accepted \in [Topics -> Nat]
    /\ log \in [Topics -> Seq(Nat)]
    /\ delivered \in [Workers -> [Topics -> Seq(Nat)]]

Init ==
    /\ accepted = [t \in Topics |-> 0]
    /\ log = [t \in Topics |-> << >>]
    /\ delivered = [w \in Workers |-> [t \in Topics |-> << >>]]

\* k comes after everything in s.
Above(k, s) == \A i \in DOMAIN s : s[i] < k

Accept(t) ==
    /\ accepted' = [accepted EXCEPT ![t] = @ + 1]
    /\ UNCHANGED <<log, delivered>>

Persist(t) ==
    /\ \E k \in 1..accepted[t] :
         /\ Above(k, log[t])
         /\ log' = [log EXCEPT ![t] = Append(@, k)]
    /\ UNCHANGED <<accepted, delivered>>

Deliver(w, t) ==
    /\ \E i \in DOMAIN log[t] :
         /\ Above(log[t][i], delivered[w][t])
         /\ delivered' = [delivered EXCEPT ![w][t] = Append(@, log[t][i])]
    /\ UNCHANGED <<accepted, log>>

Next ==
    \E t \in Topics : Accept(t) \/ Persist(t) \/ \E w \in Workers : Deliver(w, t)

Spec == Init /\ [][Next]_vars

-----------------------------------------------------------------------------
Increasing(s) == \A i, j \in DOMAIN s : i < j => s[i] < s[j]

\* Per topic the table is in acceptance order without duplicates, and every
\* worker has seen persisted messages only, in order and without duplicates.
InOrder ==
    \A t \in Topics :
      /\ Increasing(log[t])
      /\ \A w \in Workers :
           /\ Increasing(delivered[w][t])
           /\ \A i \in DOMAIN delivered[w][t] :
                \E j \in DOMAIN log[t] : log[t][j] = delivered[w][t][i]
=============================================================================
