------------------------------- MODULE KeepAlive -------------------------------
(***************************************************************************)
(* The deadline of one connection (client.go): handleConnection gives the   *)
(* CONNECT packet 5 seconds, readLoop calls ResetDeadline before every      *)
(* read, and SetDeadline bounds reads and writes alike.  Session adds the   *)
(* packets.                                                                 *)
(*                                                                         *)
(* Time is counted in half seconds, so that 1.5 times a keep-alive of whole *)
(* seconds is a number.                                                    *)
(***************************************************************************)
EXTENDS Integers

CONSTANTS
    KeepAlives,      \* keep-alive intervals (seconds) a CONNECT may carry
    ConnectTimeout,  \* connectTimeout, in seconds
    MaxTime          \* bound: the clock, in half seconds

ASSUME KeepAliveAssumption ==
    /\ KeepAlives \subseteq 0..65535
    /\ ConnectTimeout \in Nat \ {0}
    /\ MaxTime \in Nat

VARIABLES
    now,        \* the clock
    keepAlive,  \* Client.KeepAlive; 0 before the CONNECT was decoded
    deadline,   \* the connection's read and write deadline
    lastSeen    \* Client.LastSeen

timing == <<now, keepAlive, deadline, lastSeen>>

Seconds(s) == 2 * s

TimingInit ==
    /\ now = 0 /\ keepAlive = 0
    /\ deadline = Seconds(ConnectTimeout)
    /\ lastSeen = 0

Expired == now >= deadline

\* Faulty variants: the keep-alive interval itself, and twice the interval.
TimeoutOneInterval(k) == Seconds(k)
TimeoutTwoIntervals(k) == Seconds(2 * k)

\* time.Duration(float64(c.KeepAlive)*1.5) * time.Second: the product is cut to
\* whole seconds before it is scaled.
Timeout(k) == Seconds((3 * k) \div 2)

\* ResetDeadline of a client with keep-alive k.
ResetDeadline(k) ==
    /\ keepAlive' = k /\ lastSeen' = now
    /\ deadline' = IF k > 0 THEN now + Timeout(k) ELSE deadline
    /\ UNCHANGED now

Elapse ==
    /\ now < MaxTime
    /\ now' = now + 1
    /\ UNCHANGED <<keepAlive, deadline, lastSeen>>
=============================================================================
