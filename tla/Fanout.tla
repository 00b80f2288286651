------------------------------- MODULE Fanout -------------------------------
(***************************************************************************)
(* What the hub promises those who listen to it: clips are posted to one   *)
(* log, and a target receives the newest clip of the log at most once,     *)
(* never an older one.  A target may miss clips; no two targets see two    *)
(* clips in different orders.                                              *)
(***************************************************************************)
EXTENDS Naturals, Sequences

CONSTANTS Targets, Clips

VARIABLES
    log,    \* every clip broadcast, in order
    got     \* for each target, the positions in log of what it received

Init ==
    /\ log = <<>>
    /\ got = [t \in Targets |-> <<>>]

Post(x) ==
    /\ log' = Append(log, x)
    /\ UNCHANGED got

Latest(t) == IF got[t] = <<>> THEN 0 ELSE got[t][Len(got[t])]

Deliver(t) ==
    /\ Latest(t) < Len(log)
    /\ got' = [got EXCEPT ![t] = Append(@, Len(log))]
    /\ UNCHANGED log

Next == (\E x \in Clips : Post(x)) \/ (\E t \in Targets : Deliver(t))

Spec == Init /\ [][Next]_<<log, got>>

----------------------------------------------------------------------------
\* No target receives a clip twice or after a newer one, so any two targets
\* see the clips they both receive in the same order.
InOrder ==
    \A t \in Targets : \A i, j \in 1..Len(got[t]) : i < j => got[t][i] < got[t][j]
=============================================================================
