----------------------------- MODULE ByteMeter -----------------------------
(***************************************************************************)
(* What a kernel-measured throughput sensor promises Home Assistant, which *)
(* reads it as `total_increasing`: the reported total of a feeder never    *)
(* goes down, unless the meter starts again from 0 (any drop is taken for  *)
(* that, and what follows is added again), and it never exceeds what the   *)
(* feeder has really carried.  It may lag: bytes of a connection that      *)
(* nobody looked at in time are lost.                                      *)
(***************************************************************************)
EXTENDS Integers

CONSTANT Feeders

VARIABLES
    carried,    \* bytes each feeder's connections have really carried
    metered     \* the total last reported for it

Init ==
    /\ carried = [f \in Feeders |-> 0]
    /\ metered = [f \in Feeders |-> 0]

\* Traffic flows.
Carry ==
    /\ carried' \in [Feeders -> Nat]
    /\ \A f \in Feeders : carried[f] <= carried'[f]
    /\ UNCHANGED metered

\* A reading is folded in.
Report ==
    /\ metered' \in [Feeders -> Nat]
    /\ \A f \in Feeders : metered[f] <= metered'[f] /\ metered'[f] <= carried[f]
    /\ UNCHANGED carried

\* The meter is replaced by a new one.
Reset ==
    /\ metered' = [f \in Feeders |-> 0]
    /\ UNCHANGED carried

Spec == Init /\ [][Carry \/ Report \/ Reset]_<<carried, metered>>

=============================================================================
