------------------------------- MODULE LinkParams -------------------------------
(***************************************************************************)
(* The parameters of LinkPlugins: the switch and the plugins' settings.    *)
(***************************************************************************)
EXTENDS Integers, Sequences

CONSTANTS
    Interfaces,
    NoLink,             \* the empty ifname of a context without one
    FlapCnt, FlapInt,   \* flap_cnt, flap_int
    MaxTime,            \* bound on the clock
    MaxDowns,           \* bound on the times each interface goes down
    MaxRuns             \* bound on the runs of the sequence

ASSUME LinkAssumption ==
    /\ NoLink \notin Interfaces
    /\ FlapCnt \in Nat \ {0, 1}
    /\ FlapInt \in Nat
    /\ MaxTime \in Nat /\ MaxRuns \in Nat
    /\ MaxDowns \in [Interfaces -> Nat]
=============================================================================
