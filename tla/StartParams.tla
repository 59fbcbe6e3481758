------------------------------ MODULE StartParams ------------------------------
(***************************************************************************)
(* The parameters of ProcStart: the configuration of the processes.        *)
(***************************************************************************)
EXTENDS Naturals, Sequences

CONSTANTS
    N,            \* number of processes that can be configured
    Plugins,      \* proc_plugins_conf: the actions of each process, in order
    DisabledSets, \* sets of actions that actions_conf may disable
    Modes,        \* "suite": threads of test_main; "alone": plugin_proc -t;
                  \* "library": plugin_proc over the C library
    CacheLimit    \* CACHE_LIMIT of a ring

Procs == 1..N

\* A message is "client", or the name of an action.  The actions of a process are
\* the keys of a JSON object, so that none is there twice.
ASSUME StartAssumption ==
    /\ N \in Nat \ {0}
    /\ DOMAIN Plugins = Procs
    /\ \A p \in Procs :
        /\ DOMAIN Plugins[p] = 1..Len(Plugins[p])
        /\ Len(Plugins[p]) \in Nat \ {0}
        /\ \A i \in 1..Len(Plugins[p]) :
            /\ Plugins[p][i] # "client"
            /\ \A j \in 1..(i - 1) : Plugins[p][i] # Plugins[p][j]
    /\ Modes \subseteq {"suite", "alone", "library"}
    /\ CacheLimit \in Nat \ {0}
=============================================================================
