------------------------------ MODULE LinkSystem ------------------------------
(***************************************************************************)
(* The test case of the repository (test_data.json): MAIN starts plugin    *)
(* processes, one of which holds the three link plugins, vets their        *)
(* registrations, and asks the plugins for their actions.  A composition   *)
(* of ProcStart and LinkPlugins: the engine of the one is that of the      *)
(* other, and a plugin works only in a process that got to its loop and    *)
(* has loaded it.                                                          *)
(***************************************************************************)
EXTENDS StartParams, LinkParams

CONSTANT Host           \* the process with the link plugins

LinkActions == {"link_flap", "link_safety", "link_down"}

ASSUME HostAssumption ==
    /\ Host \in Procs
    /\ \A a \in LinkActions : \E i \in 1..Len(Plugins[Host]) : Plugins[Host][i] = a

VARIABLES
    mode, n, disabled, files, rc_data, clib_dll, pc, call, part, known, at,
    loaded, spent, sent, stream, main, turn, rcnt, reg_conf,
    now, oper, shut, went, events, flaps, times, reports, stage, context, runs

\* The constants and variables of both parts go by their own names.
Proc == INSTANCE ProcStart
Link == INSTANCE LinkPlugins

procsVars == <<mode, n, disabled, files, rc_data, clib_dll, pc, call, part, known, at,
               loaded, spent, sent, stream, main, turn, rcnt, reg_conf>>
linkVars  == <<now, oper, shut, went, events, flaps, times, reports, stage, context, runs>>
vars      == <<procsVars, linkVars>>

Init == Proc!Init /\ Link!Init

\* The plugin that is asked for works in the loop of its process.  Before the
\* engine is there, the switch does nothing that matters to link_flap.
LinkStep ==
    /\ main = "engine"
    /\ \/ Link!Engine \/ Link!Switch
       \/ /\ pc[Host] = "loop" /\ stage \in loaded[Host]
          /\ Link!Plugin
    /\ UNCHANGED procsVars

\* A request for a registered action without a holder: NameError.
Unloaded ==
    /\ main = "engine" /\ stage # "idle"
    /\ pc[Host] = "loop" /\ stage \notin loaded[Host]
    /\ pc' = [pc EXCEPT ![Host] = "died"]
    /\ UNCHANGED <<mode, n, disabled, files, rc_data, clib_dll, call, part, known, at,
                   loaded, spent, sent, stream, main, turn, rcnt, reg_conf, linkVars>>

Next == (Proc!Next /\ UNCHANGED linkVars) \/ LinkStep \/ Unloaded

Spec == Init /\ [][Next]_vars

FairSpec == Spec /\ Proc!Fairness

-----------------------------------------------------------------------------
(* Properties of the parts, which the composition keeps                     *)

\* The types of both parts.
TypeOK == Proc!TypeOK /\ Link!TypeOK

\* MAIN starts its engine only when each process has registered as a client and
\* with all its actions (test_main.py, run_a_testcase).
EngineIsServed == Proc!EngineIsServed

\* MAIN gives the vetting of a single process up only while one of the
\* registrations it waits for has not been taken by the ring.
QuitOnlyOnMissing == Proc!QuitOnlyOnMissing

\* main_run of plugin_proc.py loads what the configuration tells it to, whenever
\* the configuration files appear.
LoadedAsConfigured == Proc!LoadedAsConfigured

\* No process ends on its way to the configuration (README.local; common.py).
ConfigIsFound == Proc!ConfigIsFound

\* Each process started gets to its reading loop, or gives up.
Settles == Proc!Settles

\* MAIN comes to a decision on the registrations.
Decides == Proc!Decides

\* link_flap.py reports a down event exactly if it is the last of flap_cnt that
\* it has read within flap_int, across requests and reports.
ReportsMatch == Link!ReportsMatch

\* link_flap.py reports downs that were further apart only if it has read the
\* first of them late.
SlowOnlyIfLate == Link!SlowOnlyIfLate

\* link_down.py shuts an interface only in the run in which it was reported.
ShutIsReported == Link!ShutIsReported
=============================================================================
