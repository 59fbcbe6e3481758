-------------------------- MODULE MCMitigationEngine --------------------------
(* Instances of MitigationEngine for TLC.                                   *)
EXTENDS MitigationEngine

\* Three anomalies that share bound actions, and one without bindings.
Shared == <<<<"a", "x", "y">>, <<"b", "x", "z">>, <<"c", "y">>, <<"d">>>>

Once  == <<1, 1, 1, 1>>
=============================================================================
