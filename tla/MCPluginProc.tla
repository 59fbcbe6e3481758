---------------------------- MODULE MCPluginProc ----------------------------
(* Instances of PluginProc for TLC.                                         *)
EXTENDS PluginProc, TLC

CONSTANTS r1, r2, r3

\* One request for each of two actions.
OneEach == r1 :> 1 @@ r2 :> 2

\* Two requests for the only action.
TwoForOne == r1 :> 1 @@ r2 :> 1

\* Two requests for the only action and one of another process.
WithForeign == r1 :> 1 @@ r2 :> 1 @@ r3 :> 0
=============================================================================
