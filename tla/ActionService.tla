---------------------------- MODULE ActionService ----------------------------
(***************************************************************************)
(* What a plugin process promises the engine, request by request: a        *)
(* request it takes up runs alone on its action, and is answered at most   *)
(* once, only after it ran.  A request may be dropped, since no code of    *)
(* the process reports a dropped request to the engine.                    *)
(***************************************************************************)
CONSTANTS Reqs,      \* the instance ids of the requests
          ActionOf   \* the action each request names

VARIABLE status

Statuses == {"unsent", "queued", "running", "answered", "dropped"}

Init == status = [r \in Reqs |-> "unsent"]

\* The engine sends a request to the process.
Submit(r) ==
    /\ status[r] = "unsent"
    /\ status' = [status EXCEPT ![r] = "queued"]

\* The process hands the request to the plugin of its action.
Start(r) ==
    /\ status[r] = "queued"
    /\ \A q \in Reqs : ActionOf[q] = ActionOf[r] => status[q] # "running"
    /\ status' = [status EXCEPT ![r] = "running"]

\* The response of the plugin is written to the engine.
Answer(r) ==
    /\ status[r] = "running"
    /\ status' = [status EXCEPT ![r] = "answered"]

\* Requests the process gives up: refused, failed in the plugin, or abandoned
\* with their threads when the process reloads.
Drop(S) ==
    /\ S # {}
    /\ \A r \in S : status[r] \in {"queued", "running"}
    /\ status' = [r \in Reqs |-> IF r \in S THEN "dropped" ELSE status[r]]

Next ==
    \/ \E r \in Reqs : Submit(r) \/ Start(r) \/ Answer(r)
    \/ \E S \in SUBSET Reqs : Drop(S)

Spec == Init /\ [][Next]_status
=============================================================================
