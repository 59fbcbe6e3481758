--------------------------- MODULE MitigationLease ---------------------------
(***************************************************************************)
(* What the engine promises of the anomalies it handles: each goes one way *)
(* from detection to its end, at most one request of it is at work, and    *)
(* all its requests but the first are made under one lease of one holder.  *)
(* Who loses the lease to the clock makes no further request.              *)
(*                                                                         *)
(* A request is <<a, i>>, the i-th of anomaly a; the one that detects it   *)
(* is the 0-th.                                                            *)
(***************************************************************************)
EXTENDS Naturals

CONSTANT Anomalies

VARIABLES phase,            \* how far each anomaly is
          asked, answered   \* requests made, and those answered

Phases == {"idle", "detecting", "pending", "mitigating", "overdue", "done"}

Free == \A a \in Anomalies : phase[a] # "mitigating"
Enter(a, p) == phase' = [phase EXCEPT ![a] = p]
Ask(q) == q \notin asked /\ asked' = asked \cup {q}
Answer(q) == q \in asked \ answered /\ answered' = answered \cup {q}

\* Nothing of anomaly a is at work once q is answered.
LastOf(a, q) == \A r \in asked \ answered : r[1] = a => r = q

Init ==
    /\ phase = [a \in Anomalies |-> "idle"]
    /\ asked = {} /\ answered = {}

Begin(a) ==
    /\ phase[a] = "idle"
    /\ Enter(a, "detecting")
    /\ Ask(<<a, 0>>)
    /\ UNCHANGED answered

\* The anomaly is there, and the lease taken by another one.
Wait(a) ==
    /\ phase[a] = "detecting" /\ ~Free
    /\ Enter(a, "pending")
    /\ Answer(<<a, 0>>)
    /\ UNCHANGED asked

\* The lease is taken, at detection or after a wait, with the first request of
\* the mitigation.
Lease(a) ==
    /\ Free
    /\ \/ phase[a] = "detecting" /\ Answer(<<a, 0>>)
       \/ phase[a] = "pending" /\ UNCHANGED answered
    /\ Enter(a, "mitigating")
    /\ Ask(<<a, 1>>)

\* One request of the mitigation follows the other.
Advance(a) ==
    /\ phase[a] = "mitigating"
    /\ \E q \in asked \ answered :
         /\ q[1] = a /\ q[2] > 0 /\ LastOf(a, q)
         /\ Answer(q)
         /\ Ask(<<a, q[2] + 1>>)
    /\ UNCHANGED phase

\* The lease is lost, and what it was taken for still at work.
Lose(a) ==
    /\ phase[a] = "mitigating"
    /\ Enter(a, "overdue")
    /\ UNCHANGED <<asked, answered>>

\* The last request of an anomaly is answered: the lease, if held, is free.
Finish(a) ==
    /\ phase[a] \in {"detecting", "mitigating", "overdue"}
    /\ Enter(a, "done")
    /\ \E q \in asked \ answered : q[1] = a /\ LastOf(a, q) /\ Answer(q)
    /\ UNCHANGED asked

Next == \E a \in Anomalies :
    Begin(a) \/ Wait(a) \/ Lease(a) \/ Advance(a) \/ Lose(a) \/ Finish(a)

Spec == Init /\ [][Next]_<<phase, asked, answered>>
=============================================================================
