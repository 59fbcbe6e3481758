---------------------------- MODULE BoundedQueue ----------------------------
(***************************************************************************)
(* What one direction of the mock engine channel promises: a FIFO queue    *)
(* that turns a write down exactly when it holds Limit items, and a read   *)
(* exactly when it holds none.                                             *)
(***************************************************************************)
EXTENDS Naturals, Sequences

CONSTANTS Items, Limit,
          None     \* the result of a read that found nothing

VARIABLES q,       \* the items held
          wres,    \* what the last write returned, once decided
          got      \* what the last read returned, once decided

Init == q = <<>> /\ wres = TRUE /\ got = None

Put(v) ==
    /\ Len(q) < Limit
    /\ q' = Append(q, v)
    /\ wres' = TRUE
    /\ UNCHANGED got

Refuse ==
    /\ Len(q) = Limit
    /\ wres' = FALSE
    /\ UNCHANGED <<q, got>>

Get ==
    /\ q # <<>>
    /\ got' = Head(q)
    /\ q' = Tail(q)
    /\ UNCHANGED wres

GetNothing ==
    /\ q = <<>>
    /\ got' = None
    /\ UNCHANGED <<q, wres>>

Next == (\E v \in Items : Put(v)) \/ Refuse \/ Get \/ GetNothing

Spec == Init /\ [][Next]_<<q, wres, got>>
=============================================================================
