---------------------------- MODULE MessageChannel ----------------------------
(***************************************************************************)
(* What one direction of the transport promises: a queue of messages for   *)
(* each client, without loss, duplication or reordering, until the client  *)
(* ends or a call for one of its messages fails.  Nothing is promised of   *)
(* that client from then on, and everything still of the others.           *)
(***************************************************************************)
EXTENDS Naturals, Sequences

CONSTANTS Clients, Msgs

VARIABLES queue,   \* messages of each client on the way
          got,     \* messages of each client the reader was given
          lost     \* clients of which nothing is promised any more

Init ==
    /\ queue = [c \in Clients |-> <<>>]
    /\ got = [c \in Clients |-> <<>>]
    /\ lost = {}

Send(c, m) ==
    /\ c \notin lost
    /\ queue' = [queue EXCEPT ![c] = Append(@, m)]
    /\ UNCHANGED <<got, lost>>

Deliver(c) ==
    /\ queue[c] # <<>>
    /\ got' = [got EXCEPT ![c] = Append(@, Head(queue[c]))]
    /\ queue' = [queue EXCEPT ![c] = Tail(@)]
    /\ UNCHANGED lost

Lose(c) ==
    /\ c \notin lost
    /\ lost' = lost \cup {c}
    /\ queue' = [queue EXCEPT ![c] = <<>>]
    /\ UNCHANGED got

Next == \E c \in Clients :
    (\E m \in Msgs : Send(c, m)) \/ Deliver(c) \/ Lose(c)

Spec == Init /\ [][Next]_<<queue, got, lost>>
=============================================================================
