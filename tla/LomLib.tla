-------------------------------- MODULE LomLib --------------------------------
(***************************************************************************)
(* The client and server library (lib/lom_lib.cpp) over the named FIFOs of *)
(* lib/transport.cpp: what an engine and its clients know of each other    *)
(* while either side registers, deregisters, ends and comes back.          *)
(*                                                                         *)
(* Each client has a FIFO to the engine (c2e) and one from it (e2c).  The  *)
(* side that reads a FIFO makes it anew, under the same path; the side     *)
(* that writes opens it on first demand and keeps what it opened.  A       *)
(* message is written and read in one step; FifoTransport takes it apart.  *)
(***************************************************************************)
EXTENDS Naturals, FiniteSets, Sequences

CONSTANTS
    Clients,    \* clients, by the names they register under
    Actions,    \* actions each of them may register
    Cap         \* bound: messages a FIFO holds

ASSUME LibAssumption == IsFiniteSet(Clients) /\ Cap \in Nat \ {0}

VARIABLES
    client,     \* each client: process "down", "idle", inside register_client
                \* ("opened"), or "registered", with a transport
    acts,       \* s_registered.actions of its process
    c2e,        \* the messages in the FIFO to the engine
    c2e_node,   \* that FIFO: "none" made yet; "fresh": no writer yet; "held" by
                \* one; "hup": none any more; "closed": its reader is gone
    c2e_wfd,    \* m_wfds of the client: "none"; "now": of the FIFO that is
                \* read; "old": of an earlier one of a live reader; "dead"
    e2c,        \* the number of requests in the FIFO from the engine
    e2c_node,   \* that FIFO, as c2e_node
    e2c_wfd,    \* m_wfds of the engine for the client, as c2e_wfd
    engine,     \* process "down", "idle", in server_init ("opening") or "up"
    todo,       \* clients server_init has no FIFO for yet
    cached,     \* m_ready_cnt
    view        \* what the messages the engine has read of a client say

cvars == <<client, acts>>
up    == <<c2e, c2e_node, c2e_wfd>>     \* the way to the engine
down  == <<e2c, e2c_node, e2c_wfd>>     \* the way from it
evars == <<engine, todo, cached, view>>
vars  == <<cvars, up, down, evars>>

Message == [type : {"register", "deregister", "response"}]
             \cup [type : {"action", "heartbeat"}, action : Actions]

Unknown == [registered |-> FALSE, actions |-> {}, legal |-> TRUE]

\* What a message says to an engine that knows v of the client.
Saw(v, m) ==
    CASE m.type = "register" ->
            [v EXCEPT !.registered = TRUE, !.actions = {}]
      [] m.type = "action" ->
            [v EXCEPT !.actions = @ \cup {m.action},
                      !.legal = @ /\ v.registered /\ m.action \notin v.actions]
      [] m.type = "heartbeat" ->
            [v EXCEPT !.legal = @ /\ m.action \in v.actions]
      [] m.type = "response" ->
            [v EXCEPT !.legal = @ /\ v.registered]
      [] m.type = "deregister" ->
            [v EXCEPT !.registered = FALSE, !.actions = {}]

Init ==
    /\ client = [c \in Clients |-> "down"]
    /\ acts = [c \in Clients |-> {}]
    /\ c2e = [c \in Clients |-> <<>>]
    /\ e2c = [c \in Clients |-> 0]
    /\ c2e_node = [c \in Clients |-> "none"] /\ e2c_node = c2e_node
    /\ c2e_wfd = [c \in Clients |-> "none"]  /\ e2c_wfd = c2e_wfd
    /\ engine = "down" /\ todo = {} /\ cached = 0
    /\ view = [c \in Clients |-> Unknown]

\* The FIFO has a reader, so that a write end can be opened.
Readable(node) == node \in {"fresh", "held", "hup"}

-----------------------------------------------------------------------------
(* The client                                                               *)

ClientStart(c) ==
    /\ client[c] = "down"
    /\ client' = [client EXCEPT ![c] = "idle"]
    /\ UNCHANGED <<acts, up, down, evars>>

\* The process ends, on its own or on a null message or an exception of the
\* JSON parser, which no call of the library catches.
ClientEnd(c) ==
    /\ client[c] # "down"
    /\ client' = [client EXCEPT ![c] = "down"]
    /\ acts' = [acts EXCEPT ![c] = {}]
    /\ c2e_node' = [c2e_node EXCEPT ![c] = IF @ = "held" THEN "hup" ELSE @]
    /\ c2e_wfd' = [c2e_wfd EXCEPT ![c] = "none"]
    /\ e2c' = [e2c EXCEPT ![c] = 0]
    /\ e2c_node' = [e2c_node EXCEPT ![c] = IF @ = "none" THEN @ ELSE "closed"]
    /\ e2c_wfd' = [e2c_wfd EXCEPT ![c] = IF @ = "none" THEN @ ELSE "dead"]
    /\ UNCHANGED <<c2e, evars>>

\* register_client makes the FIFO it reads.  The file descriptors of an earlier
\* transport of the process stay open, as ~transportImpl does nothing.
RegisterOpen(c) ==
    /\ client[c] = "idle"
    /\ client' = [client EXCEPT ![c] = "opened"]
    /\ e2c' = [e2c EXCEPT ![c] = 0]
    /\ e2c_node' = [e2c_node EXCEPT ![c] = "fresh"]
    /\ e2c_wfd' = [e2c_wfd EXCEPT ![c] = IF @ = "now" THEN "old" ELSE @]
    /\ UNCHANGED <<acts, up, evars>>

\* The first write opens the write end.
RegisterWrite(c) ==
    /\ client[c] = "opened"
    /\ Readable(c2e_node[c])
    /\ c2e_node' = [c2e_node EXCEPT ![c] = "held"]
    /\ IF Len(c2e[c]) < Cap
       THEN /\ c2e' = [c2e EXCEPT ![c] = Append(@, [type |-> "register"])]
            /\ c2e_wfd' = [c2e_wfd EXCEPT ![c] = "now"]
            /\ client' = [client EXCEPT ![c] = "registered"]
       ELSE /\ client' = [client EXCEPT ![c] = "idle"]
            /\ UNCHANGED <<c2e, c2e_wfd>>
    /\ acts' = [acts EXCEPT ![c] = {}]
    /\ UNCHANGED <<down, evars>>

\* There is no engine to read: the transport is dropped.
RegisterFails(c) ==
    /\ client[c] = "opened"
    /\ ~Readable(c2e_node[c])
    /\ client' = [client EXCEPT ![c] = "idle"]
    /\ UNCHANGED <<acts, up, down, evars>>

\* A write of the client returns success, though what it writes to a FIFO that
\* is not read any more is lost.
Sent(c, m) ==
    \/ /\ c2e_wfd[c] = "now" /\ Len(c2e[c]) < Cap
       /\ c2e' = [c2e EXCEPT ![c] = Append(@, m)]
    \/ c2e_wfd[c] = "old" /\ UNCHANGED c2e

\* A write fails: FIFO full, or EPIPE.
Refused(c) ==
    /\ c2e_wfd[c] = "now" => Len(c2e[c]) = Cap
    /\ UNCHANGED c2e

\* Mutant: the action is recorded before it is written.
RegisterAction_First(c, a) ==
    /\ client[c] = "registered" /\ a \notin acts[c]
    /\ Sent(c, [type |-> "action", action |-> a]) \/ Refused(c)
    /\ acts' = [acts EXCEPT ![c] = @ \cup {a}]
    /\ UNCHANGED <<client, c2e_node, c2e_wfd, down, evars>>

RegisterAction(c, a) ==
    /\ client[c] = "registered" /\ a \notin acts[c]
    /\ Sent(c, [type |-> "action", action |-> a])
    /\ acts' = [acts EXCEPT ![c] = @ \cup {a}]
    /\ UNCHANGED <<client, c2e_node, c2e_wfd, down, evars>>

\* touch_heartbeat
Heartbeat(c, a) ==
    /\ client[c] = "registered" /\ a \in acts[c]
    /\ Sent(c, [type |-> "heartbeat", action |-> a])
    /\ UNCHANGED <<cvars, c2e_node, c2e_wfd, down, evars>>

\* write_action_response does not look at the registered actions.
Respond(c) ==
    /\ client[c] = "registered"
    /\ Sent(c, [type |-> "response"])
    /\ UNCHANGED <<cvars, c2e_node, c2e_wfd, down, evars>>

\* deregister_client drops everything, whether its message gets through or not.
Deregister(c) ==
    /\ client[c] = "registered"
    /\ Sent(c, [type |-> "deregister"]) \/ Refused(c)
    /\ client' = [client EXCEPT ![c] = "idle"]
    /\ acts' = [acts EXCEPT ![c] = {}]
    /\ c2e_wfd' = [c2e_wfd EXCEPT ![c] = "none"]
    /\ UNCHANGED <<c2e_node, down, evars>>

\* read_action_request.  On a FIFO hung up it fails, or the process ends.
ReadRequest(c) ==
    /\ client[c] = "registered" /\ e2c[c] > 0
    /\ e2c' = [e2c EXCEPT ![c] = @ - 1]
    /\ UNCHANGED <<cvars, up, e2c_node, e2c_wfd, evars>>

-----------------------------------------------------------------------------
(* The engine                                                               *)

EngineStart ==
    /\ engine = "down" /\ engine' = "idle"
    /\ UNCHANGED <<cvars, up, down, todo, cached, view>>

\* The process ends, for whatever reason.
EngineGone ==
    /\ engine' = "down" /\ todo' = {} /\ cached' = 0
    /\ view' = [c \in Clients |-> Unknown]
    /\ c2e' = [c \in Clients |-> <<>>]
    /\ c2e_node' = [c \in Clients |->
                      IF c2e_node[c] = "none" THEN "none" ELSE "closed"]
    /\ c2e_wfd' = [c \in Clients |->
                      IF c2e_wfd[c] = "none" THEN "none" ELSE "dead"]
    /\ e2c_node' = [c \in Clients |->
                      IF e2c_node[c] = "held" THEN "hup" ELSE e2c_node[c]]
    /\ e2c_wfd' = [c \in Clients |-> "none"]
    /\ UNCHANGED <<cvars, e2c>>

EngineEnd == engine # "down" /\ EngineGone

\* server_init
InitBegin ==
    /\ engine = "idle" /\ engine' = "opening" /\ todo' = Clients
    /\ UNCHANGED <<cvars, up, down, cached, view>>

\* Mutant: a FIFO that is there is opened and not made anew.
InitFifo_Keeps(c) ==
    /\ c2e_node' = [c2e_node EXCEPT ![c] =
                      IF c2e_wfd[c] = "none" THEN "fresh" ELSE "held"]
    /\ c2e_wfd' = [c2e_wfd EXCEPT ![c] = IF @ = "none" THEN @ ELSE "now"]
    /\ view' = [view EXCEPT ![c] = Unknown]
    /\ UNCHANGED c2e

\* create_a_fd of a read end.
InitFifo(c) ==
    /\ c2e' = [c2e EXCEPT ![c] = <<>>]
    /\ c2e_node' = [c2e_node EXCEPT ![c] = "fresh"]
    /\ c2e_wfd' = [c2e_wfd EXCEPT ![c] = IF @ = "now" THEN "old" ELSE @]
    /\ view' = [view EXCEPT ![c] = Unknown]

InitClient(c) ==
    /\ engine = "opening" /\ c \in todo
    /\ InitFifo(c)
    /\ todo' = todo \ {c}
    /\ engine' = IF todo' = {} THEN "up" ELSE engine
    /\ UNCHANGED <<cvars, down, cached>>

\* server_deinit drops the transport; its file descriptors stay open.
Deinit ==
    /\ engine = "up" /\ engine' = "idle" /\ cached' = 0
    /\ e2c_wfd' = [c \in Clients |-> "none"]
    /\ UNCHANGED <<cvars, up, e2c, e2c_node, todo, view>>

\* Mutant: a FIFO has room for ever.
Room_Always(c) == c \in Clients

Room(c) == e2c[c] < Cap

\* write_server_message returns success: the write end is opened on first
\* demand, and kept in m_wfds whatever becomes of the FIFO.
Requests(c) ==
    /\ engine = "up"
    /\ \/ /\ e2c_wfd[c] = "now" \/ (e2c_wfd[c] = "none" /\ Readable(e2c_node[c]))
          /\ Room(c)
          /\ e2c' = [e2c EXCEPT ![c] = @ + 1]
          /\ e2c_wfd' = [e2c_wfd EXCEPT ![c] = "now"]
          /\ e2c_node' = [e2c_node EXCEPT ![c] = "held"]
       \/ e2c_wfd[c] = "old" /\ UNCHANGED down
    /\ UNCHANGED <<cvars, up, evars>>

ready == {c \in Clients : c2e[c] # <<>> \/ c2e_node[c] = "hup"}

\* read_server_message: poll, and read of one FIFO of those ready.
Read(c) ==
    /\ engine = "up" /\ cached = 0 /\ c \in ready
    /\ cached' = Cardinality(ready) - 1
    /\ IF c2e[c] # <<>>
       THEN /\ c2e' = [c2e EXCEPT ![c] = Tail(@)]
            /\ view' = [view EXCEPT ![c] = Saw(@, Head(c2e[c]))]
       ELSE UNCHANGED <<c2e, view>>
    /\ UNCHANGED <<cvars, c2e_node, c2e_wfd, down, engine, todo>>

\* What is read of a FIFO hung up, and after a poll that found another FIFO
\* ready, is an empty message, which the parser throws on.
ReadThrows ==
    /\ engine = "up"
    /\ cached > 0 \/ \E c \in ready : c2e[c] = <<>>
    /\ EngineGone

-----------------------------------------------------------------------------
Client(c) ==
    \/ ClientStart(c) \/ ClientEnd(c)
    \/ RegisterOpen(c) \/ RegisterWrite(c) \/ RegisterFails(c)
    \/ \E a \in Actions : RegisterAction(c, a) \/ Heartbeat(c, a)
    \/ Respond(c) \/ Deregister(c) \/ ReadRequest(c)

Engine ==
    \/ EngineStart \/ EngineEnd \/ InitBegin \/ Deinit \/ ReadThrows
    \/ \E c \in Clients : InitClient(c) \/ Requests(c) \/ Read(c)

Next == Engine \/ \E c \in Clients : Client(c)

Spec == Init /\ [][Next]_vars

-----------------------------------------------------------------------------
(* Properties                                                               *)

Nodes == {"none", "fresh", "held", "hup", "closed"}
Ends  == {"none", "now", "old", "dead"}

Views == [registered : BOOLEAN, actions : SUBSET Actions, legal : BOOLEAN]

TypeOK ==
    /\ client \in [Clients -> {"down", "idle", "opened", "registered"}]
    /\ acts \in [Clients -> SUBSET Actions]
    /\ c2e \in [Clients -> Seq(Message)] /\ \A c \in Clients : Len(c2e[c]) <= Cap
    /\ c2e_node \in [Clients -> Nodes] /\ e2c_node \in [Clients -> Nodes]
    /\ c2e_wfd \in [Clients -> Ends] /\ e2c_wfd \in [Clients -> Ends]
    /\ e2c \in [Clients -> 0..Cap]
    /\ engine \in {"down", "idle", "opening", "up"}
    /\ todo \subseteq Clients /\ (todo # {} => engine = "opening")
    /\ cached \in 0..Cardinality(Clients)
    /\ view \in [Clients -> Views]

\* What the engine will know when it has read what there is to read.
Replay(c) ==
    LET knows[k \in 0..Len(c2e[c])] ==
            IF k = 0 THEN view[c] ELSE Saw(knows[k - 1], c2e[c][k])
    IN  knows[Len(c2e[c])]

\* Across ends and restarts of both sides the engine reads of a client only
\* well-formed sessions: actions, heartbeats and responses after a register
\* message, no action twice, nothing left over from before its own start.
SessionsLegal == \A c \in Clients : Replay(c).legal

\* A registered client, whose FIFO is the one the engine reads, and the engine
\* agree on the actions it has, up to what is on the way.
ViewsAgree ==
    \A c \in Clients : client[c] = "registered" /\ c2e_wfd[c] = "now" =>
        /\ Replay(c).registered
        /\ Replay(c).actions = acts[c]

\* "Any write occurs only upon some registration action by proc, which would
\* have opened the read end already" (lib/README:18-19): the write end the
\* engine keeps for a registered client is of the FIFO that client reads.
RegisteredIsReached ==
    \A c \in Clients : client[c] = "registered" => e2c_wfd[c] \in {"none", "now"}
=============================================================================
