---------------------------- MODULE FifoTransport ----------------------------
(***************************************************************************)
(* One direction of the named FIFOs between the engine and its clients     *)
(* (lib/transport.cpp): every client writes messages to a FIFO of its own, *)
(* a size and a body in two non-blocking writes, and the engine reads all  *)
(* FIFOs through one reader_writer.  With one client it is also the other  *)
(* direction.  Every system call is a step.                                *)
(*                                                                         *)
(* A FIFO is a sequence of units [msg, pos]: a message is HdrLen units of  *)
(* size and BodyLen units of body, both at most PIPE_BUF bytes, so that a  *)
(* write is all or nothing.                                                *)
(***************************************************************************)
EXTENDS Naturals, Sequences

CONSTANTS
    N,          \* number of clients; their read ends are polled in this order
    HdrLen,     \* units of the size
    BodyLen,    \* units of a body
    PipeCap,    \* units a FIFO holds
    MaxMsgs,    \* bound: writes a client begins
    MaxExits    \* bound: times a client process ends

Clients == 1..N

ASSUME TransportAssumption ==
    /\ N \in Nat \ {0}
    /\ HdrLen \in Nat \ {0} /\ BodyLen \in Nat \ {0}
    /\ HdrLen + BodyLen <= PipeCap /\ PipeCap \in Nat
    /\ MaxMsgs \in Nat /\ MaxExits \in Nat

VARIABLES
    fifo,     \* the units in the FIFO of each client
    wend,     \* its write end: "none" opened yet, "open" or "closed"
    wpc,      \* the client: between calls, or before the write of a body
    begun,    \* messages each client has begun to write
    sent,     \* the messages whose write returned success
    exits,    \* times each client process has ended
    rpc,      \* the engine's reader: its place in read_data
    ready,    \* the m_ready_cnt read ends in m_ready from m_ready_index on
    cur, sz,  \* the FIFO read_data has chosen, and the size it has read
    got,      \* what read_data has returned of each client not in broken
    broken    \* clients that ended or failed to write a body, and those of
              \* whose messages a read failed

wvars == <<wend, wpc, begun, sent, exits>>
rvars == <<rpc, ready, cur, sz, got>>
vars  == <<fifo, wvars, rvars, broken>>

Garbage == 0    \* a string that is no message

Hdr(m)  == [i \in 1..HdrLen |-> [msg |-> m, pos |-> i]]
Body(m) == [i \in 1..BodyLen |-> [msg |-> m, pos |-> HdrLen + i]]

Init ==
    /\ fifo = [c \in Clients |-> <<>>]
    /\ wend = [c \in Clients |-> "none"]
    /\ wpc = [c \in Clients |-> "idle"]
    /\ begun = [c \in Clients |-> 0]
    /\ sent = [c \in Clients |-> <<>>]
    /\ exits = [c \in Clients |-> 0]
    /\ rpc = "out" /\ ready = {} /\ cur = 1 /\ sz = 0
    /\ got = [c \in Clients |-> <<>>]
    /\ broken = {}

-----------------------------------------------------------------------------
(* write(msg) of client c                                                   *)

\* Mutant: a FIFO takes whatever is written.
Room_Unbounded(c, n) == n > 0

\* A non-blocking write of n units succeeds.
Room(c, n) == Len(fifo[c]) + n <= PipeCap

\* The write end is opened on first demand.
Open(c) ==
    /\ wpc[c] = "idle" /\ begun[c] < MaxMsgs
    /\ wend[c] # "open"
    /\ wend' = [wend EXCEPT ![c] = "open"]
    /\ UNCHANGED <<fifo, wpc, begun, sent, exits, rvars, broken>>

\* The size is written; if it does not fit, the call fails and leaves nothing.
WriteSize(c) ==
    /\ wpc[c] = "idle" /\ begun[c] < MaxMsgs
    /\ wend[c] = "open"
    /\ begun' = [begun EXCEPT ![c] = @ + 1]
    /\ IF Room(c, HdrLen)
       THEN /\ fifo' = [fifo EXCEPT ![c] = @ \o Hdr(begun'[c])]
            /\ wpc' = [wpc EXCEPT ![c] = "body"]
       ELSE UNCHANGED <<fifo, wpc>>
    /\ UNCHANGED <<wend, sent, exits, rvars, broken>>

\* Mutant: a body that does not fit is dropped, and success returned.
WriteBody_Drops(c) ==
    /\ wpc[c] = "body"
    /\ wpc' = [wpc EXCEPT ![c] = "idle"]
    /\ sent' = [sent EXCEPT ![c] = Append(@, begun[c])]
    /\ fifo' = IF Room(c, BodyLen)
               THEN [fifo EXCEPT ![c] = @ \o Body(begun[c])]
               ELSE fifo
    /\ UNCHANGED <<wend, begun, exits, rvars, broken>>

\* A body that does not fit leaves its size behind in the FIFO.
WriteBody(c) ==
    /\ wpc[c] = "body"
    /\ wpc' = [wpc EXCEPT ![c] = "idle"]
    /\ IF Room(c, BodyLen)
       THEN /\ fifo' = [fifo EXCEPT ![c] = @ \o Body(begun[c])]
            /\ sent' = [sent EXCEPT ![c] = Append(@, begun[c])]
            /\ UNCHANGED broken
       ELSE /\ broken' = broken \cup {c}
            /\ UNCHANGED <<fifo, sent>>
    /\ UNCHANGED <<wend, begun, exits, rvars>>

\* The client process ends, at any point; another takes over its name.
Exit(c) ==
    /\ exits[c] < MaxExits
    /\ exits' = [exits EXCEPT ![c] = @ + 1]
    /\ wend' = [wend EXCEPT ![c] = IF @ = "open" THEN "closed" ELSE @]
    /\ wpc' = [wpc EXCEPT ![c] = "idle"]
    /\ broken' = broken \cup {c}
    /\ UNCHANGED <<fifo, begun, sent, rvars>>

-----------------------------------------------------------------------------
(* read_data, which the engine calls again and again                        *)

\* The call polls if nothing is in m_ready.
ReadCall ==
    /\ rpc = "out"
    /\ rpc' = IF ready = {} THEN "poll" ELSE "cached"
    /\ UNCHANGED <<fifo, wvars, ready, cur, sz, got, broken>>

\* What is in m_ready from an earlier poll is not looked at: rc is still 0,
\* and the call reports a timeout.
ReadCached ==
    /\ rpc = "cached"
    /\ rpc' = "out"
    /\ UNCHANGED <<fifo, wvars, ready, cur, sz, got, broken>>

\* A closed write end makes an empty FIFO readable, too (POLLHUP).
readable == {c \in Clients : fifo[c] # <<>> \/ wend[c] = "closed"}

\* poll, for ever whatever the caller's timeout; the first FIFO is chosen.
ReadPoll ==
    /\ rpc = "poll" /\ rpc' = "size"
    /\ cur' \in readable /\ \A c \in readable : cur' <= c
    /\ ready' = readable \ {cur'}
    /\ UNCHANGED <<fifo, wvars, sz, got, broken>>

\* read_data returns an error.
ReadFails ==
    /\ rpc' = "out"
    /\ broken' = broken \cup {cur}
    /\ UNCHANGED <<wvars, ready, cur, sz, got>>

Shorter(m, n) == IF m < n THEN m ELSE n

\* Mutant: a read of the size, or of the body, loses the unit after it.
Take_OneMore(n) == fifo' = [fifo EXCEPT ![cur] =
                                SubSeq(@, Shorter(n, Len(@)) + 2, Len(@))]

\* The units a read of n takes out of the FIFO cur, and what it leaves.
Taken(n) == SubSeq(fifo[cur], 1, Shorter(n, Len(fifo[cur])))
Take(n)  == fifo' = [fifo EXCEPT ![cur] =
                         SubSeq(@, Shorter(n, Len(@)) + 1, Len(@))]

\* A read of an empty FIFO fails, unless its write end is closed.
Again == fifo[cur] = <<>> /\ wend[cur] # "closed"

SizeFails == rpc = "size" /\ Again /\ UNCHANGED fifo /\ ReadFails

\* Four bytes of a size give the size of a body.  Four other bytes give more
\* than 2048, as there is text among them, which is an error.  Fewer, or none,
\* leave sz as it was on the stack: an error or any size; a size of PipeCap
\* stands for all larger ones.
ReadSize ==
    LET hdr == Taken(HdrLen) IN
    /\ rpc = "size" /\ ~Again
    /\ Take(HdrLen)
    /\ \/ /\ \E n \in 0..PipeCap :
               /\ Len(hdr) = HdrLen => n = BodyLen /\ hdr = Hdr(hdr[1].msg)
               /\ sz' = n
          /\ rpc' = "body"
          /\ UNCHANGED <<wvars, ready, cur, got, broken>>
       \/ /\ Len(hdr) = HdrLen => hdr # Hdr(hdr[1].msg)
          /\ ReadFails

BodyFails == rpc = "body" /\ sz > 0 /\ Again /\ UNCHANGED fifo /\ ReadFails

\* Whatever there is of the body is returned as the message.
ReadBody ==
    LET data == Taken(sz) IN
    /\ rpc = "body" /\ (sz = 0 \/ ~Again)
    /\ Take(sz)
    /\ rpc' = "out"
    /\ got' = IF cur \in broken THEN got ELSE
               [got EXCEPT ![cur] = Append(@,
                   IF data # <<>> /\ data = Body(data[1].msg)
                   THEN data[1].msg ELSE Garbage)]
    /\ UNCHANGED <<wvars, ready, cur, sz, broken>>

-----------------------------------------------------------------------------

Writer(c) == Open(c) \/ WriteSize(c) \/ WriteBody(c)
Reader == \/ ReadCall \/ ReadCached \/ ReadPoll \/ SizeFails \/ ReadSize
          \/ BodyFails \/ ReadBody

Next == Reader \/ \E c \in Clients : Writer(c) \/ Exit(c)

Spec == Init /\ [][Next]_vars

\* The engine reads for ever, and a write that began is finished.
FairSpec ==
    /\ Spec
    /\ WF_vars(Reader)
    /\ \A c \in Clients : WF_vars(WriteBody(c))

-----------------------------------------------------------------------------
(* Properties.                                                              *)

FrameLen == HdrLen + BodyLen

Units == [msg : 1..MaxMsgs, pos : 1..FrameLen]

TypeOK ==
    /\ fifo \in [Clients -> Seq(Units)]
    /\ \A c \in Clients : Len(fifo[c]) <= PipeCap
    /\ wend \in [Clients -> {"none", "open", "closed"}]
    /\ wpc \in [Clients -> {"idle", "body"}]
    /\ begun \in [Clients -> 0..MaxMsgs]
    /\ sent \in [Clients -> Seq(1..MaxMsgs)]
    /\ exits \in [Clients -> 0..MaxExits]
    /\ rpc \in {"out", "poll", "cached", "size", "body"}
    /\ ready \subseteq Clients
    /\ cur \in Clients /\ sz \in 0..PipeCap
    /\ got \in [Clients -> Seq(0..MaxMsgs)]
    /\ broken \subseteq Clients

\* The messages of client c that are sent and not returned, whole or in part in its
\* FIFO, and after them the one it is about to send.
Unread(c)  == Len(sent[c]) - Len(got[c])
Pending(c) == [k \in 1..(Unread(c) + 1) |->
                   IF k <= Unread(c) THEN sent[c][Len(got[c]) + k] ELSE begun[c]]

\* What of the first of them read_data has taken out, and what of the last is in.
InHand(c) == IF rpc = "body" /\ cur = c THEN HdrLen ELSE 0
InPart(c) == IF wpc[c] = "body" THEN HdrLen ELSE 0

\* The units s are those of u messages and t more units, without the first h: the
\* unit p of the k-th message is at place (k - 1) * FrameLen + p - h.
Laid(s, msgs, u, h, t) ==
    /\ Len(s) + h = u * FrameLen + t
    /\ \A i \in 1..Len(s) : \A k \in 1..(u + 1) : \A p \in 1..FrameLen :
          i + h = (k - 1) * FrameLen + p => s[i] = [msg |-> msgs[k], pos |-> p]

\* The engine has returned the first of the messages c has sent, and the FIFO
\* holds the others.
Whole(c) ==
    /\ Len(got[c]) <= Len(sent[c])
    /\ \A i \in 1..Len(got[c]) : got[c][i] = sent[c][i]
    /\ Laid(fifo[c], Pending(c), Unread(c), InHand(c), InPart(c))

\* No silent loss, duplication, mixing or cutting: so it is for each client that runs
\* on, with no half-written message and no failed read, whatever the
\* interleaving of the system calls and whatever befalls other clients.
Intact == \A c \in Clients \ broken : Whole(c)

\* The messages on the way from each client.
queue == [c \in Clients |->
    IF c \in broken THEN <<>> ELSE SubSeq(sent[c], Len(got[c]) + 1, Len(sent[c]))]

Channel == INSTANCE MessageChannel WITH
    Clients <- Clients, Msgs <- 1..MaxMsgs, queue <- queue, got <- got, lost <- broken

\* Over two writes and two reads for a message, a shared reader and the ends of
\* clients, the transport implements a channel of whole messages.
Implements == Channel!Spec

\* "Reader will first read 4 bytes. Then read that many bytes from the pipe":
\* where there is room to write, no read fails.
NoReadFails == broken = {}

\* "Only upon reading all fds, the next Poll call is made": what was sent is
\* read in the end.
AllRead ==
    \A c \in Clients : \A k \in 1..MaxMsgs :
        Len(sent[c]) >= k ~> Len(got[c]) >= k \/ c \in broken
=============================================================================
