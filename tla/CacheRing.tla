------------------------------ MODULE CacheRing ------------------------------
(***************************************************************************)
(* One direction of the channel between the engine of the tests and a      *)
(* plugin process (class CacheData in tests/lib/test_client.py): a ring    *)
(* buffer one thread writes and one thread reads without a lock, and the   *)
(* pipe whose signals the reader polls.  Every line that touches shared    *)
(* state is a step.                                                        *)
(***************************************************************************)
EXTENDS Integers, Sequences

CONSTANTS
    Items,      \* what is written
    Limit,      \* slots of the ring
    None,       \* no item
    MaxWrites   \* bound: items ever accepted

ASSUME RingAssumption ==
    /\ Limit \in Nat \ {0}
    /\ None \notin Items
    /\ MaxWrites \in Nat

VARIABLES
    data, rd_index, wr_index, rd_cnt, wr_cnt,
    sig,        \* signals in the pipe
    wpc, wval,  \* the writer: its place in write(), and write's argument
    wres,       \* what its last decided write returns
    rpc,        \* the reader: its place in read(), or polling the pipe
    drained,    \* signals this read has taken
    copy,       \* the item this read copied
    got         \* what the last decided read returns

wvars == <<wpc, wval, wres>>
rvars == <<rpc, drained, copy, got>>
vars  == <<data, rd_index, wr_index, rd_cnt, wr_cnt, sig, wvars, rvars>>

Slots == 0..(Limit - 1)

Init ==
    /\ data = [i \in Slots |-> None]
    /\ rd_index = 0 /\ wr_index = 0
    /\ rd_cnt = 0 /\ wr_cnt = 0
    /\ sig = 0
    /\ wpc = "idle" /\ wval = None /\ wres = TRUE
    /\ rpc = "poll" /\ drained = 0 /\ copy = None /\ got = None

Unread == wr_cnt - rd_cnt

\* Mutant: an index is wrapped one step late.
Wrap_Late(i) == IF i + 1 > Limit THEN 0 ELSE i + 1

\* The index after i.
Wrap(i) == IF i + 1 >= Limit THEN 0 ELSE i + 1

-----------------------------------------------------------------------------
(* write(data)                                                              *)

\* Mutant: the ring is taken for full one item late.
Full_Late == Unread > Limit

Full == Unread >= Limit

\* The call, and its check for overflow.
WriteCheck(v) ==
    /\ wpc = "idle"
    /\ wr_cnt < MaxWrites
    /\ IF Full THEN /\ wres' = FALSE
                    /\ UNCHANGED <<wpc, wval>>
               ELSE /\ wpc' = "store"
                    /\ wval' = v
                    /\ UNCHANGED wres
    /\ UNCHANGED <<data, rd_index, wr_index, rd_cnt, wr_cnt, sig, rvars>>

WriteStore ==
    /\ wpc = "store"
    /\ wpc' = "index"
    /\ data' = [data EXCEPT ![wr_index] = wval]
    /\ UNCHANGED <<rd_index, wr_index, rd_cnt, wr_cnt, sig, wval, wres, rvars>>

\* The index is advanced and wrapped; only the writer looks at it.
WriteIndex ==
    /\ wpc = "index"
    /\ wpc' = "count"
    /\ wr_index' = Wrap(wr_index)
    /\ UNCHANGED <<data, rd_index, rd_cnt, wr_cnt, sig, wval, wres, rvars>>

\* The item becomes visible to the reader.
WriteCount ==
    /\ wpc = "count"
    /\ wpc' = "signal"
    /\ wr_cnt' = wr_cnt + 1
    /\ wres' = TRUE
    /\ UNCHANGED <<data, rd_index, wr_index, rd_cnt, sig, wval, rvars>>

\* Mutant: the reader is signalled only when the ring was empty.
WriteSignal_OnFirst ==
    /\ wpc = "signal"
    /\ wpc' = "idle"
    /\ sig' = IF Unread = 1 THEN sig + 1 ELSE sig
    /\ UNCHANGED <<data, rd_index, wr_index, rd_cnt, wr_cnt, wval, wres, rvars>>

\* _raise_signal
WriteSignal ==
    /\ wpc = "signal"
    /\ wpc' = "idle"
    /\ sig' = sig + 1
    /\ UNCHANGED <<data, rd_index, wr_index, rd_cnt, wr_cnt, wval, wres, rvars>>

-----------------------------------------------------------------------------
(* read(0), which the client calls when its poll finds a signal and then    *)
(* again and again until it returns nothing, and the server once per poll.  *)

\* select finds the pipe readable.
ReadPoll ==
    /\ rpc = "poll"
    /\ sig > 0
    /\ rpc' = "drain"
    /\ UNCHANGED <<data, rd_index, wr_index, rd_cnt, wr_cnt, sig, wvars,
                   drained, copy, got>>

\* Mutant: all signals are drained.
ReadDrain_All ==
    /\ rpc = "drain"
    /\ rpc' = "check"
    /\ drained' = IF sig > 0 THEN 1 ELSE 0
    /\ sig' = 0
    /\ UNCHANGED <<data, rd_index, wr_index, rd_cnt, wr_cnt, wvars, copy, got>>

\* Mutant: no signal is drained.
ReadDrain_None ==
    /\ rpc = "drain"
    /\ rpc' = "check"
    /\ drained' = IF sig > 0 THEN 1 ELSE 0
    /\ UNCHANGED <<data, rd_index, wr_index, rd_cnt, wr_cnt, sig, wvars, copy,
                   got>>

\* _drain_signal takes one signal, if there is one.
ReadDrain ==
    /\ rpc = "drain"
    /\ rpc' = "check"
    /\ drained' = IF sig > 0 THEN 1 ELSE 0
    /\ sig' = sig - drained'
    /\ UNCHANGED <<data, rd_index, wr_index, rd_cnt, wr_cnt, wvars, copy, got>>

\* "read empty", and the caller polls again.
ReadEmpty ==
    /\ rpc = "check" /\ rd_cnt >= wr_cnt
    /\ rpc' = "poll"
    /\ drained' = 0
    /\ got' = None
    /\ UNCHANGED <<data, rd_index, wr_index, rd_cnt, wr_cnt, sig, wvars, copy>>

\* Mutant: the slot is released before it is copied.
ReadCheck_Releases ==
    /\ rpc = "check" /\ rd_cnt < wr_cnt
    /\ rpc' = "copy"
    /\ rd_cnt' = rd_cnt + 1
    /\ UNCHANGED <<data, rd_index, wr_index, wr_cnt, sig, wvars, drained,
                   copy, got>>

ReadCheck ==
    /\ rpc = "check" /\ rd_cnt < wr_cnt
    /\ rpc' = "copy"
    /\ UNCHANGED <<data, rd_index, wr_index, rd_cnt, wr_cnt, sig, wvars,
                   drained, copy, got>>

ReadCopy ==
    /\ rpc = "copy"
    /\ rpc' = "index"
    /\ copy' = data[rd_index]
    /\ UNCHANGED <<data, rd_index, wr_index, rd_cnt, wr_cnt, sig, wvars,
                   drained, got>>

ReadIndex ==
    /\ rpc = "index"
    /\ rpc' = "count"
    /\ rd_index' = Wrap(rd_index)
    /\ UNCHANGED <<data, wr_index, rd_cnt, wr_cnt, sig, wvars, drained, copy,
                   got>>

\* The slot is free for the writer; the caller reads on, or polls.
ReadCount ==
    /\ rpc = "count"
    /\ rpc' \in {"drain", "poll"}
    /\ drained' = 0
    /\ rd_cnt' = rd_cnt + 1
    /\ got' = copy
    /\ UNCHANGED <<data, rd_index, wr_index, wr_cnt, sig, wvars, copy>>

-----------------------------------------------------------------------------

Write == WriteStore \/ WriteIndex \/ WriteCount \/ WriteSignal
Read  == \/ ReadPoll \/ ReadDrain \/ ReadEmpty \/ ReadCheck \/ ReadCopy
         \/ ReadIndex \/ ReadCount

Next == (\E v \in Items : WriteCheck(v)) \/ Write \/ Read

Spec == Init /\ [][Next]_vars

\* A write that began is finished, and the reader polls and reads for ever.
FairSpec == Spec /\ WF_vars(Write) /\ WF_vars(Read)

-----------------------------------------------------------------------------
(* Properties.                                                              *)

TypeOK ==
    /\ data \in [Slots -> Items \cup {None}]
    /\ rd_index \in Slots /\ wr_index \in Slots
    /\ rd_cnt \in Nat /\ wr_cnt \in Nat
    /\ sig \in Nat
    /\ wpc \in {"idle", "store", "index", "count", "signal"}
    /\ wval \in Items \cup {None}
    /\ wres \in BOOLEAN
    /\ rpc \in {"poll", "drain", "check", "copy", "index", "count"}
    /\ drained \in {0, 1}
    /\ copy \in Items \cup {None}
    /\ got \in Items \cup {None}

\* The reader never waits on an empty pipe while the ring holds an item whose
\* writer will not signal any more.
NoLostWakeup == rpc = "poll" /\ Unread > 0 => sig > 0 \/ wpc = "signal"

\* A writer about to store never has the slot the reader is about to copy.
NoOverwrite == rpc = "copy" /\ wpc = "store" => rd_index # wr_index

\* The pipe never holds more than two signals beyond the items, however reads
\* without a poll race the writer: 48 bytes of the 65536 at the real Limit, so
\* write() cannot block.
SignalsBounded == sig <= Unread + 2 /\ sig <= Limit + 2

\* Everything accepted is read in the end.
Delivered == \A k \in 1..MaxWrites : wr_cnt >= k ~> rd_cnt >= k

\* The ring as a queue.  Between the reader's last two steps its index runs
\* one slot ahead of its count.
base == IF rpc # "count" THEN rd_index
        ELSE IF rd_index = 0 THEN Limit - 1 ELSE rd_index - 1
Slot(b, i) == IF b + i < Limit THEN b + i ELSE b + i - Limit

q == [i \in 1..Unread |-> data[Slot(base, i - 1)]]

Queue == INSTANCE BoundedQueue WITH
    Items <- Items, Limit <- Limit, None <- None, q <- q, wres <- wres, got <- got

\* The ring implements the bounded queue.
Implements == Queue!Spec
=============================================================================
