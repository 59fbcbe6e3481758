-------------------------- MODULE CacheRingProofs --------------------------
(***************************************************************************)
(* Proofs about CacheRing, for a ring of any size and any number of writes. *)
(***************************************************************************)
EXTENDS CacheRing, SequenceTheorems, TLAPS

Reading == {"copy", "index", "count"}

\* The counts stay within a ring of each other, and a writer past its check
\* has a free slot, a reader past its check an item.
Counts ==
    /\ rd_cnt <= wr_cnt /\ Unread <= Limit
    /\ wpc \in {"store", "index", "count"} => Unread < Limit
    /\ rpc \in Reading => rd_cnt < wr_cnt

\* Signals in the pipe, on their way into it, or taken for the item about to
\* be read, against the items unread.
Surplus == sig + (IF wpc = "signal" THEN 1 ELSE 0)
               + drained - Unread

\* No signal is missing and at most two are left over; a read that found no
\* signal to drain started with at most one.
Wake ==
    /\ 0 <= Surplus /\ Surplus <= 2
    /\ rpc \in {"poll", "drain"} => drained = 0
    /\ rpc \notin {"poll", "drain"} /\ drained = 0 => Surplus <= 1

\* Where the writer's index stands, and what the slots hold.
Position ==
    wr_index = Slot(base, IF wpc = "count" THEN Unread + 1 ELSE Unread)
Content ==
    /\ \A i \in 0..(Unread - 1) : data[Slot(base, i)] \in Items
    /\ wpc \in {"store", "index", "count"} => wval \in Items
    /\ wpc \in {"index", "count"} => data[Slot(base, Unread)] = wval
    /\ rpc \in {"index", "count"} => copy = data[Slot(base, 0)]

IInv == TypeOK /\ Counts /\ Wake /\ Position /\ Content

-----------------------------------------------------------------------------
(* The arithmetic of the ring.                                              *)

\* A position of the ring is a slot.
LEMMA SlotType ==
    ASSUME NEW c \in Slots, NEW i \in 0..Limit
    PROVE  Slot(c, i) \in Slots
  BY RingAssumption DEF Slot, Slots

\* Two positions less than a ring apart are different slots.
LEMMA SlotInjective ==
    ASSUME NEW c \in Slots, NEW i \in 0..Limit, NEW j \in 0..Limit,
           i < j, j - i < Limit
    PROVE  Slot(c, i) # Slot(c, j)
  BY RingAssumption DEF Slot, Slots

\* Advancing the base by one moves every position by one.
LEMMA SlotShift ==
    ASSUME NEW c \in Slots, NEW i \in 0..(Limit - 1)
    PROVE  /\ Wrap(c) \in Slots
           /\ Slot(Wrap(c), i) = Slot(c, i + 1)
           /\ Wrap(Slot(c, i)) = Slot(c, i + 1)
           /\ c = IF Wrap(c) = 0 THEN Limit - 1 ELSE Wrap(c) - 1
  BY RingAssumption DEF Slot, Slots, Wrap

\* The base is a slot.
LEMMA BaseType == TypeOK => base \in Slots
  BY RingAssumption DEF TypeOK, base, Slots

-----------------------------------------------------------------------------
(* The inductive invariant.                                                 *)

LEMMA InitInv == Init => IInv
<1> SUFFICES ASSUME Init PROVE IInv
  OBVIOUS
<1> USE RingAssumption DEF Init, Unread
<1>1. TypeOK
  BY DEF TypeOK, Slots
<1>2. Counts /\ Wake
  BY DEF Counts, Wake, Surplus, Reading
<1>3. Position
  BY DEF Position, base, Slot
<1>4. Content
  BY DEF Content
<1> QED
  BY <1>1, <1>2, <1>3, <1>4 DEF IInv

\* Every step keeps the types.
LEMMA TypeStep == IInv /\ [Next]_vars => TypeOK'
<1> SUFFICES ASSUME IInv, [Next]_vars PROVE TypeOK'
  OBVIOUS
<1> USE RingAssumption DEF IInv, TypeOK
<1>1. ASSUME NEW v \in Items, WriteCheck(v) PROVE TypeOK'
  BY <1>1 DEF WriteCheck, rvars
<1>2. CASE WriteStore
  BY <1>2 DEF WriteStore, rvars, Content
<1>3. CASE WriteIndex
  BY <1>3 DEF WriteIndex, rvars, Wrap, Slots
<1>4. CASE WriteCount
  BY <1>4 DEF WriteCount, rvars
<1>5. CASE WriteSignal
  BY <1>5 DEF WriteSignal, rvars
<1>6. CASE ReadPoll
  BY <1>6 DEF ReadPoll, wvars
<1>7. CASE ReadDrain
  BY <1>7 DEF ReadDrain, wvars
<1>8. CASE ReadEmpty
  BY <1>8 DEF ReadEmpty, wvars
<1>9. CASE ReadCheck
  BY <1>9 DEF ReadCheck, wvars
<1>10. CASE ReadCopy
  BY <1>10 DEF ReadCopy, wvars
<1>11. CASE ReadIndex
  BY <1>11 DEF ReadIndex, wvars, Wrap, Slots
<1>12. CASE ReadCount
  BY <1>12 DEF ReadCount, wvars
<1>13. CASE UNCHANGED vars
  BY <1>13 DEF vars, wvars, rvars
<1> QED
  BY <1>1, <1>2, <1>3, <1>4, <1>5, <1>6, <1>7, <1>8, <1>9, <1>10, <1>11,
     <1>12, <1>13 DEF Next, Write, Read

\* Every step keeps the counts and the balance of signals.
LEMMA CountStep == IInv /\ [Next]_vars => Counts' /\ Wake'
<1> SUFFICES ASSUME IInv, [Next]_vars PROVE Counts' /\ Wake'
  OBVIOUS
<1> USE RingAssumption DEF IInv, TypeOK, Counts, Wake, Surplus, Unread, Reading
<1>1. ASSUME NEW v \in Items, WriteCheck(v) PROVE Counts' /\ Wake'
  BY <1>1 DEF WriteCheck, rvars, Full
<1>2. CASE WriteStore
  BY <1>2 DEF WriteStore, rvars
<1>3. CASE WriteIndex
  BY <1>3 DEF WriteIndex, rvars
<1>4. CASE WriteCount
  BY <1>4 DEF WriteCount, rvars
<1>5. CASE WriteSignal
  BY <1>5 DEF WriteSignal, rvars
<1>6. CASE ReadPoll
  BY <1>6 DEF ReadPoll, wvars
<1>7. CASE ReadDrain
  BY <1>7 DEF ReadDrain, wvars
<1>8. CASE ReadEmpty
  BY <1>8 DEF ReadEmpty, wvars
<1>9. CASE ReadCheck
  BY <1>9 DEF ReadCheck, wvars
<1>10. CASE ReadCopy
  BY <1>10 DEF ReadCopy, wvars
<1>11. CASE ReadIndex
  BY <1>11 DEF ReadIndex, wvars
<1>12. CASE ReadCount
  BY <1>12 DEF ReadCount, wvars
<1>13. CASE UNCHANGED vars
  BY <1>13 DEF vars, wvars, rvars
<1> QED
  BY <1>1, <1>2, <1>3, <1>4, <1>5, <1>6, <1>7, <1>8, <1>9, <1>10, <1>11,
     <1>12, <1>13 DEF Next, Write, Read

\* The base moves when a read is counted, and only then.
LEMMA BaseStep ==
    ASSUME IInv, [Next]_vars
    PROVE  \/ base' = base /\ rd_cnt' = rd_cnt
           \/ ReadCount /\ base' = Wrap(base)
<1> USE RingAssumption DEF IInv, TypeOK
<1>1. ASSUME NEW v \in Items, WriteCheck(v)
      PROVE  base' = base /\ rd_cnt' = rd_cnt
  BY <1>1 DEF WriteCheck, rvars, base
<1>2. CASE Write
  BY <1>2 DEF Write, WriteStore, WriteIndex, WriteCount, WriteSignal, rvars,
     base
<1>3. CASE ReadPoll \/ ReadDrain \/ ReadEmpty \/ ReadCheck \/ ReadCopy
  BY <1>3 DEF ReadPoll, ReadDrain, ReadEmpty, ReadCheck, ReadCopy, base
<1>4. CASE ReadIndex
  BY <1>4 DEF ReadIndex, base, Wrap, Slots
<1>5. CASE ReadCount
  BY <1>5 DEF ReadCount, base, Wrap, Slots
<1>6. CASE UNCHANGED vars
  BY <1>6 DEF vars, rvars, base
<1> QED
  BY <1>1, <1>2, <1>3, <1>4, <1>5, <1>6 DEF Next, Read

\* Every step keeps the writer's index in its place.
LEMMA PositionStep == IInv /\ [Next]_vars => Position'
<1> SUFFICES ASSUME IInv, [Next]_vars PROVE Position'
  OBVIOUS
<1> DEFINE n == IF wpc = "count" THEN Unread + 1 ELSE Unread
<1>n. /\ n \in 0..Limit /\ Unread \in 0..Limit /\ wr_index = Slot(base, n)
      /\ base \in Slots
  BY RingAssumption, BaseType
  DEF IInv, TypeOK, Counts, Position, Unread
<1>1. ASSUME NEW v \in Items, WriteCheck(v) PROVE Position'
  <2>1. base' = base
    BY <1>1 DEF WriteCheck, rvars, base
  <2> QED
    BY <1>1, <1>n, <2>1 DEF WriteCheck, Position, Unread
<1>2. CASE Write
  <2>1. base' = base /\ rd_cnt' = rd_cnt
    BY <1>2 DEF Write, WriteStore, WriteIndex, WriteCount, WriteSignal, rvars,
       base
  <2>2. CASE WriteIndex
    <3>1. Unread < Limit
      BY <2>2 DEF IInv, Counts, WriteIndex
    <3>2. Wrap(Slot(base, Unread)) = Slot(base, Unread + 1)
      BY <1>n, <3>1, SlotShift, RingAssumption
    <3> QED
      BY <1>n, <2>1, <2>2, <3>2 DEF WriteIndex, Position, Unread
  <2>3. CASE WriteCount
    <3>1. wr_cnt' - rd_cnt' = Unread + 1
      BY <2>1, <2>3 DEF WriteCount, Unread, IInv, TypeOK
    <3> QED
      BY <1>n, <2>1, <2>3, <3>1 DEF WriteCount, Position, Unread
  <2>4. CASE WriteStore \/ WriteSignal
    BY <1>n, <2>1, <2>4 DEF WriteStore, WriteSignal, Position, Unread
  <2> QED
    BY <1>2, <2>2, <2>3, <2>4 DEF Write
<1>3. CASE Read
  <2>1. CASE base' = base /\ rd_cnt' = rd_cnt
    <3>1. UNCHANGED <<wr_index, wr_cnt, wpc>>
      BY <1>3 DEF Read, ReadPoll, ReadDrain, ReadEmpty, ReadCheck, ReadCopy,
         ReadIndex, ReadCount, wvars
    <3> QED
      BY <1>n, <2>1, <3>1 DEF Position, Unread
  <2>2. CASE ReadCount /\ base' = Wrap(base)
    <3>1. UNCHANGED <<wr_index, wr_cnt, wpc>> /\ rd_cnt' = rd_cnt + 1
      BY <2>2 DEF ReadCount, wvars
    <3>2. Unread' = Unread - 1 /\ Unread > 0
      BY <2>2, <3>1 DEF ReadCount, Unread, IInv, TypeOK, Counts, Reading
    <3>3. n - 1 \in 0..(Limit - 1)
      BY <1>n, <3>2, RingAssumption
    <3>4. Slot(Wrap(base), n - 1) = Slot(base, (n - 1) + 1)
      BY <1>n, <3>3, SlotShift
    <3>5. (n - 1) + 1 = n
      BY <1>n
    <3>6. n - 1 = IF wpc' = "count" THEN Unread' + 1 ELSE Unread'
      BY <1>n, <3>1, <3>2
    <3> QED
      BY <1>n, <2>2, <3>1, <3>4, <3>5, <3>6 DEF Position
  <2> QED
    BY <2>1, <2>2, BaseStep
<1>4. CASE UNCHANGED vars
  <2>1. base' = base
    BY <1>4 DEF vars, rvars, base
  <2> QED
    BY <1>4, <1>n, <2>1 DEF vars, wvars, Position, Unread
<1> QED
  BY <1>1, <1>2, <1>3, <1>4 DEF Next

\* Every step keeps what is known of the slots.
LEMMA ContentStep == IInv /\ [Next]_vars => Content'
<1> SUFFICES ASSUME IInv, [Next]_vars PROVE Content'
  OBVIOUS
<1>n. /\ Unread \in 0..Limit /\ base \in Slots /\ Limit \in Nat \ {0}
      /\ rpc \in Reading => Unread > 0
      /\ wpc \in {"store", "index", "count"} => Unread < Limit
  BY RingAssumption, BaseType DEF IInv, TypeOK, Counts, Unread
<1> USE DEF IInv, Content
<1>1. ASSUME NEW v \in Items, WriteCheck(v) PROVE Content'
  <2>1. base' = base /\ UNCHANGED <<data, rd_cnt, wr_cnt, rpc, copy>>
    BY <1>1 DEF WriteCheck, rvars, base
  <2> QED
    BY <1>1, <1>n, <2>1 DEF WriteCheck, Unread, TypeOK
<1>2. CASE WriteStore
  <2>1. base' = base /\ UNCHANGED <<rd_cnt, wr_cnt, rpc, copy, wval>>
    BY <1>2 DEF WriteStore, rvars, base
  <2>2. wr_index = Slot(base, Unread) /\ Unread < Limit
    BY <1>2, <1>n DEF WriteStore, Position
  <2>3. \A i \in 0..(Unread - 1) : Slot(base, i) # wr_index
    BY <1>n, <2>2, SlotInjective
  <2>4. data' = [data EXCEPT ![wr_index] = wval]
    BY <1>2 DEF WriteStore
  <2>5. data'[wr_index] = wval
    BY <2>4 DEF TypeOK
  <2>6. \A i \in 0..(Unread - 1) :
            data'[Slot(base, i)] = data[Slot(base, i)]
    BY <1>n, <2>3, <2>4, SlotType DEF TypeOK
  <2>7. rpc \in Reading => 0 \in 0..(Unread - 1)
    BY <1>n
  <2> QED
    BY <1>2, <1>n, <2>1, <2>2, <2>5, <2>6, <2>7
    DEF WriteStore, Unread, Reading
<1>3. CASE WriteIndex
  <2>1. base' = base /\ UNCHANGED <<data, rd_cnt, wr_cnt, rpc, copy, wval>>
    BY <1>3 DEF WriteIndex, rvars, base
  <2> QED
    BY <1>3, <2>1 DEF WriteIndex, Unread
<1>4. CASE WriteCount
  <2>1. base' = base /\ UNCHANGED <<data, rd_cnt, rpc, copy, wval>>
    BY <1>4 DEF WriteCount, rvars, base
  <2>2. Unread' = Unread + 1
    BY <1>4, <2>1 DEF WriteCount, Unread, TypeOK
  <2>3. data[Slot(base, Unread)] \in Items
    BY <1>4 DEF WriteCount
  <2>4. \A i \in 0..(Unread' - 1) : i = Unread \/ i \in 0..(Unread - 1)
    BY <1>n, <2>2
  <2>5. \A i \in 0..(Unread' - 1) : data'[Slot(base', i)] \in Items
    BY <2>1, <2>3, <2>4
  <2> QED
    BY <1>4, <2>1, <2>5 DEF WriteCount
<1>5. CASE WriteSignal
  <2>1. base' = base /\ UNCHANGED <<data, rd_cnt, wr_cnt, rpc, copy, wval>>
    BY <1>5 DEF WriteSignal, rvars, base
  <2> QED
    BY <1>5, <2>1 DEF WriteSignal, Unread
<1>6. CASE Read
  <2>1. UNCHANGED <<data, wr_cnt, wpc, wval>>
    BY <1>6 DEF Read, ReadPoll, ReadDrain, ReadEmpty, ReadCheck, ReadCopy,
       ReadIndex, ReadCount, wvars
  <2>2. CASE base' = base /\ rd_cnt' = rd_cnt
    <3>1. rpc' \in {"index", "count"} => copy' = data[Slot(base, 0)]
      <4>1. CASE ReadCopy
        <5>1. Slot(base, 0) = base /\ base = rd_index
          BY <4>1, <1>n DEF ReadCopy, Slot, Slots, base
        <5> QED
          BY <4>1, <5>1 DEF ReadCopy
      <4>2. CASE ~ReadCopy
        BY <1>6, <4>2 DEF Read, ReadPoll, ReadDrain, ReadEmpty, ReadCheck,
           ReadIndex, ReadCount
      <4> QED
        BY <4>1, <4>2
    <3> QED
      BY <2>1, <2>2, <3>1 DEF Unread
  <2>3. CASE ReadCount /\ base' = Wrap(base)
    <3>1. rd_cnt' = rd_cnt + 1 /\ rpc' \in {"drain", "poll"} /\ rpc = "count"
      BY <2>3 DEF ReadCount
    <3>2. Unread' = Unread - 1 /\ Unread > 0
      BY <1>n, <2>1, <3>1 DEF Unread, TypeOK, Reading
    <3>3. \A i \in 0..(Limit - 1) : Slot(base', i) = Slot(base, i + 1)
      BY <1>n, <2>3, SlotShift
    <3>4. \A i \in 0..(Unread' - 1) : /\ i \in 0..(Limit - 1)
                                      /\ i + 1 \in 0..(Unread - 1)
      BY <1>n, <3>2
    <3>5. \A i \in 0..(Unread' - 1) : data'[Slot(base', i)] \in Items
      BY <2>1, <3>3, <3>4
    <3>6. wpc \in {"index", "count"} => data'[Slot(base', Unread')] = wval
      <4>1. SUFFICES ASSUME wpc \in {"index", "count"}
                     PROVE  data'[Slot(base', Unread')] = wval
        OBVIOUS
      <4>2. Unread' \in 0..(Limit - 1) /\ Unread' + 1 = Unread
        BY <1>n, <3>2, <4>1
      <4>3. Slot(base', Unread') = Slot(base, Unread)
        BY <3>3, <4>2
      <4> QED
        BY <2>1, <4>1, <4>3
    <3> QED
      BY <2>1, <3>1, <3>5, <3>6
  <2> QED
    BY <2>2, <2>3, BaseStep
<1>7. CASE UNCHANGED vars
  <2>1. base' = base
    BY <1>7 DEF vars, rvars, base
  <2> QED
    BY <1>7, <2>1 DEF vars, wvars, rvars, Unread
<1> QED
  BY <1>1, <1>2, <1>3, <1>4, <1>5, <1>6, <1>7 DEF Next, Write

\* The invariant holds in every reachable state.
THEOREM Invariant == Spec => []IInv
<1>1. IInv /\ [Next]_vars => IInv'
  BY TypeStep, CountStep, PositionStep, ContentStep DEF IInv
<1> QED
  BY InitInv, <1>1, PTL DEF Spec

-----------------------------------------------------------------------------
(* The safety properties.                                                   *)

\* The variables of the ring keep their types.
THEOREM TypeCorrect == Spec => []TypeOK
<1>1. IInv => TypeOK
  BY DEF IInv
<1> QED
  BY Invariant, <1>1, PTL

\* The reader never waits on an empty pipe with an item in the ring whose
\* signal was already drained.
THEOREM WakeupKept == Spec => []NoLostWakeup
<1>1. IInv => NoLostWakeup
  BY DEF IInv, TypeOK, Wake, Surplus, NoLostWakeup, Unread
<1> QED
  BY Invariant, <1>1, PTL

\* The writer never stores into the slot the reader is copying.
THEOREM SlotsApart == Spec => []NoOverwrite
<1>1. IInv => NoOverwrite
  <2> SUFFICES ASSUME IInv, rpc = "copy", wpc = "store"
               PROVE  rd_index # wr_index
    BY DEF NoOverwrite
  <2>1. 0 < Unread /\ Unread < Limit /\ Unread \in 0..Limit
    BY RingAssumption DEF IInv, TypeOK, Counts, Unread, Reading
  <2>2. base = rd_index /\ base \in Slots
    BY DEF base, IInv, TypeOK
  <2>3. Slot(base, 0) = base
    BY <2>2, RingAssumption DEF Slot, Slots
  <2>4. Slot(base, 0) # Slot(base, Unread)
    BY <2>1, <2>2, SlotInjective, RingAssumption
  <2>5. wr_index = Slot(base, Unread)
    BY DEF IInv, Position
  <2> QED
    BY <2>2, <2>3, <2>4, <2>5
<1> QED
  BY Invariant, <1>1, PTL

\* The pipe holds at most two signals more than there are items to read.
THEOREM PipeBounded == Spec => []SignalsBounded
<1>1. IInv => SignalsBounded
  BY RingAssumption
  DEF IInv, TypeOK, Counts, Wake, Surplus, SignalsBounded, Unread
<1> QED
  BY Invariant, <1>1, PTL

-----------------------------------------------------------------------------
(* The refinement.                                                          *)

\* The queue is a sequence of items, as long as the counts tell.
LEMMA QueueType == IInv => q \in Seq(Items) /\ Len(q) = Unread
<1> SUFFICES ASSUME IInv PROVE q \in Seq(Items) /\ Len(q) = Unread
  OBVIOUS
<1>1. Unread \in Nat
  BY DEF IInv, TypeOK, Counts, Unread
<1>2. \A i \in 1..Unread : i - 1 \in 0..(Unread - 1)
  BY <1>1
<1>3. \A i \in 1..Unread : data[Slot(base, i - 1)] \in Items
  BY <1>2 DEF IInv, Content
<1>4. q \in [1..Unread -> Items]
  BY <1>3 DEF q
<1> QED
  BY <1>1, <1>4

\* A step that leaves the items between the counts alone leaves the queue
\* alone.
LEMMA SameQueue ==
    ASSUME base' = base, Unread' = Unread,
           \A i \in 1..Unread :
               data'[Slot(base, i - 1)] = data[Slot(base, i - 1)]
    PROVE  q' = q
  BY DEF q

\* Counting a write appends the item written.
LEMMA PutStep == IInv /\ WriteCount => q' = Append(q, wval) /\ wval \in Items
<1> SUFFICES ASSUME IInv, WriteCount
             PROVE  q' = Append(q, wval) /\ wval \in Items
  OBVIOUS
<1>1. base' = base /\ data' = data
  BY DEF WriteCount, rvars, base
<1>2. Unread \in Nat /\ Unread' = Unread + 1
  BY DEF WriteCount, rvars, Unread, IInv, TypeOK, Counts
<1>3. data[Slot(base, Unread)] = wval /\ wval \in Items
  BY DEF WriteCount, IInv, Content
<1>4. q' = [i \in 1..(Unread + 1) |-> data[Slot(base, i - 1)]]
  BY <1>1, <1>2 DEF q
<1>5. q'[Unread + 1] = wval
  <2>1. Unread + 1 \in 1..(Unread + 1) /\ (Unread + 1) - 1 = Unread
    BY <1>2
  <2> QED
    BY <1>3, <1>4, <2>1
<1>6. \A i \in 1..Unread : q'[i] = q[i]
  BY <1>2, <1>4 DEF q
<1>7. q \in Seq(Items) /\ Len(q) = Unread
  BY QueueType
<1>8. q' \in Seq(Items) /\ Len(q') = Unread + 1
  <2>1. \A i \in 1..(Unread + 1) : i = Unread + 1 \/ i \in 1..Unread
    BY <1>2
  <2>2. \A i \in 1..(Unread + 1) : q'[i] \in Items
    BY <1>3, <1>5, <1>6, <1>7, <2>1, ElementOfSeq
  <2>3. q' \in [1..(Unread + 1) -> Items]
    BY <1>4, <2>2
  <2> QED
    BY <1>2, <2>3
<1>9. /\ Append(q, wval) \in Seq(Items) /\ Len(Append(q, wval)) = Unread + 1
      /\ \A i \in 1..Unread : Append(q, wval)[i] = q[i]
      /\ Append(q, wval)[Unread + 1] = wval
  BY <1>2, <1>3, <1>7, AppendProperties
<1>10. \A i \in 1..(Unread + 1) : q'[i] = Append(q, wval)[i]
  <2>1. \A i \in 1..(Unread + 1) : i = Unread + 1 \/ i \in 1..Unread
    BY <1>2
  <2> QED
    BY <1>5, <1>6, <1>9, <2>1
<1> QED
  BY <1>3, <1>8, <1>9, <1>10, SeqEqual

\* Counting a read takes the first item, which is the one copied.
LEMMA GetStep ==
    IInv /\ ReadCount => q # <<>> /\ copy = Head(q) /\ q' = Tail(q)
<1> SUFFICES ASSUME IInv, ReadCount
             PROVE  q # <<>> /\ copy = Head(q) /\ q' = Tail(q)
  OBVIOUS
<1>1. data' = data /\ wr_cnt' = wr_cnt /\ rd_cnt' = rd_cnt + 1
  BY DEF ReadCount
<1>2. Unread \in 1..Limit /\ Unread' = Unread - 1 /\ Limit \in Nat
  BY <1>1, RingAssumption
  DEF ReadCount, Unread, IInv, TypeOK, Counts, Reading
<1>3. q \in Seq(Items) /\ Len(q) = Unread
  BY QueueType
<1>4. copy = q[1]
  BY <1>2 DEF ReadCount, IInv, Content, q
<1>5. base' = Wrap(base) /\ base \in Slots
  BY BaseType, RingAssumption DEF IInv, TypeOK, ReadCount, base, Wrap, Slots
<1>6. \A i \in 1..(Unread - 1) :
          Slot(base', i - 1) = Slot(base, (i - 1) + 1)
  BY <1>2, <1>5, SlotShift
<1>7. \A i \in 1..(Unread - 1) : (i - 1) + 1 = (i + 1) - 1
                                 /\ i + 1 \in 1..Unread
  BY <1>2
<1>8. q' = [i \in 1..(Unread - 1) |-> data[Slot(base', i - 1)]]
  BY <1>1, <1>2 DEF q
<1>9. \A i \in 1..(Unread - 1) : q'[i] = q[i + 1]
  <2> TAKE i \in 1..(Unread - 1)
  <2>1. q'[i] = data[Slot(base', i - 1)]
    BY <1>8
  <2>2. q[i + 1] = data[Slot(base, (i + 1) - 1)]
    BY <1>7 DEF q
  <2> QED
    BY <1>6, <1>7, <2>1, <2>2
<1>10. q # <<>> /\ copy = Head(q)
  BY <1>2, <1>3, <1>4
<1>11. /\ Tail(q) \in Seq(Items) /\ Len(Tail(q)) = Unread - 1
       /\ \A i \in 1..(Unread - 1) : Tail(q)[i] = q[i + 1]
  BY <1>2, <1>3, <1>10, HeadTailProperties
<1>12. q' \in Seq(Items) /\ Len(q') = Unread - 1
  <2>1. \A i \in 1..(Unread - 1) : q'[i] \in Items
    BY <1>3, <1>7, <1>9, ElementOfSeq
  <2>2. q' \in [1..(Unread - 1) -> Items]
    BY <1>8, <2>1
  <2> QED
    BY <1>2, <2>2
<1> QED
  BY <1>9, <1>10, <1>11, <1>12, SeqEqual

\* Every step of the ring is a step of the queue, or none.
LEMMA RefineStep ==
    IInv /\ [Next]_vars => [Queue!Next]_<<q, wres, got>>
<1> SUFFICES ASSUME IInv, [Next]_vars
             PROVE  [Queue!Next]_<<q, wres, got>>
  OBVIOUS
<1>t. q \in Seq(Items) /\ Len(q) = Unread /\ Unread \in 0..Limit
      /\ base \in Slots /\ Limit \in Nat \ {0}
  BY QueueType, BaseType, RingAssumption DEF IInv, TypeOK, Counts, Unread
<1>1. ASSUME NEW v \in Items, WriteCheck(v)
      PROVE  [Queue!Next]_<<q, wres, got>>
  <2>1. q' = q /\ got' = got
    BY <1>1, SameQueue DEF WriteCheck, rvars, base, Unread
  <2>2. CASE Full
    <3>1. Len(q) = Limit /\ wres' = FALSE
      BY <1>1, <1>t, <2>2 DEF WriteCheck, Full
    <3> QED
      BY <2>1, <3>1 DEF Queue!Next, Queue!Refuse
  <2>3. CASE ~Full
    BY <1>1, <2>1, <2>3 DEF WriteCheck
  <2> QED
    BY <2>2, <2>3
<1>2. CASE WriteStore
  <2>1. base' = base /\ Unread' = Unread /\ UNCHANGED <<wres, got>>
        /\ data' = [data EXCEPT ![wr_index] = wval]
    BY <1>2 DEF WriteStore, rvars, base, Unread
  <2>2. wr_index = Slot(base, Unread) /\ Unread < Limit
    BY <1>2 DEF WriteStore, IInv, Position, Counts
  <2>3. \A i \in 1..Unread : i - 1 \in 0..(Unread - 1)
    BY <1>t
  <2>4. \A i \in 0..(Unread - 1) : Slot(base, i) # wr_index
    BY <1>t, <2>2, SlotInjective
  <2>5. \A i \in 0..(Unread - 1) : data'[Slot(base, i)] = data[Slot(base, i)]
    BY <1>t, <2>1, <2>4, SlotType DEF IInv, TypeOK
  <2> QED
    BY <2>1, <2>3, <2>5, SameQueue
<1>3. CASE WriteIndex \/ WriteSignal
  <2>1. q' = q
    BY <1>3, SameQueue DEF WriteIndex, WriteSignal, rvars, base, Unread
  <2> QED
    BY <1>3, <2>1 DEF WriteIndex, WriteSignal, rvars
<1>4. CASE WriteCount
  <2>1. Len(q) < Limit
    BY <1>4, <1>t DEF WriteCount, IInv, Counts
  <2>2. wres' = TRUE /\ got' = got
    BY <1>4 DEF WriteCount, rvars
  <2> QED
    BY <1>4, <2>1, <2>2, PutStep DEF Queue!Next, Queue!Put
<1>5. CASE ReadCount
  BY <1>5, GetStep DEF ReadCount, wvars, Queue!Next, Queue!Get
<1>6. CASE Read /\ ~ReadCount
  <2>1. UNCHANGED <<data, wr_cnt, wres>>
    BY <1>6 DEF Read, ReadPoll, ReadDrain, ReadEmpty, ReadCheck, ReadCopy,
       ReadIndex, wvars
  <2>2. base' = base /\ rd_cnt' = rd_cnt
    BY <1>6, BaseStep
  <2>3. q' = q
    BY <2>1, <2>2, SameQueue DEF Unread
  <2>4. CASE ReadEmpty
    <3>1. Len(q) = 0 /\ got' = None
      BY <1>t, <2>4 DEF ReadEmpty, IInv, TypeOK, Unread
    <3>2. q = <<>>
      BY <1>t, <3>1
    <3> QED
      BY <2>1, <2>3, <3>1, <3>2 DEF Queue!Next, Queue!GetNothing
  <2>5. CASE ~ReadEmpty
    BY <1>6, <2>1, <2>3, <2>5
    DEF Read, ReadPoll, ReadDrain, ReadCheck, ReadCopy, ReadIndex
  <2> QED
    BY <2>4, <2>5
<1>7. CASE UNCHANGED vars
  <2>1. q' = q
    BY <1>7, SameQueue DEF vars, rvars, base, Unread
  <2> QED
    BY <1>7, <2>1 DEF vars, wvars, rvars
<1> QED
  BY <1>1, <1>2, <1>3, <1>4, <1>5, <1>6, <1>7 DEF Next, Write

\* The ring, read and written step by step without a lock, is a bounded FIFO
\* queue: nothing is lost, repeated, reordered, or turned down without need.
THEOREM Refinement == Spec => Implements
<1>1. Init => Queue!Init
  BY DEF Init, Queue!Init, q, Unread
<1> QED
  BY Invariant, <1>1, RefineStep, PTL DEF Spec, Implements, Queue!Spec
=============================================================================
