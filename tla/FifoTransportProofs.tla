---------------------------- MODULE FifoTransportProofs ----------------------------
(***************************************************************************)
(* Proofs about FifoTransport: its types, that what a client writes comes  *)
(* out of its FIFO as it went in, and that it implements MessageChannel.   *)
(***************************************************************************)
EXTENDS FifoTransport, SequenceTheorems, TLAPS

-----------------------------------------------------------------------------
(* Places in a FIFO                                                         *)

LEMMA Times ==
    ASSUME NEW f \in Nat
    PROVE  /\ \A a \in Nat : a * f \in Nat /\ (a + 1) * f = a * f + f
           /\ \A a, b \in Nat : a < b => a * f + f <= b * f
<1>1. \A a \in Nat : a * f \in Nat
  OBVIOUS
<1>2. \A a \in Nat : (a + 1) * f = a * f + f
  OBVIOUS
<1>3. ASSUME NEW a \in Nat, NEW b \in Nat, a < b PROVE a * f + f <= b * f
  <2>1. PICK d \in Nat : b = a + 1 + d
    <3>1. b - a - 1 \in Nat /\ b = a + 1 + (b - a - 1)
      BY <1>3
    <3> QED BY <3>1
  <2>2. b * f = a * f + f + d * f
    BY <2>1
  <2> QED BY <1>1, <2>2
<1> QED BY <1>1, <1>2, <1>3

\* A place in a stream of frames is in the frame in which it is.
LEMMA Frame ==
    ASSUME NEW f \in Nat, NEW a \in Nat, NEW b \in Nat, NEW p \in 1..f,
           a * f < b * f + p, b * f + p <= a * f + f
    PROVE  a = b
<1>1. CASE a < b
  BY <1>1, Times
<1>2. CASE b < a
  BY <1>2, Times
<1> QED BY <1>1, <1>2

-----------------------------------------------------------------------------
(* Types                                                                    *)

\* The invariant that the proofs need: a closed FIFO has lost its client, the size
\* read is that of a body, and a message half-written has a number.
Parsed ==
    /\ \A c \in Clients : wend[c] = "closed" => c \in broken
    /\ rpc = "body" /\ cur \notin broken => sz = BodyLen
    /\ \A c \in Clients : wpc[c] = "body" => begun[c] # 0

IInv == TypeOK /\ Parsed /\ Intact

LEMMA FrameType == FrameLen \in Nat /\ FrameLen >= 2 /\ HdrLen \in 1..FrameLen
                   /\ BodyLen \in 1..FrameLen
  BY TransportAssumption DEF FrameLen

\* What is written.
LEMMA FrameOf ==
    ASSUME NEW m \in 1..MaxMsgs
    PROVE  /\ Hdr(m) \in Seq(Units) /\ Len(Hdr(m)) = HdrLen
           /\ Body(m) \in Seq(Units) /\ Len(Body(m)) = BodyLen
           /\ \A i \in 1..HdrLen : Hdr(m)[i] = [msg |-> m, pos |-> i]
           /\ \A i \in 1..BodyLen : Body(m)[i] = [msg |-> m, pos |-> HdrLen + i]
<1>1. \A i \in 1..HdrLen : [msg |-> m, pos |-> i] \in Units
  BY TransportAssumption DEF Units, FrameLen
<1>2. \A i \in 1..BodyLen : [msg |-> m, pos |-> HdrLen + i] \in Units
  BY TransportAssumption DEF Units, FrameLen
<1>3. HdrLen \in Nat /\ BodyLen \in Nat
  BY TransportAssumption
<1>4. Hdr(m) \in Seq(Units) /\ Len(Hdr(m)) = HdrLen
  BY <1>1, <1>3 DEF Hdr
<1>5. Body(m) \in Seq(Units) /\ Len(Body(m)) = BodyLen
  BY <1>2, <1>3 DEF Body
<1> QED BY <1>4, <1>5 DEF Hdr, Body

\* What is read, and what is left.
LEMMA TakenFrom ==
    ASSUME NEW s \in Seq(Units), NEW n \in Nat
    PROVE  LET k == Shorter(n, Len(s)) IN
           /\ k \in 0..Len(s) /\ k <= n /\ (n <= Len(s) => k = n)
           /\ SubSeq(s, 1, k) \in Seq(Units) /\ Len(SubSeq(s, 1, k)) = k
           /\ \A i \in 1..k : SubSeq(s, 1, k)[i] = s[i]
           /\ SubSeq(s, k + 1, Len(s)) \in Seq(Units)
           /\ Len(SubSeq(s, k + 1, Len(s))) = Len(s) - k
           /\ \A i \in 1..(Len(s) - k) : SubSeq(s, k + 1, Len(s))[i] = s[k + i]
<1> DEFINE k == Shorter(n, Len(s))
<1>1. k \in 0..Len(s) /\ k <= n /\ (n <= Len(s) => k = n) /\ Len(s) \in Nat
  BY DEF Shorter
<1> HIDE DEF k
<1>2. /\ SubSeq(s, 1, k) \in Seq(Units) /\ Len(SubSeq(s, 1, k)) = k
      /\ \A i \in 1..k : SubSeq(s, 1, k)[i] = s[i]
  BY <1>1
<1>3. /\ SubSeq(s, k + 1, Len(s)) \in Seq(Units)
      /\ Len(SubSeq(s, k + 1, Len(s))) = Len(s) - k
  BY <1>1
<1>4. ASSUME NEW i \in 1..(Len(s) - k) PROVE SubSeq(s, k + 1, Len(s))[i] = s[k + i]
  BY <1>1
<1>5. /\ k \in 0..Len(s) /\ k <= n /\ (n <= Len(s) => k = n)
      /\ SubSeq(s, 1, k) \in Seq(Units) /\ Len(SubSeq(s, 1, k)) = k
      /\ \A i \in 1..k : SubSeq(s, 1, k)[i] = s[i]
      /\ SubSeq(s, k + 1, Len(s)) \in Seq(Units)
      /\ Len(SubSeq(s, k + 1, Len(s))) = Len(s) - k
      /\ \A i \in 1..(Len(s) - k) : SubSeq(s, k + 1, Len(s))[i] = s[k + i]
  BY <1>1, <1>2, <1>3, <1>4
<1> QED BY <1>5 DEF k

LEMMA InitInv == Init => IInv
<1> SUFFICES ASSUME Init PROVE IInv
  OBVIOUS
<1>1. TypeOK
  <2>1. 1 \in Clients /\ 0 \in 0..MaxMsgs /\ 0 \in 0..MaxExits /\ 0 \in 0..PipeCap
    BY TransportAssumption DEF Clients
  <2>2. <<>> \in Seq(Units) /\ <<>> \in Seq(1..MaxMsgs) /\ <<>> \in Seq(0..MaxMsgs)
        /\ Len(<<>>) <= PipeCap
    BY TransportAssumption
  <2> QED BY <2>1, <2>2 DEF Init, TypeOK
<1>2. Parsed
  BY DEF Init, Parsed
<1>3. Intact
  <2> SUFFICES ASSUME NEW c \in Clients
               PROVE  /\ Len(got[c]) <= Len(sent[c]) /\ Len(got[c]) = 0
                      /\ Len(fifo[c]) = 0 /\ InHand(c) = 0 /\ Unread(c) * FrameLen = 0
                      /\ wpc[c] # "body"
    BY DEF Intact, Whole, Laid, InPart
  <2>1. got[c] = <<>> /\ sent[c] = <<>> /\ fifo[c] = <<>> /\ rpc = "out" /\ wpc[c] = "idle"
    BY DEF Init
  <2>2. Unread(c) = 0 /\ InHand(c) = 0
    BY <2>1 DEF Unread, InHand
  <2> QED BY <2>1, <2>2, FrameType
<1> QED BY <1>1, <1>2, <1>3 DEF IInv

\* What is in the FIFO after a write that succeeds.
LEMMA Written ==
    ASSUME NEW s \in Seq(Units), NEW t \in Seq(Units), Len(s) + Len(t) <= PipeCap
    PROVE  /\ s \o t \in Seq(Units) /\ Len(s \o t) = Len(s) + Len(t)
           /\ Len(s \o t) <= PipeCap /\ Len(s) \in Nat /\ Len(t) \in Nat
           /\ \A i \in 1..Len(s) : (s \o t)[i] = s[i]
           /\ \A i \in 1..Len(t) : (s \o t)[Len(s) + i] = t[i]
  OBVIOUS

LEMMA NextType == TypeOK /\ Parsed /\ [Next]_vars => TypeOK'
<1> SUFFICES ASSUME TypeOK, Parsed, [Next]_vars PROVE TypeOK'
  OBVIOUS
<1> USE DEF wvars, rvars
<1>1. ASSUME NEW c \in Clients, Open(c) PROVE TypeOK'
  BY <1>1 DEF TypeOK, Parsed, Open
<1>2. ASSUME NEW c \in Clients, WriteSize(c) PROVE TypeOK'
  <2>1. begun' = [begun EXCEPT ![c] = begun[c] + 1] /\ begun[c] + 1 \in 1..MaxMsgs
        /\ begun' \in [Clients -> 0..MaxMsgs] /\ begun'[c] = begun[c] + 1
    <3>1. begun[c] \in Nat /\ begun[c] < MaxMsgs /\ MaxMsgs \in Nat
          /\ begun' = [begun EXCEPT ![c] = begun[c] + 1] /\ begun \in [Clients -> 0..MaxMsgs]
      BY <1>2, TransportAssumption DEF TypeOK, WriteSize
    <3>2. begun[c] + 1 \in 1..MaxMsgs /\ begun[c] + 1 \in 0..MaxMsgs
      BY <3>1
    <3> QED BY <3>1, <3>2
  <2>2. CASE Room(c, HdrLen)
    <3>1. /\ fifo[c] \in Seq(Units) /\ Hdr(begun'[c]) \in Seq(Units)
          /\ Len(Hdr(begun'[c])) = HdrLen /\ Len(fifo[c]) + HdrLen <= PipeCap
      BY <2>1, <2>2, FrameOf DEF TypeOK, Room
    <3>2. /\ fifo[c] \o Hdr(begun'[c]) \in Seq(Units)
          /\ Len(fifo[c] \o Hdr(begun'[c])) <= PipeCap
      BY <3>1, Written
    <3>3. /\ fifo' = [fifo EXCEPT ![c] = fifo[c] \o Hdr(begun'[c])]
          /\ wpc' = [wpc EXCEPT ![c] = "body"]
      BY <1>2, <2>2 DEF WriteSize
    <3>4. fifo' \in [Clients -> Seq(Units)] /\ \A d \in Clients : Len(fifo'[d]) <= PipeCap
      BY <3>2, <3>3 DEF TypeOK
    <3> QED BY <1>2, <2>1, <3>3, <3>4 DEF TypeOK, WriteSize
  <2>3. CASE ~Room(c, HdrLen)
    BY <1>2, <2>1, <2>3 DEF TypeOK, WriteSize
  <2> QED BY <2>2, <2>3
<1>3. ASSUME NEW c \in Clients, WriteBody(c) PROVE TypeOK'
  <2>1. begun[c] \in 1..MaxMsgs
    BY <1>3, TransportAssumption DEF TypeOK, Parsed, WriteBody
  <2>2. CASE Room(c, BodyLen)
    <3>1. /\ fifo[c] \in Seq(Units) /\ Body(begun[c]) \in Seq(Units)
          /\ Len(Body(begun[c])) = BodyLen /\ Len(fifo[c]) + BodyLen <= PipeCap
      BY <2>1, <2>2, FrameOf DEF TypeOK, Room
    <3>2. /\ fifo[c] \o Body(begun[c]) \in Seq(Units)
          /\ Len(fifo[c] \o Body(begun[c])) <= PipeCap
      BY <3>1, Written
    <3>3. /\ fifo' = [fifo EXCEPT ![c] = fifo[c] \o Body(begun[c])]
          /\ sent' = [sent EXCEPT ![c] = Append(sent[c], begun[c])] /\ broken' = broken
      BY <1>3, <2>2 DEF WriteBody
    <3>4. fifo' \in [Clients -> Seq(Units)] /\ \A d \in Clients : Len(fifo'[d]) <= PipeCap
      BY <3>2, <3>3 DEF TypeOK
    <3>5. sent' \in [Clients -> Seq(1..MaxMsgs)]
      BY <2>1, <3>3 DEF TypeOK
    <3> QED BY <1>3, <3>3, <3>4, <3>5 DEF TypeOK, WriteBody
  <2>3. CASE ~Room(c, BodyLen)
    BY <1>3, <2>3 DEF TypeOK, WriteBody
  <2> QED BY <2>2, <2>3
<1>4. ASSUME NEW c \in Clients, Exit(c) PROVE TypeOK'
  BY <1>4, TransportAssumption DEF TypeOK, Exit
<1>5. CASE ReadCall \/ ReadCached \/ ReadPoll \/ UNCHANGED vars
  BY <1>5 DEF TypeOK, ReadCall, ReadCached, ReadPoll, readable, vars
<1>6. ASSUME NEW n \in Nat, Take(n)
      PROVE  /\ fifo' \in [Clients -> Seq(Units)]
             /\ \A d \in Clients : Len(fifo'[d]) <= PipeCap
             /\ Taken(n) \in Seq(Units)
  <2> DEFINE s == fifo[cur]
             rest == SubSeq(s, Shorter(n, Len(s)) + 1, Len(s))
             some == SubSeq(s, 1, Shorter(n, Len(s)))
  <2>1. /\ fifo' = [fifo EXCEPT ![cur] = rest] /\ Taken(n) = some
        /\ s \in Seq(Units) /\ Len(s) <= PipeCap
    BY <1>6 DEF Take, Taken, TypeOK
  <2> HIDE DEF s
  <2>2. /\ rest \in Seq(Units) /\ Len(rest) = Len(s) - Shorter(n, Len(s))
        /\ some \in Seq(Units) /\ Shorter(n, Len(s)) \in 0..Len(s)
    BY <2>1, TakenFrom
  <2> HIDE DEF rest, some
  <2>3. Len(rest) <= PipeCap
    BY <2>1, <2>2, TransportAssumption
  <2> QED BY <2>1, <2>2, <2>3 DEF TypeOK
<1>7. CASE SizeFails \/ BodyFails
  BY <1>7 DEF TypeOK, SizeFails, BodyFails, ReadFails
<1>8. CASE ReadSize
  <2>1. /\ fifo' \in [Clients -> Seq(Units)]
        /\ \A d \in Clients : Len(fifo'[d]) <= PipeCap
    BY <1>6, <1>8, TransportAssumption DEF ReadSize
  <2>2. CASE ReadFails
    BY <2>1, <2>2 DEF TypeOK, ReadFails
  <2>3. CASE sz' \in 0..PipeCap /\ rpc' = "body" /\ UNCHANGED <<wvars, ready, cur, got, broken>>
    BY <2>1, <2>3 DEF TypeOK
  <2> QED BY <1>8, <2>2, <2>3 DEF ReadSize
<1>9. CASE ReadBody
  <2>1. sz \in Nat /\ Take(sz)
    BY <1>9, TransportAssumption DEF ReadBody, TypeOK
  <2>2. /\ fifo' \in [Clients -> Seq(Units)]
        /\ \A d \in Clients : Len(fifo'[d]) <= PipeCap
        /\ Taken(sz) \in Seq(Units)
    BY <1>6, <2>1
  <2> DEFINE m == IF Taken(sz) # <<>> /\ Taken(sz) = Body(Taken(sz)[1].msg)
                  THEN Taken(sz)[1].msg ELSE Garbage
  <2>3. m \in 0..MaxMsgs
    <3>1. CASE Taken(sz) # <<>>
      <4>1. Taken(sz)[1] \in Units
        BY <2>2, <3>1
      <4> QED BY <4>1, TransportAssumption DEF Units, Garbage
    <3>2. CASE Taken(sz) = <<>>
      BY <3>2, TransportAssumption DEF Garbage
    <3> QED BY <3>1, <3>2
  <2>4. got' = got \/ got' = [got EXCEPT ![cur] = Append(got[cur], m)]
    BY <1>9 DEF ReadBody
  <2> HIDE DEF m
  <2>5. got' \in [Clients -> Seq(0..MaxMsgs)]
    <3>1. got \in [Clients -> Seq(0..MaxMsgs)] /\ cur \in Clients
      BY DEF TypeOK
    <3>2. Append(got[cur], m) \in Seq(0..MaxMsgs)
      BY <2>3, <3>1
    <3> QED BY <2>4, <3>1, <3>2
  <2> QED BY <1>9, <2>2, <2>5 DEF TypeOK, ReadBody
<1> QED BY <1>1, <1>2, <1>3, <1>4, <1>5, <1>7, <1>8, <1>9 DEF Next, Writer, Reader

-----------------------------------------------------------------------------
(* What a FIFO holds                                                        *)

\* The size of a message is added.
LEMMA HdrLaid ==
    ASSUME NEW s \in Seq(Units), NEW a, NEW b, NEW u \in Nat, NEW h \in Nat,
           NEW m \in 1..MaxMsgs, Len(s) + HdrLen <= PipeCap,
           Laid(s, a, u, h, 0), b[u + 1] = m, \A k \in 1..u : b[k] = a[k]
    PROVE  Laid(s \o Hdr(m), b, u, h, HdrLen)
<1>1. /\ Hdr(m) \in Seq(Units) /\ Len(Hdr(m)) = HdrLen
      /\ \A j \in 1..HdrLen : Hdr(m)[j] = [msg |-> m, pos |-> j]
  BY FrameOf
<1> DEFINE w == s \o Hdr(m)
<1>2. /\ Len(w) = Len(s) + HdrLen /\ Len(s) \in Nat
      /\ \A i \in 1..Len(s) : w[i] = s[i]
      /\ \A j \in 1..HdrLen : w[Len(s) + j] = [msg |-> m, pos |-> j]
  BY <1>1, Written
<1> HIDE DEF w
<1> DEFINE x == u * FrameLen
<1>3. x \in Nat /\ Len(s) + h = x /\ FrameLen \in Nat /\ HdrLen \in 1..FrameLen
  BY <1>2, FrameType, Times DEF Laid
<1> HIDE DEF x
<1>4. ASSUME NEW i \in 1..Len(w), NEW k \in 1..(u + 1), NEW p \in 1..FrameLen,
             i + h = (k - 1) * FrameLen + p
      PROVE  w[i] = [msg |-> b[k], pos |-> p]
  <2>0. k - 1 \in Nat /\ (k - 1) * FrameLen \in Nat
    BY <1>3, Times
  <2>1. PICK y \in Nat : y = (k - 1) * FrameLen /\ k - 1 \in Nat
    BY <2>0
  <2>6. i + h = y + p
    BY <1>4, <2>1
  <2>2. CASE i <= Len(s)
    <3>1. k # u + 1
      <4> SUFFICES ASSUME k = u + 1 PROVE FALSE
        OBVIOUS
      <4>1. y = x
        BY <2>1 DEF x
      <4> QED BY <1>2, <1>3, <2>2, <2>6, <4>1
    <3>2. k \in 1..u /\ i \in 1..Len(s)
      BY <1>2, <2>2, <3>1
    <3>3. s[i] = [msg |-> a[k], pos |-> p]
      BY <1>4, <3>2 DEF Laid
    <3> QED BY <1>2, <3>2, <3>3
  <2>3. CASE ~(i <= Len(s))
    <3>1. PICK j \in 1..HdrLen : i = Len(s) + j
      <4>1. i - Len(s) \in 1..HdrLen /\ i = Len(s) + (i - Len(s))
        BY <1>2, <1>3, <2>3
      <4> QED BY <4>1
    <3>2. x < y + p /\ y + p <= x + FrameLen
      BY <1>2, <1>3, <2>6, <3>1
    <3>3. u = k - 1
      <4>1. u * FrameLen < (k - 1) * FrameLen + p
        BY <2>1, <3>2 DEF x
      <4>2. (k - 1) * FrameLen + p <= u * FrameLen + FrameLen
        BY <2>1, <3>2 DEF x
      <4> QED BY <1>3, <2>1, <4>1, <4>2, Frame
    <3>4. y = x
      BY <2>1, <3>3 DEF x
    <3>5. p = j
      BY <1>2, <1>3, <2>6, <3>1, <3>4
    <3>6. k = u + 1
      BY <3>3
    <3> QED BY <1>2, <3>1, <3>5, <3>6
  <2> QED BY <2>2, <2>3
<1>5. Len(w) + h = x + HdrLen
  BY <1>2, <1>3
<1> QED BY <1>4, <1>5 DEF Laid, w, x

\* Which message comes after them does not matter.
LEMMA NextLaid ==
    ASSUME NEW s \in Seq(Units), NEW a, NEW b, NEW u \in Nat, NEW h \in Nat,
           Laid(s, a, u, h, 0), \A k \in 1..u : b[k] = a[k]
    PROVE  Laid(s, b, u, h, 0)
<1>1. /\ u * FrameLen \in Nat /\ Len(s) + h = u * FrameLen /\ Len(s) \in Nat
      /\ FrameLen \in Nat
  BY FrameType, Times DEF Laid
<1>2. ASSUME NEW i \in 1..Len(s), NEW k \in 1..(u + 1), NEW p \in 1..FrameLen,
             i + h = (k - 1) * FrameLen + p
      PROVE  s[i] = [msg |-> b[k], pos |-> p]
  <2>1. k # u + 1
    <3> SUFFICES ASSUME k = u + 1 PROVE FALSE
      OBVIOUS
    <3>1. (k - 1) * FrameLen = u * FrameLen
      OBVIOUS
    <3> QED BY <1>1, <1>2, <3>1
  <2>2. k \in 1..u
    BY <2>1
  <2>3. s[i] = [msg |-> a[k], pos |-> p]
    BY <1>2 DEF Laid
  <2> QED BY <2>2, <2>3
<1> QED BY <1>2 DEF Laid

\* The body is added.
LEMMA BodyLaid ==
    ASSUME NEW s \in Seq(Units), NEW a, NEW b, NEW u \in Nat, NEW h \in Nat,
           NEW m \in 1..MaxMsgs, Len(s) + BodyLen <= PipeCap,
           Laid(s, a, u, h, HdrLen), a[u + 1] = m, \A k \in 1..(u + 1) : b[k] = a[k]
    PROVE  Laid(s \o Body(m), b, u + 1, h, 0)
<1>1. /\ Body(m) \in Seq(Units) /\ Len(Body(m)) = BodyLen
      /\ \A j \in 1..BodyLen : Body(m)[j] = [msg |-> m, pos |-> HdrLen + j]
  BY FrameOf
<1> DEFINE w == s \o Body(m)
<1>8. /\ Len(w) = Len(s) + Len(Body(m)) /\ Len(s) \in Nat
      /\ \A i \in 1..Len(s) : w[i] = s[i]
      /\ \A j \in 1..Len(Body(m)) : w[Len(s) + j] = Body(m)[j]
  BY <1>1, Written
<1>2. /\ Len(w) = Len(s) + BodyLen /\ Len(s) \in Nat
      /\ \A i \in 1..Len(s) : w[i] = s[i]
      /\ \A j \in 1..BodyLen : w[Len(s) + j] = [msg |-> m, pos |-> HdrLen + j]
  <2> HIDE DEF w
  <2> QED BY <1>1, <1>8
<1> HIDE DEF w
<1> DEFINE x == u * FrameLen
<1>3. /\ x \in Nat /\ Len(s) + h = x + HdrLen
      /\ FrameLen \in Nat /\ HdrLen \in 1..FrameLen /\ FrameLen = HdrLen + BodyLen
      /\ BodyLen \in Nat
  <2>1. FrameLen \in Nat /\ HdrLen \in 1..FrameLen /\ BodyLen \in 1..FrameLen
    BY FrameType
  <2> QED BY <2>1, Times DEF Laid, FrameLen
<1>7. (u + 1) * FrameLen = x + FrameLen
  BY <1>3, Times DEF x
<1> HIDE DEF x
<1>4. ASSUME NEW i \in 1..Len(w), NEW k \in 1..(u + 2), NEW p \in 1..FrameLen,
             i + h = (k - 1) * FrameLen + p
      PROVE  w[i] = [msg |-> b[k], pos |-> p]
  <2>0. k - 1 \in Nat /\ (k - 1) * FrameLen \in Nat
    BY <1>3, Times
  <2>1. PICK y \in Nat : y = (k - 1) * FrameLen /\ k - 1 \in Nat
    BY <2>0
  <2>6. i + h = y + p
    BY <1>4, <2>1
  <2>2. k # u + 2
    <3> SUFFICES ASSUME k = u + 2 PROVE FALSE
      OBVIOUS
    <3>1. k - 1 = u + 1
      OBVIOUS
    <3>2. y = x + FrameLen
      BY <1>7, <2>1, <3>1
    <3> QED BY <1>2, <1>3, <2>6, <3>2
  <2>3. k \in 1..(u + 1)
    BY <2>2
  <2>4. CASE i <= Len(s)
    <3>1. i \in 1..Len(s)
      BY <1>2, <2>4
    <3>2. s[i] = [msg |-> a[k], pos |-> p]
      BY <1>4, <2>3, <3>1 DEF Laid
    <3> QED BY <1>2, <2>3, <3>1, <3>2
  <2>5. CASE ~(i <= Len(s))
    <3>1. PICK j \in 1..BodyLen : i = Len(s) + j
      <4>1. i - Len(s) \in 1..BodyLen /\ i = Len(s) + (i - Len(s))
        BY <1>2, <1>3, <2>5
      <4> QED BY <4>1
    <3>2. x < y + p /\ y + p <= x + FrameLen
      BY <1>2, <1>3, <2>6, <3>1
    <3>3. u = k - 1
      <4>1. u * FrameLen < (k - 1) * FrameLen + p
        BY <2>1, <3>2 DEF x
      <4>2. (k - 1) * FrameLen + p <= u * FrameLen + FrameLen
        BY <2>1, <3>2 DEF x
      <4> QED BY <1>3, <2>1, <4>1, <4>2, Frame
    <3>4. y = x
      BY <2>1, <3>3 DEF x
    <3>5. p = HdrLen + j
      BY <1>2, <1>3, <2>6, <3>1, <3>4
    <3>6. k = u + 1
      BY <3>3
    <3> QED BY <1>2, <2>3, <3>1, <3>5, <3>6
  <2> QED BY <2>4, <2>5
<1>5. Len(w) + h = (u + 1) * FrameLen + 0
  <2>1. Len(w) + h = x + FrameLen
    BY <1>2, <1>3
  <2> QED BY <1>3, <1>7, <2>1
<1>6. (u + 1) + 1 = u + 2
  OBVIOUS
<1> QED BY <1>4, <1>5, <1>6 DEF Laid, w

\* A FIFO that is not empty, of which nothing is in hand, begins with the size of
\* the first message.
LEMMA Headed ==
    ASSUME NEW s \in Seq(Units), NEW a, NEW u \in Nat, NEW t \in {0, HdrLen},
           Laid(s, a, u, 0, t), s # <<>>
    PROVE  /\ HdrLen <= Len(s)
           /\ \A i \in 1..HdrLen : s[i] = [msg |-> a[1], pos |-> i]
<1>1. /\ Len(s) \in Nat /\ Len(s) # 0 /\ Len(s) = u * FrameLen + t
      /\ FrameLen \in Nat /\ HdrLen \in 1..FrameLen /\ u * FrameLen \in Nat
      /\ HdrLen \in Nat
  BY FrameType, Times DEF Laid
<1>2. HdrLen <= Len(s)
  <2>1. CASE u = 0
    <3>1. u * FrameLen = 0
      BY <1>1, <2>1
    <3> QED BY <1>1, <3>1
  <2>2. CASE 0 < u
    <3>1. 0 * FrameLen + FrameLen <= u * FrameLen /\ 0 * FrameLen = 0
      BY <1>1, <2>2, Times
    <3> QED BY <1>1, <3>1
  <2> QED BY <2>1, <2>2
<1>3. ASSUME NEW i \in 1..HdrLen PROVE s[i] = [msg |-> a[1], pos |-> i]
  <2>1. i \in 1..Len(s) /\ i \in 1..FrameLen /\ 1 \in 1..(u + 1)
    BY <1>1, <1>2
  <2>2. i + 0 = (1 - 1) * FrameLen + i
    BY <1>1
  <2> QED BY <2>1, <2>2 DEF Laid
<1> QED BY <1>2, <1>3

\* It is taken out.
LEMMA HdrTaken ==
    ASSUME NEW s \in Seq(Units), NEW r \in Seq(Units), NEW a, NEW u \in Nat,
           NEW t \in {0, HdrLen}, Laid(s, a, u, 0, t), HdrLen <= Len(s),
           Len(r) = Len(s) - HdrLen,
           \A i \in 1..(Len(s) - HdrLen) : r[i] = s[HdrLen + i]
    PROVE  Laid(r, a, u, HdrLen, t)
<1>1. /\ Len(s) \in Nat /\ Len(s) = u * FrameLen + t
      /\ FrameLen \in Nat /\ HdrLen \in 1..FrameLen /\ u * FrameLen \in Nat
      /\ HdrLen \in Nat
  BY FrameType, Times DEF Laid
<1>4. ASSUME NEW i \in 1..Len(r), NEW k \in 1..(u + 1), NEW p \in 1..FrameLen,
             i + HdrLen = (k - 1) * FrameLen + p
      PROVE  r[i] = [msg |-> a[k], pos |-> p]
  <2>1. HdrLen + i \in 1..Len(s) /\ i \in 1..(Len(s) - HdrLen)
    BY <1>1
  <2>2. (HdrLen + i) + 0 = (k - 1) * FrameLen + p
    BY <1>1, <1>4
  <2>3. s[HdrLen + i] = [msg |-> a[k], pos |-> p]
    BY <2>1, <2>2 DEF Laid
  <2> QED BY <2>1, <2>3
<1>5. Len(r) + HdrLen = u * FrameLen + t
  BY <1>1
<1> QED BY <1>4, <1>5 DEF Laid

\* A FIFO that is not empty, of which a size is in hand, begins with the body of
\* the first message.
LEMMA Bodied ==
    ASSUME NEW s \in Seq(Units), NEW a, NEW u \in Nat, NEW t \in {0, HdrLen},
           Laid(s, a, u, HdrLen, t), s # <<>>
    PROVE  /\ u # 0 /\ BodyLen <= Len(s)
           /\ \A i \in 1..BodyLen : s[i] = [msg |-> a[1], pos |-> HdrLen + i]
<1>1. /\ Len(s) \in Nat /\ Len(s) # 0 /\ Len(s) + HdrLen = u * FrameLen + t
      /\ FrameLen \in Nat /\ HdrLen \in Nat /\ BodyLen \in Nat /\ t \in Nat /\ t <= HdrLen
      /\ FrameLen = HdrLen + BodyLen /\ u * FrameLen \in Nat
  <2>1. HdrLen \in Nat /\ BodyLen \in Nat
    BY FrameType
  <2> QED BY <2>1, FrameType, Times DEF Laid, FrameLen
<1>2. u # 0
  <2> SUFFICES ASSUME u = 0 PROVE FALSE
    OBVIOUS
  <2>1. u * FrameLen = 0
    BY <1>1
  <2> QED BY <1>1, <2>1
<1>3. BodyLen <= Len(s)
  <2>1. 0 * FrameLen + FrameLen <= u * FrameLen /\ 0 * FrameLen = 0
    BY <1>1, <1>2, Times
  <2> QED BY <1>1, <2>1
<1>4. ASSUME NEW i \in 1..BodyLen PROVE s[i] = [msg |-> a[1], pos |-> HdrLen + i]
  <2>1. i \in 1..Len(s) /\ HdrLen + i \in 1..FrameLen /\ 1 \in 1..(u + 1)
    BY <1>1, <1>3
  <2>2. i + HdrLen = (1 - 1) * FrameLen + (HdrLen + i)
    BY <1>1
  <2> QED BY <2>1, <2>2 DEF Laid
<1> QED BY <1>2, <1>3, <1>4

\* It is taken out.
LEMMA BodyTaken ==
    ASSUME NEW s \in Seq(Units), NEW r \in Seq(Units), NEW a, NEW b, NEW u \in Nat,
           NEW t \in {0, HdrLen}, Laid(s, a, u, HdrLen, t), u # 0, BodyLen <= Len(s),
           Len(r) = Len(s) - BodyLen,
           \A i \in 1..(Len(s) - BodyLen) : r[i] = s[BodyLen + i],
           \A k \in 1..u : b[k] = a[k + 1]
    PROVE  Laid(r, b, u - 1, 0, t)
<1>1. /\ Len(s) \in Nat /\ Len(s) + HdrLen = u * FrameLen + t
      /\ FrameLen \in Nat /\ HdrLen \in Nat /\ BodyLen \in Nat /\ t \in Nat
      /\ FrameLen = HdrLen + BodyLen /\ u * FrameLen \in Nat
  <2>1. HdrLen \in Nat /\ BodyLen \in Nat
    BY FrameType
  <2> QED BY <2>1, FrameType, Times DEF Laid, FrameLen
<1>3. PICK v \in Nat : u = v + 1
  <2>1. u - 1 \in Nat /\ u = (u - 1) + 1
    OBVIOUS
  <2> QED BY <2>1
<1>4. v * FrameLen \in Nat /\ u * FrameLen = v * FrameLen + FrameLen
  BY <1>1, <1>3, Times
<1>5. Len(r) + 0 = v * FrameLen + t
  <2>1. PICK x \in Nat : x = v * FrameLen
    BY <1>4
  <2>2. Len(s) + HdrLen = x + FrameLen + t
    BY <1>1, <1>4, <2>1
  <2>4. Len(s) \in Nat /\ HdrLen \in Nat /\ BodyLen \in Nat /\ t \in Nat
        /\ FrameLen = HdrLen + BodyLen
    BY <1>1
  <2>5. Len(s) + HdrLen = x + (HdrLen + BodyLen) + t
    BY <2>2, <2>4
  <2>6. (Len(s) - BodyLen) + 0 = x + t
    <3>1. PICK n \in Nat, h \in Nat, e \in Nat, y \in Nat :
             n = Len(s) /\ h = HdrLen /\ e = BodyLen /\ y = t
      BY <2>4
    <3>2. n + h = x + (h + e) + y
      BY <2>5, <3>1
    <3>3. (n - e) + 0 = x + y
      BY <3>2
    <3> QED BY <3>1, <3>3
  <2>3. Len(r) + 0 = x + t
    BY <2>6
  <2> QED BY <2>1, <2>3
<1>7. ASSUME NEW i \in 1..Len(r), NEW k \in 1..(v + 1), NEW p \in 1..FrameLen,
             i + 0 = (k - 1) * FrameLen + p
      PROVE  r[i] = [msg |-> b[k], pos |-> p]
  <2>1. BodyLen + i \in 1..Len(s) /\ i \in 1..(Len(s) - BodyLen)
    <3>1. Len(s) \in Nat /\ BodyLen \in Nat
      BY <1>1
    <3> QED BY <3>1
  <2>2. k \in 1..u /\ k + 1 \in 1..(u + 1) /\ k - 1 \in Nat /\ (k + 1) - 1 = (k - 1) + 1
    BY <1>3
  <2>3. /\ (k - 1) * FrameLen \in Nat
        /\ ((k + 1) - 1) * FrameLen = (k - 1) * FrameLen + FrameLen
    BY <1>1, <2>2, Times
  <2>4. (BodyLen + i) + HdrLen = ((k + 1) - 1) * FrameLen + p
    BY <1>1, <1>7, <2>3
  <2>5. s[BodyLen + i] = [msg |-> a[k + 1], pos |-> p]
    BY <2>1, <2>2, <2>4 DEF Laid
  <2> QED BY <2>1, <2>2, <2>5
<1>8. u - 1 = v
  BY <1>3
<1>9. Laid(r, b, v, 0, t)
  BY <1>5, <1>7 DEF Laid
<1> QED BY <1>8, <1>9

-----------------------------------------------------------------------------
(* The writer                                                               *)

\* What Whole says, as the lemmas above take it.
LEMMA WholeIs ==
    ASSUME NEW c \in Clients
    PROVE  Whole(c) <=>
             /\ Len(got[c]) <= Len(sent[c])
             /\ \A i \in 1..Len(got[c]) : got[c][i] = sent[c][i]
             /\ Laid(fifo[c], Pending(c), Unread(c), InHand(c), InPart(c))
  BY DEF Whole

LEMMA WholeNext ==
    ASSUME NEW c \in Clients
    PROVE  Whole(c)' <=>
             /\ Len(got'[c]) <= Len(sent'[c])
             /\ \A i \in 1..Len(got'[c]) : got'[c][i] = sent'[c][i]
             /\ Laid(fifo'[c], Pending(c)', Unread(c)', InHand(c)', InPart(c)')
  BY DEF Whole, Laid, FrameLen

\* A step that has nothing to do with client c.
LEMMA WholeKept ==
    ASSUME NEW c \in Clients, Whole(c), fifo'[c] = fifo[c], got'[c] = got[c],
           sent'[c] = sent[c], wpc'[c] = wpc[c], begun'[c] = begun[c],
           InHand(c)' = InHand(c)
    PROVE  Whole(c)'
<1>1. Unread(c)' = Unread(c) /\ Pending(c)' = Pending(c) /\ InPart(c)' = InPart(c)
  BY DEF Unread, Pending, InPart
<1> QED BY <1>1, WholeIs, WholeNext

\* What the invariant says of the lengths.
LEMMA Lengths ==
    ASSUME TypeOK, NEW c \in Clients, Whole(c)
    PROVE  /\ Unread(c) \in Nat /\ InHand(c) \in Nat
           /\ Len(sent[c]) \in Nat /\ Len(got[c]) \in Nat
           /\ Len(sent[c]) = Len(got[c]) + Unread(c)
           /\ fifo[c] \in Seq(Units) /\ Len(fifo[c]) <= PipeCap
<1>1. Len(sent[c]) \in Nat /\ Len(got[c]) \in Nat
  BY DEF TypeOK
<1>2. Unread(c) \in Nat /\ Len(sent[c]) = Len(got[c]) + Unread(c)
  BY <1>1 DEF Whole, Unread
<1>3. InHand(c) \in Nat
  BY TransportAssumption DEF InHand
<1> QED BY <1>1, <1>2, <1>3 DEF TypeOK

LEMMA SizeWritten ==
    ASSUME TypeOK, NEW c \in Clients, Whole(c), WriteSize(c)
    PROVE  Whole(c)'
<1>1. /\ begun[c] + 1 \in 1..MaxMsgs /\ begun'[c] = begun[c] + 1 /\ wpc[c] = "idle"
      /\ UNCHANGED <<got, sent, rpc, cur>>
  BY TransportAssumption DEF WriteSize, TypeOK, rvars
<1>2. /\ Unread(c)' = Unread(c) /\ InHand(c)' = InHand(c) /\ InPart(c) = 0
      /\ Pending(c)'[Unread(c) + 1] = begun'[c]
      /\ \A k \in 1..Unread(c) : Pending(c)'[k] = Pending(c)[k]
  <2>1. Unread(c)' = Unread(c) /\ InHand(c)' = InHand(c) /\ InPart(c) = 0
    BY <1>1 DEF Unread, InHand, InPart
  <2> QED BY <1>1, <2>1, Lengths DEF Pending
<1>3. Laid(fifo[c], Pending(c), Unread(c), InHand(c), 0)
  BY <1>2, WholeIs
<1>4. CASE Room(c, HdrLen)
  <2>1. /\ fifo'[c] = fifo[c] \o Hdr(begun'[c]) /\ wpc'[c] = "body"
        /\ Len(fifo[c]) + HdrLen <= PipeCap
    BY <1>4 DEF WriteSize, TypeOK, Room
  <2>2. InPart(c)' = HdrLen
    BY <2>1 DEF InPart
  <2>3. Laid(fifo'[c], Pending(c)', Unread(c), InHand(c), HdrLen)
    <3>1. /\ fifo[c] \in Seq(Units) /\ Unread(c) \in Nat /\ InHand(c) \in Nat
          /\ begun'[c] \in 1..MaxMsgs
      BY <1>1, Lengths
    <3>2. Laid(fifo[c] \o Hdr(begun'[c]), Pending(c)', Unread(c), InHand(c), HdrLen)
      BY <1>2, <1>3, <2>1, <3>1, HdrLaid
    <3> QED BY <2>1, <3>2
  <2> QED BY <1>1, <1>2, <2>2, <2>3, WholeIs, WholeNext
<1>5. CASE ~Room(c, HdrLen)
  <2>1. fifo'[c] = fifo[c] /\ wpc'[c] = "idle"
    BY <1>1, <1>5 DEF WriteSize
  <2>2. InPart(c)' = 0
    BY <2>1 DEF InPart
  <2>3. Laid(fifo'[c], Pending(c)', Unread(c), InHand(c), 0)
    BY <1>2, <1>3, <2>1, Lengths, NextLaid
  <2> QED BY <1>1, <1>2, <2>2, <2>3, WholeIs, WholeNext
<1> QED BY <1>4, <1>5

LEMMA BodyWritten ==
    ASSUME TypeOK, Parsed, NEW c \in Clients, Whole(c), WriteBody(c), c \notin broken'
    PROVE  Whole(c)'
<1>1. /\ begun[c] \in 1..MaxMsgs /\ wpc[c] = "body" /\ wpc'[c] = "idle"
      /\ UNCHANGED <<got, begun, rpc, cur>>
  BY TransportAssumption DEF WriteBody, TypeOK, Parsed, rvars
<1>2. /\ Room(c, BodyLen) /\ fifo'[c] = fifo[c] \o Body(begun[c])
      /\ sent'[c] = Append(sent[c], begun[c])
  BY DEF WriteBody, TypeOK
<1>3. /\ Unread(c) \in Nat /\ Len(sent[c]) \in Nat /\ Len(got[c]) \in Nat
      /\ Len(sent[c]) = Len(got[c]) + Unread(c)
  BY Lengths
<1>4. /\ Len(sent'[c]) = Len(sent[c]) + 1 /\ sent'[c][Len(sent[c]) + 1] = begun[c]
      /\ \A i \in 1..Len(sent[c]) : sent'[c][i] = sent[c][i]
  BY <1>2 DEF TypeOK
<1>5. /\ Unread(c)' = Unread(c) + 1 /\ InHand(c)' = InHand(c)
      /\ InPart(c) = HdrLen /\ InPart(c)' = 0
  BY <1>1, <1>3, <1>4 DEF Unread, InHand, InPart
<1>6. Pending(c)[Unread(c) + 1] = begun[c]
  BY <1>3 DEF Pending
<1>7. ASSUME NEW k \in 1..(Unread(c) + 1) PROVE Pending(c)'[k] = Pending(c)[k]
  <2>1. /\ k \in 1..(Unread(c)' + 1) /\ k <= Unread(c)' /\ UNCHANGED got
    BY <1>1, <1>3, <1>5
  <2>2. Pending(c)'[k] = sent'[c][Len(got[c]) + k]
    BY <2>1 DEF Pending
  <2>3. CASE k <= Unread(c)
    <3>1. Len(got[c]) + k \in 1..Len(sent[c])
      BY <1>3, <2>3
    <3> QED BY <1>4, <2>2, <2>3, <3>1 DEF Pending
  <2>4. CASE ~(k <= Unread(c))
    <3>1. Len(got[c]) + k = Len(sent[c]) + 1
      BY <1>3, <2>4
    <3> QED BY <1>4, <2>2, <2>4, <3>1 DEF Pending
  <2> QED BY <2>3, <2>4
<1>8. Laid(fifo'[c], Pending(c)', Unread(c) + 1, InHand(c), 0)
  <2>1. Laid(fifo[c], Pending(c), Unread(c), InHand(c), HdrLen)
    BY <1>5, WholeIs
  <2>2. Len(fifo[c]) + BodyLen <= PipeCap
    BY <1>2 DEF Room
  <2> QED BY <1>1, <1>2, <1>6, <1>7, <2>1, <2>2, Lengths, BodyLaid
<1>9. /\ Len(got'[c]) <= Len(sent'[c])
      /\ \A i \in 1..Len(got'[c]) : got'[c][i] = sent'[c][i]
  <2>1. Len(got[c]) <= Len(sent[c]) /\ \A i \in 1..Len(got[c]) : got[c][i] = sent[c][i]
    BY WholeIs
  <2>2. got'[c] = got[c]
    BY <1>1
  <2>3. \A i \in 1..Len(got[c]) : i \in 1..Len(sent[c])
    BY <1>3, <2>1
  <2> QED BY <1>3, <1>4, <2>1, <2>2, <2>3
<1> QED BY <1>5, <1>8, <1>9, WholeNext

-----------------------------------------------------------------------------
(* The reader                                                               *)

\* What a read takes and leaves.
LEMMA Read ==
    ASSUME TypeOK, NEW n \in Nat, Take(n), n <= Len(fifo[cur])
    PROVE  /\ fifo'[cur] \in Seq(Units) /\ Len(fifo'[cur]) = Len(fifo[cur]) - n
           /\ \A i \in 1..(Len(fifo[cur]) - n) : fifo'[cur][i] = fifo[cur][n + i]
           /\ Taken(n) \in Seq(Units) /\ Len(Taken(n)) = n
           /\ \A i \in 1..n : Taken(n)[i] = fifo[cur][i]
<1>1. PICK s \in Seq(Units) : s = fifo[cur]
  BY DEF TypeOK
<1>2. /\ fifo'[cur] = SubSeq(s, Shorter(n, Len(s)) + 1, Len(s))
      /\ Taken(n) = SubSeq(s, 1, Shorter(n, Len(s)))
  BY <1>1 DEF Take, Taken, TypeOK
<1>3. Shorter(n, Len(s)) = n
  BY <1>1 DEF Shorter
<1>4. /\ SubSeq(s, 1, n) \in Seq(Units) /\ Len(SubSeq(s, 1, n)) = n
      /\ \A i \in 1..n : SubSeq(s, 1, n)[i] = s[i]
      /\ SubSeq(s, n + 1, Len(s)) \in Seq(Units)
      /\ Len(SubSeq(s, n + 1, Len(s))) = Len(s) - n
      /\ \A i \in 1..(Len(s) - n) : SubSeq(s, n + 1, Len(s))[i] = s[n + i]
  <2>1. n \in 0..Len(s)
    BY <1>1
  <2>2. /\ SubSeq(s, 1, n) \in Seq(Units) /\ Len(SubSeq(s, 1, n)) = n
        /\ \A i \in 1..n : SubSeq(s, 1, n)[i] = s[i]
    BY <2>1
  <2>3. /\ SubSeq(s, n + 1, Len(s)) \in Seq(Units)
        /\ Len(SubSeq(s, n + 1, Len(s))) = Len(s) - n
    BY <2>1
  <2>4. \A i \in 1..(Len(s) - n) : SubSeq(s, n + 1, Len(s))[i] = s[n + i]
    BY <2>1
  <2> QED BY <2>2, <2>3, <2>4
<1> QED BY <1>1, <1>2, <1>3, <1>4

\* What read_data finds of a client that runs on: a size, if anything.
LEMMA SizeRead ==
    ASSUME TypeOK, Parsed, Whole(cur), cur \notin broken, rpc = "size", ~Again
    PROVE  /\ HdrLen <= Len(fifo[cur])
           /\ \A i \in 1..HdrLen : fifo[cur][i] = [msg |-> Pending(cur)[1], pos |-> i]
           /\ \A r \in Seq(Units) :
                 /\ Len(r) = Len(fifo[cur]) - HdrLen
                 /\ \A i \in 1..(Len(fifo[cur]) - HdrLen) : r[i] = fifo[cur][HdrLen + i]
                 => Laid(r, Pending(cur), Unread(cur), HdrLen, InPart(cur))
<1>1. cur \in Clients /\ fifo[cur] # <<>> /\ InHand(cur) = 0
  BY DEF TypeOK, Parsed, Again, InHand
<1>2. /\ fifo[cur] \in Seq(Units) /\ Unread(cur) \in Nat /\ InPart(cur) \in {0, HdrLen}
      /\ Laid(fifo[cur], Pending(cur), Unread(cur), 0, InPart(cur))
  BY <1>1, Lengths, WholeIs DEF InPart
<1>3. PICK s \in Seq(Units) : s = fifo[cur]
  BY <1>2
<1>4. /\ HdrLen <= Len(s)
      /\ \A i \in 1..HdrLen : s[i] = [msg |-> Pending(cur)[1], pos |-> i]
  BY <1>1, <1>2, <1>3, Headed
<1>5. ASSUME NEW r \in Seq(Units), Len(r) = Len(s) - HdrLen,
             \A i \in 1..(Len(s) - HdrLen) : r[i] = s[HdrLen + i]
      PROVE  Laid(r, Pending(cur), Unread(cur), HdrLen, InPart(cur))
  BY <1>2, <1>3, <1>4, <1>5, HdrTaken
<1> QED BY <1>3, <1>4, <1>5

LEMMA SizeKept ==
    ASSUME TypeOK, Parsed, ReadSize, NEW c \in Clients \ broken', Whole(c)
    PROVE  Whole(c)'
<1>1. /\ rpc = "size" /\ cur' = cur /\ cur \in Clients /\ ~Again /\ Take(HdrLen)
      /\ UNCHANGED <<got, sent, wpc, begun>>
  BY DEF ReadSize, ReadFails, TypeOK, wvars
<1>2. CASE c # cur
  <2>1. fifo'[c] = fifo[c] /\ InHand(c)' = InHand(c)
    BY <1>1, <1>2 DEF Take, TypeOK, InHand
  <2> QED BY <1>1, <2>1, WholeKept
<1>3. CASE c = cur
  <2>1. c \notin broken /\ rpc' = "body"
    BY <1>3 DEF ReadSize, ReadFails
  <2>2. /\ HdrLen \in Nat /\ HdrLen <= Len(fifo[cur])
    BY <1>1, <1>3, <2>1, SizeRead, FrameType
  <2>3. /\ fifo'[cur] \in Seq(Units) /\ Len(fifo'[cur]) = Len(fifo[cur]) - HdrLen
        /\ \A i \in 1..(Len(fifo[cur]) - HdrLen) : fifo'[cur][i] = fifo[cur][HdrLen + i]
    BY <1>1, <2>2, Read
  <2>4. Laid(fifo'[cur], Pending(cur), Unread(cur), HdrLen, InPart(cur))
    BY <1>1, <1>3, <2>1, <2>3, SizeRead
  <2>5. /\ Unread(c)' = Unread(c) /\ Pending(c)' = Pending(c) /\ InPart(c)' = InPart(c)
        /\ InHand(c)' = HdrLen
    BY <1>1, <1>3, <2>1 DEF Unread, Pending, InPart, InHand
  <2> QED BY <1>1, <1>3, <2>4, <2>5, WholeIs, WholeNext
<1> QED BY <1>2, <1>3

\* What read_data returns of a client that runs on is the next of its messages.
LEMMA BodyRead ==
    ASSUME TypeOK, Parsed, ReadBody, Whole(cur), cur \notin broken
    PROVE  Whole(cur)'
<1> DEFINE g == Len(got[cur])
           u == Unread(cur)
           s == fifo[cur]
           r == fifo'[cur]
           m == sent[cur][g + 1]
<1>1. /\ rpc = "body" /\ cur' = cur /\ cur \in Clients /\ ~Again /\ sz = BodyLen
      /\ Take(BodyLen) /\ rpc' = "out" /\ UNCHANGED <<sent, wpc, begun>>
      /\ BodyLen \in Nat \ {0} /\ HdrLen \in Nat
  BY TransportAssumption DEF ReadBody, TypeOK, Parsed, wvars
<1>2. /\ s \in Seq(Units) /\ u \in Nat /\ InPart(cur) \in {0, HdrLen} /\ s # <<>>
      /\ Laid(s, Pending(cur), u, HdrLen, InPart(cur))
      /\ g \in Nat /\ Len(sent[cur]) \in Nat /\ Len(sent[cur]) = g + u
  <2>1. InHand(cur) = HdrLen /\ s # <<>>
    BY <1>1 DEF InHand, Parsed, Again
  <2> QED BY <1>1, <2>1, Lengths, WholeIs DEF InPart
<1>3. /\ u # 0 /\ BodyLen <= Len(s)
      /\ \A i \in 1..BodyLen : s[i] = [msg |-> Pending(cur)[1], pos |-> HdrLen + i]
  <2> HIDE DEF s, u
  <2> QED BY <1>2, Bodied
<1>4. /\ r \in Seq(Units) /\ Len(r) = Len(s) - BodyLen
      /\ \A i \in 1..(Len(s) - BodyLen) : r[i] = s[BodyLen + i]
      /\ Taken(BodyLen) \in Seq(Units) /\ Len(Taken(BodyLen)) = BodyLen
      /\ \A i \in 1..BodyLen : Taken(BodyLen)[i] = s[i]
  BY <1>1, <1>3, Read
<1>5. Pending(cur)[1] = m /\ m \in 1..MaxMsgs
  <2>1. g + 1 \in 1..Len(sent[cur]) /\ 1 \in 1..(u + 1) /\ 1 <= u
    BY <1>2, <1>3
  <2>2. m \in 1..MaxMsgs
    <3>1. sent[cur] \in Seq(1..MaxMsgs)
      BY <1>1 DEF TypeOK
    <3>2. \A j \in 1..Len(sent[cur]) : sent[cur][j] \in 1..MaxMsgs
      BY <3>1, TransportAssumption
    <3> QED BY <2>1, <3>2
  <2> QED BY <2>1, <2>2 DEF Pending
<1>6. Taken(BodyLen) = Body(m) /\ Taken(BodyLen)[1].msg = m /\ Taken(BodyLen) # <<>>
  <2>1. PICK d \in Seq(Units) : d = Taken(BodyLen)
    BY <1>4
  <2>2. PICK e \in Seq(Units) : /\ e = Body(m) /\ Len(e) = BodyLen
                                /\ \A i \in 1..BodyLen : e[i] = [msg |-> m, pos |-> HdrLen + i]
    BY <1>5, FrameOf
  <2>3. /\ Len(d) = BodyLen
        /\ \A i \in 1..BodyLen : d[i] = [msg |-> m, pos |-> HdrLen + i]
    BY <1>3, <1>4, <1>5, <2>1
  <2>4. d = e
    BY <2>2, <2>3
  <2>5. d[1].msg = m /\ d # <<>>
    BY <1>1, <2>3
  <2> QED BY <2>1, <2>2, <2>4, <2>5
<1> HIDE DEF m
<1>7. got'[cur] = Append(got[cur], m)
  <2>1. got' = [got EXCEPT ![cur] = Append(got[cur],
                    IF Taken(BodyLen) # <<>> /\ Taken(BodyLen) = Body(Taken(BodyLen)[1].msg)
                    THEN Taken(BodyLen)[1].msg ELSE Garbage)]
    BY <1>1 DEF ReadBody
  <2>2. got' = [got EXCEPT ![cur] = Append(got[cur], m)]
    BY <1>6, <2>1
  <2> QED BY <1>1, <2>2 DEF TypeOK
<1>8. /\ Len(got'[cur]) = g + 1 /\ got'[cur][g + 1] = m
      /\ \A i \in 1..g : got'[cur][i] = got[cur][i]
  <2>1. got[cur] \in Seq(0..MaxMsgs) /\ m \in 0..MaxMsgs
    BY <1>1, <1>5 DEF TypeOK
  <2> QED BY <1>7, <2>1
<1>9. Unread(cur)' = u - 1 /\ InHand(cur)' = 0 /\ InPart(cur)' = InPart(cur)
  BY <1>1, <1>2, <1>8 DEF Unread, InHand, InPart
<1>10. ASSUME NEW k \in 1..u PROVE Pending(cur)'[k] = Pending(cur)[k + 1]
  <2>1. /\ k \in 1..((u - 1) + 1) /\ k + 1 \in 1..(u + 1) /\ (k <= u - 1 <=> k + 1 <= u)
        /\ (g + 1) + k = g + (k + 1)
    <3>1. u \in Nat /\ g \in Nat
      BY <1>2
    <3> HIDE DEF u, g
    <3> QED BY <3>1
  <2>2. Pending(cur)' = [j \in 1..((u - 1) + 1) |->
                            IF j <= u - 1 THEN sent[cur][(g + 1) + j] ELSE begun[cur]]
    BY <1>1, <1>8, <1>9 DEF Pending
  <2>3. Pending(cur) = [j \in 1..(u + 1) |->
                            IF j <= u THEN sent[cur][g + j] ELSE begun[cur]]
    BY DEF Pending
  <2> HIDE DEF u, g
  <2> QED BY <2>1, <2>2, <2>3
<1>11. Laid(r, Pending(cur)', u - 1, 0, InPart(cur))
  <2> HIDE DEF s, r, u
  <2> QED BY <1>2, <1>3, <1>4, <1>10, BodyTaken
<1>12. /\ Len(got'[cur]) <= Len(sent'[cur])
       /\ \A i \in 1..Len(got'[cur]) : got'[cur][i] = sent'[cur][i]
  <2>1. \A i \in 1..g : got[cur][i] = sent[cur][i]
    BY WholeIs, <1>1
  <2>2. Len(got'[cur]) <= Len(sent[cur])
    BY <1>2, <1>3, <1>8
  <2>3. \A i \in 1..(g + 1) : i \in 1..g \/ i = g + 1
    BY <1>2
  <2> QED BY <1>1, <1>8, <2>1, <2>2, <2>3 DEF m
<1> QED BY <1>1, <1>9, <1>11, <1>12, WholeNext

-----------------------------------------------------------------------------
(* The invariant                                                            *)

LEMMA NextParsed == IInv /\ [Next]_vars => Parsed'
<1> SUFFICES ASSUME TypeOK, Parsed, Intact, [Next]_vars PROVE Parsed'
  BY DEF IInv
<1> USE DEF wvars, rvars
<1>1. ASSUME NEW c \in Clients, Open(c) PROVE Parsed'
  BY <1>1 DEF Parsed, Open, TypeOK
<1>2. ASSUME NEW c \in Clients, WriteSize(c) PROVE Parsed'
  <2>1. begun[c] \in Nat /\ begun' = [begun EXCEPT ![c] = begun[c] + 1]
    BY <1>2 DEF WriteSize, TypeOK
  <2>2. begun'[c] # 0
    BY <2>1 DEF TypeOK
  <2> QED BY <1>2, <2>1, <2>2 DEF Parsed, WriteSize, TypeOK
<1>3. ASSUME NEW c \in Clients, WriteBody(c) PROVE Parsed'
  BY <1>3 DEF Parsed, WriteBody, TypeOK
<1>4. ASSUME NEW c \in Clients, Exit(c) PROVE Parsed'
  BY <1>4 DEF Parsed, Exit, TypeOK
<1>5. CASE ReadCall \/ ReadCached \/ ReadPoll \/ UNCHANGED vars
  BY <1>5 DEF Parsed, ReadCall, ReadCached, ReadPoll, vars
<1>6. CASE SizeFails \/ BodyFails
  BY <1>6 DEF Parsed, SizeFails, BodyFails, ReadFails
<1>7. CASE ReadSize
  <2>1. CASE ReadFails
    BY <2>1 DEF Parsed, ReadFails
  <2>2. CASE ~ReadFails
    <3>1. /\ rpc = "size" /\ ~Again /\ UNCHANGED <<wvars, ready, cur, got, broken>>
          /\ Len(Taken(HdrLen)) = HdrLen => sz' = BodyLen
      BY <1>7, <2>2 DEF ReadSize
    <3>2. ASSUME cur \notin broken PROVE sz' = BodyLen
      <4>1. Whole(cur) /\ Take(HdrLen) /\ HdrLen \in Nat
        BY <1>7, <3>2, FrameType DEF Intact, TypeOK, ReadSize
      <4>2. HdrLen <= Len(fifo[cur])
        BY <3>1, <3>2, <4>1, SizeRead
      <4>3. Len(Taken(HdrLen)) = HdrLen
        BY <4>1, <4>2, Read
      <4> QED BY <3>1, <4>3
    <3> QED BY <3>1, <3>2 DEF Parsed
  <2> QED BY <2>1, <2>2
<1>8. CASE ReadBody
  BY <1>8 DEF Parsed, ReadBody
<1> QED BY <1>1, <1>2, <1>3, <1>4, <1>5, <1>6, <1>7, <1>8 DEF Next, Writer, Reader

LEMMA NextIntact == IInv /\ [Next]_vars => Intact'
<1> SUFFICES ASSUME TypeOK, Parsed, Intact, [Next]_vars, NEW c \in Clients, c \notin broken'
             PROVE  Whole(c)'
  BY DEF IInv, Intact
<1> USE DEF wvars, rvars
<1>1. broken \subseteq broken'
  BY DEF Next, Writer, Reader, Open, WriteSize, WriteBody, Exit, ReadCall, ReadCached, ReadPoll,
         SizeFails, ReadSize, BodyFails, ReadBody, ReadFails, vars
<1>2. Whole(c) /\ c \notin broken
  BY <1>1 DEF Intact
<1>3. ASSUME NEW d \in Clients, Open(d) \/ WriteSize(d) \/ WriteBody(d) \/ Exit(d)
      PROVE  Whole(c)'
  <2>1. CASE d # c
    <3>1. /\ fifo'[c] = fifo[c] /\ got'[c] = got[c] /\ sent'[c] = sent[c]
          /\ wpc'[c] = wpc[c] /\ begun'[c] = begun[c] /\ UNCHANGED <<rpc, cur>>
      BY <1>3, <2>1 DEF Open, WriteSize, WriteBody, Exit, TypeOK
    <3>2. InHand(c)' = InHand(c)
      BY <3>1 DEF InHand
    <3> QED BY <1>2, <3>1, <3>2, WholeKept
  <2>2. CASE d = c /\ Open(d)
    <3>1. /\ UNCHANGED <<fifo, got, sent, wpc, begun, rpc, cur>>
      BY <2>2 DEF Open
    <3>2. InHand(c)' = InHand(c)
      BY <3>1 DEF InHand
    <3> QED BY <1>2, <3>1, <3>2, WholeKept
  <2>3. CASE d = c /\ WriteSize(d)
    BY <1>2, <2>3, SizeWritten
  <2>4. CASE d = c /\ WriteBody(d)
    BY <1>2, <2>4, BodyWritten
  <2>5. CASE d = c /\ Exit(d)
    BY <2>5 DEF Exit
  <2> QED BY <1>3, <2>1, <2>2, <2>3, <2>4, <2>5
<1>4. CASE ReadCall \/ ReadCached \/ ReadPoll \/ SizeFails \/ BodyFails \/ UNCHANGED vars
  <2>1. UNCHANGED <<fifo, got, sent, wpc, begun>>
    BY <1>4 DEF ReadCall, ReadCached, ReadPoll, SizeFails, BodyFails, ReadFails, vars
  <2>2. InHand(c)' = InHand(c)
    BY <1>4 DEF InHand, ReadCall, ReadCached, ReadPoll, SizeFails, BodyFails, ReadFails, vars
  <2> QED BY <1>2, <2>1, <2>2, WholeKept
<1>5. CASE ReadSize
  BY <1>2, <1>5, SizeKept
<1>6. CASE ReadBody
  <2>1. CASE c = cur
    <3>1. Whole(cur)'
      BY <1>2, <1>6, <2>1, BodyRead
    <3>2. cur' = cur
      BY <1>6 DEF ReadBody
    <3> QED BY <2>1, <3>1, <3>2
  <2>2. CASE c # cur
    <3>1. /\ fifo'[c] = fifo[c] /\ got'[c] = got[c] /\ UNCHANGED <<sent, wpc, begun, cur>>
      BY <1>6, <2>2 DEF ReadBody, Take, TypeOK
    <3>2. InHand(c)' = InHand(c)
      BY <2>2, <3>1 DEF InHand
    <3> QED BY <1>2, <3>1, <3>2, WholeKept
  <2> QED BY <2>1, <2>2
<1> QED BY <1>3, <1>4, <1>5, <1>6 DEF Next, Writer, Reader

\* Every variable has its type, whatever the clients and the engine do.
THEOREM TypeCorrect == Spec => []TypeOK
<1>1. IInv /\ [Next]_vars => IInv'
  BY NextType, NextParsed, NextIntact DEF IInv
<1>2. IInv => TypeOK
  BY DEF IInv
<1> QED BY <1>1, <1>2, InitInv, PTL DEF Spec

\* Of every client that has run on without a message cut by a full FIFO and without a
\* failed read of its FIFO, the engine has the messages in order, without loss,
\* duplication or mixing, and the rest is in the FIFO, whatever the other
\* clients do (write and read_data, transport.cpp).
THEOREM ArrivesIntact == Spec => []Intact
<1>1. IInv /\ [Next]_vars => IInv'
  BY NextType, NextParsed, NextIntact DEF IInv
<1>2. IInv => Intact
  BY DEF IInv
<1> QED BY <1>1, <1>2, InitInv, PTL DEF Spec
-----------------------------------------------------------------------------
(* The transport implements MessageChannel                                  *)

\* The queue of a client depends on its own messages.
LEMMA QueueIs ==
    ASSUME NEW c \in Clients
    PROVE  /\ queue[c] = IF c \in broken THEN <<>>
                         ELSE SubSeq(sent[c], Len(got[c]) + 1, Len(sent[c]))
           /\ queue'[c] = IF c \in broken' THEN <<>>
                          ELSE SubSeq(sent'[c], Len(got'[c]) + 1, Len(sent'[c]))
  BY DEF queue

\* The queue of one client changes.
LEMMA QueueMoves ==
    ASSUME NEW c \in Clients, \A d \in Clients \ {c} : queue'[d] = queue[d]
    PROVE  queue' = [queue EXCEPT ![c] = queue'[c]]
<1>1. queue = [d \in Clients |-> queue[d]] /\ queue' = [d \in Clients |-> queue'[d]]
  BY DEF queue
<1> QED BY <1>1

LEMMA QueuesKept ==
    ASSUME \A d \in Clients : queue'[d] = queue[d]
    PROVE  queue' = queue
<1>1. queue = [d \in Clients |-> queue[d]] /\ queue' = [d \in Clients |-> queue'[d]]
  BY DEF queue
<1> QED BY <1>1

\* The end of a sequence, what it is after one more element, and after its first one.
LEMMA EndIs ==
    ASSUME NEW S, NEW s \in Seq(S), NEW n \in Nat, n <= Len(s)
    PROVE  /\ SubSeq(s, n + 1, Len(s)) \in Seq(S)
           /\ Len(SubSeq(s, n + 1, Len(s))) = Len(s) - n
           /\ \A i \in 1..(Len(s) - n) : SubSeq(s, n + 1, Len(s))[i] = s[n + i]
<1>1. PICK k \in Nat : k = Len(s)
  OBVIOUS
<1>2. \A i \in (n + 1)..k : s[i] \in S
  BY <1>1
<1>3. n + 1 \in Int /\ k \in Int
  OBVIOUS
<1>4. /\ SubSeq(s, n + 1, k) \in Seq(S)
      /\ Len(SubSeq(s, n + 1, k)) = IF n + 1 <= k THEN k - (n + 1) + 1 ELSE 0
      /\ \A i \in 1..(k - (n + 1) + 1) : SubSeq(s, n + 1, k)[i] = s[(n + 1) + i - 1]
  BY <1>2, <1>3, SubSeqProperties
<1>5. PICK t : t = SubSeq(s, n + 1, k)
  OBVIOUS
<1>6. /\ t \in Seq(S) /\ Len(t) = k - n
      /\ \A i \in 1..(k - n) : t[i] = s[n + i]
  <2>1. /\ t \in Seq(S) /\ Len(t) = IF n + 1 <= k THEN k - (n + 1) + 1 ELSE 0
        /\ \A i \in 1..(k - (n + 1) + 1) : t[i] = s[(n + 1) + i - 1]
    BY <1>4, <1>5
  <2>2. /\ k - (n + 1) + 1 = k - n
        /\ \A i \in 1..(k - n) : (n + 1) + i - 1 = n + i
    BY <1>1
  <2> QED BY <1>1, <2>1, <2>2
<1> QED BY <1>1, <1>5, <1>6

LEMMA EndAppend ==
    ASSUME NEW S, NEW s \in Seq(S), NEW m \in S, NEW n \in Nat, n <= Len(s)
    PROVE  SubSeq(Append(s, m), n + 1, Len(Append(s, m)))
               = Append(SubSeq(s, n + 1, Len(s)), m)
<1>1. PICK a, t, u : /\ a = Append(s, m) /\ t = SubSeq(s, n + 1, Len(s))
                     /\ u = SubSeq(a, n + 1, Len(a))
  OBVIOUS
<1>2. PICK k \in Nat : k = Len(s)
  OBVIOUS
<1>3. a \in Seq(S) /\ Len(a) = k + 1 /\ a[k + 1] = m /\ \A i \in 1..k : a[i] = s[i]
  BY <1>1, <1>2, AppendProperties
<1>4. t \in Seq(S) /\ Len(t) = k - n /\ \A i \in 1..(k - n) : t[i] = s[n + i]
  BY <1>1, <1>2, EndIs
<1>5. u \in Seq(S) /\ Len(u) = k + 1 - n /\ \A i \in 1..(k + 1 - n) : u[i] = a[n + i]
  <2>1. n <= Len(a)
    BY <1>2, <1>3
  <2>2. u \in Seq(S) /\ Len(u) = Len(a) - n /\ \A i \in 1..(Len(a) - n) : u[i] = a[n + i]
    BY <1>1, <1>3, <2>1, EndIs
  <2> QED BY <1>3, <2>2
<1>6. PICK v : v = Append(t, m)
  OBVIOUS
<1>7. /\ v \in Seq(S) /\ Len(v) = (k - n) + 1 /\ v[(k - n) + 1] = m
      /\ \A i \in 1..(k - n) : v[i] = t[i]
  <2>1. t \in Seq(S) /\ Len(t) = k - n
    BY <1>4
  <2>2. /\ v \in Seq(S) /\ Len(v) = Len(t) + 1 /\ v[Len(t) + 1] = m
        /\ \A i \in 1..Len(t) : v[i] = t[i]
    BY <2>1, <1>6, AppendProperties, Zenon
  <2> QED BY <2>1, <2>2, Zenon
<1>8. \A i \in 1..Len(u) : u[i] = v[i]
  <2>1. \A i \in 1..(k - n) : u[i] = v[i]
    <3>1. \A i \in 1..(k - n) : i \in 1..(k + 1 - n) /\ n + i \in 1..k
      BY <1>2
    <3> QED BY <1>3, <1>4, <1>5, <1>7, <3>1
  <2>2. u[k + 1 - n] = m /\ v[k + 1 - n] = m
    <3>1. k + 1 - n \in 1..(k + 1 - n) /\ n + (k + 1 - n) = k + 1 /\ (k - n) + 1 = k + 1 - n
      BY <1>2
    <3> QED BY <1>3, <1>5, <1>7, <3>1
  <2>3. \A i \in 1..(k + 1 - n) : i \in 1..(k - n) \/ i = k + 1 - n
    BY <1>2
  <2> QED BY <1>5, <2>1, <2>2, <2>3
<1>9. Len(u) = Len(v)
  BY <1>2, <1>5, <1>7
<1> QED BY <1>1, <1>5, <1>6, <1>7, <1>8, <1>9, SeqEqual

LEMMA EndTail ==
    ASSUME NEW S, NEW s \in Seq(S), NEW n \in Nat, n < Len(s)
    PROVE  /\ SubSeq(s, n + 1, Len(s)) # <<>>
           /\ Head(SubSeq(s, n + 1, Len(s))) = s[n + 1]
           /\ Tail(SubSeq(s, n + 1, Len(s))) = SubSeq(s, (n + 1) + 1, Len(s))
<1>1. Len(s) \in Nat /\ n + 1 \in 1..Len(s) /\ Len(s) \in (n + 1)..Len(s)
  OBVIOUS
<1>2. /\ Head(SubSeq(s, n + 1, Len(s))) = s[n + 1]
      /\ Tail(SubSeq(s, n + 1, Len(s))) = SubSeq(s, (n + 1) + 1, Len(s))
  BY <1>1, HeadTailOfSubSeq
<1>3. PICK t : t = SubSeq(s, n + 1, Len(s))
  OBVIOUS
<1>4. t # <<>>
  <2>1. Len(t) = Len(s) - n
    BY <1>1, <1>3, EndIs
  <2>2. Len(t) # 0
    BY <1>1, <2>1
  <2> QED BY <2>2
<1> QED BY <1>2, <1>3, <1>4

\* A client is lost, or was lost already.
LEMMA Loses ==
    ASSUME NEW c \in Clients, broken' = broken \cup {c}, UNCHANGED <<sent, got>>
    PROVE  Channel!Next \/ UNCHANGED <<queue, got, broken>>
<1>1. CASE c \in broken
  BY <1>1, QueueIs, QueuesKept
<1>2. CASE c \notin broken
  <2>1. queue' = [queue EXCEPT ![c] = queue'[c]] /\ queue'[c] = <<>>
    BY QueueIs, QueueMoves
  <2> QED BY <1>2, <2>1 DEF Channel!Lose, Channel!Next
<1> QED BY <1>1, <1>2

LEMMA Idles ==
    ASSUME UNCHANGED <<sent, got, broken>>
    PROVE  UNCHANGED <<queue, got, broken>>
  BY QueueIs, QueuesKept

\* A body is written.
LEMMA Sends ==
    ASSUME IInv, NEW c \in Clients, WriteBody(c), c \notin broken, c \notin broken'
    PROVE  Channel!Next
<1> USE DEF rvars
<1>1. /\ wpc[c] = "body" /\ sent' = [sent EXCEPT ![c] = Append(@, begun[c])]
      /\ UNCHANGED <<got, broken>>
  BY DEF WriteBody
<1>2. /\ sent[c] \in Seq(1..MaxMsgs) /\ begun[c] \in 1..MaxMsgs
      /\ Len(got[c]) \in Nat /\ Len(got[c]) <= Len(sent[c])
  BY <1>1 DEF IInv, TypeOK, Parsed, Intact, Whole
<1>3. /\ sent'[c] = Append(sent[c], begun[c])
      /\ \A d \in Clients \ {c} : sent'[d] = sent[d]
  BY <1>1 DEF IInv, TypeOK
<1>4. queue'[c] = Append(queue[c], begun[c])
  <2>1. SubSeq(sent'[c], Len(got[c]) + 1, Len(sent'[c]))
            = Append(SubSeq(sent[c], Len(got[c]) + 1, Len(sent[c])), begun[c])
    <3> DEFINE M == 1..MaxMsgs
    <3>1. sent[c] \in Seq(M) /\ begun[c] \in M
      BY <1>2
    <3> HIDE DEF M
    <3> QED BY <1>2, <1>3, <3>1, EndAppend
  <2>2. queue[c] = SubSeq(sent[c], Len(got[c]) + 1, Len(sent[c]))
    BY QueueIs
  <2>3. queue'[c] = SubSeq(sent'[c], Len(got[c]) + 1, Len(sent'[c]))
    BY <1>1, QueueIs
  <2> QED BY <2>1, <2>2, <2>3
<1>5. \A d \in Clients \ {c} : queue'[d] = queue[d]
  BY <1>1, <1>3, QueueIs
<1>6. queue' = [queue EXCEPT ![c] = Append(queue[c], begun[c])]
  BY <1>4, <1>5, QueueMoves
<1> QED BY <1>1, <1>2, <1>6 DEF Channel!Send, Channel!Next

\* A message is returned: by the invariant it is the next one that was sent.
LEMMA Delivers ==
    ASSUME IInv, IInv', ReadBody, cur \notin broken
    PROVE  Channel!Next
<1> USE DEF wvars
<1> PICK c \in Clients : c = cur
  BY DEF IInv, TypeOK
<1>1. PICK m : got' = [got EXCEPT ![c] = Append(@, m)]
  BY DEF ReadBody
<1>2. UNCHANGED <<sent, broken>> /\ c \notin broken
  BY DEF ReadBody
<1>3. /\ sent[c] \in Seq(1..MaxMsgs) /\ got[c] \in Seq(0..MaxMsgs) /\ Len(got[c]) \in Nat
      /\ got'[c] = Append(got[c], m)
      /\ \A d \in Clients \ {c} : got'[d] = got[d]
  <2>1. got \in [Clients -> Seq(0..MaxMsgs)] /\ sent \in [Clients -> Seq(1..MaxMsgs)]
    BY DEF IInv, TypeOK
  <2> QED BY <1>1, <2>1
<1>4. /\ Len(got'[c]) = Len(got[c]) + 1 /\ got'[c][Len(got[c]) + 1] = m
  BY <1>3
<1>5. /\ Len(got'[c]) <= Len(sent[c])
      /\ \A i \in 1..Len(got'[c]) : got'[c][i] = sent[c][i]
  BY <1>2, WholeNext DEF IInv, Intact
<1>6. Len(got[c]) < Len(sent[c]) /\ sent[c][Len(got[c]) + 1] = m
  BY <1>3, <1>4, <1>5
<1>7. /\ queue[c] # <<>> /\ Head(queue[c]) = m /\ queue'[c] = Tail(queue[c])
  <2>1. queue[c] = SubSeq(sent[c], Len(got[c]) + 1, Len(sent[c]))
    BY <1>2, QueueIs
  <2>2. queue'[c] = SubSeq(sent[c], (Len(got[c]) + 1) + 1, Len(sent[c]))
    BY <1>2, <1>4, QueueIs
  <2> DEFINE M == 1..MaxMsgs
  <2>3. sent[c] \in Seq(M)
    BY <1>3
  <2> HIDE DEF M
  <2>4. /\ SubSeq(sent[c], Len(got[c]) + 1, Len(sent[c])) # <<>>
        /\ Head(SubSeq(sent[c], Len(got[c]) + 1, Len(sent[c]))) = sent[c][Len(got[c]) + 1]
        /\ Tail(SubSeq(sent[c], Len(got[c]) + 1, Len(sent[c])))
              = SubSeq(sent[c], (Len(got[c]) + 1) + 1, Len(sent[c]))
    BY <1>3, <1>6, <2>3, EndTail
  <2> QED BY <1>6, <2>1, <2>2, <2>4
<1>8. \A d \in Clients \ {c} : queue'[d] = queue[d]
  BY <1>2, <1>3, QueueIs
<1>9. queue' = [queue EXCEPT ![c] = Tail(queue[c])]
  BY <1>7, <1>8, QueueMoves
<1>10. Channel!Deliver(c)
  BY <1>1, <1>2, <1>7, <1>9 DEF Channel!Deliver
<1> QED BY <1>10 DEF Channel!Next

\* Every step of the transport is one of the channel, or none.
LEMMA ChannelStep ==
    ASSUME IInv, IInv', [Next]_vars
    PROVE  Channel!Next \/ UNCHANGED <<queue, got, broken>>
<1> USE DEF wvars, rvars
<1>1. ASSUME NEW c \in Clients, WriteBody(c)
      PROVE  Channel!Next \/ UNCHANGED <<queue, got, broken>>
  <2>1. CASE broken' = broken \cup {c} /\ UNCHANGED <<sent, got>>
    BY <2>1, Loses
  <2>2. CASE ~(broken' = broken \cup {c} /\ UNCHANGED <<sent, got>>)
    <3>1. /\ UNCHANGED <<got, broken>>
          /\ sent' = [sent EXCEPT ![c] = Append(@, begun[c])]
      BY <1>1, <2>2 DEF WriteBody
    <3>2. CASE c \in broken
      <4>1. \A d \in Clients \ {c} : sent'[d] = sent[d]
        BY <3>1 DEF IInv, TypeOK
      <4>2. \A d \in Clients : queue'[d] = queue[d]
        BY <3>1, <3>2, <4>1, QueueIs
      <4> QED BY <3>1, <4>2, QueuesKept
    <3>3. CASE c \notin broken
      BY <1>1, <3>1, <3>3, Sends
    <3> QED BY <3>2, <3>3
  <2> QED BY <2>1, <2>2
<1>2. ASSUME NEW c \in Clients, Exit(c)
      PROVE  Channel!Next \/ UNCHANGED <<queue, got, broken>>
  BY <1>2, Loses DEF Exit
<1>3. ASSUME NEW c \in Clients, Open(c) \/ WriteSize(c)
      PROVE  UNCHANGED <<queue, got, broken>>
  BY <1>3, Idles DEF Open, WriteSize
<1>4. CASE ReadFails
  <2>1. PICK c \in Clients : c = cur
    BY DEF IInv, TypeOK
  <2>2. broken' = broken \cup {c} /\ UNCHANGED <<sent, got>>
    BY <1>4, <2>1 DEF ReadFails
  <2> QED BY <2>2, Loses
<1>5. CASE ReadCall \/ ReadCached \/ ReadPoll \/ (ReadSize /\ ~ReadFails)
  BY <1>5, Idles DEF ReadCall, ReadCached, ReadPoll, ReadSize
<1>6. CASE ReadBody
  <2>1. CASE cur \in broken
    BY <1>6, <2>1, Idles DEF ReadBody
  <2>2. CASE cur \notin broken
    BY <1>6, <2>2, Delivers
  <2> QED BY <2>1, <2>2
<1>7. CASE UNCHANGED vars
  BY <1>7, Idles DEF vars
<1> QED
  BY <1>1, <1>2, <1>3, <1>4, <1>5, <1>6, <1>7
  DEF Next, Writer, Reader, SizeFails, BodyFails

\* The transport is a channel of whole messages for each client that runs on: two
\* writes and two reads for a message, one reader for all clients, and failures
\* of some of them, look to the others like a queue (write and read_data,
\* transport.cpp).
THEOREM ChannelImplemented == Spec => Implements
<1>1. Init => Channel!Init
  <2> SUFFICES ASSUME Init PROVE Channel!Init
    OBVIOUS
  <2>1. ASSUME NEW c \in Clients PROVE queue[c] = <<>>
    <3>1. sent[c] = <<>> /\ got[c] = <<>> /\ Len(<<>>) = 0
      BY DEF Init
    <3>2. SubSeq(<<>>, 0 + 1, 0) = <<>>
      BY SubSeqEmpty
    <3> QED BY <3>1, <3>2, QueueIs
  <2>2. queue = [c \in Clients |-> queue[c]]
    BY DEF queue
  <2> QED BY <2>1, <2>2 DEF Init, Channel!Init
<1>2. IInv /\ [Next]_vars => IInv'
  BY NextType, NextParsed, NextIntact DEF IInv
<1>3. IInv /\ IInv' /\ [Next]_vars => [Channel!Next]_<<queue, got, broken>>
  BY ChannelStep
<1> QED BY InitInv, <1>1, <1>2, <1>3, PTL DEF Spec, Implements, Channel!Spec
=============================================================================
