------------------------------ MODULE LomLibProofs ------------------------------
(***************************************************************************)
(* Proofs about LomLib: its types, and that an engine and its clients      *)
(* agree in what the messages between them say.                            *)
(*                                                                         *)
(* The properties speak of what the engine will know when it has read a    *)
(* FIFO to its end.  A history is the sequence of what it knows on the     *)
(* way; a message written, or read, makes it longer at one end, or shorter *)
(* at the other.  So each state has just one history of each FIFO if the   *)
(* state before has, and no induction over a FIFO is called for.           *)
(***************************************************************************)
EXTENDS LomLib, FiniteSetTheorems, TLAPS

-----------------------------------------------------------------------------
(* Histories                                                                *)

\* An engine that knows v and reads s knows h[k] after k messages.
History(v, s, h) ==
    h = [k \in 0..Len(s) |-> IF k = 0 THEN v ELSE Saw(h[k - 1], s[k])]

\* There is just one history.
Determined(v, s) ==
    /\ \E h : History(v, s, h)
    /\ \A g, h : History(v, s, g) /\ History(v, s, h) => g = h

\* What is known at its end.
Final(v, s) == (CHOOSE h : History(v, s, h))[Len(s)]

\* A history of n messages, step by step.
Steps(v, s, n, h) ==
    /\ h = [k \in 0..n |-> h[k]]
    /\ h[0] = v
    /\ \A k \in 1..n : h[k] = Saw(h[k - 1], s[k])

LEMMA ReplayIsFinal == \A c : Replay(c) = Final(view[c], c2e[c])
  BY DEF Replay, Final, History

LEMMA SameFunction ==
    ASSUME NEW S, NEW g, NEW h, g = [k \in S |-> g[k]], h = [k \in S |-> h[k]],
           \A k \in S : g[k] = h[k]
    PROVE  g = h
<1>1. [k \in S |-> g[k]] = [k \in S |-> h[k]]
  OBVIOUS
<1> QED BY <1>1

LEMMA HistorySteps ==
    ASSUME NEW v, NEW s, NEW n \in Nat, Len(s) = n, NEW h
    PROVE  History(v, s, h) <=> Steps(v, s, n, h)
<1> DEFINE F == [k \in 0..n |-> IF k = 0 THEN v ELSE Saw(h[k - 1], s[k])]
<1>1. F[0] = v /\ \A k \in 1..n : F[k] = Saw(h[k - 1], s[k])
  OBVIOUS
<1>2. F = [k \in 0..n |-> F[k]]
  OBVIOUS
<1>3. History(v, s, h) <=> h = F
  BY DEF History
<1> HIDE DEF F
<1>4. ASSUME h = F PROVE Steps(v, s, n, h)
  BY <1>1, <1>2, <1>4 DEF Steps
<1>5. ASSUME Steps(v, s, n, h) PROVE h = F
  <2>1. ASSUME NEW k \in 0..n PROVE h[k] = F[k]
    <3>1. k = 0 \/ k \in 1..n
      OBVIOUS
    <3> QED BY <1>1, <1>5, <3>1 DEF Steps
  <2>2. h = [k \in 0..n |-> h[k]]
    BY <1>5 DEF Steps
  <2> QED BY <1>2, <2>1, <2>2, SameFunction
<1> QED BY <1>3, <1>4, <1>5

\* The final knowledge is that of the history.
LEMMA FinalOf ==
    ASSUME NEW v, NEW s, Determined(v, s), NEW h, History(v, s, h)
    PROVE  Final(v, s) = h[Len(s)]
<1>1. History(v, s, CHOOSE g : History(v, s, g))
  BY DEF Determined
<1>2. h = CHOOSE g : History(v, s, g)
  BY <1>1 DEF Determined
<1> QED BY <1>2 DEF Final

\* Nothing to read.
LEMMA NothingToRead ==
    ASSUME NEW v, NEW s, Len(s) = 0
    PROVE  Determined(v, s) /\ Final(v, s) = v
<1> DEFINE one == [k \in 0..0 |-> v]
<1>1. one = [k \in 0..0 |-> one[k]] /\ one[0] = v
  OBVIOUS
<1> HIDE DEF one
<1>2. \A h : History(v, s, h) <=> Steps(v, s, 0, h)
  BY HistorySteps
<1>3. History(v, s, one)
  BY <1>1, <1>2 DEF Steps
<1>4. ASSUME NEW g, NEW h, History(v, s, g), History(v, s, h) PROVE g = h
  <2>1. /\ g = [k \in 0..0 |-> g[k]] /\ h = [k \in 0..0 |-> h[k]]
        /\ \A k \in 0..0 : g[k] = h[k]
    BY <1>2, <1>4 DEF Steps
  <2> QED BY <2>1, SameFunction
<1>5. Determined(v, s)
  BY <1>3, <1>4 DEF Determined
<1> QED BY <1>1, <1>3, <1>5, FinalOf

\* One message more to read.
LEMMA OneMore ==
    ASSUME NEW n \in Nat, NEW v, NEW s, NEW t, NEW m, Len(s) = n, Len(t) = n + 1,
           \A k \in 1..n : t[k] = s[k], t[n + 1] = m, Determined(v, s)
    PROVE  Determined(v, t) /\ Final(v, t) = Saw(Final(v, s), m)
<1>1. \A h : /\ History(v, s, h) <=> Steps(v, s, n, h)
             /\ History(v, t, h) <=> Steps(v, t, n + 1, h)
  BY HistorySteps
<1>2. /\ \A k \in 1..n : k \in 1..(n + 1) /\ k \in 0..n /\ k - 1 \in 0..n
      /\ \A k \in 0..(n + 1) : k \in 0..n \/ k = n + 1
      /\ \A k \in 1..(n + 1) : k \in 1..n \/ k = n + 1
      /\ n + 1 \in 1..(n + 1) /\ (n + 1) - 1 = n /\ n \in 0..n /\ 0 \in 0..n
      /\ \A k \in 0..n : k \in 0..(n + 1) /\ k # n + 1
  OBVIOUS
<1>3. ASSUME NEW g, Steps(v, t, n + 1, g)
      PROVE  \E h : /\ Steps(v, s, n, h) /\ \A k \in 0..n : h[k] = g[k]
                    /\ g[n + 1] = Saw(g[n], m)
  <2> DEFINE h == [k \in 0..n |-> g[k]]
  <2>1. h = [k \in 0..n |-> h[k]] /\ \A k \in 0..n : h[k] = g[k]
    OBVIOUS
  <2> HIDE DEF h
  <2>2. g[0] = v /\ \A k \in 1..(n + 1) : g[k] = Saw(g[k - 1], t[k])
    BY <1>3 DEF Steps
  <2>3. h[0] = v
    BY <1>2, <2>1, <2>2
  <2>4. ASSUME NEW k \in 1..n PROVE h[k] = Saw(h[k - 1], s[k])
    <3>1. k \in 1..(n + 1) /\ k \in 0..n /\ k - 1 \in 0..n
      BY <1>2
    <3>2. h[k] = g[k] /\ h[k - 1] = g[k - 1]
      BY <2>1, <3>1
    <3>3. g[k] = Saw(g[k - 1], t[k])
      BY <2>2, <3>1
    <3> QED BY <3>2, <3>3
  <2>5. g[n + 1] = Saw(g[n], m)
    BY <1>2, <2>2
  <2> QED BY <2>1, <2>3, <2>4, <2>5 DEF Steps
<1>4. ASSUME NEW f, NEW g, Steps(v, t, n + 1, f), Steps(v, t, n + 1, g) PROVE f = g
  <2>1. PICK h : /\ Steps(v, s, n, h) /\ \A k \in 0..n : h[k] = f[k]
                 /\ f[n + 1] = Saw(f[n], m)
    BY <1>3, <1>4
  <2>2. PICK i : /\ Steps(v, s, n, i) /\ \A k \in 0..n : i[k] = g[k]
                 /\ g[n + 1] = Saw(g[n], m)
    BY <1>3, <1>4
  <2>3. h = i
    BY <1>1, <2>1, <2>2 DEF Determined
  <2>4. \A k \in 0..n : f[k] = g[k]
    BY <2>1, <2>2, <2>3
  <2>5. f[n + 1] = g[n + 1]
    BY <1>2, <2>1, <2>2, <2>4
  <2>6. \A k \in 0..(n + 1) : f[k] = g[k]
    BY <1>2, <2>4, <2>5
  <2>7. f = [k \in 0..(n + 1) |-> f[k]] /\ g = [k \in 0..(n + 1) |-> g[k]]
    BY <1>4 DEF Steps
  <2> QED BY <2>6, <2>7, SameFunction
<1>5. PICK h : Steps(v, s, n, h)
  BY <1>1 DEF Determined
<1> DEFINE more == [k \in 0..(n + 1) |-> IF k = n + 1 THEN Saw(h[n], m) ELSE h[k]]
<1>6. /\ more = [k \in 0..(n + 1) |-> more[k]]
      /\ \A k \in 0..n : more[k] = h[k]
      /\ more[n + 1] = Saw(h[n], m)
  BY <1>2
<1> HIDE DEF more
<1>7. h[0] = v /\ \A k \in 1..n : h[k] = Saw(h[k - 1], s[k])
  BY <1>5 DEF Steps
<1>8. ASSUME NEW k \in 1..(n + 1) PROVE more[k] = Saw(more[k - 1], t[k])
  <2>1. CASE k \in 1..n
    <3>1. k \in 0..n /\ k - 1 \in 0..n
      BY <1>2, <2>1
    <3>2. more[k] = h[k] /\ more[k - 1] = h[k - 1]
      BY <1>6, <3>1
    <3>3. h[k] = Saw(h[k - 1], t[k])
      BY <1>7, <2>1
    <3> QED BY <3>2, <3>3
  <2>2. CASE k = n + 1
    <3>1. k - 1 = n /\ more[n] = h[n]
      BY <1>2, <1>6, <2>2
    <3> QED BY <1>6, <2>2, <3>1
  <2> QED BY <1>2, <2>1, <2>2
<1>9. Steps(v, t, n + 1, more)
  <2>1. more[0] = v
    BY <1>2, <1>6, <1>7
  <2> QED BY <1>6, <1>8, <2>1 DEF Steps
<1>10. Determined(v, t)
  BY <1>1, <1>4, <1>9 DEF Determined
<1>11. Final(v, t) = more[n + 1]
  BY <1>1, <1>9, <1>10, FinalOf
<1>12. Final(v, s) = h[n]
  BY <1>1, <1>5, FinalOf
<1> QED BY <1>6, <1>10, <1>11, <1>12

\* One message less, which the engine has read.
LEMMA OneLess ==
    ASSUME NEW n \in Nat, NEW v, NEW w, NEW s, NEW t, Len(t) = n, Len(s) = n + 1,
           \A k \in 1..n : t[k] = s[k + 1], w = Saw(v, s[1]), Determined(v, s)
    PROVE  Determined(w, t) /\ Final(w, t) = Final(v, s)
<1>1. \A h : /\ History(v, s, h) <=> Steps(v, s, n + 1, h)
             /\ History(w, t, h) <=> Steps(w, t, n, h)
  BY HistorySteps
<1>2. /\ \A k \in 0..n : k + 1 \in 0..(n + 1) /\ k + 1 # 0 /\ (k + 1) - 1 = k
      /\ \A k \in 1..n : k + 1 \in 1..(n + 1) /\ k \in 0..n /\ k - 1 \in 0..n
                         /\ (k - 1) + 1 = k
      /\ 0 \in 0..(n + 1) /\ 0 \in 0..n /\ n \in 0..n /\ 1 \in 1..(n + 1)
  OBVIOUS
<1>3. ASSUME NEW g, Steps(w, t, n, g)
      PROVE  \E h : Steps(v, s, n + 1, h) /\ \A k \in 0..n : h[k + 1] = g[k]
  <2> DEFINE h == [k \in 0..(n + 1) |-> IF k = 0 THEN v ELSE g[k - 1]]
  <2>1. /\ h = [k \in 0..(n + 1) |-> h[k]] /\ h[0] = v
        /\ \A k \in 0..n : h[k + 1] = g[k]
    BY <1>2
  <2> HIDE DEF h
  <2>2. g[0] = w /\ \A k \in 1..n : g[k] = Saw(g[k - 1], t[k])
    BY <1>3 DEF Steps
  <2>3. ASSUME NEW k \in 1..(n + 1) PROVE h[k] = Saw(h[k - 1], s[k])
    <3>1. CASE k = 1
      <4>1. h[0 + 1] = g[0]
        BY <1>2, <2>1
      <4> QED BY <2>1, <2>2, <3>1, <4>1
    <3>2. CASE k # 1
      <4>1. PICK j \in 1..n : j + 1 = k
        <5>1. k - 1 \in 1..n /\ (k - 1) + 1 = k
          BY <3>2
        <5> QED BY <5>1
      <4>2. k - 1 = j /\ j \in 0..n /\ j - 1 \in 0..n /\ (j - 1) + 1 = j
        BY <4>1
      <4>3. h[k] = g[j] /\ h[j] = g[j - 1]
        BY <2>1, <4>1, <4>2
      <4>4. g[j] = Saw(g[j - 1], s[k])
        BY <2>2, <4>1
      <4> QED BY <4>2, <4>3, <4>4
    <3> QED BY <3>1, <3>2
  <2> QED BY <2>1, <2>3 DEF Steps
<1>4. ASSUME NEW f, NEW g, Steps(w, t, n, f), Steps(w, t, n, g) PROVE f = g
  <2>1. PICK h : Steps(v, s, n + 1, h) /\ \A k \in 0..n : h[k + 1] = f[k]
    BY <1>3, <1>4
  <2>2. PICK i : Steps(v, s, n + 1, i) /\ \A k \in 0..n : i[k + 1] = g[k]
    BY <1>3, <1>4
  <2>3. h = i
    BY <1>1, <2>1, <2>2 DEF Determined
  <2>4. \A k \in 0..n : f[k] = g[k]
    BY <2>1, <2>2, <2>3
  <2>5. f = [k \in 0..n |-> f[k]] /\ g = [k \in 0..n |-> g[k]]
    BY <1>4 DEF Steps
  <2> QED BY <2>4, <2>5, SameFunction
<1>5. PICK h : Steps(v, s, n + 1, h)
  BY <1>1 DEF Determined
<1>6. h[0] = v /\ \A k \in 1..(n + 1) : h[k] = Saw(h[k - 1], s[k])
  BY <1>5 DEF Steps
<1> DEFINE less == [k \in 0..n |-> h[k + 1]]
<1>7. less = [k \in 0..n |-> less[k]] /\ \A k \in 0..n : less[k] = h[k + 1]
  OBVIOUS
<1> HIDE DEF less
<1>8. less[0] = w
  <2>1. less[0] = h[1]
    <3>1. 0 \in 0..n
      OBVIOUS
    <3>2. less[0] = h[0 + 1]
      BY <1>7, <3>1
    <3> QED BY <3>2
  <2>2. h[1] = Saw(h[0], s[1])
    BY <1>2, <1>6
  <2> QED BY <1>6, <2>1, <2>2
<1>9. ASSUME NEW k \in 1..n PROVE less[k] = Saw(less[k - 1], t[k])
  <2>1. less[k] = h[k + 1] /\ less[k - 1] = h[k]
    BY <1>2, <1>7
  <2>2. h[k + 1] = Saw(h[k], s[k + 1])
    BY <1>2, <1>6
  <2> QED BY <2>1, <2>2
<1>10. Steps(w, t, n, less)
  BY <1>7, <1>8, <1>9 DEF Steps
<1>11. Determined(w, t)
  BY <1>1, <1>4, <1>10 DEF Determined
<1>12. Final(w, t) = less[n]
  BY <1>1, <1>10, <1>11, FinalOf
<1>13. Final(v, s) = h[n + 1]
  BY <1>1, <1>5, FinalOf
<1> QED BY <1>2, <1>7, <1>11, <1>12, <1>13

-----------------------------------------------------------------------------
(* Types                                                                    *)

LEMMA SawType ==
    ASSUME NEW v \in Views, NEW m \in Message
    PROVE  Saw(v, m) \in Views
<1>1. m.type \in {"register", "deregister", "response", "action", "heartbeat"}
      /\ (m.type = "action" => m.action \in Actions)
  BY DEF Message
<1> QED BY <1>1 DEF Saw, Views

LEMMA InitType == Init => TypeOK
<1> SUFFICES ASSUME Init PROVE TypeOK
  OBVIOUS
<1>1. 0 \in 0..Cap /\ 0 \in 0..Cardinality(Clients)
  BY LibAssumption, FS_CardinalityType
<1>2. <<>> \in Seq(Message) /\ Len(<<>>) <= Cap
  BY LibAssumption
<1>3. Unknown \in Views
  BY DEF Unknown, Views
<1> QED BY <1>1, <1>2, <1>3 DEF Init, TypeOK, Nodes, Ends

\* The engine has polled a FIFO: the others ready are fewer than its clients.
LEMMA ReadyCount ==
    ASSUME NEW c \in ready
    PROVE  Cardinality(ready) - 1 \in 0..Cardinality(Clients)
<1>1. ready \subseteq Clients /\ IsFiniteSet(Clients) /\ ready # {}
  BY LibAssumption DEF ready
<1>2. /\ IsFiniteSet(ready) /\ Cardinality(ready) <= Cardinality(Clients)
      /\ Cardinality(ready) \in Nat /\ Cardinality(Clients) \in Nat
  BY <1>1, FS_Subset, FS_CardinalityType
<1>3. Cardinality(ready) # 0
  BY <1>1, <1>2, FS_EmptySet
<1> QED BY <1>2, <1>3

\* What a client has written.
LEMMA AppendType ==
    ASSUME NEW s \in Seq(Message), NEW m \in Message, Len(s) < Cap
    PROVE  Append(s, m) \in Seq(Message) /\ Len(Append(s, m)) <= Cap
  BY LibAssumption

LEMMA SentType ==
    ASSUME TypeOK, NEW c \in Clients, NEW m \in Message, Sent(c, m) \/ Refused(c)
    PROVE  /\ c2e' \in [Clients -> Seq(Message)]
           /\ \A d \in Clients : Len(c2e'[d]) <= Cap
<1>1. CASE c2e' = c2e
  BY <1>1 DEF TypeOK
<1>2. CASE c2e' = [c2e EXCEPT ![c] = Append(@, m)] /\ Len(c2e[c]) < Cap
  <2>1. Append(c2e[c], m) \in Seq(Message) /\ Len(Append(c2e[c], m)) <= Cap
    BY <1>2, AppendType DEF TypeOK
  <2>2. \A d \in Clients : c2e'[d] = Append(c2e[c], m) \/ c2e'[d] = c2e[d]
    BY <1>2
  <2> QED BY <1>2, <2>1, <2>2 DEF TypeOK
<1> QED BY <1>1, <1>2 DEF Sent, Refused

LEMMA NextType == TypeOK /\ [Next]_vars => TypeOK'
<1> SUFFICES ASSUME TypeOK, [Next]_vars PROVE TypeOK'
  OBVIOUS
<1> USE LibAssumption DEF cvars, up, down, evars
<1>1. ASSUME NEW c \in Clients,
             ClientStart(c) \/ ClientEnd(c) \/ RegisterOpen(c) \/ RegisterFails(c)
      PROVE  TypeOK'
  <2>1. CASE ClientStart(c) \/ RegisterFails(c)
    BY <2>1 DEF TypeOK, ClientStart, RegisterFails
  <2>2. CASE ClientEnd(c)
    <3>1. e2c' \in [Clients -> 0..Cap] /\ acts' \in [Clients -> SUBSET Actions]
      BY <2>2 DEF TypeOK, ClientEnd
    <3> QED BY <2>2, <3>1 DEF TypeOK, ClientEnd, Nodes, Ends
  <2>3. CASE RegisterOpen(c)
    <3>1. e2c' \in [Clients -> 0..Cap]
      BY <2>3 DEF TypeOK, RegisterOpen
    <3> QED BY <2>3, <3>1 DEF TypeOK, RegisterOpen, Nodes, Ends
  <2> QED BY <1>1, <2>1, <2>2, <2>3
<1>2. ASSUME NEW c \in Clients, RegisterWrite(c) PROVE TypeOK'
  <2>1. [type |-> "register"] \in Message
    BY DEF Message
  <2>2. c2e' \in [Clients -> Seq(Message)] /\ \A d \in Clients : Len(c2e'[d]) <= Cap
    <3>1. CASE c2e' = c2e
      BY <3>1 DEF TypeOK
    <3>2. CASE c2e' = [c2e EXCEPT ![c] = Append(@, [type |-> "register"])] /\ Len(c2e[c]) < Cap
      <4>1. /\ Append(c2e[c], [type |-> "register"]) \in Seq(Message)
            /\ Len(Append(c2e[c], [type |-> "register"])) <= Cap
        BY <2>1, <3>2, AppendType DEF TypeOK
      <4>2. \A d \in Clients : c2e'[d] = Append(c2e[c], [type |-> "register"]) \/ c2e'[d] = c2e[d]
        BY <3>2
      <4> QED BY <3>2, <4>1, <4>2 DEF TypeOK
    <3> QED BY <1>2, <3>1, <3>2 DEF RegisterWrite
  <2> QED BY <1>2, <2>2 DEF TypeOK, RegisterWrite, Nodes, Ends
<1>3. ASSUME NEW c \in Clients, NEW a \in Actions, RegisterAction(c, a) PROVE TypeOK'
  <2>1. [type |-> "action", action |-> a] \in Message
    BY DEF Message
  <2>2. c2e' \in [Clients -> Seq(Message)] /\ \A d \in Clients : Len(c2e'[d]) <= Cap
    BY <1>3, <2>1, SentType DEF RegisterAction
  <2>3. acts' \in [Clients -> SUBSET Actions]
    BY <1>3 DEF RegisterAction, TypeOK
  <2> QED BY <1>3, <2>2, <2>3 DEF TypeOK, RegisterAction
<1>4. ASSUME NEW c \in Clients, NEW a \in Actions, Heartbeat(c, a) PROVE TypeOK'
  <2>1. [type |-> "heartbeat", action |-> a] \in Message
    BY DEF Message
  <2>2. c2e' \in [Clients -> Seq(Message)] /\ \A d \in Clients : Len(c2e'[d]) <= Cap
    BY <1>4, <2>1, SentType DEF Heartbeat
  <2> QED BY <1>4, <2>2 DEF TypeOK, Heartbeat
<1>5. ASSUME NEW c \in Clients, Respond(c) \/ Deregister(c) PROVE TypeOK'
  <2>1. [type |-> "response"] \in Message /\ [type |-> "deregister"] \in Message
    BY DEF Message
  <2>2. c2e' \in [Clients -> Seq(Message)] /\ \A d \in Clients : Len(c2e'[d]) <= Cap
    BY <1>5, <2>1, SentType DEF Respond, Deregister
  <2> QED BY <1>5, <2>2 DEF TypeOK, Respond, Deregister, Ends
<1>6. ASSUME NEW c \in Clients, ReadRequest(c) PROVE TypeOK'
  <2>1. e2c' \in [Clients -> 0..Cap]
    BY <1>6 DEF TypeOK, ReadRequest
  <2> QED BY <1>6, <2>1 DEF TypeOK, ReadRequest
<1>7. CASE EngineStart \/ InitBegin \/ Deinit
  BY <1>7, FS_CardinalityType DEF TypeOK, EngineStart, InitBegin, Deinit, Ends
<1>8. CASE EngineGone
  <2>1. Unknown \in Views /\ <<>> \in Seq(Message) /\ Len(<<>>) <= Cap
        /\ 0 \in 0..Cardinality(Clients)
    BY FS_CardinalityType DEF Unknown, Views
  <2> QED BY <1>8, <2>1 DEF TypeOK, EngineGone, Nodes, Ends
<1>9. ASSUME NEW c \in Clients, InitClient(c) PROVE TypeOK'
  <2>1. Unknown \in Views /\ <<>> \in Seq(Message) /\ Len(<<>>) <= Cap
    BY DEF Unknown, Views
  <2>2. c2e' \in [Clients -> Seq(Message)] /\ \A d \in Clients : Len(c2e'[d]) <= Cap
    <3>1. c2e' = [c2e EXCEPT ![c] = <<>>]
      BY <1>9 DEF InitClient, InitFifo
    <3> QED BY <2>1, <3>1 DEF TypeOK
  <2>3. view' \in [Clients -> Views]
    BY <1>9, <2>1 DEF TypeOK, InitClient, InitFifo
  <2> QED BY <1>9, <2>2, <2>3 DEF TypeOK, InitClient, InitFifo, Nodes, Ends
<1>10. ASSUME NEW c \in Clients, Requests(c) PROVE TypeOK'
  <2>1. e2c' \in [Clients -> 0..Cap]
    <3>1. e2c \in [Clients -> 0..Cap] /\ Cap \in Nat
      BY DEF TypeOK
    <3>2. e2c' = e2c \/ (e2c' = [e2c EXCEPT ![c] = e2c[c] + 1] /\ e2c[c] < Cap)
      BY <1>10 DEF Requests, Room
    <3>3. e2c[c] < Cap => e2c[c] + 1 \in 0..Cap
      BY <3>1
    <3> QED BY <3>1, <3>2, <3>3
  <2> QED BY <1>10, <2>1 DEF TypeOK, Requests, Nodes, Ends
<1>11. ASSUME NEW c \in Clients, Read(c) PROVE TypeOK'
  <2>1. cached' \in 0..Cardinality(Clients)
    BY <1>11, ReadyCount DEF Read
  <2>2. /\ c2e' \in [Clients -> Seq(Message)] /\ \A d \in Clients : Len(c2e'[d]) <= Cap
        /\ view' \in [Clients -> Views]
    <3>1. CASE UNCHANGED <<c2e, view>>
      BY <3>1 DEF TypeOK
    <3>2. CASE c2e[c] # <<>> /\ c2e' = [c2e EXCEPT ![c] = Tail(@)]
               /\ view' = [view EXCEPT ![c] = Saw(@, Head(c2e[c]))]
      <4>1. /\ Tail(c2e[c]) \in Seq(Message) /\ Len(Tail(c2e[c])) <= Cap
            /\ Head(c2e[c]) \in Message
        BY <3>2 DEF TypeOK
      <4>2. Saw(view[c], Head(c2e[c])) \in Views
        BY <4>1, SawType DEF TypeOK
      <4>3. \A d \in Clients : c2e'[d] = Tail(c2e[c]) \/ c2e'[d] = c2e[d]
        BY <3>2
      <4> QED BY <3>2, <4>1, <4>2, <4>3 DEF TypeOK
    <3> QED BY <1>11, <3>1, <3>2 DEF Read
  <2> QED BY <1>11, <2>1, <2>2 DEF TypeOK, Read
<1>12. CASE UNCHANGED vars
  BY <1>12 DEF vars, TypeOK
<1> QED BY <1>1, <1>2, <1>3, <1>4, <1>5, <1>6, <1>7, <1>8, <1>9, <1>10, <1>11, <1>12
       DEF Next, Client, Engine, EngineEnd, ReadThrows

-----------------------------------------------------------------------------
(* Agreement                                                                *)

\* What the engine will know of client c.
Told(c) == Final(view[c], c2e[c])

\* All the messages are legal, and those of a client whose FIFO the engine
\* reads tell of all it has registered.
Agreed(c) ==
    /\ Determined(view[c], c2e[c])
    /\ Told(c) \in Views /\ Told(c).legal
    /\ c2e_wfd[c] = "now" =>
           client[c] = "registered" /\ Told(c).registered /\ Told(c).actions = acts[c]

IInv == TypeOK /\ \A c \in Clients : Agreed(c)

\* A FIFO with no message, and an engine that knows nothing.
LEMMA NothingTold ==
    ASSUME NEW c, c2e[c] = <<>>, view[c] = Unknown, c2e_wfd[c] # "now"
    PROVE  Agreed(c)
<1>1. Determined(view[c], c2e[c]) /\ Told(c) = Unknown
  BY NothingToRead DEF Told
<1> QED BY <1>1 DEF Agreed, Unknown, Views

\* The FIFO is made anew, or its reader ends.
LEMMA NothingLeft ==
    ASSUME NEW c, c2e'[c] = <<>>, view'[c] = Unknown, c2e_wfd'[c] # "now"
    PROVE  Agreed(c)'
<1>1. Determined(view'[c], c2e'[c]) /\ Final(view'[c], c2e'[c]) = Unknown
  BY NothingToRead
<1>2. Told(c)' = Unknown
  BY <1>1 DEF Told
<1>3. Unknown \in Views /\ Unknown.legal
  BY DEF Unknown, Views
<1> QED BY <1>1, <1>2, <1>3 DEF Agreed

\* Nothing is written or read, and the client is what it was, or is not heard.
LEMMA NothingSaid ==
    ASSUME NEW c, Agreed(c), c2e'[c] = c2e[c], view'[c] = view[c],
           c2e_wfd'[c] = "now" =>
               c2e_wfd[c] = "now" /\ client'[c] = client[c] /\ acts'[c] = acts[c]
    PROVE  Agreed(c)'
<1>1. Told(c)' = Told(c)
  BY DEF Told
<1> QED BY <1>1 DEF Agreed

\* One message is written.
LEMMA OneSaid ==
    ASSUME TypeOK, NEW c \in Clients, Agreed(c), NEW m \in Message,
           c2e'[c] = Append(c2e[c], m), view'[c] = view[c]
    PROVE  /\ Determined(view[c], c2e[c])'
           /\ Told(c)' = Saw(Told(c), m) /\ Told(c)' \in Views
<1>1. Determined(view[c], c2e'[c]) /\ Final(view[c], c2e'[c]) = Saw(Told(c), m)
  <2>1. c2e[c] \in Seq(Message) /\ Len(c2e[c]) \in Nat
    BY DEF TypeOK
  <2>2. /\ Len(c2e'[c]) = Len(c2e[c]) + 1 /\ c2e'[c][Len(c2e[c]) + 1] = m
        /\ \A k \in 1..Len(c2e[c]) : c2e'[c][k] = c2e[c][k]
    BY <2>1
  <2> DEFINE v == view[c]
             s == c2e[c]
             t == c2e'[c]
             n == Len(s)
  <2>3. /\ n \in Nat /\ Len(s) = n /\ Len(t) = n + 1 /\ t[n + 1] = m
        /\ \A k \in 1..n : t[k] = s[k]
        /\ Determined(v, s)
    BY <2>1, <2>2 DEF Agreed
  <2> HIDE DEF v, s, t, n
  <2>4. Determined(v, t) /\ Final(v, t) = Saw(Final(v, s), m)
    BY <2>3, OneMore
  <2> QED BY <2>4 DEF v, s, t, Told
<1>2. Saw(Told(c), m) \in Views
  BY SawType DEF Agreed
<1> QED BY <1>1, <1>2 DEF Told

\* One message is read.
LEMMA OneRead ==
    ASSUME TypeOK, NEW c \in Clients, Agreed(c), c2e[c] # <<>>,
           c2e'[c] = Tail(c2e[c]), view'[c] = Saw(view[c], Head(c2e[c])),
           UNCHANGED <<client, acts, c2e_wfd>>
    PROVE  Agreed(c)'
<1>1. Determined(view'[c], c2e'[c]) /\ Final(view'[c], c2e'[c]) = Told(c)
  <2>1. c2e[c] \in Seq(Message) /\ Len(c2e[c]) \in Nat \ {0}
    BY DEF TypeOK
  <2> DEFINE n == Len(c2e[c]) - 1
             v == view[c]
             w == view'[c]
             s == c2e[c]
             t == c2e'[c]
  <2>2. /\ n \in Nat /\ Len(s) = n + 1 /\ Len(t) = n
        /\ \A k \in 1..n : t[k] = s[k + 1]
        /\ w = Saw(v, s[1]) /\ Determined(v, s)
    BY <2>1 DEF Agreed
  <2> HIDE DEF n, v, w, s, t
  <2>3. Determined(w, t) /\ Final(w, t) = Final(v, s)
    BY <2>2, OneLess
  <2> QED BY <2>3 DEF v, w, s, t, Told
<1>2. Told(c)' = Told(c)
  BY <1>1 DEF Told
<1> QED BY <1>1, <1>2 DEF Agreed

LEMMA InitInv == Init => IInv
<1> SUFFICES ASSUME Init PROVE IInv
  OBVIOUS
<1>1. ASSUME NEW c \in Clients PROVE Agreed(c)
  BY NothingTold DEF Init
<1> QED BY <1>1, InitType DEF IInv

\* What a client that has registered writes, if it gets through.
LEMMA SentAgreed ==
    ASSUME IInv, NEW c \in Clients, NEW m \in Message, Sent(c, m) \/ Refused(c),
           view' = view, Told(c).registered /\ Told(c).actions = acts[c] => Saw(Told(c), m).legal,
           c2e_wfd'[c] = "now" =>
               /\ c2e_wfd[c] = "now" /\ client'[c] = client[c] /\ Sent(c, m)
               /\ Told(c).registered /\ Told(c).actions = acts[c] =>
                      Saw(Told(c), m).registered /\ Saw(Told(c), m).actions = acts'[c]
    PROVE  Agreed(c)'
<1>1. TypeOK /\ Agreed(c)
  BY DEF IInv
<1>2. CASE c2e_wfd[c] = "now" /\ c2e' = [c2e EXCEPT ![c] = Append(@, m)]
  <2>1. c2e'[c] = Append(c2e[c], m)
    BY <1>1, <1>2 DEF TypeOK
  <2>2. /\ Determined(view[c], c2e[c])'
        /\ Told(c)' = Saw(Told(c), m) /\ Told(c)' \in Views
    BY <1>1, <2>1, OneSaid
  <2> QED BY <1>1, <1>2, <2>2 DEF Agreed
<1>3. CASE c2e' = c2e /\ c2e_wfd'[c] # "now"
  BY <1>1, <1>3, NothingSaid
<1> QED BY <1>2, <1>3 DEF Sent, Refused

LEMMA NextInv == IInv /\ [Next]_vars => IInv'
<1> SUFFICES ASSUME IInv, [Next]_vars, NEW c \in Clients PROVE Agreed(c)'
  BY NextType DEF IInv
<1> USE DEF cvars, up, down, evars
<1>1. TypeOK /\ Agreed(c)
  BY DEF IInv
<1>2. ASSUME NEW d \in Clients,
             ClientStart(d) \/ ClientEnd(d) \/ RegisterOpen(d) \/ RegisterFails(d)
      PROVE  Agreed(c)'
  <2>1. UNCHANGED <<c2e, view>>
    BY <1>2 DEF ClientStart, ClientEnd, RegisterOpen, RegisterFails
  <2>2. c2e_wfd'[c] = "now" =>
            c2e_wfd[c] = "now" /\ client'[c] = client[c] /\ acts'[c] = acts[c]
    BY <1>1, <1>2 DEF Agreed, TypeOK, ClientStart, ClientEnd, RegisterOpen, RegisterFails
  <2> QED BY <1>1, <2>1, <2>2, NothingSaid
<1>3. ASSUME NEW d \in Clients, RegisterWrite(d) PROVE Agreed(c)'
  <2>1. CASE c = d /\ Len(c2e[c]) < Cap
    <3> DEFINE m == [type |-> "register"]
    <3>1. m \in Message /\ m.type = "register"
      BY DEF Message
    <3>2. /\ c2e'[c] = Append(c2e[c], m) /\ view' = view
          /\ client'[c] = "registered" /\ acts'[c] = {}
      BY <1>1, <1>3, <2>1 DEF RegisterWrite, TypeOK
    <3> HIDE DEF m
    <3>3. /\ Determined(view[c], c2e[c])'
          /\ Told(c)' = Saw(Told(c), m) /\ Told(c)' \in Views
      BY <1>1, <3>1, <3>2, OneSaid
    <3>4. /\ Saw(Told(c), m).registered /\ Saw(Told(c), m).actions = {}
          /\ Saw(Told(c), m).legal
      BY <1>1, <3>1 DEF Saw, Agreed, Views
    <3> QED BY <3>2, <3>3, <3>4 DEF Agreed
  <2>2. CASE c # d \/ ~(Len(c2e[c]) < Cap)
    <3>1. c2e'[c] = c2e[c] /\ view'[c] = view[c]
      BY <1>1, <1>3, <2>2 DEF RegisterWrite, TypeOK
    <3>2. c2e_wfd'[c] = c2e_wfd[c]
      BY <1>1, <1>3, <2>2 DEF RegisterWrite, TypeOK
    <3>3. c2e_wfd[c] = "now" => client'[c] = client[c] /\ acts'[c] = acts[c]
      BY <1>1, <1>3, <2>2 DEF RegisterWrite, Agreed, TypeOK
    <3> QED BY <1>1, <3>1, <3>2, <3>3, NothingSaid
  <2> QED BY <2>1, <2>2
<1>4. ASSUME NEW d \in Clients, NEW a \in Actions, RegisterAction(d, a) PROVE Agreed(c)'
  <2>1. CASE c = d
    <3> DEFINE m == [type |-> "action", action |-> a]
    <3>1. m \in Message /\ m.type = "action" /\ m.action = a
      BY DEF Message
    <3>2. /\ Sent(c, m) /\ acts'[c] = acts[c] \cup {a} /\ a \notin acts[c]
          /\ UNCHANGED <<view, client, c2e_wfd>>
      BY <1>1, <1>4, <2>1 DEF RegisterAction, TypeOK
    <3> HIDE DEF m
    <3>3. ASSUME Told(c).registered, Told(c).actions = acts[c]
          PROVE  /\ Saw(Told(c), m).legal /\ Saw(Told(c), m).registered
                 /\ Saw(Told(c), m).actions = acts'[c]
      BY <1>1, <3>1, <3>2, <3>3 DEF Saw, Agreed, Views
    <3> QED BY <3>1, <3>2, <3>3, SentAgreed
  <2>2. CASE c # d
    <3>1. c2e'[c] = c2e[c] /\ acts'[c] = acts[c] /\ UNCHANGED <<view, client, c2e_wfd>>
      BY <1>1, <1>4, <2>2 DEF RegisterAction, Sent, TypeOK
    <3> QED BY <1>1, <3>1, NothingSaid
  <2> QED BY <2>1, <2>2
<1>5. ASSUME NEW d \in Clients, NEW a \in Actions, Heartbeat(d, a) PROVE Agreed(c)'
  <2>1. CASE c = d
    <3> DEFINE m == [type |-> "heartbeat", action |-> a]
    <3>1. m \in Message /\ m.type = "heartbeat" /\ m.action = a
      BY DEF Message
    <3>2. Sent(c, m) /\ a \in acts[c] /\ UNCHANGED <<view, client, acts, c2e_wfd>>
      BY <1>5, <2>1 DEF Heartbeat
    <3> HIDE DEF m
    <3>3. ASSUME Told(c).registered, Told(c).actions = acts[c]
          PROVE  /\ Saw(Told(c), m).legal /\ Saw(Told(c), m).registered
                 /\ Saw(Told(c), m).actions = acts'[c]
      BY <1>1, <3>1, <3>2, <3>3 DEF Saw, Agreed, Views
    <3> QED BY <3>1, <3>2, <3>3, SentAgreed
  <2>2. CASE c # d
    <3>1. c2e'[c] = c2e[c] /\ UNCHANGED <<view, client, acts, c2e_wfd>>
      BY <1>1, <1>5, <2>2 DEF Heartbeat, Sent, TypeOK
    <3> QED BY <1>1, <3>1, NothingSaid
  <2> QED BY <2>1, <2>2
<1>6. ASSUME NEW d \in Clients, Respond(d) PROVE Agreed(c)'
  <2>1. CASE c = d
    <3> DEFINE m == [type |-> "response"]
    <3>1. m \in Message /\ m.type = "response"
      BY DEF Message
    <3>2. Sent(c, m) /\ UNCHANGED <<view, client, acts, c2e_wfd>>
      BY <1>6, <2>1 DEF Respond
    <3> HIDE DEF m
    <3>3. ASSUME Told(c).registered, Told(c).actions = acts[c]
          PROVE  /\ Saw(Told(c), m).legal /\ Saw(Told(c), m).registered
                 /\ Saw(Told(c), m).actions = acts'[c]
      BY <1>1, <3>1, <3>2, <3>3 DEF Saw, Agreed, Views
    <3> QED BY <3>1, <3>2, <3>3, SentAgreed
  <2>2. CASE c # d
    <3>1. c2e'[c] = c2e[c] /\ UNCHANGED <<view, client, acts, c2e_wfd>>
      BY <1>1, <1>6, <2>2 DEF Respond, Sent, TypeOK
    <3> QED BY <1>1, <3>1, NothingSaid
  <2> QED BY <2>1, <2>2
<1>7. ASSUME NEW d \in Clients, Deregister(d) PROVE Agreed(c)'
  <2>1. CASE c = d
    <3> DEFINE m == [type |-> "deregister"]
    <3>1. m \in Message /\ m.type = "deregister"
      BY DEF Message
    <3>2. (Sent(c, m) \/ Refused(c)) /\ c2e_wfd'[c] # "now" /\ view' = view
      BY <1>1, <1>7, <2>1 DEF Deregister, TypeOK
    <3> HIDE DEF m
    <3>3. Saw(Told(c), m).legal
      BY <1>1, <3>1 DEF Saw, Agreed, Views
    <3> QED BY <3>1, <3>2, <3>3, SentAgreed
  <2>2. CASE c # d
    <3>1. /\ c2e'[c] = c2e[c] /\ client'[c] = client[c] /\ acts'[c] = acts[c]
          /\ c2e_wfd'[c] = c2e_wfd[c] /\ view' = view
      BY <1>1, <1>7, <2>2 DEF Deregister, Sent, Refused, TypeOK
    <3> QED BY <1>1, <3>1, NothingSaid
  <2> QED BY <2>1, <2>2
<1>8. ASSUME NEW d \in Clients, ReadRequest(d) \/ Requests(d) PROVE Agreed(c)'
  <2>1. UNCHANGED <<c2e, c2e_wfd, view, client, acts>>
    BY <1>8 DEF ReadRequest, Requests
  <2> QED BY <1>1, <2>1, NothingSaid
<1>9. CASE EngineStart \/ InitBegin \/ Deinit \/ UNCHANGED vars
  <2>1. UNCHANGED <<c2e, c2e_wfd, view, client, acts>>
    BY <1>9 DEF EngineStart, InitBegin, Deinit, vars
  <2> QED BY <1>1, <2>1, NothingSaid
<1>10. CASE EngineGone
  <2>1. c2e'[c] = <<>> /\ view'[c] = Unknown /\ c2e_wfd'[c] # "now"
    BY <1>10 DEF EngineGone
  <2> QED BY <2>1, NothingLeft
<1>11. ASSUME NEW d \in Clients, InitClient(d) PROVE Agreed(c)'
  <2>1. CASE c = d
    <3>1. c2e'[c] = <<>> /\ view'[c] = Unknown /\ c2e_wfd'[c] # "now"
      BY <1>1, <1>11, <2>1 DEF InitClient, InitFifo, TypeOK
    <3> QED BY <3>1, NothingLeft
  <2>2. CASE c # d
    <3>1. /\ c2e'[c] = c2e[c] /\ view'[c] = view[c] /\ c2e_wfd'[c] = c2e_wfd[c]
          /\ UNCHANGED <<client, acts>>
      BY <1>1, <1>11, <2>2 DEF InitClient, InitFifo, TypeOK
    <3> QED BY <1>1, <3>1, NothingSaid
  <2> QED BY <2>1, <2>2
<1>12. ASSUME NEW d \in Clients, Read(d) PROVE Agreed(c)'
  <2>1. UNCHANGED <<client, acts, c2e_wfd>>
    BY <1>12 DEF Read
  <2>2. CASE c = d /\ c2e[c] # <<>>
    <3>1. c2e'[c] = Tail(c2e[c]) /\ view'[c] = Saw(view[c], Head(c2e[c]))
      BY <1>1, <1>12, <2>2 DEF Read, TypeOK
    <3> QED BY <1>1, <2>1, <2>2, <3>1, OneRead
  <2>3. CASE c # d \/ c2e[c] = <<>>
    <3>1. c2e'[c] = c2e[c] /\ view'[c] = view[c]
      BY <1>1, <1>12, <2>3 DEF Read, TypeOK
    <3> QED BY <1>1, <2>1, <3>1, NothingSaid
  <2> QED BY <2>2, <2>3
<1> QED BY <1>2, <1>3, <1>4, <1>5, <1>6, <1>7, <1>8, <1>9, <1>10, <1>11, <1>12
       DEF Next, Client, Engine, EngineEnd, ReadThrows

-----------------------------------------------------------------------------
(* Theorems                                                                 *)

\* All variables keep their types (lib/lom_lib.cpp, lib/transport.cpp).
THEOREM TypeCorrect == Spec => []TypeOK
<1>1. IInv => TypeOK
  BY DEF IInv
<1> QED BY <1>1, InitInv, NextInv, PTL DEF Spec

\* Whatever ends and restarts of clients and engine, read_server_message returns
\* only messages that fit the session they are of.
THEOREM SessionsAreLegal == Spec => []SessionsLegal
<1>1. IInv => SessionsLegal
  BY ReplayIsFinal DEF IInv, Agreed, Told, SessionsLegal
<1> QED BY <1>1, InitInv, NextInv, PTL DEF Spec

\* register_action and the engine's reading of its messages agree on the actions of
\* each registered client whose FIFO the engine reads.
THEOREM ViewsDoAgree == Spec => []ViewsAgree
<1>1. IInv => ViewsAgree
  BY ReplayIsFinal DEF IInv, Agreed, Told, ViewsAgree
<1> QED BY <1>1, InitInv, NextInv, PTL DEF Spec
=============================================================================
