---------------------------- MODULE LinkPluginsProofs ----------------------------
(***************************************************************************)
(* Proofs about LinkPlugins, for all interfaces, flap counts and           *)
(* intervals, and all bounds.  The inductive invariant says what the lists *)
(* of link_flap hold: the last flap_cnt of the times it has read; that a   *)
(* report is of an event that has been read; and that a context names an   *)
(* interface reported in the run that is under way.                        *)
(***************************************************************************)
EXTENDS LinkPlugins, TLAPS

\* The sequence f is the end of t.
Ends(t, f) ==
    Len(f) <= Len(t) /\ \A j \in 1..Len(f) : f[j] = t[Len(t) - Len(f) + j]

Capped(k) == IF k > FlapCnt THEN FlapCnt ELSE k

\* self.flaps has the last FlapCnt of the times read, of each interface.
FlapsAreLast ==
    \A i \in Interfaces : Ends(times[i], flaps[i]) /\ Len(flaps[i]) = Capped(Len(times[i]))

ReportsAreRead ==
    \A r \in 1..Len(reports) : reports[r].nth <= Len(times[reports[r].ifname])

ContextIsReported ==
    context # NoLink =>
        \E r \in 1..Len(reports) : reports[r].ifname = context /\ reports[r].run = runs

Started == stage # "idle" => runs >= 1

IInv == /\ TypeOK /\ FlapsAreLast /\ ReportsAreRead
        /\ ContextIsReported /\ Started /\ ReportsMatch

-----------------------------------------------------------------------------
(* The list of one interface                                                *)

\* Appending the same to both keeps one the end of the other.
LEMMA AppendEnds ==
    ASSUME NEW f \in Seq(0..MaxTime), NEW t \in Seq(0..MaxTime), NEW x \in 0..MaxTime,
           Ends(t, f)
    PROVE  Ends(Append(t, x), Append(f, x))
<1>1. /\ Len(Append(f, x)) = Len(f) + 1 /\ Len(Append(t, x)) = Len(t) + 1
      /\ Len(f) \in Nat /\ Len(t) \in Nat /\ Len(f) <= Len(t)
  BY DEF Ends
<1>2. ASSUME NEW j \in 1..(Len(f) + 1)
      PROVE  Append(f, x)[j] = Append(t, x)[Len(t) - Len(f) + j]
  <2>1. CASE j = Len(f) + 1
    <3>1. Len(t) - Len(f) + j = Len(t) + 1
      BY <1>1, <2>1
    <3> QED BY <2>1, <3>1
  <2>2. CASE j \in 1..Len(f)
    <3>1. Len(t) - Len(f) + j \in 1..Len(t)
      BY <1>1, <2>2
    <3>2. f[j] = t[Len(t) - Len(f) + j]
      BY <2>2 DEF Ends
    <3> QED BY <2>2, <3>1, <3>2
  <2> QED BY <1>1, <2>1, <2>2
<1>3. ASSUME NEW j \in 1..Len(Append(f, x))
      PROVE  Append(f, x)[j] = Append(t, x)[Len(Append(t, x)) - Len(Append(f, x)) + j]
  <2>1. j \in 1..(Len(f) + 1)
    BY <1>1
  <2>2. Len(Append(t, x)) - Len(Append(f, x)) + j = Len(t) - Len(f) + j
    BY <1>1, <2>1
  <2> QED BY <1>2, <2>1, <2>2
<1>4. Len(Append(f, x)) <= Len(Append(t, x))
  BY <1>1
<1> QED BY <1>3, <1>4 DEF Ends

\* The window of a list is its end, of at most FlapCnt.
LEMMA WindowEnds ==
    ASSUME NEW a \in Seq(0..MaxTime), NEW u \in Seq(0..MaxTime), Ends(u, a)
    PROVE  /\ Window(a) \in Seq(0..MaxTime)
           /\ Len(Window(a)) = Capped(Len(a))
           /\ Ends(u, Window(a))
<1>1. FlapCnt \in Nat /\ FlapCnt >= 2 /\ Len(a) \in Nat /\ Len(u) \in Nat /\ Len(a) <= Len(u)
  BY LinkAssumption DEF Ends
<1>2. CASE Len(a) > FlapCnt
  <2>1. PICK b \in Nat : b = Len(a) - FlapCnt
    BY <1>1, <1>2
  <2>2. Window(a) = SubSeq(a, b + 1, Len(a)) /\ b + 1 \in 1..Len(a) /\ b + FlapCnt = Len(a)
    BY <1>1, <1>2, <2>1 DEF Window
  <2>3. /\ SubSeq(a, b + 1, Len(a)) \in Seq(0..MaxTime)
        /\ Len(SubSeq(a, b + 1, Len(a))) = FlapCnt
        /\ \A j \in 1..FlapCnt : SubSeq(a, b + 1, Len(a))[j] = a[b + j]
    <3> DEFINE S == 0..MaxTime
    <3>1. a \in Seq(S)
      OBVIOUS
    <3> HIDE DEF S
    <3>2. /\ SubSeq(a, b + 1, Len(a)) \in Seq(S)
          /\ Len(SubSeq(a, b + 1, Len(a))) = FlapCnt
          /\ \A j \in 1..FlapCnt : SubSeq(a, b + 1, Len(a))[j] = a[b + j]
      BY <1>1, <2>2, <3>1
    <3> QED BY <3>2 DEF S
  <2>4. \A j \in 1..FlapCnt :
           b + j \in 1..Len(a) /\ Len(u) - Len(a) + (b + j) = Len(u) - FlapCnt + j
    BY <1>1, <2>2
  <2>5. \A j \in 1..FlapCnt : a[b + j] = u[Len(u) - FlapCnt + j]
    BY <2>4 DEF Ends
  <2> QED BY <1>1, <1>2, <2>2, <2>3, <2>5 DEF Ends, Capped
<1>3. CASE Len(a) <= FlapCnt
  <2>1. Window(a) = a
    BY <1>1, <1>3 DEF Window
  <2> QED BY <1>1, <1>3, <2>1 DEF Capped
<1> QED BY <1>1, <1>2, <1>3

-----------------------------------------------------------------------------
(* The inductive invariant                                                  *)

\* What a report is.
LEMMA ReportType ==
    ASSUME TypeOK, NEW r \in 1..Len(reports)
    PROVE  /\ reports[r].ifname \in Interfaces
           /\ reports[r].nth \in Nat \ {0} /\ reports[r].run \in 1..MaxRuns
<1> DEFINE Report == [ifname : Interfaces, nth : Nat \ {0}, run : 1..MaxRuns]
<1>1. reports \in Seq(Report)
  BY DEF TypeOK
<1> HIDE DEF Report
<1>2. reports[r] \in Report
  BY <1>1
<1> QED BY <1>2 DEF Report

LEMMA InitInv == Init => IInv
<1> SUFFICES ASSUME Init PROVE IInv
  OBVIOUS
<1> USE LinkAssumption DEF Init
<1>1. TypeOK
  BY DEF TypeOK, Stages
<1>2. FlapsAreLast
  <2>1. \A i \in Interfaces : flaps[i] = <<>> /\ times[i] = <<>>
    OBVIOUS
  <2>2. Ends(<<>>, <<>>) /\ Len(<<>>) = Capped(Len(<<>>))
    BY DEF Ends, Capped
  <2> QED BY <2>1, <2>2 DEF FlapsAreLast
<1>3. ReportsAreRead /\ ContextIsReported /\ Started
  BY DEF ReportsAreRead, ContextIsReported, Started
<1>4. ReportsMatch
  BY DEF ReportsMatch
<1> QED BY <1>1, <1>2, <1>3, <1>4 DEF IInv

\* Steps that leave link_flap's lists alone keep what is said of them.
LEMMA PluginIdle ==
    ASSUME IInv, UNCHANGED plugin, TypeOK', Started',
           UNCHANGED <<context, runs>> \/ context' = NoLink
    PROVE  IInv'
<1> USE DEF IInv, plugin
<1>1. FlapsAreLast'
  BY DEF FlapsAreLast, Ends, Capped
<1>2. ReportsAreRead'
  BY DEF ReportsAreRead
<1>3. ContextIsReported'
  BY DEF ContextIsReported
<1>4. ReportsMatch'
  BY DEF ReportsMatch, Flap, Reported
<1> QED BY <1>1, <1>2, <1>3, <1>4

\* The types of what an interface that goes down changes.
LEMMA GoesDownType ==
    ASSUME TypeOK, NEW i \in Interfaces, GoesDown(i)
    PROVE  /\ oper' \subseteq Interfaces /\ i \notin oper'
           /\ oper' \subseteq oper
           /\ went' \in [Interfaces -> Seq(0..MaxTime)]
           /\ events' \in Seq(Interfaces)
<1>1. Append(went[i], now) \in Seq(0..MaxTime)
  BY DEF TypeOK
<1> QED BY <1>1 DEF TypeOK, GoesDown

\* A read event keeps the invariant: the lists get the same time, and the report,
\* if there is one, is of the new last of the times.
LEMMA ReadEventInv ==
    ASSUME IInv, ReadEvent
    PROVE  IInv'
<1> USE DEF IInv
<1> DEFINE i   == Head(events)
           lst == Window(Append(flaps[i], now))
           tms == Append(times[i], now)
           rep == [ifname |-> i, nth |-> Len(tms), run |-> runs]
<1>1. /\ i \in Interfaces /\ now \in 0..MaxTime
      /\ flaps[i] \in Seq(0..MaxTime) /\ times[i] \in Seq(0..MaxTime)
      /\ runs \in 1..MaxRuns
  BY LinkAssumption DEF TypeOK, ReadEvent, Started
<1>2. /\ tms \in Seq(0..MaxTime) /\ Len(tms) = Len(times[i]) + 1
      /\ Len(times[i]) \in Nat
      /\ \A k \in 1..Len(times[i]) : tms[k] = times[i][k]
  BY <1>1
<1>3. /\ lst \in Seq(0..MaxTime) /\ Len(lst) = Capped(Len(tms)) /\ Ends(tms, lst)
  <2>1. Ends(times[i], flaps[i]) /\ Len(flaps[i]) = Capped(Len(times[i]))
    BY <1>1 DEF FlapsAreLast
  <2>2. Ends(tms, Append(flaps[i], now))
    BY <1>1, <2>1, AppendEnds
  <2>3. Capped(Len(Append(flaps[i], now))) = Capped(Len(tms))
    BY <1>1, <1>2, <2>1, LinkAssumption DEF Capped
  <2>4. Append(flaps[i], now) \in Seq(0..MaxTime)
    BY <1>1
  <2> QED BY <1>2, <2>2, <2>3, <2>4, WindowEnds
<1>4. /\ flaps' = [flaps EXCEPT ![i] = lst] /\ times' = [times EXCEPT ![i] = tms]
      /\ times'[i] = tms /\ flaps'[i] = lst
      /\ \A q \in Interfaces \ {i} : times'[q] = times[q] /\ flaps'[q] = flaps[q]
      /\ events' = Tail(events) /\ runs' = runs
      /\ UNCHANGED <<now, oper, shut, went>>
      /\ stage = "link_flap" /\ events # <<>>
  BY <1>1 DEF ReadEvent, TypeOK
<1>5. \/ /\ Flapping(lst) /\ reports' = Append(reports, rep)
         /\ context' = i /\ stage' = "link_safety"
      \/ /\ ~Flapping(lst) /\ UNCHANGED <<reports, context, stage>>
  BY <1>4 DEF ReadEvent
<1> HIDE DEF i, lst, tms
<1>6. rep \in [ifname : Interfaces, nth : Nat \ {0}, run : 1..MaxRuns]
  BY <1>1, <1>2
<1>7. /\ reports' \in Seq([ifname : Interfaces, nth : Nat \ {0}, run : 1..MaxRuns])
      /\ Len(reports) \in Nat /\ Len(reports') >= Len(reports)
      /\ \A r \in 1..Len(reports) :
             reports'[r] = reports[r]
      /\ \/ /\ Flapping(lst) /\ Len(reports') = Len(reports) + 1
            /\ reports'[Len(reports')] = rep
         \/ ~Flapping(lst) /\ reports' = reports
  <2>1. reports \in Seq([ifname : Interfaces, nth : Nat \ {0}, run : 1..MaxRuns])
    BY DEF TypeOK
  <2>2. CASE reports' = reports /\ ~Flapping(lst)
    BY <2>1, <2>2
  <2>3. CASE reports' = Append(reports, rep) /\ Flapping(lst)
    <3> HIDE DEF rep
    <3> QED BY <1>6, <2>1, <2>3
  <2> QED BY <1>5, <2>2, <2>3
<1>8. TypeOK'
  <2>1. events' \in Seq(Interfaces)
    BY <1>4 DEF TypeOK
  <2>2. Len(lst) <= FlapCnt
    BY <1>2, <1>3, LinkAssumption DEF Capped
  <2>3. context' \in Interfaces \cup {NoLink} /\ stage' \in Stages
    BY <1>1, <1>5 DEF TypeOK, Stages
  <2>4. \A q \in Interfaces : Len(flaps'[q]) <= FlapCnt
    BY <1>4, <2>2 DEF TypeOK
  <2>5. flaps' \in [Interfaces -> Seq(0..MaxTime)] /\ times' \in [Interfaces -> Seq(0..MaxTime)]
    BY <1>1, <1>2, <1>3, <1>4 DEF TypeOK
  <2> QED BY <1>4, <1>7, <2>1, <2>3, <2>4, <2>5 DEF TypeOK
<1>9. FlapsAreLast'
  <2> SUFFICES ASSUME NEW q \in Interfaces
               PROVE  Ends(times'[q], flaps'[q]) /\ Len(flaps'[q]) = Capped(Len(times'[q]))
    BY DEF FlapsAreLast, Ends, Capped
  <2>1. CASE q = i
    BY <1>3, <1>4, <2>1
  <2>2. CASE q # i
    BY <1>4, <2>2 DEF FlapsAreLast
  <2> QED BY <2>1, <2>2
<1>10. ReportsAreRead'
  <2> SUFFICES ASSUME NEW r \in 1..Len(reports')
               PROVE  reports'[r].nth <= Len(times'[reports'[r].ifname])
    BY DEF ReportsAreRead
  <2>1. CASE r \in 1..Len(reports)
    <3>1. reports[r].ifname \in Interfaces /\ reports[r].nth \in Nat
      BY <2>1, ReportType
    <3>2. reports[r].nth <= Len(times[reports[r].ifname])
      BY <2>1 DEF ReportsAreRead
    <3>3. reports'[r] = reports[r]
      BY <1>7, <2>1
    <3>4. \A q \in Interfaces : /\ Len(times[q]) \in Nat /\ Len(times'[q]) \in Nat
                                /\ Len(times[q]) <= Len(times'[q])
      BY <1>2, <1>4
    <3> QED BY <3>1, <3>2, <3>3, <3>4
  <2>2. CASE r \notin 1..Len(reports)
    <3>1. reports'[r] = rep
      BY <1>7, <2>2
    <3> QED BY <1>2, <1>4, <3>1
  <2> QED BY <2>1, <2>2
<1>11. ContextIsReported'
  <2>1. CASE Flapping(lst)
    <3>1. context' = i /\ Len(reports') \in 1..Len(reports') /\ reports'[Len(reports')] = rep
      BY <1>5, <1>7, <2>1
    <3> QED BY <1>4, <3>1 DEF ContextIsReported
  <2>2. CASE ~Flapping(lst)
    BY <1>4, <1>5, <2>2 DEF ContextIsReported
  <2> QED BY <2>1, <2>2
<1>12. Started'
  BY <1>1, <1>4 DEF Started
<1>13. ReportsMatch'
  <2> SUFFICES ASSUME NEW q \in Interfaces, NEW k \in 1..Len(times'[q])
               PROVE  Flap(times', q, k) <=> Reported(q, k)'
    BY DEF ReportsMatch, Flap, Reported
  <2>1. Reported(q, k)' <=>
           \/ Reported(q, k)
           \/ Flapping(lst) /\ q = i /\ k = Len(tms)
    <3>1. Reported(q, k) => Reported(q, k)'
      BY <1>7 DEF Reported
    <3>2. ASSUME Flapping(lst), q = i, k = Len(tms) PROVE Reported(q, k)'
      <4>1. Len(reports') \in 1..Len(reports') /\ reports'[Len(reports')] = rep
        BY <1>7, <3>2
      <4> QED BY <3>2, <4>1 DEF Reported
    <3>3. ASSUME Reported(q, k)', ~Reported(q, k)
          PROVE  Flapping(lst) /\ q = i /\ k = Len(tms)
      <4>1. PICK r \in 1..Len(reports') : reports'[r].ifname = q /\ reports'[r].nth = k
        BY <3>3 DEF Reported
      <4>2. r \notin 1..Len(reports)
        BY <1>7, <3>3, <4>1 DEF Reported
      <4>3. Flapping(lst) /\ reports'[r] = rep
        BY <1>7, <4>2
      <4> QED BY <4>1, <4>3
    <3> QED BY <3>1, <3>2, <3>3
  <2>2. CASE q = i /\ k = Len(tms)
    <3>1. ~Reported(i, Len(tms))
      <4> SUFFICES ASSUME NEW r \in 1..Len(reports),
                          reports[r].ifname = i, reports[r].nth = Len(tms)
                   PROVE  FALSE
        BY DEF Reported
      <4>1. Len(tms) <= Len(times[i])
        BY DEF ReportsAreRead
      <4> QED BY <1>2, <4>1
    <3>2. Flap(times', i, Len(tms)) <=> Flapping(lst)
      <4>1. Flap(times', i, Len(tms)) <=>
               Len(tms) >= FlapCnt /\ tms[Len(tms)] - tms[Len(tms) - FlapCnt + 1] <= FlapInt
        BY <1>4 DEF Flap
      <4>2. Len(lst) = FlapCnt <=> Len(tms) >= FlapCnt
        BY <1>2, <1>3, LinkAssumption DEF Capped
      <4>3. ASSUME Len(lst) = FlapCnt
            PROVE  lst[FlapCnt] = tms[Len(tms)] /\ lst[1] = tms[Len(tms) - FlapCnt + 1]
        <5>1. /\ 1 \in 1..Len(lst) /\ FlapCnt \in 1..Len(lst)
              /\ Len(tms) - Len(lst) + 1 = Len(tms) - FlapCnt + 1
              /\ Len(tms) - Len(lst) + FlapCnt = Len(tms)
          BY <1>2, <4>3, LinkAssumption
        <5> QED BY <1>3, <5>1 DEF Ends
      <4> QED BY <4>1, <4>2, <4>3 DEF Flapping
    <3> QED BY <2>1, <2>2, <3>1, <3>2
  <2>3. CASE ~(q = i /\ k = Len(tms))
    <3>1. k \in 1..Len(times[q])
      BY <1>2, <1>4, <2>3
    <3>2. Flap(times', q, k) <=> Flap(times, q, k)
      <4>1. CASE q = i
        <5>1. k \in 1..Len(times[i]) /\ FlapCnt \in Nat /\ FlapCnt >= 2 /\ Len(times[i]) \in Nat
          BY <1>2, <3>1, <4>1, LinkAssumption
        <5>2. k >= FlapCnt => k - FlapCnt + 1 \in 1..Len(times[i])
          BY <5>1
        <5>3. times'[i][k] = times[i][k]
          BY <1>2, <1>4, <5>1
        <5>4. k >= FlapCnt => times'[i][k - FlapCnt + 1] = times[i][k - FlapCnt + 1]
          BY <1>2, <1>4, <5>2
        <5> QED BY <4>1, <5>3, <5>4 DEF Flap
      <4>2. CASE q # i
        BY <1>4, <4>2 DEF Flap
      <4> QED BY <4>1, <4>2
    <3> QED BY <2>1, <2>3, <3>1, <3>2 DEF ReportsMatch
  <2> QED BY <2>2, <2>3
<1> QED BY <1>8, <1>9, <1>10, <1>11, <1>12, <1>13

\* Every step keeps the invariant.
LEMMA NextInv == IInv /\ [Next]_vars => IInv'
<1> SUFFICES ASSUME IInv, [Next]_vars PROVE IInv'
  OBVIOUS
<1>1. TypeOK /\ Started
  BY DEF IInv
<1> USE DEF plugin, engine, switch
<1>2. CASE Tick
  <2>1. TypeOK'
    BY <1>1, <1>2, LinkAssumption DEF TypeOK, Tick
  <2> QED BY <1>1, <1>2, <2>1, PluginIdle DEF Tick, Started
<1>3. ASSUME NEW i \in Interfaces, LinkDown(i) PROVE IInv'
  <2>1. GoesDown(i) /\ UNCHANGED <<now, shut, plugin, engine>>
    BY <1>3 DEF LinkDown
  <2>2. TypeOK'
    BY <1>1, <2>1, GoesDownType DEF TypeOK
  <2> QED BY <1>1, <2>1, <2>2, PluginIdle DEF Started
<1>4. ASSUME NEW i \in Interfaces, LinkUp(i) PROVE IInv'
  <2>1. TypeOK'
    BY <1>1, <1>4 DEF TypeOK, LinkUp
  <2> QED BY <1>1, <1>4, <2>1, PluginIdle DEF LinkUp, Started
<1>5. CASE ReadEvent
  BY <1>5, ReadEventInv
<1>6. CASE SafetyOK
  <2>1. TypeOK' /\ Started'
    BY <1>1, <1>6 DEF TypeOK, SafetyOK, Stages, Started
  <2> QED BY <1>6, <2>1, PluginIdle DEF SafetyOK
<1>7. CASE MissingName \/ ShutFails \/ GiveUp
  <2>1. TypeOK' /\ Started' /\ UNCHANGED <<switch, plugin, context, runs>>
    BY <1>1, <1>7 DEF TypeOK, MissingName, ShutFails, GiveUp, Stages, Started
  <2> QED BY <2>1, PluginIdle
<1>8. CASE ShutLink
  <2>1. context \in Interfaces
    BY <1>1, <1>8 DEF TypeOK, ShutLink
  <2>2. TypeOK'
    <3>1. CASE context \in oper
      <4>1. GoesDown(context)
        BY <1>8, <3>1 DEF ShutLink
      <4> QED BY <1>1, <1>8, <2>1, <4>1, GoesDownType DEF TypeOK, ShutLink, Stages
    <3>2. CASE context \notin oper
      BY <1>1, <1>8, <2>1, <3>2 DEF TypeOK, ShutLink, Stages
    <3> QED BY <3>1, <3>2
  <2> QED BY <1>1, <1>8, <2>2, PluginIdle DEF ShutLink, Started
<1>9. CASE Ask
  <2>1. runs' = runs + 1 /\ context' = NoLink /\ runs' \in 1..MaxRuns /\ stage' \in Stages
    BY <1>1, <1>9, LinkAssumption DEF Ask, Begin, TypeOK, Stages
  <2>2. TypeOK' /\ Started'
    BY <1>1, <1>9, <2>1 DEF TypeOK, Ask, Started
  <2> QED BY <1>9, <2>1, <2>2, PluginIdle DEF Ask
<1>10. CASE UNCHANGED vars
  <2>1. TypeOK' /\ Started'
    BY <1>1, <1>10 DEF vars, TypeOK, Started
  <2> QED BY <1>10, <2>1, PluginIdle DEF vars
<1> QED BY <1>2, <1>3, <1>4, <1>5, <1>6, <1>7, <1>8, <1>9, <1>10
        DEF Next, Plugin, Switch, Engine

-----------------------------------------------------------------------------
(* Late events                                                              *)

\* num says of each unread event the how-manieth down of its interface it is.
Numbers(num) ==
    /\ num \in [1..Len(events) -> Nat]
    /\ \A j \in 1..Len(events) :
        num[j] > Len(times[events[j]]) /\ num[j] <= Len(went[events[j]])
    /\ \A j, l \in 1..Len(events) :
        j < l /\ events[j] = events[l] => num[j] < num[l]

\* The k-th time read of an interface is of its k-th down, and not before it.
ReadAfter ==
    /\ \A i \in Interfaces :
        /\ Len(times[i]) <= Len(went[i])
        /\ \A k \in 1..Len(times[i]) : went[i][k] <= times[i][k]
        /\ \A k \in 1..Len(went[i]) : went[i][k] <= now
    /\ \E num : Numbers(num)

LEMMA InitAfter == Init => ReadAfter
<1> SUFFICES ASSUME Init PROVE ReadAfter
  OBVIOUS
<1>1. events = <<>> /\ \A i \in Interfaces : times[i] = <<>> /\ went[i] = <<>>
  BY DEF Init
<1>2. Numbers([j \in 1..Len(events) |-> 0])
  BY <1>1 DEF Numbers
<1> QED BY <1>1, <1>2 DEF ReadAfter

\* An interface that goes down gets the next number.
LEMMA GoesDownAfter ==
    ASSUME TypeOK, ReadAfter, NEW i \in Interfaces, GoesDown(i), UNCHANGED <<now, times>>
    PROVE  ReadAfter'
<1>1. /\ went' = [went EXCEPT ![i] = Append(@, now)] /\ events' = Append(events, i)
      /\ went'[i] = Append(went[i], now)
      /\ \A q \in Interfaces \ {i} : went'[q] = went[q]
  BY DEF GoesDown, TypeOK
<1>2. /\ events \in Seq(Interfaces) /\ now \in Nat
      /\ \A q \in Interfaces : went[q] \in Seq(0..MaxTime) /\ times[q] \in Seq(0..MaxTime)
  BY LinkAssumption DEF TypeOK
<1>3. /\ Len(events) \in Nat /\ Len(events') = Len(events) + 1
      /\ events'[Len(events) + 1] = i
      /\ \A j \in 1..Len(events) : events'[j] = events[j] /\ events[j] \in Interfaces
  BY <1>1, <1>2
<1>4. /\ \A q \in Interfaces : /\ Len(went[q]) \in Nat /\ Len(times[q]) \in Nat
                               /\ Len(went'[q]) >= Len(went[q])
                               /\ \A k \in 1..Len(went[q]) : went'[q][k] = went[q][k]
      /\ Len(went'[i]) = Len(went[i]) + 1 /\ went'[i][Len(went[i]) + 1] = now
  BY <1>1, <1>2
<1>5. PICK num : Numbers(num)
  BY DEF ReadAfter
<1>6. (\E f : Numbers(f))'
  <2>0. PICK new :
           new = [j \in 1..(Len(events) + 1) |->
                    IF j = Len(events) + 1 THEN Len(went[i]) + 1 ELSE num[j]]
    OBVIOUS
  <2>1. /\ new \in [1..Len(events') -> Nat] /\ new[Len(events) + 1] = Len(went[i]) + 1
        /\ \A j \in 1..Len(events) : new[j] = num[j] /\ num[j] \in Nat
    <3>1. num \in [1..Len(events) -> Nat] /\ Len(went[i]) + 1 \in Nat
      BY <1>4, <1>5 DEF Numbers
    <3>2. /\ Len(events) + 1 \in 1..(Len(events) + 1)
          /\ \A j \in 1..Len(events) : j \in 1..(Len(events) + 1) /\ j # Len(events) + 1
          /\ \A j \in 1..(Len(events) + 1) : j # Len(events) + 1 => j \in 1..Len(events)
      BY <1>3
    <3> QED BY <1>3, <2>0, <3>1, <3>2
  <2>2. \A j \in 1..Len(events) :
            num[j] > Len(times[events[j]]) /\ num[j] <= Len(went[events[j]])
    BY <1>5 DEF Numbers
  <2>3. ASSUME NEW j \in 1..Len(events')
        PROVE  new[j] > Len(times'[events'[j]]) /\ new[j] <= Len(went'[events'[j]])
    <3>1. CASE j \in 1..Len(events)
      BY <1>3, <1>4, <2>1, <2>2, <3>1
    <3>2. CASE j = Len(events) + 1
      BY <1>3, <1>4, <2>1, <3>2 DEF ReadAfter
    <3> QED BY <1>3, <3>1, <3>2
  <2>4. ASSUME NEW j \in 1..Len(events'), NEW l \in 1..Len(events'),
               j < l, events'[j] = events'[l]
        PROVE  new[j] < new[l]
    <3>1. j \in 1..Len(events)
      BY <1>3, <2>4
    <3>2. CASE l \in 1..Len(events)
      BY <1>3, <1>5, <2>1, <2>4, <3>1, <3>2 DEF Numbers
    <3>3. CASE l = Len(events) + 1
      BY <1>3, <1>4, <2>1, <2>2, <2>4, <3>1, <3>3
    <3> QED BY <1>3, <3>2, <3>3
  <2> QED BY <2>1, <2>3, <2>4 DEF Numbers
<1>7. ASSUME NEW q \in Interfaces
      PROVE  /\ Len(times'[q]) <= Len(went'[q])
             /\ \A k \in 1..Len(times'[q]) : went'[q][k] <= times'[q][k]
             /\ \A k \in 1..Len(went'[q]) : went'[q][k] <= now'
  <2>1. /\ Len(times[q]) <= Len(went[q])
        /\ \A k \in 1..Len(times[q]) : went[q][k] <= times[q][k]
        /\ \A k \in 1..Len(went[q]) : went[q][k] <= now
    BY DEF ReadAfter
  <2>2. \A k \in 1..Len(times[q]) : k \in 1..Len(went[q])
    BY <1>4, <2>1
  <2>3. ASSUME NEW k \in 1..Len(went'[q]) PROVE went'[q][k] <= now
    <3>1. CASE k \in 1..Len(went[q])
      BY <1>4, <2>1, <3>1
    <3>2. CASE k \notin 1..Len(went[q])
      <4>1. q = i /\ k = Len(went[i]) + 1
        BY <1>1, <1>4, <3>2
      <4> QED BY <1>2, <1>4, <4>1
    <3> QED BY <3>1, <3>2
  <2> QED BY <1>4, <2>1, <2>2, <2>3
<1> QED BY <1>6, <1>7 DEF ReadAfter

\* The event that is read first has the least number of its interface, so that
\* the time of its reading has the place its down has among the downs.
LEMMA ReadEventAfter ==
    ASSUME TypeOK, ReadAfter, ReadEvent
    PROVE  ReadAfter'
<1> DEFINE i == Head(events)
<1>1. /\ events # <<>> /\ events' = Tail(events) /\ UNCHANGED <<now, went>>
      /\ times' = [times EXCEPT ![i] = Append(@, now)]
  BY DEF ReadEvent
<1>2. /\ events \in Seq(Interfaces) /\ now \in Nat /\ i \in Interfaces
      /\ \A q \in Interfaces : went[q] \in Seq(0..MaxTime) /\ times[q] \in Seq(0..MaxTime)
      /\ times'[i] = Append(times[i], now)
      /\ \A q \in Interfaces \ {i} : times'[q] = times[q]
  BY <1>1, LinkAssumption DEF TypeOK
<1>3. /\ Len(events) \in Nat \ {0} /\ Len(events') = Len(events) - 1
      /\ 1 \in 1..Len(events) /\ events[1] = i
      /\ \A j \in 1..Len(events') : j + 1 \in 1..Len(events) /\ events'[j] = events[j + 1]
      /\ \A j \in 1..Len(events) : events[j] \in Interfaces
  BY <1>1, <1>2
<1> HIDE DEF i
<1>4. /\ \A q \in Interfaces : Len(went[q]) \in Nat /\ Len(times[q]) \in Nat
      /\ Len(times'[i]) = Len(times[i]) + 1 /\ times'[i][Len(times[i]) + 1] = now
      /\ \A k \in 1..Len(times[i]) : times'[i][k] = times[i][k]
  BY <1>2
<1>5. PICK num : Numbers(num)
  BY DEF ReadAfter
<1>6. /\ \A j \in 1..Len(events) :
            /\ num[j] \in Nat
            /\ num[j] > Len(times[events[j]]) /\ num[j] <= Len(went[events[j]])
      /\ \A j, l \in 1..Len(events) :
            j < l /\ events[j] = events[l] => num[j] < num[l]
  BY <1>5 DEF Numbers
<1>7. (\E f : Numbers(f))'
  <2>0. PICK new : new = [j \in 1..Len(events') |-> num[j + 1]]
    OBVIOUS
  <2>1. /\ new \in [1..Len(events') -> Nat]
        /\ \A j \in 1..Len(events') : new[j] = num[j + 1]
    BY <1>3, <1>6, <2>0
  <2>2. ASSUME NEW j \in 1..Len(events')
        PROVE  new[j] > Len(times'[events'[j]]) /\ new[j] <= Len(went'[events'[j]])
    <3>1. /\ j + 1 \in 1..Len(events) /\ events'[j] = events[j + 1] /\ new[j] = num[j + 1]
          /\ 1 < j + 1
      BY <1>3, <2>1
    <3>2. CASE events[j + 1] = i
      <4>1. num[1] < num[j + 1] /\ num[1] > Len(times[i])
        BY <1>3, <1>6, <3>1, <3>2
      <4>2. num[1] \in Nat /\ num[j + 1] \in Nat /\ num[j + 1] <= Len(went[i])
        BY <1>3, <1>6, <3>1, <3>2
      <4>3. num[j + 1] > Len(times[i]) + 1
        BY <1>2, <1>4, <4>1, <4>2
      <4> QED BY <1>1, <1>4, <3>1, <3>2, <4>2, <4>3
    <3>3. CASE events[j + 1] # i
      BY <1>1, <1>2, <1>3, <1>6, <3>1, <3>3
    <3> QED BY <3>2, <3>3
  <2>3. ASSUME NEW j \in 1..Len(events'), NEW l \in 1..Len(events'),
               j < l, events'[j] = events'[l]
        PROVE  new[j] < new[l]
    <3>1. /\ j + 1 \in 1..Len(events) /\ l + 1 \in 1..Len(events) /\ j + 1 < l + 1
          /\ events[j + 1] = events[l + 1] /\ new[j] = num[j + 1] /\ new[l] = num[l + 1]
      BY <1>3, <2>1, <2>3
    <3> QED BY <1>6, <3>1
  <2> QED BY <2>1, <2>2, <2>3 DEF Numbers
<1>8. Len(times[i]) + 1 <= Len(went[i])
  <2>1. num[1] \in Nat /\ num[1] > Len(times[i]) /\ num[1] <= Len(went[i])
    BY <1>3, <1>6
  <2> QED BY <1>2, <1>4, <2>1
<1>9. ASSUME NEW q \in Interfaces
      PROVE  /\ Len(times'[q]) <= Len(went'[q])
             /\ \A k \in 1..Len(times'[q]) : went'[q][k] <= times'[q][k]
             /\ \A k \in 1..Len(went'[q]) : went'[q][k] <= now'
  <2>1. /\ Len(times[q]) <= Len(went[q])
        /\ \A k \in 1..Len(times[q]) : went[q][k] <= times[q][k]
        /\ \A k \in 1..Len(went[q]) : went[q][k] <= now
    BY DEF ReadAfter
  <2>2. CASE q = i
    <3>1. Len(times[i]) + 1 \in 1..Len(went[i])
      BY <1>2, <1>4, <1>8
    <3>2. went[i][Len(times[i]) + 1] <= now
      BY <2>1, <2>2, <3>1
    <3>3. ASSUME NEW k \in 1..Len(times'[i]) PROVE went[i][k] <= times'[i][k]
      <4>1. k \in 1..Len(times[i]) \/ k = Len(times[i]) + 1
        BY <1>2, <1>4
      <4> QED BY <1>4, <2>1, <2>2, <3>2, <4>1
    <3> QED BY <1>1, <1>4, <1>8, <2>1, <2>2, <3>3
  <2>3. CASE q # i
    BY <1>1, <1>2, <2>1, <2>3
  <2> QED BY <2>2, <2>3
<1> QED BY <1>7, <1>9 DEF ReadAfter

LEMMA NextAfter == TypeOK /\ ReadAfter /\ [Next]_vars => ReadAfter'
<1> SUFFICES ASSUME TypeOK, ReadAfter, [Next]_vars PROVE ReadAfter'
  OBVIOUS
<1>1. ASSUME UNCHANGED <<went, events, times>>, now' \in Nat, now' >= now
      PROVE  ReadAfter'
  <2>1. \A q \in Interfaces : \A k \in 1..Len(went[q]) :
            went[q][k] \in Nat /\ now \in Nat
    BY LinkAssumption DEF TypeOK
  <2>2. (\E num : Numbers(num))'
    BY <1>1 DEF ReadAfter, Numbers
  <2> QED BY <1>1, <2>1, <2>2 DEF ReadAfter
<1>2. now \in Nat
  BY LinkAssumption DEF TypeOK
<1>3. CASE Tick
  BY <1>1, <1>2, <1>3 DEF Tick, plugin
<1>4. ASSUME NEW i \in Interfaces, LinkDown(i) PROVE ReadAfter'
  BY <1>4, GoesDownAfter DEF LinkDown, plugin
<1>5. CASE ReadEvent
  BY <1>5, ReadEventAfter
<1>6. CASE ShutLink
  <2>1. context \in Interfaces /\ UNCHANGED <<now, times>>
    BY <1>6 DEF ShutLink, TypeOK, plugin
  <2>2. CASE context \in oper
    BY <1>6, <2>1, <2>2, GoesDownAfter DEF ShutLink
  <2>3. CASE context \notin oper
    BY <1>1, <1>2, <1>6, <2>1, <2>3 DEF ShutLink
  <2> QED BY <2>2, <2>3
<1>7. CASE \/ SafetyOK \/ MissingName \/ ShutFails \/ Ask \/ GiveUp \/ UNCHANGED vars
           \/ \E i \in Interfaces : LinkUp(i)
  BY <1>1, <1>2, <1>7 DEF SafetyOK, MissingName, ShutFails, Ask, GiveUp, LinkUp, vars,
                          switch, plugin
<1> QED BY <1>3, <1>4, <1>5, <1>6, <1>7 DEF Next, Plugin, Switch, Engine

\* A window of times t is as wide by earlier times w, unless its first is later.
LEMMA WindowLate ==
    ASSUME NEW t \in Seq(0..MaxTime), NEW w \in Seq(0..MaxTime), Len(t) <= Len(w),
           \A k \in 1..Len(t) : w[k] <= t[k],
           NEW k \in 1..Len(t), NEW j \in 1..k,
           t[k] - t[j] <= FlapInt, ~(w[j] < t[j])
    PROVE  w[k] - w[j] <= FlapInt
<1>1. Len(t) \in Nat /\ Len(w) \in Nat
  OBVIOUS
<1>2. k \in 1..Len(w) /\ j \in 1..Len(w) /\ j \in 1..Len(t)
  BY <1>1
<1>3. t[k] \in Int /\ t[j] \in Int /\ w[k] \in Int /\ w[j] \in Int
  <2> DEFINE T == 0..MaxTime
  <2>1. t \in Seq(T) /\ w \in Seq(T)
    OBVIOUS
  <2> HIDE DEF T
  <2>2. t[k] \in T /\ t[j] \in T /\ w[k] \in T /\ w[j] \in T
    BY <1>2, <2>1
  <2> QED BY <2>2 DEF T
<1>4. w[k] <= t[k] /\ w[j] <= t[j]
  BY <1>2
<1>5. FlapInt \in Nat
  BY LinkAssumption
<1>6. w[j] = t[j]
  BY <1>3, <1>4
<1> QED BY <1>3, <1>4, <1>5, <1>6

\* So what is reported happened within flap_int, or was read late.
LEMMA LateByInv == IInv /\ ReadAfter => SlowOnlyIfLate
<1> SUFFICES ASSUME IInv, ReadAfter, NEW i \in Interfaces, NEW k \in 1..Len(times[i]),
                    Reported(i, k)
             PROVE  Flap(went, i, k) \/ went[i][k - FlapCnt + 1] < times[i][k - FlapCnt + 1]
  BY DEF SlowOnlyIfLate
<1> DEFINE t == times[i]
           w == went[i]
           j == k - FlapCnt + 1
<1>1. k >= FlapCnt /\ t[k] - t[j] <= FlapInt
  BY DEF IInv, ReportsMatch, Flap
<1>2. t \in Seq(0..MaxTime) /\ w \in Seq(0..MaxTime)
  BY DEF IInv, TypeOK
<1>3. Len(t) <= Len(w) /\ \A q \in 1..Len(t) : w[q] <= t[q]
  BY DEF ReadAfter
<1>4. Len(t) \in Nat
  BY <1>2
<1>5. FlapCnt \in Nat /\ FlapCnt >= 2
  BY LinkAssumption
<1>6. k \in 1..Len(t) /\ j \in 1..k
  BY <1>1, <1>4, <1>5
<1> HIDE DEF t, w, j
<1>7. w[k] - w[j] <= FlapInt \/ w[j] < t[j]
  BY <1>1, <1>2, <1>3, <1>6, WindowLate
<1> QED BY <1>1, <1>7 DEF Flap, t, w, j

-----------------------------------------------------------------------------
(* Theorems                                                                 *)

\* All variables keep their types (link_flap.py, link_safety.py, link_down.py).
THEOREM TypeCorrect == Spec => []TypeOK
<1>1. IInv => TypeOK
  BY DEF IInv
<1> QED BY <1>1, InitInv, NextInv, PTL DEF Spec

\* The request loop of link_flap.py reports a down event exactly if it is the last
\* of flap_cnt that were read within flap_int, for any number of requests.
THEOREM ReportsMatchReads == Spec => []ReportsMatch
<1>1. IInv => ReportsMatch
  BY DEF IInv
<1> QED BY <1>1, InitInv, NextInv, PTL DEF Spec

\* link_down.py shuts only what link_flap.py has reported in the same run.
THEOREM OnlyReportedIsShut == Spec => ShutIsReported
<1>1. IInv /\ [Next]_vars =>
        [shut' # shut => \E r \in 1..Len(reports) :
             reports[r].run = runs /\ shut' = shut \cup {reports[r].ifname}]_vars
  <2> SUFFICES ASSUME IInv, [Next]_vars, shut' # shut
               PROVE  \E r \in 1..Len(reports) :
                          reports[r].run = runs /\ shut' = shut \cup {reports[r].ifname}
    OBVIOUS
  <2>1. ShutLink
    BY DEF Next, Plugin, Switch, Engine, vars, switch, Tick, LinkDown, LinkUp,
           ReadEvent, SafetyOK, MissingName, ShutFails, Ask, GiveUp
  <2> QED BY <2>1 DEF ShutLink, IInv, ContextIsReported
<1> QED BY <1>1, InitInv, NextInv, PTL DEF Spec, ShutIsReported

\* link_flap.py reports downs that happened further apart than flap_int only if it
\* read the first of them late.
THEOREM SlowIsLate == Spec => []SlowOnlyIfLate
<1>1. Init => IInv /\ ReadAfter
  BY InitInv, InitAfter
<1>2. IInv /\ ReadAfter /\ [Next]_vars => (IInv /\ ReadAfter)'
  BY NextInv, NextAfter DEF IInv
<1> QED BY <1>1, <1>2, LateByInv, PTL DEF Spec
=============================================================================
