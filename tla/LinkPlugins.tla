------------------------------ MODULE LinkPlugins ------------------------------
(***************************************************************************)
(* The plugins link_flap, link_safety and link_down, called one after      *)
(* another by an engine for one anomaly: link_flap reports an interface    *)
(* that goes down FlapCnt times within FlapInt seconds, link_safety is to  *)
(* tell whether enough links are up, link_down shuts the interface.        *)
(*                                                                         *)
(* Outside are the switch, whose interfaces go down and come up, its event *)
(* service, which keeps events for a subscriber until it reads them, and   *)
(* the engine, which passes what link_flap said on as context and may give *)
(* a sequence up.  Of time the model has the whole seconds the code reads. *)
(***************************************************************************)
EXTENDS LinkParams

VARIABLES
    now,        \* time.time(), in seconds
    oper,       \* interfaces that are up
    shut,       \* interfaces link_down has shut
    went,       \* times at which each interface went down
    events,     \* down events the subscriber of link_flap has not read
    flaps,      \* self.flaps
    times,      \* times at which link_flap has read of each interface's downs
    reports,    \* reports of link_flap: the interface, which of its downs
                \* brought the report about, and in which run
    stage,      \* the action that has a request, or "idle"
    context,    \* ifname in the context of that request
    runs

switch  == <<now, oper, shut, went, events>>
plugin  == <<flaps, times, reports>>
engine  == <<stage, context, runs>>
vars    == <<switch, plugin, engine>>

Init ==
    /\ now = 0
    /\ oper = Interfaces /\ shut = {}
    /\ went = [i \in Interfaces |-> <<>>]
    /\ events = <<>>
    /\ flaps = [i \in Interfaces |-> <<>>]
    /\ times = [i \in Interfaces |-> <<>>]
    /\ reports = <<>>
    /\ stage = "idle" /\ context = NoLink /\ runs = 0

-----------------------------------------------------------------------------
(* The switch                                                               *)

Tick ==
    /\ now < MaxTime /\ now' = now + 1
    /\ UNCHANGED <<oper, shut, went, events, plugin, engine>>

\* An interface goes down; the event service tells its subscribers.
GoesDown(i) ==
    /\ i \in oper
    /\ oper' = oper \ {i}
    /\ went' = [went EXCEPT ![i] = Append(@, now)]
    /\ events' = Append(events, i)

LinkDown(i) ==
    /\ Len(went[i]) < MaxDowns[i]
    /\ GoesDown(i)
    /\ UNCHANGED <<now, shut, plugin, engine>>

\* It comes up, unless it is shut.  The event makes link_flap send a heartbeat.
LinkUp(i) ==
    /\ i \notin oper /\ i \notin shut
    /\ oper' = oper \cup {i}
    /\ UNCHANGED <<now, shut, went, events, plugin, engine>>

-----------------------------------------------------------------------------
(* link_flap                                                                *)

\* Mutant: no time is ever dropped.
Window_All(lst) == lst

\* Mutant: times are dropped before the new one is added.
Window_Short(lst) ==
    IF Len(lst) > FlapCnt - 1 THEN SubSeq(lst, Len(lst) - FlapCnt + 2, Len(lst)) ELSE lst

\* The last FlapCnt of the times.
Window(lst) ==
    IF Len(lst) > FlapCnt THEN SubSeq(lst, Len(lst) - FlapCnt + 1, Len(lst)) ELSE lst

\* Mutant: flaps are counted, whatever their times.
Flapping_Count(lst) == Len(lst) = FlapCnt

Flapping(lst) == Len(lst) = FlapCnt /\ lst[FlapCnt] - lst[1] <= FlapInt

\* One round of the loop of request with a down event.  Times are those at which
\* events are read.  They are kept from one request to the next.
ReadEvent ==
    LET i   == Head(events)
        lst == Window(Append(flaps[i], now))
    IN
    /\ stage = "link_flap" /\ events # <<>>
    /\ events' = Tail(events)
    /\ flaps' = [flaps EXCEPT ![i] = lst]
    /\ times' = [times EXCEPT ![i] = Append(@, now)]
    /\ IF Flapping(lst)
       THEN /\ reports' = Append(reports, [ifname |-> i, nth |-> Len(times'[i]), run |-> runs])
            /\ context' = i
            /\ stage' = "link_safety"
       ELSE UNCHANGED <<reports, context, stage>>
    /\ UNCHANGED <<now, oper, shut, went, runs>>

-----------------------------------------------------------------------------
(* link_safety and link_down                                                *)

\* link_safety counts the links that are up and answers 0, however few: the
\* count shows in the text of the result only.
SafetyOK ==
    /\ stage = "link_safety" /\ context # NoLink
    /\ stage' = "link_down"
    /\ UNCHANGED <<switch, plugin, context, runs>>

\* A context without an interface: the result code is -1, which ends the run.
MissingName ==
    /\ stage \in {"link_safety", "link_down"} /\ context = NoLink
    /\ stage' = "idle"
    /\ UNCHANGED <<switch, plugin, context, runs>>

\* link_down shuts the interface, which takes it down if it is up: link_flap's
\* subscriber gets an event of this too.  The command's own result is ignored.
ShutLink ==
    /\ stage = "link_down" /\ context # NoLink
    /\ stage' = "idle"
    /\ shut' = shut \cup {context}
    /\ IF context \in oper THEN GoesDown(context) ELSE UNCHANGED <<oper, went, events>>
    /\ UNCHANGED <<now, plugin, context, runs>>

ShutFails ==
    /\ stage = "link_down" /\ context # NoLink
    /\ stage' = "idle"
    /\ UNCHANGED <<switch, plugin, context, runs>>

-----------------------------------------------------------------------------
(* The engine                                                               *)

\* Mutant: the context of the last run is kept.
Begin_KeepsContext == runs' = runs + 1 /\ UNCHANGED context

\* A run begins with an empty context (AnomalyHandler.start).
Begin == runs' = runs + 1 /\ context' = NoLink

\* The request that comes first is link_flap's, or, in a run for an anomaly of
\* another plugin, that of one of the two actions bound to it.
Ask ==
    /\ stage = "idle" /\ runs < MaxRuns
    /\ stage' \in {"link_flap", "link_safety", "link_down"}
    /\ Begin
    /\ UNCHANGED <<switch, plugin>>

\* No more requests in this run: the mitigation lock is lost to the clock, maybe
\* because link_safety divided by a count of no links and did not answer.
GiveUp ==
    /\ stage \in {"link_safety", "link_down"}
    /\ stage' = "idle"
    /\ UNCHANGED <<switch, plugin, context, runs>>

Plugin == ReadEvent \/ SafetyOK \/ MissingName \/ ShutLink \/ ShutFails
Switch == Tick \/ \E i \in Interfaces : LinkDown(i) \/ LinkUp(i)
Engine == Ask \/ GiveUp
Next   == Plugin \/ Switch \/ Engine

Spec == Init /\ [][Next]_vars

-----------------------------------------------------------------------------
(* Properties                                                               *)

Stages == {"idle", "link_flap", "link_safety", "link_down"}

TypeOK ==
    /\ now \in 0..MaxTime
    /\ oper \subseteq Interfaces /\ shut \subseteq Interfaces \ oper
    /\ went \in [Interfaces -> Seq(0..MaxTime)]
    /\ events \in Seq(Interfaces)
    /\ flaps \in [Interfaces -> Seq(0..MaxTime)]
    /\ \A i \in Interfaces : Len(flaps[i]) <= FlapCnt
    /\ times \in [Interfaces -> Seq(0..MaxTime)]
    /\ reports \in Seq([ifname : Interfaces, nth : Nat \ {0}, run : 1..MaxRuns])
    /\ stage \in Stages
    /\ context \in Interfaces \cup {NoLink}
    /\ runs \in 0..MaxRuns

Reported(i, k) == \E r \in 1..Len(reports) : reports[r].ifname = i /\ reports[r].nth = k

\* The k-th down of i is the last of FlapCnt within FlapInt, by the times in t.
Flap(t, i, k) == k >= FlapCnt /\ t[i][k] - t[i][k - FlapCnt + 1] <= FlapInt

\* The lists that link_flap keeps across requests do what is wanted of them: a
\* down event leads to a report exactly if it is the last of flap_cnt read within
\* flap_int, no matter how many requests, and reports, lie between them.
ReportsMatch ==
    \A i \in Interfaces : \A k \in 1..Len(times[i]) : Flap(times, i, k) <=> Reported(i, k)

\* The times are those of reading.  So downs that were further apart than flap_int
\* may be reported, but only if the first of them was read late, because there was
\* no request then.
SlowOnlyIfLate ==
    \A i \in Interfaces : \A k \in 1..Len(times[i]) :
        Reported(i, k) =>
            Flap(went, i, k) \/ went[i][k - FlapCnt + 1] < times[i][k - FlapCnt + 1]

\* The interface that link_down shuts was reported by link_flap in the same run,
\* through whatever context the engine passed on between the two.
ShutIsReported ==
    [][shut' # shut => \E r \in 1..Len(reports) :
           reports[r].run = runs /\ shut' = shut \cup {reports[r].ifname}]_vars
=============================================================================
