-------------------------- MODULE PluginProcProofs --------------------------
(***************************************************************************)
(* Proofs about PluginProc, for any number of actions and requests.        *)
(***************************************************************************)
EXTENDS PluginProc, SequenceTheorems, TLAPS

\* A holder as __init__ leaves it.
Fresh(a) ==
    /\ thr[a] = "idle" /\ fd[a] = 0
    /\ last_request[a] = None /\ response[a] = None
    /\ ~req_end[a] /\ ~touchNew[a] /\ instance_id[a] = None

\* Registration and loading go together, and a holder not loaded is untouched.
LoadInv ==
    /\ pc = "start" => loaded = 0 /\ registered = 0
    /\ pc = "load" => registered = loaded
    /\ pc \in {"left", "ret"} => registered = 0
    /\ pc \in {"start", "load"} => \A a \in Actions : Fresh(a)
    /\ \A a \in Actions \ active : Fresh(a)

\* Shutting the plugins down goes with shutdown_request, and with leaving the
\* loop.
ShutInv ==
    /\ pluginShut # {} => shutdownReq
    /\ shutdownReq => /\ active \subseteq pluginShut
                      /\ pc \in {"serve", "leave", "left", "ret"} \cup Stopped
    /\ pc \in {"leave", "left"} /\ fails = 0 => shutdownReq \/ signals # {}
    /\ pc \in {"ret", "done"} /\ fails = 0 => shutdownReq

\* A pending response is that of the last request; once the end is recorded
\* it stays recorded until the response is sent.
ThreadInv == \A a \in Actions :
    /\ thr[a] \in Alive => last_request[a] \in Reqs
    /\ response[a] # None => response[a] = last_request[a]
    /\ response[a] # None => thr[a] \notin InPlugin
    /\ response[a] # None /\ thr[a] \in {"ended", "signalled", "idle"}
           => req_end[a]

\* Every request is sent once, and one still in the inbox has neither run nor
\* been answered.
InboxInv ==
    /\ \A i \in 1..Len(inbox) : inbox[i] \in issued
    /\ \A i, j \in 1..Len(inbox) : i # j => inbox[i] # inbox[j]
    /\ \A i \in 1..Len(inbox) : inbox[i] # Shutdown =>
           answers[inbox[i]] = 0 /\ \A a \in Actions : last_request[a] # inbox[i]

\* A request is answered at most once, not while the plugin works on it, and
\* no two holders have the same request.
AnswerInv ==
    /\ \A r \in Reqs : answers[r] <= 1 /\ (answers[r] > 0 => r \in issued)
    /\ \A a \in Actions : last_request[a] # None =>
           last_request[a] \in issued /\ ActionOf[last_request[a]] = a
    /\ \A a \in Actions : thr[a] \in InPlugin => answers[last_request[a]] = 0
    /\ \A a \in Actions : response[a] # None => answers[response[a]] = 0

\* While nothing is shut down, a plugin that returns responses has an end on
\* record exactly with a response.
MaskInv == \A a \in Actions \ Faulty : ~shutdownReq =>
    /\ thr[a] = "returned" => response[a] # None
    /\ req_end[a] => response[a] # None /\ thr[a] \in {"ended", "signalled", "idle"}

\* Until a plugin first stamps an instance id, its pipe is empty but for the
\* signal of a pending response: main has no reason to send a heartbeat.
BeatInv ==
    /\ HeartbeatIdKnown
    /\ ~shutdownReq => \A a \in Actions \ Faulty : instance_id[a] = None =>
         LET handled == pc = "check" /\ cur = a IN
         /\ touchNew[a] => thr[a] = "touched"
         /\ thr[a] # "stamped"
         /\ thr[a] \notin {"signalled", "idle"} \/ response[a] = None
                => fd[a] = 0 /\ ~handled
         /\ fd[a] <= 1 /\ (fd[a] = 1 => ~handled)
         /\ thr[a] = "ended" => response[a] # None

IInv == /\ TypeOK /\ LoadInv /\ ShutInv /\ ThreadInv /\ InboxInv /\ AnswerInv
        /\ MaskInv /\ NoLostCompletion

-----------------------------------------------------------------------------
(* Types.                                                                   *)

USE DEF Actions, Stopped, PCs, Loop, InPlugin, Alive, Threads,
        vars, mainVars, steady, threadVars, beatVars, holderVars,
        outside, elsewhere, Goto, Move

\* The initial states are typed.
LEMMA InitType == Init => TypeOK
<1> SUFFICES ASSUME Init PROVE TypeOK
  OBVIOUS
<1> USE ReqsAssumption, BoundsAssumption DEF Init
<1>1. /\ pc \in PCs /\ cur \in Actions
      /\ loaded \in 0..N /\ registered \in 0..N /\ fails \in 0..MaxFails
  OBVIOUS
<1>5. shutdownReq \in BOOLEAN
  OBVIOUS
<1>4. inbox \in Seq(Reqs \cup {Shutdown})
  BY EmptySeq
<1>2. /\ thr \in [Actions -> Threads] /\ fd \in [Actions -> 0..PipeCap]
      /\ last_request \in [Actions -> Reqs \cup {None}]
      /\ response \in [Actions -> Reqs \cup {None}]
      /\ req_end \in [Actions -> BOOLEAN] /\ touchNew \in [Actions -> BOOLEAN]
      /\ instance_id \in [Actions -> Reqs \cup {None}]
      /\ answers \in [Reqs -> Nat]
  OBVIOUS
<1>3. /\ issued \subseteq Reqs \cup {Shutdown} /\ signals \subseteq Signals
      /\ pluginShut \subseteq Actions /\ orphans \subseteq Reqs
  OBVIOUS
<1> QED
  BY <1>1, <1>2, <1>3, <1>4, <1>5 DEF TypeOK

\* Loading and the reading loop keep the types.
LEMMA TypeLoadPoll ==
    ASSUME TypeOK, LoadInv, ThreadInv, Load \/ Poll \/ Leave
    PROVE  TypeOK'
<1> USE ReqsAssumption, BoundsAssumption
    DEF TypeOK
<1>1. CASE RegisterClient
  BY <1>1 DEF RegisterClient
<1>2. CASE LoadPlugin
  <2>1. pc = "load" /\ loaded < N
    BY <1>2 DEF LoadPlugin
  <2>2. registered = loaded
    BY <2>1 DEF LoadInv
  <2>3. loaded \in 0..(N - 1) /\ N \in Nat
    BY <2>1
  <2> QED
    BY <1>2, <2>2, <2>3 DEF LoadPlugin
<1>3. CASE LoadInvalid
  BY <1>3 DEF LoadInvalid
<1>4. CASE LoadRaises
  BY <1>4 DEF LoadRaises, LoadInv
<1>5. CASE LoadDone
  BY <1>5 DEF LoadDone
<1>6. CASE LoopTop
  BY <1>6 DEF LoopTop
<1>7. CASE PollServer
  BY <1>7 DEF PollServer
<1>8. CASE PollForeign
  BY <1>8 DEF PollForeign
<1>9. CASE PollTimeout
  BY <1>9 DEF PollTimeout
<1>10. CASE PollFail
  BY <1>10 DEF PollFail
<1>11. ASSUME NEW a \in Actions, PollPlugin(a) PROVE TypeOK'
  BY <1>11 DEF PollPlugin
<1>12. CASE Deregister
  BY <1>12 DEF Deregister
<1>13. CASE ShutOnSignal
  <2>1. CASE ~shutdownReq /\ signals # {}
    BY <1>13, <2>1 DEF ShutOnSignal, active
  <2>2. CASE ~(~shutdownReq /\ signals # {})
    BY <1>13, <2>2 DEF ShutOnSignal
  <2> QED
    BY <2>1, <2>2
<1>14. CASE Exit
  BY <1>14 DEF Exit
<1>15. CASE Reload
  <2>1. orphans' \subseteq Reqs
    BY <1>15 DEF Reload, ThreadInv
  <2>2. /\ thr' \in [Actions -> Threads] /\ fd' \in [Actions -> 0..PipeCap]
        /\ last_request' \in [Actions -> Reqs \cup {None}]
        /\ response' \in [Actions -> Reqs \cup {None}]
        /\ req_end' \in [Actions -> BOOLEAN]
        /\ touchNew' \in [Actions -> BOOLEAN]
        /\ instance_id' \in [Actions -> Reqs \cup {None}]
        /\ pluginShut' \subseteq Actions
    BY <1>15 DEF Reload, NewHolders
  <2> QED
    BY <1>15, <2>1, <2>2 DEF Reload
<1> QED
  BY <1>1, <1>2, <1>3, <1>4, <1>5, <1>6, <1>7, <1>8, <1>9, <1>10, <1>11,
     <1>12, <1>13, <1>14, <1>15 DEF Load, Poll, Leave

\* So do handle_response and handle_server_request.
LEMMA TypeCheckServe ==
    ASSUME TypeOK, Check \/ Serve
    PROVE  TypeOK'
<1> USE ReqsAssumption, BoundsAssumption
    DEF TypeOK
<1>1. CASE SendHeartbeat
  BY <1>1 DEF SendHeartbeat
<1>2. CASE NothingToSend
  BY <1>2 DEF NothingToSend
<1>3. CASE SendResponse
  <2>1. response[cur] \in Reqs
    BY <1>3 DEF SendResponse
  <2> QED
    BY <1>3, <2>1 DEF SendResponse
<1>4. CASE ServeShutdown
  <2>1. shutdownReq' \in BOOLEAN
    BY <1>4 DEF ServeShutdown
  <2>2. pluginShut' \subseteq Actions
    BY <1>4 DEF ServeShutdown, active
  <2> QED
    BY <1>4, <2>1, <2>2 DEF ServeShutdown
<1>5. CASE ServeDone
  <2>1. inbox' \in Seq(Reqs \cup {Shutdown})
    <3>1. inbox' = inbox \/ (inbox # <<>> /\ inbox' = Tail(inbox))
      BY <1>5 DEF ServeDone
    <3>2. inbox \in Seq(Reqs \cup {Shutdown})
      OBVIOUS
    <3> QED
      BY ONLY <3>1, <3>2, HeadTailProperties
  <2>2. pc' \in PCs
    BY <1>5 DEF ServeDone
  <2> QED
    BY <1>5, <2>1, <2>2 DEF ServeDone
<1>6. ASSUME NEW a \in Actions, StartRequest(a) PROVE TypeOK'
  <2>1. Head(inbox) \in Reqs
    BY <1>6 DEF StartRequest, ServesRequest
  <2>2. inbox' \in Seq(Reqs \cup {Shutdown})
    BY <1>6, HeadTailProperties DEF StartRequest, ServesRequest
  <2>3. /\ last_request' = [last_request EXCEPT ![a] = Head(inbox)]
        /\ thr' = [thr EXCEPT ![a] = "head"]
        /\ UNCHANGED <<issued, mainVars, pluginShut, response, req_end, fd,
                       beatVars, orphans, answers>>
    BY <1>6 DEF StartRequest
  <2> QED
    BY <2>1, <2>2, <2>3
<1>7. ASSUME NEW a \in Actions, RefuseUnsent(a) PROVE TypeOK'
  BY <1>7 DEF RefuseUnsent, ServesRequest
<1>8. ASSUME NEW a \in Actions, RefuseBusy(a) PROVE TypeOK'
  BY <1>8 DEF RefuseBusy, ServesRequest
<1>9. ASSUME NEW a \in Actions, RefuseUnloaded(a) PROVE TypeOK'
  BY <1>9 DEF RefuseUnloaded, ServesRequest
<1> QED
  BY <1>1, <1>2, <1>3, <1>4, <1>5, <1>6, <1>7, <1>8, <1>9 DEF Check, Serve

\* So do the request threads, the engine and the signals.
LEMMA TypeThreadEnvironment ==
    ASSUME TypeOK,
           (\E a \in Actions : Thread(a)) \/ Environment \/ Terminated
    PROVE  TypeOK'
<1> USE ReqsAssumption, BoundsAssumption
    DEF TypeOK
<1>1. ASSUME NEW a \in Actions, Thread(a) PROVE TypeOK'
  <2>1. CASE PluginLoop(a)
    BY <2>1 DEF PluginLoop
  <2>2. CASE Touch(a)
    BY <2>2 DEF Touch
  <2>3. CASE Stamp(a)
    BY <2>3 DEF Stamp
  <2>4. CASE SignalBeat(a)
    BY <2>4 DEF SignalBeat, RaiseSignal
  <2>5. CASE Return(a)
    BY <2>5 DEF Return
  <2>6. CASE Raise(a)
    BY <2>6 DEF Raise
  <2>7. CASE RecordEnd(a)
    BY <2>7 DEF RecordEnd
  <2>8. CASE SignalEnd(a)
    BY <2>8 DEF SignalEnd, RaiseSignal
  <2>9. CASE ThreadExit(a)
    BY <2>9 DEF ThreadExit
  <2> QED
    BY <1>1, <2>1, <2>2, <2>3, <2>4, <2>5, <2>6, <2>7, <2>8, <2>9 DEF Thread
<1>2. ASSUME NEW r \in Reqs, EngineRequest(r) PROVE TypeOK'
  BY <1>2 DEF EngineRequest
<1>3. ASSUME NEW r \in Reqs, OrphanExit(r) PROVE TypeOK'
  BY <1>3 DEF OrphanExit
<1>4. CASE EngineShutdown
  BY <1>4 DEF EngineShutdown
<1>5. ASSUME NEW s \in Signals, DeliverSignal(s) PROVE TypeOK'
  BY <1>5 DEF DeliverSignal
<1>6. CASE Terminated
  BY <1>6 DEF Terminated
<1> QED
  BY <1>1, <1>2, <1>3, <1>4, <1>5, <1>6 DEF Environment

\* Every step keeps the types.
LEMMA TypeStep == IInv /\ [Next]_vars => TypeOK'
<1>1. ASSUME TypeOK, UNCHANGED vars PROVE TypeOK'
  BY <1>1 DEF TypeOK
<1> QED
  BY <1>1, TypeLoadPoll, TypeCheckServe, TypeThreadEnvironment
  DEF IInv, Next, Main

-----------------------------------------------------------------------------
(* The parts of the inductive invariant.                                    *)

\* Every step keeps what is known of loading.
LEMMA LoadStep == IInv /\ [Next]_vars => LoadInv'
<1> SUFFICES ASSUME IInv, [Next]_vars PROVE LoadInv'
  OBVIOUS
<1> USE ReqsAssumption
    DEF IInv, TypeOK, LoadInv, Fresh, active
<1>1. CASE RegisterClient
  BY <1>1 DEF RegisterClient
<1>2. CASE LoadPlugin
  BY <1>2 DEF LoadPlugin
<1>3. CASE LoadInvalid
  BY <1>3 DEF LoadInvalid
<1>4. CASE LoadRaises
  BY <1>4 DEF LoadRaises
<1>5. CASE LoadDone
  BY <1>5 DEF LoadDone
<1>6. CASE LoopTop
  BY <1>6 DEF LoopTop
<1>7. CASE PollServer
  BY <1>7 DEF PollServer
<1>8. CASE PollForeign
  BY <1>8 DEF PollForeign
<1>9. CASE PollTimeout
  BY <1>9 DEF PollTimeout
<1>10. CASE PollFail
  BY <1>10 DEF PollFail
<1>11. ASSUME NEW a \in Actions, PollPlugin(a) PROVE LoadInv'
  <2>1. a \in active
    BY <1>11 DEF PollPlugin, FirstReady, readable
  <2>2. \A b \in Actions \ active : fd'[b] = fd[b]
    BY <1>11, <2>1 DEF PollPlugin
  <2> QED
    BY <1>11, <2>2 DEF PollPlugin
<1>12. CASE SendHeartbeat
  BY <1>12 DEF SendHeartbeat
<1>13. CASE NothingToSend
  BY <1>13 DEF NothingToSend
<1>14. CASE SendResponse
  BY <1>14 DEF SendResponse
<1>15. CASE ServeShutdown
  BY <1>15 DEF ServeShutdown
<1>16. CASE ServeDone
  BY <1>16 DEF ServeDone
<1>17. ASSUME NEW a \in Actions, StartRequest(a) PROVE LoadInv'
  BY <1>17 DEF StartRequest, ServesRequest
<1>18. ASSUME NEW a \in Actions, RefuseUnsent(a) PROVE LoadInv'
  BY <1>18 DEF RefuseUnsent, ServesRequest
<1>19. ASSUME NEW a \in Actions, RefuseBusy(a) PROVE LoadInv'
  BY <1>19 DEF RefuseBusy, ServesRequest
<1>20. ASSUME NEW a \in Actions, RefuseUnloaded(a) PROVE LoadInv'
  BY <1>20 DEF RefuseUnloaded, ServesRequest
<1>21. CASE Deregister
  BY <1>21 DEF Deregister
<1>22. CASE ShutOnSignal
  BY <1>22 DEF ShutOnSignal
<1>23. CASE Exit
  BY <1>23 DEF Exit
<1>24. CASE Reload
  BY <1>24 DEF Reload, NewHolders
<1>25. ASSUME NEW a \in Actions, PluginLoop(a) PROVE LoadInv'
  BY <1>25 DEF PluginLoop
<1>26. ASSUME NEW a \in Actions, Touch(a) PROVE LoadInv'
  BY <1>26 DEF Touch
<1>27. ASSUME NEW a \in Actions, Stamp(a) PROVE LoadInv'
  BY <1>27 DEF Stamp
<1>28. ASSUME NEW a \in Actions, SignalBeat(a) PROVE LoadInv'
  BY <1>28 DEF SignalBeat, RaiseSignal
<1>29. ASSUME NEW a \in Actions, Return(a) PROVE LoadInv'
  BY <1>29 DEF Return
<1>30. ASSUME NEW a \in Actions, Raise(a) PROVE LoadInv'
  BY <1>30 DEF Raise
<1>31. ASSUME NEW a \in Actions, RecordEnd(a) PROVE LoadInv'
  BY <1>31 DEF RecordEnd
<1>32. ASSUME NEW a \in Actions, SignalEnd(a) PROVE LoadInv'
  BY <1>32 DEF SignalEnd, RaiseSignal
<1>33. ASSUME NEW a \in Actions, ThreadExit(a) PROVE LoadInv'
  BY <1>33 DEF ThreadExit
<1>34. ASSUME NEW r \in Reqs, EngineRequest(r) PROVE LoadInv'
  BY <1>34 DEF EngineRequest
<1>35. ASSUME NEW r \in Reqs, OrphanExit(r) PROVE LoadInv'
  BY <1>35 DEF OrphanExit
<1>36. CASE EngineShutdown
  BY <1>36 DEF EngineShutdown
<1>37. ASSUME NEW s \in Signals, DeliverSignal(s) PROVE LoadInv'
  BY <1>37 DEF DeliverSignal
<1>38. CASE Terminated
  BY <1>38 DEF Terminated
<1>39. CASE UNCHANGED vars
  BY <1>39
<1> QED
  BY <1>1, <1>2, <1>3, <1>4, <1>5, <1>6, <1>7, <1>8, <1>9, <1>10, <1>11,
     <1>12, <1>13, <1>14, <1>15, <1>16, <1>17, <1>18, <1>19, <1>20, <1>21,
     <1>22, <1>23, <1>24, <1>25, <1>26, <1>27, <1>28, <1>29, <1>30, <1>31,
     <1>32, <1>33, <1>34, <1>35, <1>36, <1>37, <1>38, <1>39
  DEF Next, Main, Load, Poll, Check, Serve, Leave, Thread, Environment

\* Every step keeps what is known of shutting down.
LEMMA ShutStep == IInv /\ [Next]_vars => ShutInv'
<1> SUFFICES ASSUME IInv, [Next]_vars PROVE ShutInv'
  OBVIOUS
<1> USE ReqsAssumption
    DEF IInv, TypeOK, ShutInv, active
<1>1. CASE RegisterClient
  BY <1>1 DEF RegisterClient
<1>2. CASE LoadPlugin
  BY <1>2 DEF LoadPlugin
<1>3. CASE LoadInvalid
  BY <1>3 DEF LoadInvalid
<1>4. CASE LoadRaises
  BY <1>4 DEF LoadRaises
<1>5. CASE LoadDone
  BY <1>5 DEF LoadDone
<1>6. CASE LoopTop
  BY <1>6 DEF LoopTop
<1>7. CASE PollServer
  BY <1>7 DEF PollServer
<1>8. CASE PollForeign
  BY <1>8 DEF PollForeign
<1>9. CASE PollTimeout
  BY <1>9 DEF PollTimeout
<1>10. CASE PollFail
  BY <1>10 DEF PollFail
<1>11. ASSUME NEW a \in Actions, PollPlugin(a) PROVE ShutInv'
  BY <1>11 DEF PollPlugin
<1>12. CASE SendHeartbeat
  BY <1>12 DEF SendHeartbeat
<1>13. CASE NothingToSend
  BY <1>13 DEF NothingToSend
<1>14. CASE SendResponse
  BY <1>14 DEF SendResponse
<1>15. CASE ServeShutdown
  BY <1>15 DEF ServeShutdown
<1>16. CASE ServeDone
  BY <1>16 DEF ServeDone
<1>17. ASSUME NEW a \in Actions, StartRequest(a) PROVE ShutInv'
  BY <1>17 DEF StartRequest, ServesRequest
<1>18. ASSUME NEW a \in Actions, RefuseUnsent(a) PROVE ShutInv'
  BY <1>18 DEF RefuseUnsent, ServesRequest
<1>19. ASSUME NEW a \in Actions, RefuseBusy(a) PROVE ShutInv'
  BY <1>19 DEF RefuseBusy, ServesRequest
<1>20. ASSUME NEW a \in Actions, RefuseUnloaded(a) PROVE ShutInv'
  BY <1>20 DEF RefuseUnloaded, ServesRequest
<1>21. CASE Deregister
  BY <1>21 DEF Deregister
<1>22. CASE ShutOnSignal
  BY <1>22 DEF ShutOnSignal
<1>23. CASE Exit
  BY <1>23 DEF Exit
<1>24. CASE Reload
  BY <1>24 DEF Reload, NewHolders, MustExit
<1>25. ASSUME NEW a \in Actions, PluginLoop(a) PROVE ShutInv'
  BY <1>25 DEF PluginLoop
<1>26. ASSUME NEW a \in Actions, Touch(a) PROVE ShutInv'
  BY <1>26 DEF Touch
<1>27. ASSUME NEW a \in Actions, Stamp(a) PROVE ShutInv'
  BY <1>27 DEF Stamp
<1>28. ASSUME NEW a \in Actions, SignalBeat(a) PROVE ShutInv'
  BY <1>28 DEF SignalBeat, RaiseSignal
<1>29. ASSUME NEW a \in Actions, Return(a) PROVE ShutInv'
  BY <1>29 DEF Return
<1>30. ASSUME NEW a \in Actions, Raise(a) PROVE ShutInv'
  BY <1>30 DEF Raise
<1>31. ASSUME NEW a \in Actions, RecordEnd(a) PROVE ShutInv'
  BY <1>31 DEF RecordEnd
<1>32. ASSUME NEW a \in Actions, SignalEnd(a) PROVE ShutInv'
  BY <1>32 DEF SignalEnd, RaiseSignal
<1>33. ASSUME NEW a \in Actions, ThreadExit(a) PROVE ShutInv'
  BY <1>33 DEF ThreadExit
<1>34. ASSUME NEW r \in Reqs, EngineRequest(r) PROVE ShutInv'
  BY <1>34 DEF EngineRequest
<1>35. ASSUME NEW r \in Reqs, OrphanExit(r) PROVE ShutInv'
  BY <1>35 DEF OrphanExit
<1>36. CASE EngineShutdown
  BY <1>36 DEF EngineShutdown
<1>37. ASSUME NEW s \in Signals, DeliverSignal(s) PROVE ShutInv'
  BY <1>37 DEF DeliverSignal
<1>38. CASE Terminated
  BY <1>38 DEF Terminated
<1>39. CASE UNCHANGED vars
  BY <1>39
<1> QED
  BY <1>1, <1>2, <1>3, <1>4, <1>5, <1>6, <1>7, <1>8, <1>9, <1>10, <1>11,
     <1>12, <1>13, <1>14, <1>15, <1>16, <1>17, <1>18, <1>19, <1>20, <1>21,
     <1>22, <1>23, <1>24, <1>25, <1>26, <1>27, <1>28, <1>29, <1>30, <1>31,
     <1>32, <1>33, <1>34, <1>35, <1>36, <1>37, <1>38, <1>39
  DEF Next, Main, Load, Poll, Check, Serve, Leave, Thread, Environment

\* Every step keeps what is known of the responses.
LEMMA ThreadStep == IInv /\ [Next]_vars => ThreadInv'
<1> SUFFICES ASSUME IInv, [Next]_vars PROVE ThreadInv'
  OBVIOUS
<1> USE ReqsAssumption
    DEF IInv, TypeOK, ThreadInv
<1>1. CASE RegisterClient
  BY <1>1 DEF RegisterClient
<1>2. CASE LoadPlugin
  BY <1>2 DEF LoadPlugin
<1>3. CASE LoadInvalid
  BY <1>3 DEF LoadInvalid
<1>4. CASE LoadRaises
  BY <1>4 DEF LoadRaises
<1>5. CASE LoadDone
  BY <1>5 DEF LoadDone
<1>6. CASE LoopTop
  BY <1>6 DEF LoopTop
<1>7. CASE PollServer
  BY <1>7 DEF PollServer
<1>8. CASE PollForeign
  BY <1>8 DEF PollForeign
<1>9. CASE PollTimeout
  BY <1>9 DEF PollTimeout
<1>10. CASE PollFail
  BY <1>10 DEF PollFail
<1>11. ASSUME NEW a \in Actions, PollPlugin(a) PROVE ThreadInv'
  BY <1>11 DEF PollPlugin
<1>12. CASE SendHeartbeat
  BY <1>12 DEF SendHeartbeat
<1>13. CASE NothingToSend
  BY <1>13 DEF NothingToSend
<1>14. CASE SendResponse
  BY <1>14 DEF SendResponse
<1>15. CASE ServeShutdown
  BY <1>15 DEF ServeShutdown
<1>16. CASE ServeDone
  BY <1>16 DEF ServeDone
<1>17. ASSUME NEW a \in Actions, StartRequest(a) PROVE ThreadInv'
  BY <1>17 DEF StartRequest, ServesRequest
<1>18. ASSUME NEW a \in Actions, RefuseUnsent(a) PROVE ThreadInv'
  BY <1>18 DEF RefuseUnsent, ServesRequest
<1>19. ASSUME NEW a \in Actions, RefuseBusy(a) PROVE ThreadInv'
  BY <1>19 DEF RefuseBusy, ServesRequest
<1>20. ASSUME NEW a \in Actions, RefuseUnloaded(a) PROVE ThreadInv'
  BY <1>20 DEF RefuseUnloaded, ServesRequest
<1>21. CASE Deregister
  BY <1>21 DEF Deregister
<1>22. CASE ShutOnSignal
  BY <1>22 DEF ShutOnSignal
<1>23. CASE Exit
  BY <1>23 DEF Exit
<1>24. CASE Reload
  BY <1>24 DEF Reload, NewHolders
<1>25. ASSUME NEW a \in Actions, PluginLoop(a) PROVE ThreadInv'
  BY <1>25 DEF PluginLoop
<1>26. ASSUME NEW a \in Actions, Touch(a) PROVE ThreadInv'
  BY <1>26 DEF Touch
<1>27. ASSUME NEW a \in Actions, Stamp(a) PROVE ThreadInv'
  BY <1>27 DEF Stamp
<1>28. ASSUME NEW a \in Actions, SignalBeat(a) PROVE ThreadInv'
  BY <1>28 DEF SignalBeat, RaiseSignal
<1>29. ASSUME NEW a \in Actions, Return(a) PROVE ThreadInv'
  BY <1>29 DEF Return
<1>30. ASSUME NEW a \in Actions, Raise(a) PROVE ThreadInv'
  BY <1>30 DEF Raise
<1>31. ASSUME NEW a \in Actions, RecordEnd(a) PROVE ThreadInv'
  BY <1>31 DEF RecordEnd
<1>32. ASSUME NEW a \in Actions, SignalEnd(a) PROVE ThreadInv'
  BY <1>32 DEF SignalEnd, RaiseSignal
<1>33. ASSUME NEW a \in Actions, ThreadExit(a) PROVE ThreadInv'
  BY <1>33 DEF ThreadExit
<1>34. ASSUME NEW r \in Reqs, EngineRequest(r) PROVE ThreadInv'
  BY <1>34 DEF EngineRequest
<1>35. ASSUME NEW r \in Reqs, OrphanExit(r) PROVE ThreadInv'
  BY <1>35 DEF OrphanExit
<1>36. CASE EngineShutdown
  BY <1>36 DEF EngineShutdown
<1>37. ASSUME NEW s \in Signals, DeliverSignal(s) PROVE ThreadInv'
  BY <1>37 DEF DeliverSignal
<1>38. CASE Terminated
  BY <1>38 DEF Terminated
<1>39. CASE UNCHANGED vars
  BY <1>39
<1> QED
  BY <1>1, <1>2, <1>3, <1>4, <1>5, <1>6, <1>7, <1>8, <1>9, <1>10, <1>11,
     <1>12, <1>13, <1>14, <1>15, <1>16, <1>17, <1>18, <1>19, <1>20, <1>21,
     <1>22, <1>23, <1>24, <1>25, <1>26, <1>27, <1>28, <1>29, <1>30, <1>31,
     <1>32, <1>33, <1>34, <1>35, <1>36, <1>37, <1>38, <1>39
  DEF Next, Main, Load, Poll, Check, Serve, Leave, Thread, Environment

\* Every step keeps what is known of recorded ends.
LEMMA MaskStep == IInv /\ [Next]_vars => MaskInv'
<1> SUFFICES ASSUME IInv, [Next]_vars PROVE MaskInv'
  OBVIOUS
<1> USE ReqsAssumption
    DEF IInv, TypeOK, MaskInv, ThreadInv, ShutInv
<1>1. CASE RegisterClient
  BY <1>1 DEF RegisterClient
<1>2. CASE LoadPlugin
  BY <1>2 DEF LoadPlugin
<1>3. CASE LoadInvalid
  BY <1>3 DEF LoadInvalid
<1>4. CASE LoadRaises
  BY <1>4 DEF LoadRaises
<1>5. CASE LoadDone
  BY <1>5 DEF LoadDone
<1>6. CASE LoopTop
  BY <1>6 DEF LoopTop
<1>7. CASE PollServer
  BY <1>7 DEF PollServer
<1>8. CASE PollForeign
  BY <1>8 DEF PollForeign
<1>9. CASE PollTimeout
  BY <1>9 DEF PollTimeout
<1>10. CASE PollFail
  BY <1>10 DEF PollFail
<1>11. ASSUME NEW a \in Actions, PollPlugin(a) PROVE MaskInv'
  BY <1>11 DEF PollPlugin
<1>12. CASE SendHeartbeat
  BY <1>12 DEF SendHeartbeat
<1>13. CASE NothingToSend
  BY <1>13 DEF NothingToSend
<1>14. CASE SendResponse
  BY <1>14 DEF SendResponse
<1>15. CASE ServeShutdown
  BY <1>15 DEF ServeShutdown
<1>16. CASE ServeDone
  BY <1>16 DEF ServeDone
<1>17. ASSUME NEW a \in Actions, StartRequest(a) PROVE MaskInv'
  BY <1>17 DEF StartRequest, ServesRequest
<1>18. ASSUME NEW a \in Actions, RefuseUnsent(a) PROVE MaskInv'
  BY <1>18 DEF RefuseUnsent, ServesRequest
<1>19. ASSUME NEW a \in Actions, RefuseBusy(a) PROVE MaskInv'
  BY <1>19 DEF RefuseBusy, ServesRequest
<1>20. ASSUME NEW a \in Actions, RefuseUnloaded(a) PROVE MaskInv'
  BY <1>20 DEF RefuseUnloaded, ServesRequest
<1>21. CASE Deregister
  BY <1>21 DEF Deregister
<1>22. CASE ShutOnSignal
  BY <1>22 DEF ShutOnSignal
<1>23. CASE Exit
  BY <1>23 DEF Exit
<1>24. CASE Reload
  BY <1>24 DEF Reload, NewHolders
<1>25. ASSUME NEW a \in Actions, PluginLoop(a) PROVE MaskInv'
  BY <1>25 DEF PluginLoop
<1>26. ASSUME NEW a \in Actions, Touch(a) PROVE MaskInv'
  BY <1>26 DEF Touch
<1>27. ASSUME NEW a \in Actions, Stamp(a) PROVE MaskInv'
  BY <1>27 DEF Stamp
<1>28. ASSUME NEW a \in Actions, SignalBeat(a) PROVE MaskInv'
  BY <1>28 DEF SignalBeat, RaiseSignal
<1>29. ASSUME NEW a \in Actions, Return(a) PROVE MaskInv'
  BY <1>29 DEF Return
<1>30. ASSUME NEW a \in Actions, Raise(a) PROVE MaskInv'
  BY <1>30 DEF Raise
<1>31. ASSUME NEW a \in Actions, RecordEnd(a) PROVE MaskInv'
  BY <1>31 DEF RecordEnd
<1>32. ASSUME NEW a \in Actions, SignalEnd(a) PROVE MaskInv'
  BY <1>32 DEF SignalEnd, RaiseSignal
<1>33. ASSUME NEW a \in Actions, ThreadExit(a) PROVE MaskInv'
  BY <1>33 DEF ThreadExit
<1>34. ASSUME NEW r \in Reqs, EngineRequest(r) PROVE MaskInv'
  BY <1>34 DEF EngineRequest
<1>35. ASSUME NEW r \in Reqs, OrphanExit(r) PROVE MaskInv'
  BY <1>35 DEF OrphanExit
<1>36. CASE EngineShutdown
  BY <1>36 DEF EngineShutdown
<1>37. ASSUME NEW s \in Signals, DeliverSignal(s) PROVE MaskInv'
  BY <1>37 DEF DeliverSignal
<1>38. CASE Terminated
  BY <1>38 DEF Terminated
<1>39. CASE UNCHANGED vars
  BY <1>39
<1> QED
  BY <1>1, <1>2, <1>3, <1>4, <1>5, <1>6, <1>7, <1>8, <1>9, <1>10, <1>11,
     <1>12, <1>13, <1>14, <1>15, <1>16, <1>17, <1>18, <1>19, <1>20, <1>21,
     <1>22, <1>23, <1>24, <1>25, <1>26, <1>27, <1>28, <1>29, <1>30, <1>31,
     <1>32, <1>33, <1>34, <1>35, <1>36, <1>37, <1>38, <1>39
  DEF Next, Main, Load, Poll, Check, Serve, Leave, Thread, Environment
\* No step strands a response.
LEMMA WakeStep == IInv /\ [Next]_vars => NoLostCompletion'
<1> SUFFICES ASSUME IInv, [Next]_vars PROVE NoLostCompletion'
  OBVIOUS
<1> USE ReqsAssumption DEF IInv, TypeOK, NoLostCompletion, ThreadInv, active
<1>1. CASE RegisterClient
  BY <1>1 DEF RegisterClient
<1>2. CASE LoadPlugin
  BY <1>2 DEF LoadPlugin
<1>3. CASE LoadInvalid
  BY <1>3 DEF LoadInvalid
<1>4. CASE LoadRaises
  BY <1>4 DEF LoadRaises, LoadInv, Fresh
<1>5. CASE LoadDone
  BY <1>5 DEF LoadDone, LoadInv, Fresh
<1>6. CASE LoopTop
  BY <1>6 DEF LoopTop
<1>7. CASE PollServer
  BY <1>7 DEF PollServer
<1>8. CASE PollForeign
  BY <1>8 DEF PollForeign
<1>9. CASE PollTimeout
  BY <1>9 DEF PollTimeout
<1>10. CASE PollFail
  BY <1>10 DEF PollFail
<1>11. ASSUME NEW a \in Actions, PollPlugin(a) PROVE NoLostCompletion'
  BY <1>11 DEF PollPlugin, FirstReady, readable
<1>12. CASE SendHeartbeat
  BY <1>12 DEF SendHeartbeat
<1>13. CASE NothingToSend
  BY <1>13 DEF NothingToSend
<1>14. CASE SendResponse
  BY <1>14 DEF SendResponse
<1>15. CASE ServeShutdown
  BY <1>15 DEF ServeShutdown
<1>16. CASE ServeDone
  BY <1>16 DEF ServeDone
<1>17. ASSUME NEW a \in Actions, StartRequest(a) PROVE NoLostCompletion'
  BY <1>17 DEF StartRequest, ServesRequest
<1>18. ASSUME NEW a \in Actions, RefuseUnsent(a) PROVE NoLostCompletion'
  BY <1>18 DEF RefuseUnsent, ServesRequest
<1>19. ASSUME NEW a \in Actions, RefuseBusy(a) PROVE NoLostCompletion'
  BY <1>19 DEF RefuseBusy, ServesRequest
<1>20. ASSUME NEW a \in Actions, RefuseUnloaded(a) PROVE NoLostCompletion'
  BY <1>20 DEF RefuseUnloaded, ServesRequest
<1>21. CASE Deregister
  BY <1>21 DEF Deregister
<1>22. CASE ShutOnSignal
  BY <1>22 DEF ShutOnSignal
<1>23. CASE Exit
  BY <1>23 DEF Exit
<1>24. CASE Reload
  BY <1>24 DEF Reload, NewHolders
<1>25. ASSUME NEW a \in Actions, PluginLoop(a) PROVE NoLostCompletion'
  BY <1>25 DEF PluginLoop
<1>26. ASSUME NEW a \in Actions, Touch(a) PROVE NoLostCompletion'
  BY <1>26 DEF Touch
<1>27. ASSUME NEW a \in Actions, Stamp(a) PROVE NoLostCompletion'
  BY <1>27 DEF Stamp
<1>28. ASSUME NEW a \in Actions, SignalBeat(a) PROVE NoLostCompletion'
  BY <1>28 DEF SignalBeat, RaiseSignal
<1>29. ASSUME NEW a \in Actions, Return(a) PROVE NoLostCompletion'
  BY <1>29 DEF Return
<1>30. ASSUME NEW a \in Actions, Raise(a) PROVE NoLostCompletion'
  BY <1>30 DEF Raise
<1>31. ASSUME NEW a \in Actions, RecordEnd(a) PROVE NoLostCompletion'
  BY <1>31 DEF RecordEnd
<1>32. ASSUME NEW a \in Actions, SignalEnd(a) PROVE NoLostCompletion'
  BY <1>32 DEF SignalEnd, RaiseSignal
<1>33. ASSUME NEW a \in Actions, ThreadExit(a) PROVE NoLostCompletion'
  BY <1>33 DEF ThreadExit
<1>34. ASSUME NEW r \in Reqs, EngineRequest(r) PROVE NoLostCompletion'
  BY <1>34 DEF EngineRequest
<1>35. ASSUME NEW r \in Reqs, OrphanExit(r) PROVE NoLostCompletion'
  BY <1>35 DEF OrphanExit
<1>36. CASE EngineShutdown
  BY <1>36 DEF EngineShutdown
<1>37. ASSUME NEW s \in Signals, DeliverSignal(s) PROVE NoLostCompletion'
  BY <1>37 DEF DeliverSignal
<1>38. CASE Terminated
  BY <1>38 DEF Terminated
<1>39. CASE UNCHANGED vars
  BY <1>39
<1> QED
  BY <1>1, <1>2, <1>3, <1>4, <1>5, <1>6, <1>7, <1>8, <1>9, <1>10, <1>11,
     <1>12, <1>13, <1>14, <1>15, <1>16, <1>17, <1>18, <1>19, <1>20, <1>21,
     <1>22, <1>23, <1>24, <1>25, <1>26, <1>27, <1>28, <1>29, <1>30, <1>31,
     <1>32, <1>33, <1>34, <1>35, <1>36, <1>37, <1>38, <1>39
  DEF Next, Main, Load, Poll, Check, Serve, Leave, Thread, Environment
\* What reading a message does to the inbox.
LEMMA InboxTail ==
    ASSUME NEW S, NEW s \in Seq(S), s # <<>>
    PROVE  /\ Head(s) = s[1] /\ 1 \in 1..Len(s)
           /\ \A i \in 1..Len(Tail(s)) :
                  i \in 1..Len(s) /\ i + 1 \in 1..Len(s) /\ Tail(s)[i] = s[i + 1]
  BY HeadTailProperties, LenProperties

\* What the engine's sending does to it.
LEMMA InboxAppend ==
    ASSUME NEW S, NEW s \in Seq(S), NEW m \in S
    PROVE  \A i \in 1..Len(Append(s, m)) :
               \/ i \in 1..Len(s) /\ Append(s, m)[i] = s[i]
               \/ i = Len(s) + 1 /\ Append(s, m)[i] = m
  BY AppendProperties, LenProperties

\* A message taken out of the inbox leaves the others as they were.
LEMMA InboxRead ==
    ASSUME TypeOK, InboxInv, inbox # <<>>, inbox' = Tail(inbox),
           issued' = issued, answers' = answers,
           \A a \in Actions :
               last_request'[a] \in {last_request[a], Head(inbox)}
    PROVE  InboxInv'
<1>1. inbox \in Seq(Reqs \cup {Shutdown})
  BY DEF TypeOK
<1>2. /\ Head(inbox) = inbox[1] /\ 1 \in 1..Len(inbox)
      /\ \A i \in 1..Len(inbox') : /\ i \in 1..Len(inbox)
                                  /\ i + 1 \in 1..Len(inbox)
                                  /\ inbox'[i] = inbox[i + 1]
  BY <1>1, InboxTail
<1>3. \A i \in 1..Len(inbox') : inbox'[i] # Head(inbox) /\ inbox'[i] \in issued
  <2> SUFFICES ASSUME NEW i \in 1..Len(inbox')
               PROVE  inbox'[i] # Head(inbox) /\ inbox'[i] \in issued
    OBVIOUS
  <2>1. i + 1 # 1
    OBVIOUS
  <2> QED
    BY <1>2, <2>1 DEF InboxInv
<1>4. \A i, j \in 1..Len(inbox') : i # j => inbox'[i] # inbox'[j]
  <2> SUFFICES ASSUME NEW i \in 1..Len(inbox'), NEW j \in 1..Len(inbox'),
                      i # j
               PROVE  inbox'[i] # inbox'[j]
    OBVIOUS
  <2>1. i + 1 # j + 1
    OBVIOUS
  <2> QED
    BY <1>2, <2>1 DEF InboxInv
<1>5. \A i \in 1..Len(inbox') : inbox'[i] # Shutdown =>
          /\ answers[inbox'[i]] = 0
          /\ \A a \in Actions : last_request[a] # inbox'[i]
  BY <1>2 DEF InboxInv
<1>6. \A i \in 1..Len(inbox') : inbox'[i] # Shutdown =>
          /\ answers'[inbox'[i]] = 0
          /\ \A a \in Actions : last_request'[a] # inbox'[i]
  BY <1>3, <1>5
<1> QED
  BY <1>3, <1>4, <1>6 DEF InboxInv

\* No step disturbs the inbox or lets a message in it run.
LEMMA InboxStep == IInv /\ [Next]_vars => InboxInv'
<1> SUFFICES ASSUME IInv, [Next]_vars PROVE InboxInv'
  OBVIOUS
<1> USE ReqsAssumption DEF IInv, TypeOK, InboxInv
<1>1. CASE RegisterClient
  BY <1>1 DEF RegisterClient
<1>2. CASE LoadPlugin
  BY <1>2 DEF LoadPlugin
<1>3. CASE LoadInvalid
  BY <1>3 DEF LoadInvalid
<1>4. CASE LoadRaises
  BY <1>4 DEF LoadRaises
<1>5. CASE LoadDone
  BY <1>5 DEF LoadDone
<1>6. CASE LoopTop
  BY <1>6 DEF LoopTop
<1>7. CASE PollServer
  BY <1>7 DEF PollServer
<1>8. CASE PollForeign
  BY <1>8, InboxRead DEF PollForeign, ServesRequest
<1>9. CASE PollTimeout
  BY <1>9 DEF PollTimeout
<1>10. CASE PollFail
  BY <1>10 DEF PollFail
<1>11. ASSUME NEW a \in Actions, PollPlugin(a) PROVE InboxInv'
  BY <1>11 DEF PollPlugin
<1>12. CASE SendHeartbeat
  BY <1>12 DEF SendHeartbeat
<1>13. CASE NothingToSend
  BY <1>13 DEF NothingToSend
<1>14. CASE SendResponse
  <2> DEFINE q == response[cur]
  <2>1. q \in Reqs /\ q = last_request[cur]
    BY <1>14 DEF SendResponse, ThreadInv
  <2>2. \A i \in 1..Len(inbox) : inbox[i] # Shutdown =>
            inbox[i] \in Reqs /\ inbox[i] # q
    BY <2>1
  <2>3. \A r \in Reqs : r # q => answers'[r] = answers[r]
    BY <1>14 DEF SendResponse
  <2> QED
    BY <1>14, <2>2, <2>3 DEF SendResponse
<1>15. CASE ServeShutdown
  BY <1>15, InboxRead DEF ServeShutdown, ServesRequest
<1>16. CASE ServeDone
  BY <1>16, InboxRead DEF ServeDone
<1>17. ASSUME NEW a \in Actions, StartRequest(a) PROVE InboxInv'
  BY <1>17, InboxRead DEF StartRequest, ServesRequest
<1>18. ASSUME NEW a \in Actions, RefuseUnsent(a) PROVE InboxInv'
  BY <1>18, InboxRead DEF RefuseUnsent, ServesRequest
<1>19. ASSUME NEW a \in Actions, RefuseBusy(a) PROVE InboxInv'
  BY <1>19, InboxRead DEF RefuseBusy, ServesRequest
<1>20. ASSUME NEW a \in Actions, RefuseUnloaded(a) PROVE InboxInv'
  BY <1>20, InboxRead DEF RefuseUnloaded, ServesRequest
<1>21. CASE Deregister
  BY <1>21 DEF Deregister
<1>22. CASE ShutOnSignal
  BY <1>22 DEF ShutOnSignal
<1>23. CASE Exit
  BY <1>23 DEF Exit
<1>24. CASE Reload
  BY <1>24 DEF Reload, NewHolders
<1>25. ASSUME NEW a \in Actions, PluginLoop(a) PROVE InboxInv'
  BY <1>25 DEF PluginLoop
<1>26. ASSUME NEW a \in Actions, Touch(a) PROVE InboxInv'
  BY <1>26 DEF Touch
<1>27. ASSUME NEW a \in Actions, Stamp(a) PROVE InboxInv'
  BY <1>27 DEF Stamp
<1>28. ASSUME NEW a \in Actions, SignalBeat(a) PROVE InboxInv'
  BY <1>28 DEF SignalBeat, RaiseSignal
<1>29. ASSUME NEW a \in Actions, Return(a) PROVE InboxInv'
  BY <1>29 DEF Return
<1>30. ASSUME NEW a \in Actions, Raise(a) PROVE InboxInv'
  BY <1>30 DEF Raise
<1>31. ASSUME NEW a \in Actions, RecordEnd(a) PROVE InboxInv'
  BY <1>31 DEF RecordEnd
<1>32. ASSUME NEW a \in Actions, SignalEnd(a) PROVE InboxInv'
  BY <1>32 DEF SignalEnd, RaiseSignal
<1>33. ASSUME NEW a \in Actions, ThreadExit(a) PROVE InboxInv'
  BY <1>33 DEF ThreadExit
<1>34. ASSUME NEW r \in Reqs, EngineRequest(r) PROVE InboxInv'
  <2>1. \A i \in 1..Len(inbox') :
            \/ i \in 1..Len(inbox) /\ inbox'[i] = inbox[i]
            \/ i = Len(inbox) + 1 /\ inbox'[i] = r
    BY <1>34, InboxAppend DEF EngineRequest
  <2>2. r \notin issued /\ issued' = issued \cup {r}
    BY <1>34 DEF EngineRequest
  <2>3. answers[r] = 0 /\ \A a \in Actions : last_request[a] # r
    BY <2>2 DEF AnswerInv
  <2>4. answers' = answers /\ last_request' = last_request
    BY <1>34 DEF EngineRequest
  <2>5. r # Shutdown /\ \A i \in 1..Len(inbox) : inbox[i] # r
    BY <2>2
  <2>6. \A i \in 1..Len(inbox') : inbox'[i] \in issued'
    BY <2>1, <2>2
  <2>7. \A i, j \in 1..Len(inbox') : i # j => inbox'[i] # inbox'[j]
    BY <2>1, <2>5
  <2>8. \A i \in 1..Len(inbox') : inbox'[i] # Shutdown =>
            /\ answers[inbox'[i]] = 0
            /\ \A a \in Actions : last_request[a] # inbox'[i]
    BY <2>1, <2>3
  <2> QED
    BY <2>4, <2>6, <2>7, <2>8
<1>35. ASSUME NEW r \in Reqs, OrphanExit(r) PROVE InboxInv'
  BY <1>35 DEF OrphanExit
<1>36. CASE EngineShutdown
  <2>1. \A i \in 1..Len(inbox') :
            \/ i \in 1..Len(inbox) /\ inbox'[i] = inbox[i]
            \/ i = Len(inbox) + 1 /\ inbox'[i] = Shutdown
    BY <1>36, InboxAppend DEF EngineShutdown
  <2> QED
    BY <1>36, <2>1 DEF EngineShutdown
<1>37. ASSUME NEW s \in Signals, DeliverSignal(s) PROVE InboxInv'
  BY <1>37 DEF DeliverSignal
<1>38. CASE Terminated
  BY <1>38 DEF Terminated
<1>39. CASE UNCHANGED vars
  BY <1>39
<1> QED
  BY <1>1, <1>2, <1>3, <1>4, <1>5, <1>6, <1>7, <1>8, <1>9, <1>10, <1>11,
     <1>12, <1>13, <1>14, <1>15, <1>16, <1>17, <1>18, <1>19, <1>20, <1>21,
     <1>22, <1>23, <1>24, <1>25, <1>26, <1>27, <1>28, <1>29, <1>30, <1>31,
     <1>32, <1>33, <1>34, <1>35, <1>36, <1>37, <1>38, <1>39
  DEF Next, Main, Load, Poll, Check, Serve, Leave, Thread, Environment

\* No step answers a request twice.
LEMMA AnswerStep == IInv /\ [Next]_vars => AnswerInv'
<1> SUFFICES ASSUME IInv, [Next]_vars PROVE AnswerInv'
  OBVIOUS
<1> USE ReqsAssumption DEF IInv, TypeOK, AnswerInv, ThreadInv
<1>1. CASE RegisterClient
  BY <1>1 DEF RegisterClient
<1>2. CASE LoadPlugin
  BY <1>2 DEF LoadPlugin
<1>3. CASE LoadInvalid
  BY <1>3 DEF LoadInvalid
<1>4. CASE LoadRaises
  BY <1>4 DEF LoadRaises
<1>5. CASE LoadDone
  BY <1>5 DEF LoadDone
<1>6. CASE LoopTop
  BY <1>6 DEF LoopTop
<1>7. CASE PollServer
  BY <1>7 DEF PollServer
<1>8. CASE PollForeign
  BY <1>8 DEF PollForeign
<1>9. CASE PollTimeout
  BY <1>9 DEF PollTimeout
<1>10. CASE PollFail
  BY <1>10 DEF PollFail
<1>11. ASSUME NEW a \in Actions, PollPlugin(a) PROVE AnswerInv'
  BY <1>11 DEF PollPlugin
<1>12. CASE SendHeartbeat
  BY <1>12 DEF SendHeartbeat
<1>13. CASE NothingToSend
  BY <1>13 DEF NothingToSend
<1>14. CASE SendResponse
  BY <1>14 DEF SendResponse
<1>15. CASE ServeShutdown
  BY <1>15 DEF ServeShutdown
<1>16. CASE ServeDone
  BY <1>16 DEF ServeDone
<1>17. ASSUME NEW a \in Actions, StartRequest(a) PROVE AnswerInv'
  <2> DEFINE m == Head(inbox)
  <2>1. m = inbox[1] /\ 1 \in 1..Len(inbox) /\ m \in Reqs
    BY <1>17, InboxTail DEF StartRequest, ServesRequest
  <2>2. m \in issued /\ answers[m] = 0 /\ ActionOf[m] = a
    BY <1>17, <2>1 DEF StartRequest, ServesRequest, InboxInv
  <2>3. /\ last_request' = [last_request EXCEPT ![a] = m]
        /\ thr' = [thr EXCEPT ![a] = "head"]
        /\ UNCHANGED <<issued, answers, response>>
    BY <1>17 DEF StartRequest
  <2> QED
    BY <2>1, <2>2, <2>3
<1>18. ASSUME NEW a \in Actions, RefuseUnsent(a) PROVE AnswerInv'
  BY <1>18 DEF RefuseUnsent, ServesRequest
<1>19. ASSUME NEW a \in Actions, RefuseBusy(a) PROVE AnswerInv'
  BY <1>19 DEF RefuseBusy, ServesRequest
<1>20. ASSUME NEW a \in Actions, RefuseUnloaded(a) PROVE AnswerInv'
  BY <1>20 DEF RefuseUnloaded, ServesRequest
<1>21. CASE Deregister
  BY <1>21 DEF Deregister
<1>22. CASE ShutOnSignal
  BY <1>22 DEF ShutOnSignal
<1>23. CASE Exit
  BY <1>23 DEF Exit
<1>24. CASE Reload
  BY <1>24 DEF Reload, NewHolders
<1>25. ASSUME NEW a \in Actions, PluginLoop(a) PROVE AnswerInv'
  BY <1>25 DEF PluginLoop
<1>26. ASSUME NEW a \in Actions, Touch(a) PROVE AnswerInv'
  BY <1>26 DEF Touch
<1>27. ASSUME NEW a \in Actions, Stamp(a) PROVE AnswerInv'
  BY <1>27 DEF Stamp
<1>28. ASSUME NEW a \in Actions, SignalBeat(a) PROVE AnswerInv'
  BY <1>28 DEF SignalBeat, RaiseSignal
<1>29. ASSUME NEW a \in Actions, Return(a) PROVE AnswerInv'
  BY <1>29 DEF Return
<1>30. ASSUME NEW a \in Actions, Raise(a) PROVE AnswerInv'
  BY <1>30 DEF Raise
<1>31. ASSUME NEW a \in Actions, RecordEnd(a) PROVE AnswerInv'
  BY <1>31 DEF RecordEnd
<1>32. ASSUME NEW a \in Actions, SignalEnd(a) PROVE AnswerInv'
  BY <1>32 DEF SignalEnd, RaiseSignal
<1>33. ASSUME NEW a \in Actions, ThreadExit(a) PROVE AnswerInv'
  BY <1>33 DEF ThreadExit
<1>34. ASSUME NEW r \in Reqs, EngineRequest(r) PROVE AnswerInv'
  BY <1>34 DEF EngineRequest
<1>35. ASSUME NEW r \in Reqs, OrphanExit(r) PROVE AnswerInv'
  BY <1>35 DEF OrphanExit
<1>36. CASE EngineShutdown
  BY <1>36 DEF EngineShutdown
<1>37. ASSUME NEW s \in Signals, DeliverSignal(s) PROVE AnswerInv'
  BY <1>37 DEF DeliverSignal
<1>38. CASE Terminated
  BY <1>38 DEF Terminated
<1>39. CASE UNCHANGED vars
  BY <1>39
<1> QED
  BY <1>1, <1>2, <1>3, <1>4, <1>5, <1>6, <1>7, <1>8, <1>9, <1>10, <1>11,
     <1>12, <1>13, <1>14, <1>15, <1>16, <1>17, <1>18, <1>19, <1>20, <1>21,
     <1>22, <1>23, <1>24, <1>25, <1>26, <1>27, <1>28, <1>29, <1>30, <1>31,
     <1>32, <1>33, <1>34, <1>35, <1>36, <1>37, <1>38, <1>39
  DEF Next, Main, Load, Poll, Check, Serve, Leave, Thread, Environment
-----------------------------------------------------------------------------
(* The theorems.                                                            *)

\* No step of plugins that return responses leads to an unstamped heartbeat.
LEMMA BeatStep ==
    IInv /\ BeatInv /\ [Next]_vars => BeatInv'
<1> SUFFICES ASSUME IInv, BeatInv, [Next]_vars PROVE BeatInv'
  OBVIOUS
<1> USE ReqsAssumption
    DEF IInv, TypeOK, BeatInv, HeartbeatIdKnown, MaskInv, ThreadInv, ShutInv,
        LoadInv, Fresh, active
<1>1. CASE RegisterClient
  BY <1>1 DEF RegisterClient
<1>2. CASE LoadPlugin
  BY <1>2 DEF LoadPlugin
<1>3. CASE LoadInvalid
  BY <1>3 DEF LoadInvalid
<1>4. CASE LoadRaises
  BY <1>4 DEF LoadRaises
<1>5. CASE LoadDone
  BY <1>5 DEF LoadDone
<1>6. CASE LoopTop
  BY <1>6 DEF LoopTop
<1>7. CASE PollServer
  BY <1>7 DEF PollServer
<1>8. CASE PollForeign
  BY <1>8 DEF PollForeign
<1>9. CASE PollTimeout
  BY <1>9 DEF PollTimeout
<1>10. CASE PollFail
  BY <1>10 DEF PollFail
<1>11. ASSUME NEW a \in Actions, PollPlugin(a) PROVE BeatInv'
  <2>1. fd[a] > 0 /\ cur' = a /\ pc' = "check"
    BY <1>11 DEF PollPlugin, FirstReady, readable
  <2>2. fd[a] = 1 => fd'[a] = 0
    BY <1>11, BoundsAssumption DEF PollPlugin
  <2>3. \A b \in Actions : b # a => fd'[b] = fd[b]
    BY <1>11 DEF PollPlugin
  <2>4. UNCHANGED <<shutdownReq, instance_id, touchNew, thr, response>>
    BY <1>11 DEF PollPlugin
  <2>5. pc = "poll"
    BY <1>11 DEF PollPlugin
  <2> QED
    BY <2>1, <2>2, <2>3, <2>4, <2>5
<1>12. CASE SendHeartbeat
  BY <1>12 DEF SendHeartbeat
<1>13. CASE NothingToSend
  BY <1>13 DEF NothingToSend
<1>14. CASE SendResponse
  BY <1>14 DEF SendResponse
<1>15. CASE ServeShutdown
  BY <1>15 DEF ServeShutdown
<1>16. CASE ServeDone
  BY <1>16 DEF ServeDone
<1>17. ASSUME NEW a \in Actions, StartRequest(a) PROVE BeatInv'
  BY <1>17 DEF StartRequest, ServesRequest
<1>18. ASSUME NEW a \in Actions, RefuseUnsent(a) PROVE BeatInv'
  BY <1>18 DEF RefuseUnsent, ServesRequest
<1>19. ASSUME NEW a \in Actions, RefuseBusy(a) PROVE BeatInv'
  BY <1>19 DEF RefuseBusy, ServesRequest
<1>20. ASSUME NEW a \in Actions, RefuseUnloaded(a) PROVE BeatInv'
  BY <1>20 DEF RefuseUnloaded, ServesRequest
<1>21. CASE Deregister
  BY <1>21 DEF Deregister
<1>22. CASE ShutOnSignal
  BY <1>22 DEF ShutOnSignal
<1>23. CASE Exit
  BY <1>23 DEF Exit
<1>24. CASE Reload
  BY <1>24 DEF Reload, NewHolders
<1>25. ASSUME NEW a \in Actions, PluginLoop(a) PROVE BeatInv'
  BY <1>25 DEF PluginLoop
<1>26. ASSUME NEW a \in Actions, Touch(a) PROVE BeatInv'
  BY <1>26 DEF Touch
<1>27. ASSUME NEW a \in Actions, Stamp(a) PROVE BeatInv'
  BY <1>27 DEF Stamp
<1>28. ASSUME NEW a \in Actions, SignalBeat(a) PROVE BeatInv'
  BY <1>28 DEF SignalBeat, RaiseSignal
<1>29. ASSUME NEW a \in Actions, Return(a) PROVE BeatInv'
  BY <1>29 DEF Return
<1>30. ASSUME NEW a \in Actions, Raise(a) PROVE BeatInv'
  BY <1>30 DEF Raise
<1>31. ASSUME NEW a \in Actions, RecordEnd(a) PROVE BeatInv'
  BY <1>31 DEF RecordEnd
<1>32. ASSUME NEW a \in Actions, SignalEnd(a) PROVE BeatInv'
  BY <1>32 DEF SignalEnd, RaiseSignal
<1>33. ASSUME NEW a \in Actions, ThreadExit(a) PROVE BeatInv'
  BY <1>33 DEF ThreadExit
<1>34. ASSUME NEW r \in Reqs, EngineRequest(r) PROVE BeatInv'
  BY <1>34 DEF EngineRequest
<1>35. ASSUME NEW r \in Reqs, OrphanExit(r) PROVE BeatInv'
  BY <1>35 DEF OrphanExit
<1>36. CASE EngineShutdown
  BY <1>36 DEF EngineShutdown
<1>37. ASSUME NEW s \in Signals, DeliverSignal(s) PROVE BeatInv'
  BY <1>37 DEF DeliverSignal
<1>38. CASE Terminated
  BY <1>38 DEF Terminated
<1>39. CASE UNCHANGED vars
  BY <1>39
<1> QED
  BY <1>1, <1>2, <1>3, <1>4, <1>5, <1>6, <1>7, <1>8, <1>9, <1>10, <1>11,
     <1>12, <1>13, <1>14, <1>15, <1>16, <1>17, <1>18, <1>19, <1>20, <1>21,
     <1>22, <1>23, <1>24, <1>25, <1>26, <1>27, <1>28, <1>29, <1>30, <1>31,
     <1>32, <1>33, <1>34, <1>35, <1>36, <1>37, <1>38, <1>39
  DEF Next, Main, Load, Poll, Check, Serve, Leave, Thread, Environment

\* The invariant holds initially.
LEMMA InitInv == Init => IInv
<1> SUFFICES ASSUME Init PROVE IInv
  OBVIOUS
<1> USE ReqsAssumption DEF Init
<1>1. TypeOK
  BY InitType
<1>2. LoadInv
  BY DEF LoadInv, Fresh, active
<1>3. ShutInv
  BY DEF ShutInv, active
<1>4. ThreadInv
  BY DEF ThreadInv
<1>5. InboxInv
  BY DEF InboxInv
<1>6. AnswerInv
  BY DEF AnswerInv
<1>7. MaskInv
  BY DEF MaskInv
<1>8. NoLostCompletion
  BY DEF NoLostCompletion, active
<1> QED
  BY <1>1, <1>2, <1>3, <1>4, <1>5, <1>6, <1>7, <1>8 DEF IInv

\* The conjunction of the parts is inductive: what the process keeps true at
\* every step, for any number of actions and requests.
THEOREM Invariant == Spec => []IInv
<1>1. Init => IInv
  BY InitInv
<1>2. IInv /\ [Next]_vars => IInv'
  BY TypeStep, LoadStep, ShutStep, ThreadStep, InboxStep, AnswerStep,
     MaskStep, WakeStep DEF IInv
<1> QED
  BY <1>1, <1>2, PTL DEF Spec

\* Every variable keeps its type: no counter, pipe or thread state leaves its
\* range.
THEOREM TypeCorrect == Spec => []TypeOK
<1>1. IInv => TypeOK
  BY DEF IInv
<1> QED
  BY <1>1, Invariant, PTL

\* A response whose thread has signalled is never stranded (_drain_signal
\* against _run_request).
THEOREM CompletionKept == Spec => []NoLostCompletion
<1>1. IInv => NoLostCompletion
  BY DEF IInv
<1> QED
  BY <1>1, Invariant, PTL

\* handle_response writes at most one response for a request.
THEOREM OneAnswer == Spec => []AnsweredOnce
<1>1. IInv => AnsweredOnce
  BY DEF IInv, AnswerInv, AnsweredOnce
<1> QED
  BY <1>1, Invariant, PTL

\* The pending response of a holder is that of its last request, unanswered
\* and safe from a running plugin call (send_request's two checks).
THEOREM PendingResponse == Spec => []PendingFits
<1>1. IInv => PendingFits
  BY DEF IInv, TypeOK, ThreadInv, AnswerInv, PendingFits
<1> QED
  BY <1>1, Invariant, PTL

\* The end of an earlier request does not mask the heartbeats of a plugin that
\* returns responses (handle_response's reset of req_end).
THEOREM HeartbeatsPass == Spec => []HeartbeatsNotMasked
<1>1. ASSUME IInv PROVE HeartbeatsNotMasked
  <2> SUFFICES ASSUME NEW a \in Actions \ (Faulty \cup pluginShut),
                      thr[a] \in InPlugin
               PROVE  ~req_end[a]
    BY DEF HeartbeatsNotMasked
  <2>1. a \in active
    BY <1>1 DEF IInv, LoadInv, Fresh
  <2>2. ~shutdownReq
    BY <1>1, <2>1 DEF IInv, ShutInv
  <2> QED
    BY <1>1, <2>2 DEF IInv, MaskInv
<1> QED
  BY <1>1, Invariant, PTL

\* main does not return without handle_shutdown having reached every plugin
\* it loaded, unless polling failed.
THEOREM PluginsShut == Spec => []ExitShutsPlugins
<1>1. IInv => ExitShutsPlugins
  BY DEF IInv, ShutInv, ExitShutsPlugins
<1> QED
  BY <1>1, Invariant, PTL
\* Main never sends a heartbeat under an id no plugin has stamped, as long as
\* the plugin returns responses (do_touch_heartbeat writes touch before it).
THEOREM HeartbeatsStamped == Spec => []HeartbeatIdKnown
<1>1. Init => BeatInv
  BY DEF Init, BeatInv, HeartbeatIdKnown
<1>2. IInv /\ BeatInv /\ [Next]_vars => BeatInv'
  BY BeatStep
<1>3. BeatInv => HeartbeatIdKnown
  BY DEF BeatInv
<1> QED
  BY <1>1, <1>2, <1>3, Invariant, PTL DEF Spec
-----------------------------------------------------------------------------
(* The process implements ActionService.                                    *)

\* A request is in the inbox.
Queued(r) == \E i \in 1..Len(inbox) : inbox[i] = r

\* The status of a request depends on five facts of it alone.
LEMMA StatusIs ==
    ASSUME NEW r \in Reqs
    PROVE  /\ status[r] = IF r \notin issued THEN "unsent" ELSE IF Queued(r) THEN "queued"
                          ELSE IF answers[r] > 0 THEN "answered"
                          ELSE IF Serving(r) THEN "running" ELSE "dropped"
           /\ status'[r] = IF r \notin issued' THEN "unsent" ELSE IF Queued(r)' THEN "queued"
                          ELSE IF answers'[r] > 0 THEN "answered"
                          ELSE IF Serving(r)' THEN "running" ELSE "dropped"
  BY DEF status, Queued

LEMMA StatusKept ==
    ASSUME NEW r \in Reqs, r \in issued' <=> r \in issued, Queued(r)' <=> Queued(r),
           answers'[r] = answers[r], Serving(r)' <=> Serving(r)
    PROVE  status'[r] = status[r]
  BY StatusIs

\* One request changes its status.
LEMMA StatusMoves ==
    ASSUME NEW r \in Reqs, \A q \in Reqs \ {r} : status'[q] = status[q]
    PROVE  status' = [status EXCEPT ![r] = status'[r]]
<1>1. status = [q \in Reqs |-> status[q]] /\ status' = [q \in Reqs |-> status'[q]]
  BY DEF status
<1> QED BY <1>1

LEMMA AllKept ==
    ASSUME \A q \in Reqs : status'[q] = status[q]
    PROVE  status' = status
<1>1. status = [q \in Reqs |-> status[q]] /\ status' = [q \in Reqs |-> status'[q]]
  BY DEF status
<1> QED BY <1>1

\* A request is dropped.
LEMMA DropsOne ==
    ASSUME NEW r \in Reqs, status[r] \in {"queued", "running"}, status'[r] = "dropped",
           \A q \in Reqs \ {r} : status'[q] = status[q]
    PROVE  Service!Next
<1>1. \A q \in Reqs : status'[q] = IF q \in {r} THEN "dropped" ELSE status[q]
  OBVIOUS
<1>2. status' = [q \in Reqs |-> IF q \in {r} THEN "dropped" ELSE status[q]]
  BY <1>1 DEF status
<1>3. Service!Drop({r})
  BY <1>2 DEF Service!Drop
<1> QED BY <1>3 DEF Service!Next

\* A request is served by the holder of its action.
LEMMA ServedBy ==
    ASSUME TypeOK, AnswerInv, NEW a \in Actions, NEW r \in Reqs, last_request[a] = r
    PROVE  Serving(r) <=> thr[a] \in InPlugin \/ response[a] = r
<1>1. \A b \in Actions : last_request[b] = r => b = a
  BY ReqsAssumption DEF AnswerInv
<1> QED BY <1>1 DEF Serving

LEMMA ServedByNext ==
    ASSUME TypeOK', AnswerInv', NEW a \in Actions, NEW r \in Reqs, last_request'[a] = r
    PROVE  Serving(r)' <=> thr'[a] \in InPlugin \/ response'[a] = r
<1>1. \A b \in Actions : last_request'[b] = r => b = a
  BY ReqsAssumption DEF AnswerInv
<1> QED BY <1>1 DEF Serving

\* What one holder does leaves the requests of the others alone.
LEMMA ServedElsewhere ==
    ASSUME NEW a \in Actions, NEW q \in Reqs, q # last_request[a], q # last_request'[a],
           \A b \in Actions \ {a} : /\ last_request'[b] = last_request[b]
                                    /\ thr'[b] = thr[b] /\ response'[b] = response[b]
    PROVE  Serving(q)' <=> Serving(q)
  BY DEF Serving

\* A request in the inbox is queued, and another is after its head.
LEMMA QueueRead ==
    ASSUME TypeOK, InboxInv, inbox # <<>>, inbox' = Tail(inbox)
    PROVE  /\ Head(inbox) \in Reqs \cup {Shutdown} /\ Queued(Head(inbox))
           /\ \A r \in Reqs : Queued(r)' <=> Queued(r) /\ r # Head(inbox)
<1>1. inbox \in Seq(Reqs \cup {Shutdown})
  BY DEF TypeOK
<1>2. /\ Len(inbox) \in Nat \ {0} /\ Head(inbox) = inbox[1] /\ inbox[1] \in Reqs \cup {Shutdown}
      /\ Len(Tail(inbox)) = Len(inbox) - 1
      /\ \A i \in 1..(Len(inbox) - 1) : Tail(inbox)[i] = inbox[i + 1]
  BY <1>1
<1>3. Queued(Head(inbox))
  BY <1>2 DEF Queued
<1>4. ASSUME NEW r \in Reqs, Queued(r)' PROVE Queued(r) /\ r # Head(inbox)
  <2>1. PICK i \in 1..(Len(inbox) - 1) : Tail(inbox)[i] = r
    BY <1>2, <1>4 DEF Queued
  <2>2. i + 1 \in 1..Len(inbox) /\ i + 1 # 1 /\ 1 \in 1..Len(inbox) /\ inbox[i + 1] = r
    BY <1>2, <2>1
  <2> QED BY <1>2, <2>2 DEF Queued, InboxInv
<1>5. ASSUME NEW r \in Reqs, Queued(r), r # Head(inbox) PROVE Queued(r)'
  <2>1. PICK i \in 1..Len(inbox) : inbox[i] = r
    BY <1>5 DEF Queued
  <2>2. i # 1
    BY <1>2, <1>5, <2>1
  <2>3. i - 1 \in 1..(Len(inbox) - 1) /\ (i - 1) + 1 = i
    BY <1>2, <2>2
  <2>4. Tail(inbox)[i - 1] = r
    BY <1>2, <2>1, <2>3
  <2> QED BY <1>2, <2>3, <2>4 DEF Queued
<1> QED BY <1>2, <1>3, <1>4, <1>5

\* A queued request has not run.
LEMMA QueuedIs ==
    ASSUME TypeOK, InboxInv, NEW r \in Reqs, Queued(r)
    PROVE  /\ r \in issued /\ answers[r] = 0 /\ ~Serving(r)
           /\ \A a \in Actions : last_request[a] # r
<1>1. PICK i \in 1..Len(inbox) : inbox[i] = r
  BY DEF Queued
<1>2. r \in issued /\ answers[r] = 0 /\ \A a \in Actions : last_request[a] # r
  BY <1>1, ReqsAssumption DEF InboxInv
<1> QED BY <1>2 DEF Serving

\* The last request of a holder has left the inbox.
LEMMA LastIs ==
    ASSUME TypeOK, InboxInv, AnswerInv, NEW a \in Actions, NEW r \in Reqs, last_request[a] = r
    PROVE  r \in issued /\ ~Queued(r) /\ ActionOf[r] = a
<1>1. r \in issued /\ ActionOf[r] = a
  BY ReqsAssumption DEF AnswerInv
<1> QED BY <1>1, QueuedIs

\* A message is read and its request, if it is one, not started.
LEMMA ReadOnly ==
    ASSUME TypeOK, InboxInv, inbox # <<>>, inbox' = Tail(inbox),
           UNCHANGED <<issued, answers, last_request, thr, response>>
    PROVE  Service!Next \/ status' = status
<1>1. /\ Head(inbox) \in Reqs \cup {Shutdown} /\ Queued(Head(inbox))
      /\ \A r \in Reqs : Queued(r)' <=> Queued(r) /\ r # Head(inbox)
  BY QueueRead
<1>2. \A q \in Reqs : Serving(q)' <=> Serving(q)
  BY DEF Serving
<1>3. ASSUME NEW q \in Reqs, q # Head(inbox) PROVE status'[q] = status[q]
  BY <1>1, <1>2, <1>3, StatusKept
<1>4. CASE Head(inbox) \in Reqs
  <2> DEFINE r == Head(inbox)
  <2>1. status[r] = "queued"
    BY <1>1, <1>4, QueuedIs, StatusIs
  <2>2. status'[r] = "dropped"
    BY <1>1, <1>2, <1>4, QueuedIs, StatusIs
  <2> QED BY <1>3, <1>4, <2>1, <2>2, DropsOne
<1>5. CASE Head(inbox) \notin Reqs
  BY <1>3, <1>5, AllKept
<1> QED BY <1>4, <1>5

LEMMA StartStep ==
    ASSUME TypeOK, InboxInv, ThreadInv, AnswerInv, TypeOK', AnswerInv',
           NEW a \in Actions, StartRequest(a)
    PROVE  Service!Next
<1>1. /\ inbox # <<>> /\ inbox' = Tail(inbox) /\ Head(inbox) # Shutdown
      /\ ActionOf[Head(inbox)] = a
      /\ thr[a] \notin InPlugin /\ response[a] = None
      /\ last_request' = [last_request EXCEPT ![a] = Head(inbox)]
      /\ thr' = [thr EXCEPT ![a] = "head"]
      /\ UNCHANGED <<issued, answers, response>>
  BY DEF StartRequest, ServesRequest
<1>r. PICK r \in Reqs : r = Head(inbox)
  BY <1>1, QueueRead
<1>2. Queued(r) /\ \A q \in Reqs : Queued(q)' <=> Queued(q) /\ q # r
  BY <1>1, <1>r, QueueRead
<1>3. /\ last_request'[a] = r /\ thr'[a] = "head"
      /\ \A b \in Actions \ {a} : /\ last_request'[b] = last_request[b]
                                  /\ thr'[b] = thr[b] /\ response'[b] = response[b]
  BY <1>1, <1>r DEF TypeOK
<1>4. status[r] = "queued" /\ r \in issued /\ answers[r] = 0
  BY <1>2, QueuedIs, StatusIs
<1>5. status'[r] = "running"
  <2>1. Serving(r)'
    BY <1>3 DEF Serving
  <2> QED BY <1>1, <1>2, <1>4, <2>1, StatusIs
<1>6. ASSUME NEW q \in Reqs, q # r PROVE status'[q] = status[q]
  <2>1. CASE q = last_request[a]
    <3>1. ~Serving(q)
      BY <1>1, <2>1, ReqsAssumption, ServedBy
    <3>2. ~Serving(q)'
      <4>1. \A b \in Actions : last_request[b] = q => b = a
        BY <2>1, ReqsAssumption DEF AnswerInv
      <4> QED BY <1>3, <1>6, <4>1 DEF Serving
    <3> QED BY <1>1, <1>2, <1>6, <3>1, <3>2, StatusKept
  <2>2. CASE q # last_request[a]
    <3>1. Serving(q)' <=> Serving(q)
      BY <1>3, <1>6, <2>2, ServedElsewhere
    <3> QED BY <1>1, <1>2, <1>6, <3>1, StatusKept
  <2> QED BY <2>1, <2>2
<1>7. ASSUME NEW q \in Reqs, ActionOf[q] = ActionOf[r], status[q] = "running" PROVE FALSE
  <2>1. Serving(q)
    BY <1>7, StatusIs
  <2>2. PICK b \in Actions : last_request[b] = q /\ (thr[b] \in InPlugin \/ response[b] = q)
    BY <2>1 DEF Serving
  <2>3. b = a
    BY <1>1, <1>r, <1>7, <2>2, LastIs
  <2> QED BY <1>1, <2>2, <2>3, ReqsAssumption
<1>8. Service!Start(r)
  <2>1. status' = [status EXCEPT ![r] = "running"]
    BY <1>5, <1>6, StatusMoves
  <2> QED BY <1>4, <1>7, <2>1 DEF Service!Start
<1> QED BY <1>8 DEF Service!Next

LEMMA AnswerSent ==
    ASSUME TypeOK, InboxInv, ThreadInv, AnswerInv, SendResponse
    PROVE  Service!Next
<1>1. /\ cur \in Actions /\ response[cur] \in Reqs
      /\ answers' = [answers EXCEPT ![response[cur]] = @ + 1]
      /\ response' = [response EXCEPT ![cur] = None]
      /\ UNCHANGED <<inbox, issued, thr, last_request>>
  BY DEF SendResponse, TypeOK
<1>r. PICK r \in Reqs : r = response[cur]
  BY <1>1
<1>a. last_request[cur] = r /\ answers[r] = 0 /\ answers' = [answers EXCEPT ![r] = @ + 1]
  BY <1>1, <1>r, ReqsAssumption DEF ThreadInv, AnswerInv
<1>2. \A q \in Reqs : Queued(q)' <=> Queued(q)
  BY <1>1 DEF Queued
<1>3. r \in issued /\ ~Queued(r)
  BY <1>1, <1>a, LastIs
<1>4. status[r] = "running"
  <2>1. Serving(r)
    BY <1>1, <1>r, <1>a DEF Serving
  <2> QED BY <1>a, <1>3, <2>1, StatusIs
<1>5. status'[r] = "answered"
  <2>1. answers'[r] = 1
    BY <1>a DEF TypeOK
  <2> QED BY <1>1, <1>2, <1>3, <2>1, StatusIs
<1>6. ASSUME NEW q \in Reqs \ {r} PROVE status'[q] = status[q]
  <2>1. Serving(q)' <=> Serving(q)
    <3>1. \A b \in Actions \ {cur} : response'[b] = response[b]
      BY <1>1 DEF TypeOK
    <3> QED BY <1>1, <1>a, <1>6, <3>1, ServedElsewhere
  <2>2. answers'[q] = answers[q]
    BY <1>a, <1>6 DEF TypeOK
  <2> QED BY <1>1, <1>2, <2>1, <2>2, StatusKept
<1>7. Service!Answer(r)
  <2>1. status' = [status EXCEPT ![r] = "answered"]
    BY <1>5, <1>6, StatusMoves
  <2> QED BY <1>4, <2>1 DEF Service!Answer
<1> QED BY <1>7 DEF Service!Next

\* The plugin of a holder returns or raises.
LEMMA PluginEnds ==
    ASSUME TypeOK, InboxInv, ThreadInv, AnswerInv, TypeOK', AnswerInv',
           NEW a \in Actions, Return(a) \/ Raise(a)
    PROVE  Service!Next \/ status' = status
<1> DEFINE r == last_request[a]
<1>1. /\ thr[a] \in InPlugin /\ thr'[a] \notin InPlugin
      /\ response'[a] \in {r, None} \/ response'[a] = response[a]
      /\ \A b \in Actions \ {a} : thr'[b] = thr[b] /\ response'[b] = response[b]
      /\ UNCHANGED <<inbox, issued, answers, last_request>>
  BY DEF Return, Raise, TypeOK
<1>2. r \in Reqs /\ response[a] = None /\ r \in issued /\ ~Queued(r) /\ answers[r] = 0
  <2>1. r \in Reqs /\ response[a] = None
    BY <1>1 DEF ThreadInv
  <2> QED BY <1>1, <2>1, LastIs DEF AnswerInv
<1>3. \A q \in Reqs : Queued(q)' <=> Queued(q)
  BY <1>1 DEF Queued
<1>4. status[r] = "running"
  <2>1. Serving(r)
    BY <1>1, <1>2, ServedBy
  <2> QED BY <1>2, <2>1, StatusIs
<1>5. ASSUME NEW q \in Reqs \ {r} PROVE status'[q] = status[q]
  <2>1. Serving(q)' <=> Serving(q)
    BY <1>1, <1>5, ServedElsewhere
  <2> QED BY <1>1, <1>3, <2>1, StatusKept
<1>6. Serving(r)' <=> response'[a] = r
  BY <1>1, <1>2, ServedByNext
<1>7. CASE response'[a] = r
  <2>1. status'[r] = "running"
    BY <1>1, <1>2, <1>3, <1>6, <1>7, StatusIs
  <2> QED BY <1>4, <1>5, <2>1, AllKept
<1>8. CASE response'[a] # r
  <2>1. status'[r] = "dropped"
    BY <1>1, <1>2, <1>3, <1>6, <1>8, StatusIs
  <2> QED BY <1>2, <1>4, <1>5, <2>1, DropsOne
<1> QED BY <1>7, <1>8

\* A reload gives up all that runs.
LEMMA ReloadDrops ==
    ASSUME TypeOK, Reload
    PROVE  Service!Next \/ status' = status
<1> DEFINE S == {r \in Reqs : status[r] = "running"}
<1>1. /\ UNCHANGED <<inbox, issued, answers>>
      /\ \A a \in Actions : last_request'[a] = None
  BY DEF Reload, NewHolders
<1>2. \A r \in Reqs : ~Serving(r)' /\ (Queued(r)' <=> Queued(r))
  BY <1>1, ReqsAssumption DEF Serving, Queued
<1>3. ASSUME NEW r \in Reqs PROVE status'[r] = IF r \in S THEN "dropped" ELSE status[r]
  BY <1>1, <1>2, StatusIs
<1>4. CASE S = {}
  BY <1>3, <1>4, AllKept
<1>5. CASE S # {}
  <2>1. status' = [r \in Reqs |-> IF r \in S THEN "dropped" ELSE status[r]]
    BY <1>3 DEF status
  <2>2. Service!Drop(S)
    BY <1>5, <2>1 DEF Service!Drop
  <2>3. S \in SUBSET Reqs
    OBVIOUS
  <2> QED BY <2>2, <2>3 DEF Service!Next
<1> QED BY <1>4, <1>5

\* The engine sends a request, or the shutdown message.
LEMMA Submits ==
    ASSUME TypeOK, InboxInv, (\E r \in Reqs : EngineRequest(r)) \/ EngineShutdown
    PROVE  Service!Next \/ status' = status
<1>1. PICK m \in Reqs \cup {Shutdown} :
         /\ m \notin issued /\ issued' = issued \cup {m} /\ inbox' = Append(inbox, m)
         /\ UNCHANGED <<answers, last_request, thr, response>>
  BY DEF EngineRequest, EngineShutdown
<1>2. \A r \in Reqs : Serving(r)' <=> Serving(r)
  BY <1>1 DEF Serving
<1>3. \A r \in Reqs : Queued(r)' <=> Queued(r) \/ r = m
  <2>1. /\ Len(inbox) \in Nat /\ Len(inbox') = Len(inbox) + 1 /\ inbox'[Len(inbox) + 1] = m
        /\ \A i \in 1..Len(inbox) : inbox'[i] = inbox[i]
    BY <1>1 DEF TypeOK
  <2>2. \A i \in 1..(Len(inbox) + 1) : i \in 1..Len(inbox) \/ i = Len(inbox) + 1
    BY <2>1
  <2>3. /\ Len(inbox) + 1 \in 1..(Len(inbox) + 1)
        /\ \A i \in 1..Len(inbox) : i \in 1..(Len(inbox) + 1)
    BY <2>1
  <2> QED BY <2>1, <2>2, <2>3 DEF Queued
<1>4. ASSUME NEW q \in Reqs, q # m PROVE status'[q] = status[q]
  BY <1>1, <1>2, <1>3, <1>4, StatusKept
<1>5. CASE m \in Reqs
  <2>1. status[m] = "unsent" /\ status'[m] = "queued"
    BY <1>1, <1>3, <1>5, StatusIs
  <2>2. status' = [status EXCEPT ![m] = "queued"]
    BY <1>4, <1>5, <2>1, StatusMoves
  <2> QED BY <1>5, <2>1, <2>2 DEF Service!Submit, Service!Next
<1>6. CASE m \notin Reqs
  BY <1>4, <1>6, AllKept
<1> QED BY <1>5, <1>6

\* Steps that no request notices.
LEMMA Unnoticed ==
    ASSUME UNCHANGED <<inbox, issued, answers, last_request, response>>,
           \A a \in Actions : thr'[a] \in InPlugin <=> thr[a] \in InPlugin
    PROVE  status' = status
<1>1. \A r \in Reqs : (Queued(r)' <=> Queued(r)) /\ (Serving(r)' <=> Serving(r))
  BY DEF Queued, Serving
<1> QED BY <1>1, StatusKept, AllKept

\* Every step of the process is one of the service, or none.
LEMMA ServiceStep == IInv /\ IInv' /\ [Next]_vars => [Service!Next]_status
<1> SUFFICES ASSUME IInv, IInv', [Next]_vars PROVE Service!Next \/ status' = status
  OBVIOUS
<1>i. /\ TypeOK /\ InboxInv /\ ThreadInv /\ AnswerInv
      /\ TypeOK' /\ AnswerInv'
  BY DEF IInv
<1>1. CASE Load
  BY <1>1, Unnoticed DEF Load, RegisterClient, LoadPlugin, LoadInvalid, LoadRaises, LoadDone
<1>2. CASE Poll
  <2>1. CASE PollForeign
    BY <1>i, <2>1, ReadOnly DEF PollForeign
  <2>2. CASE ~PollForeign
    BY <1>2, <2>2, Unnoticed
    DEF Poll, LoopTop, PollServer, PollTimeout, PollFail, PollPlugin
  <2> QED BY <2>1, <2>2
<1>3. CASE Check
  <2>1. CASE SendResponse
    BY <1>i, <2>1, AnswerSent
  <2>2. CASE SendHeartbeat \/ NothingToSend
    BY <2>2, Unnoticed DEF SendHeartbeat, NothingToSend
  <2> QED BY <1>3, <2>1, <2>2 DEF Check
<1>4. CASE Serve
  <2>1. CASE ServeShutdown
    BY <1>i, <2>1, ReadOnly DEF ServeShutdown
  <2>2. CASE ServeDone
    <3>1. CASE inbox' = inbox
      BY <2>2, <3>1, Unnoticed DEF ServeDone
    <3>2. CASE inbox' # inbox
      BY <1>i, <2>2, <3>2, ReadOnly DEF ServeDone
    <3> QED BY <3>1, <3>2
  <2>3. ASSUME NEW a \in Actions, StartRequest(a) PROVE Service!Next
    BY <1>i, <2>3, StartStep
  <2>4. ASSUME NEW a \in Actions, RefuseUnsent(a) \/ RefuseBusy(a) \/ RefuseUnloaded(a)
        PROVE  Service!Next \/ status' = status
    BY <1>i, <2>4, ReadOnly DEF RefuseUnsent, RefuseBusy, RefuseUnloaded, ServesRequest
  <2> QED BY <1>4, <2>1, <2>2, <2>3, <2>4 DEF Serve
<1>5. CASE Leave
  <2>1. CASE Reload
    BY <1>i, <2>1, ReloadDrops
  <2>2. CASE Deregister \/ ShutOnSignal \/ Exit
    BY <2>2, Unnoticed DEF Deregister, ShutOnSignal, Exit
  <2> QED BY <1>5, <2>1, <2>2 DEF Leave
<1>6. ASSUME NEW a \in Actions, Thread(a) PROVE Service!Next \/ status' = status
  <2>1. CASE Return(a) \/ Raise(a)
    BY <1>i, <2>1, PluginEnds
  <2>2. CASE ~(Return(a) \/ Raise(a))
    <3>1. \/ thr[a] \in InPlugin /\ \E s \in InPlugin : thr' = [thr EXCEPT ![a] = s]
          \/ thr[a] \notin InPlugin /\ \E s \in Threads \ InPlugin : thr' = [thr EXCEPT ![a] = s]
      BY <1>6, <2>2 DEF Thread, PluginLoop, Touch, Stamp, SignalBeat, RecordEnd,
         SignalEnd, ThreadExit
    <3>2. \A b \in Actions : thr'[b] \in InPlugin <=> thr[b] \in InPlugin
      BY <1>i, <3>1 DEF TypeOK
    <3>3. UNCHANGED <<inbox, issued, answers, last_request, response>>
      BY <1>6, <2>2 DEF Thread, PluginLoop, Touch, Stamp, SignalBeat, RecordEnd,
         SignalEnd, ThreadExit
    <3> QED BY <3>2, <3>3, Unnoticed
  <2> QED BY <2>1, <2>2
<1>7. CASE Environment
  <2>1. CASE (\E r \in Reqs : EngineRequest(r)) \/ EngineShutdown
    BY <1>i, <2>1, Submits
  <2>2. CASE (\E r \in Reqs : OrphanExit(r)) \/ \E s \in Signals : DeliverSignal(s)
    BY <2>2, Unnoticed DEF OrphanExit, DeliverSignal
  <2> QED BY <1>7, <2>1, <2>2 DEF Environment
<1>8. CASE Terminated \/ UNCHANGED vars
  BY <1>8, Unnoticed DEF Terminated
<1> QED BY <1>1, <1>2, <1>3, <1>4, <1>5, <1>6, <1>7, <1>8 DEF Next, Main

\* The process, with its threads, pipes, signals and reloads, implements the service
\* that the engine relies on: a request runs alone on its action, and is
\* answered once at most, after it ran (plugin_proc.py, LoMPluginHolder).
THEOREM ServiceImplemented == Spec => Implements
<1>1. Init => Service!Init
  <2> SUFFICES ASSUME Init, NEW r \in Reqs PROVE status[r] = "unsent"
    BY DEF Service!Init, status
  <2> QED BY StatusIs DEF Init
<1>2. IInv /\ [Next]_vars => IInv'
  BY TypeStep, LoadStep, ShutStep, ThreadStep, InboxStep, AnswerStep,
     MaskStep, WakeStep DEF IInv
<1> QED BY Invariant, <1>1, <1>2, ServiceStep, PTL DEF Spec, Implements, Service!Spec
=============================================================================
