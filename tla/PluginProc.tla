----------------------------- MODULE PluginProc -----------------------------
(***************************************************************************)
(* One plugin process (python_plugins/src/plugin_proc.py): the main thread, *)
(* the request thread of every plugin holder, the pipe by which a request  *)
(* thread wakes the main thread, signals, shutdown and reload.             *)
(*                                                                         *)
(* An action is its position in the configuration, which is also the       *)
(* position of its pipe in the list the main thread polls.                 *)
(***************************************************************************)
EXTENDS Naturals, Sequences, FiniteSets

CONSTANTS
    N,          \* number of enabled actions configured for this process
    Reqs,       \* instance ids of the requests the engine may send
    ActionOf,   \* the action a request names; 0: an action of another process
    Shutdown,   \* the shutdown message
    None,       \* Python's None
    PipeCap,    \* signals a pipe holds before a write of it blocks
    DrainMax,   \* signals one os.read(fd, 100) takes out of a pipe
    MaxBeats,   \* bound: heartbeat signals left undrained in one pipe
    Paced,      \* TRUE: the heartbeat interval exceeds a sweep of the pipes
    Polite,     \* TRUE: the engine awaits an answer before it asks again
    Faulty,     \* actions whose plugin may raise, or return None
    Signals,    \* the signals the operating system may deliver
    MaxFails    \* bound: unexpected returns of poll_for_data

Actions == 1..N

ASSUME ReqsAssumption ==
    /\ N \in Nat \ {0}
    /\ ActionOf \in [Reqs -> 0..N]
    /\ Shutdown \notin Reqs
    /\ None \notin Reqs
ASSUME BoundsAssumption ==
    /\ PipeCap \in Nat \ {0}
    /\ DrainMax \in Nat \ {0}
    /\ MaxBeats \in Nat
    /\ MaxFails \in Nat
    /\ Paced \in BOOLEAN
    /\ Polite \in BOOLEAN
    /\ Faulty \subseteq Actions
    /\ Signals \subseteq {"HUP", "USR1", "TERM"}

VARIABLES
    inbox,         \* messages from the engine, not yet read
    issued,        \* requests the engine has sent
    pc,            \* where the main thread is
    cur,           \* the holder handle_response works for
    loaded,        \* active_plugin_holders is 1..loaded
    registered,    \* actions 1..registered are registered with the server
    signals,       \* signals delivered (signal_raised, sigterm_raised, ...)
    shutdownReq,   \* shutdown_request
    fails,         \* unexpected returns of poll_for_data so far
    pluginShut,    \* actions whose plugin has been told to shut down
    thr,           \* where the request thread of each holder is
    fd,            \* signals in the pipe of each holder
    last_request,  \* the request of each holder's last thread
    response,      \* the response a holder has not sent yet
    req_end,       \* whether the end of the request is recorded
    touchNew,      \* touch # touchSent
    instance_id,   \* the request whose plugin last touched heartbeat
    orphans,       \* requests still running for holders lost by a reload
    answers        \* history: responses written for each request

steady     == <<loaded, registered, signals, shutdownReq, fails>>
mainVars   == <<pc, cur, steady>>
threadVars == <<thr, last_request, response, req_end>>
beatVars   == <<touchNew, instance_id>>
holderVars == <<pluginShut, threadVars, fd, beatVars, orphans, answers>>
outside    == <<inbox, issued, holderVars>>
elsewhere  == <<inbox, issued, mainVars, pluginShut, orphans, answers>>
vars == <<mainVars, outside>>

active == 1..loaded

\* The plugin's request() is on while the thread is in one of InPlugin; the
\* rest of Alive is _run_request around it.
InPlugin == {"head", "working", "touched", "stamped"}
Alive    == InPlugin \cup {"returned", "ended", "signalled"}

\* Mutant: a new holder takes over the outcome of the one before.
NewHolders_KeepOutcome ==
    /\ pluginShut' = {}
    /\ thr' = [a \in Actions |-> "idle"]
    /\ last_request' = [a \in Actions |-> None]
    /\ touchNew' = [a \in Actions |-> FALSE]
    /\ instance_id' = [a \in Actions |-> None]
    /\ UNCHANGED <<response, req_end, fd>>

\* The fields of a holder __init__ has just made.
NewHolders ==
    /\ pluginShut' = {}
    /\ thr' = [a \in Actions |-> "idle"]
    /\ fd' = [a \in Actions |-> 0]
    /\ last_request' = [a \in Actions |-> None]
    /\ response' = [a \in Actions |-> None]
    /\ req_end' = [a \in Actions |-> FALSE]
    /\ touchNew' = [a \in Actions |-> FALSE]
    /\ instance_id' = [a \in Actions |-> None]

Init ==
    /\ inbox = <<>>
    /\ issued = {}
    /\ pc = "start"
    /\ cur = 1
    /\ loaded = 0
    /\ registered = 0
    /\ signals = {}
    /\ shutdownReq = FALSE
    /\ fails = 0
    /\ pluginShut = {}
    /\ thr = [a \in Actions |-> "idle"]
    /\ fd = [a \in Actions |-> 0]
    /\ last_request = [a \in Actions |-> None]
    /\ response = [a \in Actions |-> None]
    /\ req_end = [a \in Actions |-> FALSE]
    /\ touchNew = [a \in Actions |-> FALSE]
    /\ instance_id = [a \in Actions |-> None]
    /\ orphans = {}
    /\ answers = [r \in Reqs |-> 0]

\* The main thread moves from one point of its program to another; Move: and
\* does nothing else.
Goto(from, to) == pc = from /\ pc' = to
Move(from, to) == Goto(from, to) /\ UNCHANGED <<cur, steady, outside>>

-----------------------------------------------------------------------------
(* The main thread: start and load (main_run up to its loop).               *)

\* register_client, which may fail: main_run then returns -1.
RegisterClient ==
    /\ \/ Move("start", "load")
       \/ Move("start", "failed")

\* The holder of the next action is made, registered and given its pipe.
LoadPlugin ==
    /\ Goto("load", "load")
    /\ loaded < N
    /\ loaded' = loaded + 1
    /\ registered' = registered + 1
    /\ UNCHANGED <<cur, signals, shutdownReq, fails, outside>>

\* The next plugin is not valid: main_run returns -1 with the client and the
\* earlier actions still registered.
LoadInvalid ==
    /\ Move("load", "failed")
    /\ loaded < N

\* os.pipe() raises: the action is registered and not loaded, and loading
\* ends with the holders made so far.
LoadRaises ==
    /\ loaded < N
    /\ registered' = registered + 1
    /\ Goto("load", IF loaded = 0 THEN "failed" ELSE "top")
    /\ UNCHANGED <<cur, loaded, signals, shutdownReq, fails, outside>>

LoadDone ==
    /\ Move("load", "top")
    /\ loaded = N

-----------------------------------------------------------------------------
(* The main thread: the reading loop.                                       *)

\* "while not signal_raised"
LoopTop ==
    /\ Move("top", IF signals = {} THEN "poll" ELSE "leave")

\* The client library hands over no request for an action not registered here.
Foreign(m) == m # Shutdown /\ ActionOf[m] \notin 1..registered

\* Mutant: the pipe of the plugin loaded last is not polled.
readable_MissesLast == {a \in active : a < loaded /\ fd[a] > 0}

readable == {a \in active : fd[a] > 0}
FirstReady(a) == a \in readable /\ \A b \in readable : a <= b

\* poll_for_data finds a message from the engine, which goes before any pipe.
PollServer ==
    /\ Move("poll", "serve")
    /\ inbox # <<>> /\ ~Foreign(Head(inbox))

\* poll_for_data consumes a message for another process and polls on.
PollForeign ==
    /\ Goto("poll", "poll")
    /\ inbox # <<>> /\ Foreign(Head(inbox))
    /\ inbox' = Tail(inbox)
    /\ UNCHANGED <<issued, cur, steady, holderVars>>

\* poll_for_data returns the first readable pipe; handle_response starts by
\* draining it.
PollPlugin(a) ==
    /\ Goto("poll", "check")
    /\ inbox = <<>>
    /\ FirstReady(a)
    /\ cur' = a
    /\ fd' = [fd EXCEPT ![a] = IF @ > DrainMax THEN @ - DrainMax ELSE 0]
    /\ UNCHANGED <<inbox, issued, steady, pluginShut, threadVars, beatVars,
                   orphans, answers>>

PollTimeout ==
    /\ Move("poll", "top")
    /\ inbox = <<>> /\ readable = {}

\* poll_for_data returns a value the loop does not know.
PollFail ==
    /\ Goto("poll", "leave")
    /\ fails < MaxFails
    /\ fails' = fails + 1
    /\ UNCHANGED <<cur, loaded, registered, signals, shutdownReq, outside>>

-----------------------------------------------------------------------------
(* handle_response, after its drain.                                        *)

\* No end recorded: the signal was a heartbeat's, and a touch in a new second
\* is passed on under the instance id stamped last.  That attribute exists from
\* the first stamp on: reading it earlier is an AttributeError.
SendHeartbeat ==
    LET id == instance_id[cur] IN
    /\ ~req_end[cur] /\ touchNew[cur]
    /\ Goto("check", IF id = None THEN "crashBeat" ELSE "top")
    /\ touchNew' = [touchNew EXCEPT ![cur] = FALSE]
    /\ UNCHANGED <<inbox, issued, cur, steady, pluginShut, threadVars, fd,
                   instance_id, orphans, answers>>

\* Neither a response nor a new touch, or the end of a request that left no
\* response ("Internal error: Expect response"): nothing changes.
NothingToSend ==
    /\ IF req_end[cur] THEN response[cur] = None ELSE ~touchNew[cur]
    /\ Move("check", "top")

\* Mutant: neither the response nor its end is reset.
SendResponse_NoReset ==
    /\ req_end[cur] /\ response[cur] # None
    /\ Goto("check", "top")
    /\ answers' = [answers EXCEPT ![response[cur]] = @ + 1]
    /\ UNCHANGED <<inbox, issued, cur, steady, pluginShut, threadVars, fd,
                   beatVars, orphans>>

\* Mutant: req_end is not reset.
SendResponse_KeepsEnd ==
    /\ req_end[cur] /\ response[cur] # None
    /\ Goto("check", "top")
    /\ answers' = [answers EXCEPT ![response[cur]] = @ + 1]
    /\ response' = [response EXCEPT ![cur] = None]
    /\ UNCHANGED <<inbox, issued, cur, steady, pluginShut, thr, last_request,
                   req_end, fd, beatVars, orphans>>

SendResponse ==
    /\ req_end[cur] /\ response[cur] # None
    /\ Goto("check", "top")
    /\ answers' = [answers EXCEPT ![response[cur]] = @ + 1]
    /\ response' = [response EXCEPT ![cur] = None]
    /\ req_end' = [req_end EXCEPT ![cur] = FALSE]
    /\ UNCHANGED <<inbox, issued, cur, steady, pluginShut, thr, last_request,
                   fd, beatVars, orphans>>

-----------------------------------------------------------------------------
(* handle_server_request: one step per message it reads.                    *)

\* Mutant: the flag is set and no plugin is told.
ServeShutdown_FlagOnly ==
    /\ Goto("serve", "serve")
    /\ inbox # <<>> /\ Head(inbox) = Shutdown
    /\ inbox' = Tail(inbox)
    /\ shutdownReq' = TRUE
    /\ UNCHANGED <<issued, cur, loaded, registered, signals, fails,
                   holderVars>>

\* handle_shutdown; the loop goes on to what follows in the inbox.
ServeShutdown ==
    /\ Goto("serve", "serve")
    /\ inbox # <<>> /\ Head(inbox) = Shutdown
    /\ inbox' = Tail(inbox)
    /\ pluginShut' = active
    /\ shutdownReq' = TRUE
    /\ UNCHANGED <<issued, cur, loaded, registered, signals, fails,
                   threadVars, fd, beatVars, orphans, answers>>

\* The next message is a request for action a, registered with the server.
ServesRequest(a) ==
    /\ pc = "serve"
    /\ inbox # <<>> /\ Head(inbox) # Shutdown
    /\ ActionOf[Head(inbox)] = a /\ a \in 1..registered
    /\ inbox' = Tail(inbox)

\* Mutant: the response of the last request is not waited for.
StartRequest_Unchecked(a) ==
    /\ ServesRequest(a)
    /\ a \in active /\ thr[a] \notin Alive
    /\ last_request' = [last_request EXCEPT ![a] = Head(inbox)]
    /\ thr' = [thr EXCEPT ![a] = "head"]
    /\ UNCHANGED <<issued, mainVars, pluginShut, response, req_end, fd,
                   beatVars, orphans, answers>>

\* send_request starts a request thread.
StartRequest(a) ==
    /\ ServesRequest(a)
    /\ a \in active /\ thr[a] \notin Alive /\ response[a] = None
    /\ last_request' = [last_request EXCEPT ![a] = Head(inbox)]
    /\ thr' = [thr EXCEPT ![a] = "head"]
    /\ UNCHANGED <<issued, mainVars, pluginShut, response, req_end, fd,
                   beatVars, orphans, answers>>

\* Mutant: "any signal written is cleared" with the joined thread.
RefuseUnsent_Drains(a) ==
    /\ ServesRequest(a)
    /\ a \in active /\ thr[a] \notin Alive /\ response[a] # None
    /\ fd' = [fd EXCEPT ![a] = 0]
    /\ UNCHANGED <<issued, mainVars, pluginShut, threadVars, beatVars,
                   orphans, answers>>

\* send_request drops a request while the last response is not sent.
RefuseUnsent(a) ==
    /\ ServesRequest(a)
    /\ a \in active /\ thr[a] \notin Alive /\ response[a] # None
    /\ UNCHANGED <<issued, mainVars, holderVars>>

\* _chk_thread_done finds the thread alive and raises NameError on `take`.
RefuseBusy(a) ==
    /\ ServesRequest(a)
    /\ a \in active /\ thr[a] \in Alive
    /\ pc' = "crashBusy"
    /\ UNCHANGED <<issued, cur, steady, holderVars>>

\* A registered action without a holder: NameError on `action_name`.
RefuseUnloaded(a) ==
    /\ ServesRequest(a)
    /\ a \notin active
    /\ pc' = "crashUnloaded"
    /\ UNCHANGED <<issued, cur, steady, holderVars>>

\* Nothing to read, or a message for another process, which the read consumes
\* and reports as nothing: the reading loop ends.
ServeDone ==
    /\ Goto("serve", IF shutdownReq THEN "leave" ELSE "top")
    /\ \/ inbox = <<>> /\ UNCHANGED inbox
       \/ inbox # <<>> /\ Foreign(Head(inbox)) /\ inbox' = Tail(inbox)
    /\ UNCHANGED <<issued, cur, steady, holderVars>>

-----------------------------------------------------------------------------
(* The main thread: leaving main_run, and what main does then.              *)

Deregister ==
    /\ Goto("leave", "left")
    /\ registered' = 0
    /\ UNCHANGED <<cur, loaded, signals, shutdownReq, fails, outside>>

\* handle_shutdown for a signal, unless a shutdown message did it already.
ShutOnSignal ==
    /\ Goto("left", "ret")
    /\ IF ~shutdownReq /\ signals # {}
       THEN pluginShut' = active /\ shutdownReq' = TRUE
       ELSE UNCHANGED <<pluginShut, shutdownReq>>
    /\ UNCHANGED <<inbox, issued, cur, loaded, registered, signals, fails,
                   threadVars, fd, beatVars, orphans, answers>>

MustExit == shutdownReq \/ signals \cap {"USR1", "TERM"} # {}

Exit ==
    /\ Move("ret", "done")
    /\ MustExit

\* main calls main_run again, which makes new holders; the threads of the old
\* ones run on, with nobody to read their pipes or their responses.
Reload ==
    /\ Goto("ret", "start")
    /\ ~MustExit
    /\ loaded' = 0
    /\ orphans' = orphans \cup {last_request[a] : a \in {b \in Actions : thr[b] \in Alive}}
    /\ NewHolders
    /\ UNCHANGED <<inbox, issued, cur, registered, signals, shutdownReq,
                   fails, answers>>

-----------------------------------------------------------------------------
(* The request thread of action a.                                          *)

\* The plugin goes round its loop again, unless it is shut down.
PluginLoop(a) ==
    /\ thr[a] = "head" /\ a \notin pluginShut
    /\ thr' = [thr EXCEPT ![a] = "working"]
    /\ UNCHANGED <<last_request, response, req_end, fd, beatVars, elsewhere>>

\* do_touch_heartbeat, first line: the time, whole seconds, is recorded.  A
\* touch in the second of the last sent one is no new touch.
Touch(a) ==
    /\ thr[a] = "working"
    /\ a \notin pluginShut =>
           /\ fd[a] < MaxBeats
           /\ Paced => \A b \in Actions : fd[b] = 0
    /\ thr' = [thr EXCEPT ![a] = "touched"]
    /\ \E new \in BOOLEAN :
         /\ Paced \/ instance_id[a] = None => new
         /\ touchNew' = [touchNew EXCEPT ![a] = @ \/ new]
    /\ UNCHANGED <<last_request, response, req_end, fd, instance_id,
                   elsewhere>>

\* Mutant: the signal is raised where the id should be stamped.
Stamp_Signals(a) ==
    /\ thr[a] = "touched" /\ fd[a] < PipeCap
    /\ thr' = [thr EXCEPT ![a] = "stamped"]
    /\ fd' = [fd EXCEPT ![a] = @ + 1]
    /\ UNCHANGED <<last_request, response, req_end, beatVars, elsewhere>>

\* Second line: the instance id.
Stamp(a) ==
    /\ thr[a] = "touched"
    /\ thr' = [thr EXCEPT ![a] = "stamped"]
    /\ instance_id' = [instance_id EXCEPT ![a] = last_request[a]]
    /\ UNCHANGED <<last_request, response, req_end, fd, touchNew, elsewhere>>

\* Mutant: a write never blocks.
RaiseSignal_Unbounded(a) == fd' = [fd EXCEPT ![a] = @ + 1]

\* _raise_signal writes to the pipe, and blocks while it is full.
RaiseSignal(a) ==
    /\ fd[a] < PipeCap
    /\ fd' = [fd EXCEPT ![a] = @ + 1]

SignalBeat(a) ==
    /\ thr[a] = "stamped"
    /\ RaiseSignal(a)
    /\ thr' = [thr EXCEPT ![a] = "head"]
    /\ UNCHANGED <<last_request, response, req_end, beatVars, elsewhere>>

\* request() returns its response; a plugin that is shut down may return None
\* (link_flap falls off its loop), a faulty one at any time.
Return(a) ==
    /\ thr[a] \in {"head", "working"}
    /\ thr' = [thr EXCEPT ![a] = "returned"]
    /\ \E res \in {last_request[a], None} :
         /\ res = None => a \in Faulty \/ a \in pluginShut
         /\ response' = [response EXCEPT ![a] = res]
    /\ UNCHANGED <<last_request, req_end, fd, beatVars, elsewhere>>

\* request() raises: the thread ends and nobody is told.
Raise(a) ==
    /\ thr[a] = "working" /\ a \in Faulty
    /\ thr' = [thr EXCEPT ![a] = "idle"]
    /\ UNCHANGED <<last_request, response, req_end, fd, beatVars, elsewhere>>

RecordEnd(a) ==
    /\ thr[a] = "returned"
    /\ thr' = [thr EXCEPT ![a] = "ended"]
    /\ req_end' = [req_end EXCEPT ![a] = TRUE]
    /\ UNCHANGED <<last_request, response, fd, beatVars, elsewhere>>

SignalEnd(a) ==
    /\ thr[a] = "ended"
    /\ RaiseSignal(a)
    /\ thr' = [thr EXCEPT ![a] = "signalled"]
    /\ UNCHANGED <<last_request, response, req_end, beatVars, elsewhere>>

ThreadExit(a) ==
    /\ thr[a] = "signalled"
    /\ thr' = [thr EXCEPT ![a] = "idle"]
    /\ UNCHANGED <<last_request, response, req_end, fd, beatVars, elsewhere>>

\* The thread of a holder lost by a reload ends.
OrphanExit(r) ==
    /\ r \in orphans
    /\ orphans' = orphans \ {r}
    /\ UNCHANGED <<inbox, issued, mainVars, pluginShut, threadVars, fd,
                   beatVars, answers>>

-----------------------------------------------------------------------------
(* The engine and the operating system.                                     *)

Stopped == {"done", "failed", "crashBusy", "crashUnloaded", "crashBeat"}

EngineRequest(r) ==
    /\ pc \notin Stopped
    /\ r \notin issued
    /\ Polite => \A q \in issued \ {Shutdown} :
                     ActionOf[q] = ActionOf[r] => answers[q] > 0
    /\ issued' = issued \cup {r}
    /\ inbox' = Append(inbox, r)
    /\ UNCHANGED <<mainVars, holderVars>>

EngineShutdown ==
    /\ pc \notin Stopped
    /\ Shutdown \notin issued
    /\ issued' = issued \cup {Shutdown}
    /\ inbox' = Append(inbox, Shutdown)
    /\ UNCHANGED <<mainVars, holderVars>>

\* signal_handler
DeliverSignal(s) ==
    /\ pc \notin Stopped
    /\ s \notin signals
    /\ signals' = signals \cup {s}
    /\ UNCHANGED <<pc, cur, loaded, registered, shutdownReq, fails, outside>>

\* The process is gone once its main thread and every request thread ended.
Terminated ==
    /\ pc \in Stopped
    /\ \A a \in Actions : thr[a] = "idle"
    /\ orphans = {}
    /\ UNCHANGED vars

-----------------------------------------------------------------------------

Load == RegisterClient \/ LoadPlugin \/ LoadInvalid \/ LoadRaises \/ LoadDone
Poll == \/ LoopTop \/ PollServer \/ PollForeign \/ PollTimeout \/ PollFail
        \/ \E a \in Actions : PollPlugin(a)
Check == SendHeartbeat \/ NothingToSend \/ SendResponse
Serve == \/ ServeShutdown \/ ServeDone
         \/ \E a \in Actions : \/ StartRequest(a) \/ RefuseUnsent(a)
                               \/ RefuseBusy(a) \/ RefuseUnloaded(a)
Leave == Deregister \/ ShutOnSignal \/ Exit \/ Reload

Main == Load \/ Poll \/ Check \/ Serve \/ Leave

Thread(a) ==
    \/ PluginLoop(a) \/ Touch(a) \/ Stamp(a) \/ SignalBeat(a) \/ Return(a)
    \/ Raise(a) \/ RecordEnd(a) \/ SignalEnd(a) \/ ThreadExit(a)

Environment ==
    \/ \E r \in Reqs : EngineRequest(r) \/ OrphanExit(r)
    \/ EngineShutdown
    \/ \E s \in Signals : DeliverSignal(s)

Next == Main \/ (\E a \in Actions : Thread(a)) \/ Environment \/ Terminated

Spec == Init /\ [][Next]_vars

\* A plugin may block as long as it likes until it is shut down; link_flap's
\* wait for an event and test_action's sleep are bounded, so it then ends.
Obliged(a) == thr[a] \in {"head", "working"} => a \in pluginShut

\* The operating system runs the main thread and every request thread.
FairSpec ==
    /\ Spec
    /\ WF_vars(Main)
    /\ \A a \in Actions : WF_vars(Obliged(a) /\ Thread(a))

-----------------------------------------------------------------------------
(* Properties.                                                              *)

Threads == {"idle"} \cup Alive
Loop    == {"top", "poll", "check", "serve"}
Crashes == {"crashBusy", "crashUnloaded", "crashBeat"}
PCs     == {"start", "load", "leave", "left", "ret"} \cup Loop \cup Stopped

\* The type of every variable, with the order of the three counts of actions:
\* loaded, registered, configured.
TypeOK ==
    /\ inbox \in Seq(Reqs \cup {Shutdown})
    /\ issued \subseteq Reqs \cup {Shutdown}
    /\ pc \in PCs
    /\ cur \in Actions
    /\ loaded \in 0..N
    /\ registered \in 0..N
    /\ signals \subseteq Signals
    /\ shutdownReq \in BOOLEAN
    /\ fails \in 0..MaxFails
    /\ pluginShut \subseteq Actions
    /\ thr \in [Actions -> Threads]
    /\ fd \in [Actions -> 0..PipeCap]
    /\ last_request \in [Actions -> Reqs \cup {None}]
    /\ response \in [Actions -> Reqs \cup {None}]
    /\ req_end \in [Actions -> BOOLEAN]
    /\ touchNew \in [Actions -> BOOLEAN]
    /\ instance_id \in [Actions -> Reqs \cup {None}]
    /\ orphans \subseteq Reqs
    /\ answers \in [Reqs -> Nat]

\* A response whose thread has raised its last signal is never stranded: the
\* main thread is handling that holder or will find its pipe readable, however
\* heartbeat signals, partial drains and early answers interleave.
NoLostCompletion ==
    \A a \in active :
        pc \in Loop /\ response[a] # None /\ thr[a] \in {"signalled", "idle"}
            => fd[a] > 0 \/ (pc = "check" /\ cur = a)

\* handle_response may run before the completion signal is written and again
\* for it, yet writes one response for a request.
AnsweredOnce == \A r \in Reqs : answers[r] <= 1

\* A response waiting to be sent is that of the holder's last request, is not
\* answered yet, and no plugin call runs that would overwrite it.
PendingFits ==
    \A a \in Actions : response[a] # None =>
        /\ response[a] = last_request[a]
        /\ answers[response[a]] = 0
        /\ thr[a] \notin InPlugin

\* The end of an earlier request never masks the heartbeats of the one that
\* runs, as long as the plugin returns responses.
HeartbeatsNotMasked ==
    \A a \in Actions \ (Faulty \cup pluginShut) :
        thr[a] \in InPlugin => ~req_end[a]

\* send_heartbeat never reads an instance_id no touch has set, although touch
\* is written before it by another thread, as long as the plugin returns responses.
HeartbeatIdKnown == pc = "crashBeat" => cur \in Faulty

\* When main returns with no poll failure behind it, every plugin it loaded
\* has been told to shut down, whether by message or by signal.
ExitShutsPlugins == pc = "done" /\ fails = 0 => active \subseteq pluginShut

\* What the engine can tell of each request.
Serving(r) == \E a \in Actions :
    last_request[a] = r /\ (thr[a] \in InPlugin \/ response[a] = r)

status == [r \in Reqs |->
    IF r \notin issued THEN "unsent"
    ELSE IF \E i \in 1..Len(inbox) : inbox[i] = r THEN "queued"
    ELSE IF answers[r] > 0 THEN "answered"
    ELSE IF Serving(r) THEN "running"
    ELSE "dropped"]

Service == INSTANCE ActionService WITH
    Reqs <- Reqs, ActionOf <- ActionOf, status <- status

\* The process implements the service the engine relies on: one running
\* request per action, an answer only to a request that ran.
Implements == Service!Spec

\* A response the plugin returned reaches the engine unless the reading loop
\* ends first; needs heartbeats slower than the loop (Paced).
ResponseSent ==
    \A r \in Reqs : (\E a \in Actions : response[a] = r)
                        ~> (answers[r] > 0 \/ pc \notin Loop)

\* A signal or a shutdown message brings the whole process down, request
\* threads included, unless the main thread died of an exception.
ShutdownCompletes ==
    (signals # {} \/ shutdownReq)
        ~> \/ pc \in Crashes
           \/ pc \in Stopped /\ \A a \in Actions : thr[a] = "idle"

(* What comments and messages of the source say, and the code does not.     *)

\* "request dropped as busy with previous": a busy holder costs the process
\* nothing but the request.
BusyIsDropped == pc # "crashBusy"
=============================================================================
