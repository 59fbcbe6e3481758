--------------------------- MODULE MitigationEngine ---------------------------
(***************************************************************************)
(* The engine of the repository: the loop of run_a_testcase and its        *)
(* AnomalyHandlers (python_plugins/tests/test_main.py).  Each handler asks *)
(* for an anomaly action, then, under the one mitigation lock, for the     *)
(* actions bound to it, one after another.  A lock expires; the action     *)
(* asked for under it does not, and answers when it is done.               *)
(*                                                                         *)
(* A request is <<h, i>>, action i of the sequence of handler h, which also *)
(* stands for its instance id.  Handlers are numbered in the order of the  *)
(* dictionary test_anomalies.  Of what a handler publishes the model keeps *)
(* the mitigation state.                                                   *)
(***************************************************************************)
EXTENDS Naturals, Sequences

CONSTANTS
    N,            \* number of anomalies
    ActionSeq,    \* action_seq: the anomaly action, then its bindings
    RunCnt,       \* test_run_cnt of each handler
    MayEnd        \* whether the plugin process may end on its own

Handlers == 1..N

\* An anomaly action belongs to one handler and is bound to none; no sequence
\* has an action twice.
ASSUME EngineAssumption ==
    /\ N \in Nat \ {0}
    /\ DOMAIN ActionSeq = Handlers
    /\ \A h \in Handlers :
        /\ DOMAIN ActionSeq[h] = 1..Len(ActionSeq[h])
        /\ Len(ActionSeq[h]) \in Nat \ {0}
    /\ \A g, h \in Handlers :
        \A i \in 1..Len(ActionSeq[g]), j \in 1..Len(ActionSeq[h]) :
            ActionSeq[g][i] = ActionSeq[h][j] =>
                IF g = h THEN i = j ELSE i > 1 /\ j > 1
    /\ RunCnt \in [Handlers -> Nat \ {0}]
    /\ MayEnd \in BOOLEAN

VARIABLES
    pc, turn,           \* where the loop is, and the handler whose turn it is
    active,             \* handlers in test_anomalies
    action_seq_index,
    ct_instance_id,     \* the request a handler waits for; NoRequest: none yet
    lock_state,
    lock_exp,           \* lock_exp: "none" (0), "set", or "passed" by the clock
    published,          \* mitigation state of anomaly_published
    test_run_index,
    mitigation_lock,
    asked, answered,    \* requests sent to the plugins, responses read of them
    plugins             \* the plugin process: "up", or ended: by a request for
                        \* a "busy" action, or "gone"

loop     == <<pc, turn>>
handlers == <<active, action_seq_index, ct_instance_id, lock_state, lock_exp,
              published, test_run_index, mitigation_lock>>
channel  == <<asked, answered, plugins>>
vars     == <<loop, handlers, channel>>

SeqLen(h)    == Len(ActionSeq[h])
Requests     == UNION {{h} \X (0..(SeqLen(h) - 1)) : h \in Handlers}
NoRequest    == <<0, 0>>
ActionOf(q)  == ActionSeq[q[1]][q[2] + 1]
open         == asked \ answered

Init ==
    /\ pc = "start" /\ turn = 1
    /\ active = [h \in Handlers |-> TRUE]
    /\ action_seq_index = [h \in Handlers |-> 0]
    /\ ct_instance_id = [h \in Handlers |-> NoRequest]
    /\ lock_state = [h \in Handlers |-> "None"]
    /\ lock_exp = [h \in Handlers |-> "none"]
    /\ published = [h \in Handlers |-> "nothing"]
    /\ test_run_index = [h \in Handlers |-> 0]
    /\ mitigation_lock = FALSE
    /\ asked = {} /\ answered = {} /\ plugins = "up"

-----------------------------------------------------------------------------
(* Steps the handlers share                                                 *)

\* Mutant: the instance id stays that of the handler's first request.
WriteRequest_KeepsId(h) ==
    LET q == <<h, action_seq_index'[h]>> IN
    /\ ct_instance_id' = [ct_instance_id EXCEPT ![h] =
                            IF @ = NoRequest THEN q ELSE @]
    /\ asked' = asked \cup {q}
    /\ UNCHANGED plugins

\* _write_request for the action at the handler's index.  A plugin process
\* does not survive a request for an action that is still at work.
WriteRequest(h) ==
    LET q == <<h, action_seq_index'[h]>> IN
    /\ ct_instance_id' = [ct_instance_id EXCEPT ![h] = q]
    /\ asked' = asked \cup {q}
    /\ plugins' = IF plugins = "up" /\ \E p \in asked \ answered' :
                                           ActionOf(p) = ActionOf(q)
                  THEN "busy" ELSE plugins

\* Mutant: a pending handler does not look at the lock.
LockFree_Always == mitigation_lock \in BOOLEAN

LockFree == ~mitigation_lock

\* Mutant: the lock has no expiry.
Acquire_NoExpiry(h) ==
    /\ mitigation_lock' = TRUE
    /\ lock_state' = [lock_state EXCEPT ![h] = "Locked"]
    /\ WriteRequest(h)
    /\ UNCHANGED lock_exp

\* _manage_lock(True) of a pending handler, and the request that follows it.
Acquire(h) ==
    /\ mitigation_lock' = TRUE
    /\ lock_state' = [lock_state EXCEPT ![h] = "Locked"]
    /\ lock_exp' = [lock_exp EXCEPT ![h] = "set"]
    /\ WriteRequest(h)

\* Mutant: the lock is released whoever holds it.
Release_Any(h) ==
    /\ mitigation_lock' = FALSE
    /\ lock_state' = [lock_state EXCEPT ![h] = "None"]
    /\ lock_exp' = [lock_exp EXCEPT ![h] = "none"]

\* Mutant: the lock is never given back.
Release_Never(h) ==
    h \in Handlers /\ UNCHANGED <<mitigation_lock, lock_state, lock_exp>>

\* _manage_lock(False)
Release(h) ==
    IF lock_state[h] = "Locked"
    THEN /\ mitigation_lock' = FALSE
         /\ lock_state' = [lock_state EXCEPT ![h] = "None"]
         /\ lock_exp' = [lock_exp EXCEPT ![h] = "none"]
    ELSE UNCHANGED <<mitigation_lock, lock_state, lock_exp>>

-----------------------------------------------------------------------------
(* The loop                                                                 *)

\* The next handler's turn; after the last one, where the loop goes on.
Turn(next) ==
    /\ turn' = IF turn < N THEN turn + 1 ELSE 1
    /\ pc' = IF turn < N THEN pc ELSE next

\* handler.start(), one handler after the other.
Start ==
    /\ pc = "start" /\ Turn("read")
    /\ UNCHANGED <<answered, action_seq_index>>
    /\ WriteRequest(turn)
    /\ UNCHANGED <<active, lock_state, lock_exp, published, test_run_index,
                   mitigation_lock>>

\* server_read_request times out, or a heartbeat arrives that nobody takes.
ReadNothing ==
    /\ pc = "read" /\ pc' = "resume"
    /\ UNCHANGED <<turn, handlers, channel>>

\* Mutant: heartbeats and responses are matched by instance id alone.
Awaits_IdOnly(h, q) == ct_instance_id[h] = q

\* The two tests at the head of process_plugin_heartbeat and _response.
Awaits(h, q) ==
    /\ active[h]
    /\ ActionOf(q) = ActionSeq[h][action_seq_index[h] + 1]
    /\ ct_instance_id[h] = q

\* process_plugin_heartbeat.  A heartbeat may be that of a request already
\* answered, which the plugin process sends after the response.
ReadHeartbeat(h, q) ==
    /\ pc = "read" /\ pc' = "resume"
    /\ q \in asked
    /\ Awaits(h, q)
    /\ published' = [published EXCEPT ![h] = IF @ = "nothing" THEN @ ELSE "in-progress"]
    /\ UNCHANGED <<turn, active, action_seq_index, ct_instance_id, lock_state,
                   lock_exp, test_run_index, mitigation_lock, channel>>

\* process_plugin_response, of a handler that waits for q: the part all
\* responses share.
Answered(h, q) ==
    /\ pc = "read"
    /\ q \in open
    /\ Awaits(h, q)
    /\ answered' = answered \cup {q}
    /\ UNCHANGED turn

\* Mutant: a handler that is done stays in test_anomalies.
Drop_Keeps(h) == active' = [active EXCEPT ![h] = h \in Handlers]

\* The handler is dropped from test_anomalies.
Drop(h) == active' = [active EXCEPT ![h] = FALSE]

\* The sequence is complete: the lock is given back, and the handler done.  If
\* another run is to follow, the log call before start() has one argument for
\* two places, and the IndexError ends the engine.
Finish(h, q) ==
    /\ Answered(h, q)
    /\ Release(h)
    /\ published' = [published EXCEPT ![h] = "complete"]
    /\ test_run_index' = [test_run_index EXCEPT ![h] = @ + 1]
    /\ IF test_run_index'[h] >= RunCnt[h]
       THEN Drop(h) /\ pc' = "resume"
       ELSE UNCHANGED active /\ pc' = "crashed"
    /\ UNCHANGED <<ct_instance_id, asked, plugins>>

\* A result code other than 0 ends the sequence.
Fail(h, q) == Finish(h, q) /\ UNCHANGED action_seq_index

\* Mutant: the lock of a handler in the middle of its sequence is not looked at.
LockTimedOut_Never(h) == lock_state[h] = "None" /\ action_seq_index[h] < 0

\* After the first action, a handler without a lock has lost it.
LockTimedOut(h) == lock_state[h] = "None" /\ action_seq_index[h] > 0

Last(h) == action_seq_index[h] + 1 = SeqLen(h)

\* The index moves past the last action, or the lock timed out.  (The internal
\* error, a lock before the first answer, cannot be met.)
Complete(h, q) ==
    /\ Last(h) \/ LockTimedOut(h)
    /\ action_seq_index' = [action_seq_index EXCEPT ![h] = @ + 1]
    /\ Finish(h, q)

\* The anomaly is there: the handler becomes pending, and takes the lock and
\* starts its mitigation at once if it is free.
Detect(h, q) ==
    /\ action_seq_index[h] = 0 /\ ~Last(h)
    /\ Answered(h, q)
    /\ pc' = "resume"
    /\ action_seq_index' = [action_seq_index EXCEPT ![h] = 1]
    /\ published' = [published EXCEPT ![h] = "init"]
    /\ IF LockFree THEN Acquire(h) ELSE
        /\ lock_state' = [lock_state EXCEPT ![h] = "Pending"]
        /\ UNCHANGED <<ct_instance_id, lock_exp, mitigation_lock, asked, plugins>>
    /\ UNCHANGED <<active, test_run_index>>

\* The next action of the mitigation is asked for under the lock.
Continue(h, q) ==
    /\ action_seq_index[h] > 0 /\ ~Last(h) /\ ~LockTimedOut(h)
    /\ Answered(h, q)
    /\ pc' = "resume"
    /\ action_seq_index' = [action_seq_index EXCEPT ![h] = @ + 1]
    /\ WriteRequest(h)
    /\ UNCHANGED <<active, lock_state, lock_exp, published, test_run_index,
                   mitigation_lock>>

\* resume() of a pending handler that finds the lock free.
ResumeLocks(h) ==
    /\ active[h] /\ lock_state[h] = "Pending" /\ LockFree
    /\ UNCHANGED <<answered, action_seq_index>>
    /\ Acquire(h)
    /\ UNCHANGED published

\* resume() of a handler whose lock has expired.
ResumeExpires(h) ==
    /\ active[h] /\ lock_exp[h] = "passed"
    /\ Release(h)
    /\ published' = [published EXCEPT ![h] = "timeout"]
    /\ UNCHANGED <<action_seq_index, ct_instance_id, channel>>

\* resume() is a no-op otherwise, and skipped for handlers that are done.
ResumeIdles(h) ==
    /\ active[h] => /\ lock_state[h] = "Pending" => ~LockFree
                    /\ lock_exp[h] # "passed"
    /\ UNCHANGED <<handlers, channel>>

Resume ==
    /\ pc = "resume"
    /\ Turn(IF \E h \in Handlers : active[h] THEN "read" ELSE "end")
    /\ ResumeLocks(turn) \/ ResumeExpires(turn) \/ ResumeIdles(turn)
    /\ UNCHANGED <<active, test_run_index>>

-----------------------------------------------------------------------------
(* The world outside the engine                                             *)

\* The clock passes the time a lock expires at.
Expire(h) ==
    /\ lock_exp[h] = "set"
    /\ lock_exp' = [lock_exp EXCEPT ![h] = "passed"]
    /\ UNCHANGED <<loop, active, action_seq_index, ct_instance_id, lock_state,
                   published, test_run_index, mitigation_lock, channel>>

\* The plugin process ends.
PluginsEnd ==
    /\ MayEnd /\ plugins = "up"
    /\ plugins' = "gone"
    /\ UNCHANGED <<loop, handlers, asked, answered>>

ReadResponse(h, q) ==
    Fail(h, q) \/ Complete(h, q) \/ Detect(h, q) \/ Continue(h, q)

Engine ==
    \/ Start \/ ReadNothing \/ Resume
    \/ \E h \in Handlers, q \in Requests : ReadHeartbeat(h, q) \/ ReadResponse(h, q)

Next == Engine \/ PluginsEnd \/ \E h \in Handlers : Expire(h)

Spec == Init /\ [][Next]_vars

\* The loop goes round; time passes; an action asked for answers in the end, if
\* the plugin process is there, and its response is read, the channel being a
\* queue.
FairSpec ==
    /\ Spec
    /\ WF_vars(Engine)
    /\ \A h \in Handlers : WF_vars(Expire(h))
    /\ \A h \in Handlers :
        SF_vars(plugins = "up" /\ \E q \in Requests : ReadResponse(h, q))

-----------------------------------------------------------------------------
(* Properties                                                               *)

TypeOK ==
    /\ pc \in {"start", "read", "resume", "end", "crashed"}
    /\ turn \in Handlers
    /\ active \in [Handlers -> BOOLEAN]
    /\ action_seq_index \in [Handlers -> Nat]
    /\ \A h \in Handlers : action_seq_index[h] <= SeqLen(h)
    /\ \A h \in Handlers : active[h] /\ pc # "crashed" =>
                               action_seq_index[h] < SeqLen(h)
    /\ ct_instance_id \in [Handlers -> Requests \cup {NoRequest}]
    /\ lock_state \in [Handlers -> {"None", "Pending", "Locked"}]
    /\ lock_exp \in [Handlers -> {"none", "set", "passed"}]
    /\ published \in [Handlers -> {"nothing", "init", "in-progress", "timeout", "complete"}]
    /\ test_run_index \in [Handlers -> Nat]
    /\ mitigation_lock \in BOOLEAN
    /\ asked \subseteq Requests /\ answered \subseteq asked
    /\ plugins \in {"up", "busy", "gone"}

\* The global flag and the handlers' own lock states, which are changed in
\* different places, agree: the flag is up exactly when one handler, and one
\* only, is Locked, with an expiry, for an anomaly that was detected.
LockAgrees ==
    /\ mitigation_lock <=> \E h \in Handlers : lock_state[h] = "Locked"
    /\ \A g, h \in Handlers :
        lock_state[g] = "Locked" /\ lock_state[h] = "Locked" => g = h
    /\ \A h \in Handlers :
        /\ lock_state[h] = "Locked" <=> lock_exp[h] # "none"
        /\ lock_state[h] # "None" => active[h] /\ action_seq_index[h] > 0

\* A handler whose mitigation lock expired, and which waits for its action still.
Overdue(h) == active[h] /\ action_seq_index[h] > 0 /\ lock_state[h] = "None"

\* Actions of two mitigations are at work together only if the lock of one of
\* them has expired, whatever the order of answers, expiries and turns.
MitigationsApart ==
    \A p, q \in open :
        p[2] > 0 /\ q[2] > 0 /\ p[1] # q[1] => Overdue(p[1]) \/ Overdue(q[1])

\* No response is lost on the filters of the handlers: each open request is
\* the one its handler waits for.
OpenIsAwaited == \A q \in open : Awaits(q[1], q)

\* The engine asks for an action that is still at work, which the plugin
\* process does not survive, only when a lock has expired.
BusyOnlyWhenOverdue ==
    [][plugins # "busy" /\ plugins' = "busy" => \E h \in Handlers : Overdue(h)]_vars

\* "in-progress" is not published before the mitigation is asked for, though
\* heartbeats of the anomaly action arrive after its response.
ProgressIsStarted ==
    \A h \in Handlers : published[h] = "in-progress" =>
        \E q \in asked : q[1] = h /\ q[2] > 0

\* Once a handler has published "complete" nothing it reads later, no late
\* heartbeat and no other answer, makes it publish again.
CompleteIsLast ==
    [][\A h \in Handlers : published[h] = "complete" => published'[h] = "complete"]_vars

\* How far each anomaly is, from the fields of its handler.
phase == [h \in Handlers |->
    IF <<h, 0>> \notin asked THEN "idle"
    ELSE IF published[h] = "complete" THEN "done"
    ELSE IF lock_state[h] = "Pending" THEN "pending"
    ELSE IF lock_state[h] = "Locked" THEN "mitigating"
    ELSE IF action_seq_index[h] = 0 THEN "detecting"
    ELSE "overdue"]

Lease == INSTANCE MitigationLease WITH
    Anomalies <- Handlers, phase <- phase, asked <- asked, answered <- answered

\* The engine, with its turns, its late answers and heartbeats and the ends of
\* plugin processes, implements the lease of mitigations: who waits for the lock
\* waits for a holder, and who lost it asks for nothing more.
Implements == Lease!Spec

\* The mitigation lock is not held for ever, whatever the plugins do.
LockReleased == mitigation_lock ~> ~mitigation_lock \/ pc = "crashed"

\* Every anomaly ends in "complete", also after a lost lock or a long wait for
\* it, as long as the plugin process is there and the engine is.
AllComplete ==
    \A h \in Handlers :
        pc = "start" ~> published[h] = "complete" \/ plugins # "up" \/ pc = "crashed"
=============================================================================
