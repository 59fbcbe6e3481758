------------------------ MODULE MitigationEngineProofs ------------------------
(***************************************************************************)
(* Proofs about MitigationEngine, for any number of anomalies and any      *)
(* sequences of actions that share bound actions only.                     *)
(***************************************************************************)
EXTENDS MitigationEngine, TLAPS

\* While the handlers are started, no response is read.
StartInv == pc = "start" =>
    /\ answered = {}
    /\ \A q \in asked : q[1] < turn
    /\ \A h \in Handlers : active[h] /\ action_seq_index[h] = 0

\* A handler waits for the one open request it has; a pending one has none.
RequestInv ==
    /\ \A h \in Handlers : ct_instance_id[h] # NoRequest =>
           ct_instance_id[h] \in asked /\ ct_instance_id[h][1] = h
    /\ \A q \in open : /\ active[q[1]]
                       /\ action_seq_index[q[1]] = q[2]
                       /\ ct_instance_id[q[1]] = q
    /\ \A h \in Handlers : lock_state[h] = "Pending" =>
           action_seq_index[h] = 1 /\ \A q \in open : q[1] # h

\* A handler at work is not complete, and has published nothing before the
\* anomaly was detected.
PublishInv == \A h \in Handlers : active[h] /\ pc # "crashed" =>
    /\ published[h] # "complete"
    /\ action_seq_index[h] = 0 => published[h] = "nothing"

IInv == /\ TypeOK /\ LockAgrees /\ StartInv /\ RequestInv /\ PublishInv
        /\ ProgressIsStarted

-----------------------------------------------------------------------------
(* Requests and actions.                                                    *)

USE DEF Handlers, vars, loop, handlers, channel, open

\* Every sequence has an action.
LEMMA Lengths == N \in Nat \ {0} /\ \A h \in Handlers : SeqLen(h) \in Nat \ {0}
BY EngineAssumption DEF SeqLen

\* A request is a handler and a position in its sequence.
LEMMA RequestParts ==
    ASSUME NEW q \in Requests
    PROVE  /\ q = <<q[1], q[2]>> /\ q[1] \in Handlers
           /\ q[2] \in Nat /\ q[2] < SeqLen(q[1])
<1>1. PICK h \in Handlers : q \in {h} \X (0..(SeqLen(h) - 1))
  BY DEF Requests
<1> QED
  BY <1>1, Lengths

\* Every position in a sequence makes a request.
LEMMA RequestOf ==
    ASSUME NEW h \in Handlers, NEW i \in Nat, i < SeqLen(h)
    PROVE  <<h, i>> \in Requests
<1>1. <<h, i>> \in {h} \X (0..(SeqLen(h) - 1))
  BY Lengths
<1> QED
  BY <1>1 DEF Requests

\* Two requests for one action are the same, or of bound actions of two handlers.
LEMMA SameAction ==
    ASSUME NEW p \in Requests, NEW q \in Requests, ActionOf(p) = ActionOf(q)
    PROVE  p = q \/ (p[1] # q[1] /\ p[2] > 0 /\ q[2] > 0)
<1>1. /\ p = <<p[1], p[2]>> /\ p[1] \in Handlers /\ p[2] \in Nat /\ p[2] < SeqLen(p[1])
      /\ q = <<q[1], q[2]>> /\ q[1] \in Handlers /\ q[2] \in Nat /\ q[2] < SeqLen(q[1])
  BY RequestParts
<1>2. /\ p[2] + 1 \in 1..Len(ActionSeq[p[1]])
      /\ q[2] + 1 \in 1..Len(ActionSeq[q[1]])
  BY <1>1 DEF SeqLen
<1>3. ActionSeq[p[1]][p[2] + 1] = ActionSeq[q[1]][q[2] + 1] =>
          IF p[1] = q[1] THEN p[2] + 1 = q[2] + 1 ELSE p[2] + 1 > 1 /\ q[2] + 1 > 1
  BY <1>1, <1>2, EngineAssumption
<1> QED
  BY <1>1, <1>3 DEF ActionOf

-----------------------------------------------------------------------------
(* Types.                                                                   *)

LEMMA InitIInv == Init => IInv
<1> SUFFICES ASSUME Init PROVE IInv
  OBVIOUS
<1>1. TypeOK
  <2>1. mitigation_lock \in BOOLEAN
    BY DEF Init
  <2> QED
    BY <2>1, Lengths DEF Init, TypeOK
<1>2. LockAgrees /\ StartInv /\ RequestInv /\ PublishInv
  BY DEF Init, LockAgrees, StartInv, RequestInv, PublishInv
<1>3. ProgressIsStarted
  BY DEF Init, ProgressIsStarted
<1> QED
  BY <1>1, <1>2, <1>3 DEF IInv

\* The types of what _write_request, _manage_lock and a finished sequence leave.
LEMMA WriteType ==
    ASSUME TypeOK, NEW h \in Handlers, WriteRequest(h),
           <<h, action_seq_index'[h]>> \in Requests
    PROVE  /\ ct_instance_id' \in [Handlers -> Requests \cup {NoRequest}]
           /\ asked \subseteq asked' /\ asked' \subseteq Requests
           /\ plugins' \in {"up", "busy", "gone"}
BY DEF TypeOK, WriteRequest

LEMMA AcquireType ==
    ASSUME TypeOK, NEW h \in Handlers, Acquire(h)
    PROVE  /\ mitigation_lock' \in BOOLEAN
           /\ lock_state' \in [Handlers -> {"None", "Pending", "Locked"}]
           /\ lock_exp' \in [Handlers -> {"none", "set", "passed"}]
           /\ WriteRequest(h)
BY DEF TypeOK, Acquire

LEMMA ReleaseType ==
    ASSUME TypeOK, NEW h \in Handlers, Release(h)
    PROVE  /\ mitigation_lock' \in BOOLEAN
           /\ lock_state' \in [Handlers -> {"None", "Pending", "Locked"}]
           /\ lock_exp' \in [Handlers -> {"none", "set", "passed"}]
<1>1. mitigation_lock' \in BOOLEAN
  BY DEF TypeOK, Release
<1> QED
  BY <1>1 DEF TypeOK, Release

LEMMA FinishType ==
    ASSUME TypeOK, NEW h \in Handlers, NEW q \in Requests, Finish(h, q),
           action_seq_index' \in [Handlers -> Nat],
           action_seq_index'[h] <= SeqLen(h),
           \A g \in Handlers : g # h => action_seq_index'[g] = action_seq_index[g]
    PROVE  TypeOK'
<1>1. Release(h) /\ Answered(h, q)
  BY DEF Finish
<1>2. test_run_index' = [test_run_index EXCEPT ![h] = @ + 1]
  BY DEF Finish
<1>3. test_run_index' \in [Handlers -> Nat]
  BY <1>2 DEF TypeOK
<1>4. /\ pc' \in {"resume", "crashed"} /\ pc = "read"
      /\ active' \in [Handlers -> BOOLEAN]
      /\ \A g \in Handlers : active'[g] => active[g]
      /\ pc' # "crashed" => ~active'[h]
  BY <1>1 DEF TypeOK, Finish, Drop, Answered
<1>5. published' \in [Handlers -> {"nothing", "init", "in-progress", "timeout", "complete"}]
  BY DEF TypeOK, Finish
<1>6. /\ turn' = turn /\ answered' \subseteq asked'
      /\ ct_instance_id' = ct_instance_id /\ asked' = asked /\ plugins' = plugins
  BY <1>1 DEF TypeOK, Finish, Answered
<1>7. /\ \A g \in Handlers : action_seq_index'[g] <= SeqLen(g)
      /\ \A g \in Handlers : active'[g] /\ pc' # "crashed" =>
                                 action_seq_index'[g] < SeqLen(g)
  BY <1>4 DEF TypeOK
<1> QED
  BY <1>1, <1>3, <1>4, <1>5, <1>6, <1>7, ReleaseType DEF TypeOK

\* Each step keeps the types: the request a handler writes is one of its
\* sequence, since a handler at work has not come to the end of it.
LEMMA TypeStep == ASSUME TypeOK, StartInv, [Next]_vars PROVE TypeOK'
<1> USE Lengths
<1>1. CASE Start
  <2>1. action_seq_index[turn] = 0 /\ turn \in Handlers /\ pc = "start"
    BY <1>1 DEF Start, StartInv, TypeOK
  <2>2. <<turn, action_seq_index'[turn]>> \in Requests /\ WriteRequest(turn)
    BY <1>1, <2>1, RequestOf DEF Start
  <2>3. pc' \in {"start", "read"} /\ turn' \in Handlers
    BY <1>1 DEF Start, Turn, TypeOK
  <2>4. answered' \subseteq asked'
    BY <1>1, <2>1, <2>2, WriteType DEF Start, TypeOK
  <2> QED
    BY <1>1, <2>1, <2>2, <2>3, <2>4, WriteType DEF Start, TypeOK
<1>2. CASE ReadNothing
  BY <1>2 DEF ReadNothing, TypeOK
<1>3. CASE Resume
  <2>1. /\ turn \in Handlers /\ turn' \in Handlers
        /\ pc = "resume" /\ pc' \in {"read", "resume", "end"}
    BY <1>3 DEF Resume, Turn, TypeOK
  <2>2. CASE ResumeLocks(turn)
    <3>1. action_seq_index'[turn] = action_seq_index[turn] /\ Acquire(turn)
      BY <2>2 DEF ResumeLocks
    <3>2. <<turn, action_seq_index'[turn]>> \in Requests
      BY <2>1, <2>2, <3>1, RequestOf DEF ResumeLocks, TypeOK
    <3>3. WriteRequest(turn)
      BY <3>1 DEF Acquire
    <3>4. answered' \subseteq asked'
      BY <2>1, <2>2, <3>2, <3>3, WriteType DEF ResumeLocks, TypeOK
    <3> QED
      BY <1>3, <2>1, <2>2, <3>1, <3>2, <3>3, <3>4, WriteType, AcquireType
      DEF Resume, ResumeLocks, TypeOK
  <2>3. CASE ResumeExpires(turn)
    <3>1. Release(turn)
      BY <2>3 DEF ResumeExpires
    <3> QED
      BY <1>3, <2>1, <2>3, <3>1, ReleaseType DEF Resume, ResumeExpires, TypeOK
  <2>4. CASE ResumeIdles(turn)
    BY <1>3, <2>1, <2>4 DEF Resume, ResumeIdles, TypeOK
  <2> QED
    BY <1>3, <2>2, <2>3, <2>4 DEF Resume
<1>4. ASSUME NEW h \in Handlers, NEW q \in Requests, ReadHeartbeat(h, q)
      PROVE  TypeOK'
  BY <1>4 DEF ReadHeartbeat, TypeOK
<1>5. ASSUME NEW h \in Handlers, NEW q \in Requests, Fail(h, q)
      PROVE  TypeOK'
  BY <1>5, FinishType DEF Fail, TypeOK
<1>6. ASSUME NEW h \in Handlers, NEW q \in Requests, Complete(h, q)
      PROVE  TypeOK'
  <2>1. active[h] /\ pc = "read"
    BY <1>6 DEF Complete, Finish, Answered, Awaits
  <2>2. action_seq_index[h] < SeqLen(h)
    BY <2>1 DEF TypeOK
  <2>3. Finish(h, q) /\ action_seq_index' = [action_seq_index EXCEPT ![h] = @ + 1]
    BY <1>6 DEF Complete
  <2>4. /\ action_seq_index' \in [Handlers -> Nat]
        /\ action_seq_index'[h] <= SeqLen(h)
        /\ \A g \in Handlers : g # h => action_seq_index'[g] = action_seq_index[g]
    BY <2>2, <2>3 DEF TypeOK
  <2> QED
    BY <2>3, <2>4, FinishType
<1>7. ASSUME NEW h \in Handlers, NEW q \in Requests, Detect(h, q)
      PROVE  TypeOK'
  <2>1. /\ 1 < SeqLen(h)
        /\ action_seq_index' = [action_seq_index EXCEPT ![h] = 1]
        /\ answered' = answered \cup {q} /\ q \in asked
    BY <1>7 DEF Detect, Last, Answered
  <2>2. <<h, action_seq_index'[h]>> \in Requests
    BY <2>1, RequestOf DEF TypeOK
  <2>3. pc' = "resume" /\ pc = "read" /\ turn' = turn
    BY <1>7 DEF Detect, Answered
  <2>4. /\ action_seq_index' \in [Handlers -> Nat]
        /\ \A g \in Handlers : action_seq_index'[g] <= SeqLen(g)
        /\ \A g \in Handlers : active[g] => action_seq_index'[g] < SeqLen(g)
    BY <2>1, <2>3 DEF TypeOK
  <2>5. CASE LockFree
    <3>1. Acquire(h) /\ WriteRequest(h)
      BY <1>7, <2>5 DEF Detect, Acquire
    <3>2. answered' \subseteq asked'
      BY <2>1, <2>2, <3>1, WriteType DEF TypeOK
    <3> QED
      BY <1>7, <2>2, <2>3, <2>4, <3>1, <3>2, AcquireType, WriteType
      DEF Detect, TypeOK
  <2>6. CASE ~LockFree
    <3>1. /\ lock_state' = [lock_state EXCEPT ![h] = "Pending"]
          /\ UNCHANGED <<ct_instance_id, lock_exp, mitigation_lock, asked, plugins>>
      BY <1>7, <2>6 DEF Detect
    <3>2. mitigation_lock' \in BOOLEAN
      BY <3>1 DEF TypeOK
    <3> QED
      BY <1>7, <2>1, <2>3, <2>4, <3>1, <3>2 DEF Detect, TypeOK
  <2> QED
    BY <2>5, <2>6
<1>8. ASSUME NEW h \in Handlers, NEW q \in Requests, Continue(h, q)
      PROVE  TypeOK'
  <2>1. /\ active[h] /\ pc = "read" /\ pc' = "resume" /\ turn' = turn
        /\ answered' = answered \cup {q} /\ q \in asked
        /\ action_seq_index' = [action_seq_index EXCEPT ![h] = @ + 1]
        /\ action_seq_index[h] + 1 # SeqLen(h)
        /\ WriteRequest(h)
    BY <1>8 DEF Continue, Last, Answered, Awaits
  <2>2. action_seq_index[h] + 1 < SeqLen(h)
    BY <2>1 DEF TypeOK
  <2>3. <<h, action_seq_index'[h]>> \in Requests
    BY <2>1, <2>2, RequestOf DEF TypeOK
  <2>4. /\ action_seq_index' \in [Handlers -> Nat]
        /\ \A g \in Handlers : action_seq_index'[g] <= SeqLen(g)
        /\ \A g \in Handlers : active[g] => action_seq_index'[g] < SeqLen(g)
    BY <2>1, <2>2 DEF TypeOK
  <2>5. answered' \subseteq asked'
    BY <2>1, <2>3, WriteType DEF TypeOK
  <2> QED
    BY <1>8, <2>1, <2>3, <2>4, <2>5, WriteType DEF Continue, TypeOK
<1>9. CASE PluginsEnd
  BY <1>9 DEF PluginsEnd, TypeOK
<1>10. ASSUME NEW h \in Handlers, Expire(h)
       PROVE  TypeOK'
  BY <1>10 DEF Expire, TypeOK
<1>11. CASE UNCHANGED vars
  BY <1>11 DEF TypeOK
<1> QED
  BY <1>1, <1>2, <1>3, <1>4, <1>5, <1>6, <1>7, <1>8, <1>9, <1>10, <1>11
  DEF Next, Engine, ReadResponse
-----------------------------------------------------------------------------
(* The lock.                                                                *)

\* Taking the lock when it is free, and giving it back, keep the flag and the
\* lock states in agreement.
LEMMA AcquireAgrees ==
    ASSUME TypeOK, LockAgrees, NEW h \in Handlers, LockFree, Acquire(h),
           active'[h], action_seq_index'[h] > 0,
           \A g \in Handlers : g # h =>
               active'[g] = active[g] /\ action_seq_index'[g] = action_seq_index[g]
    PROVE  LockAgrees'
<1>1. /\ lock_state' = [lock_state EXCEPT ![h] = "Locked"]
      /\ lock_exp' = [lock_exp EXCEPT ![h] = "set"]
  BY DEF Acquire
<1>2. mitigation_lock'
  BY DEF Acquire
<1>3. \A g \in Handlers : lock_state[g] # "Locked"
  BY DEF LockFree, LockAgrees
<1>4. lock_state'[h] = "Locked" /\ lock_exp'[h] = "set"
  BY <1>1 DEF TypeOK
<1>5. \A g \in Handlers : g # h => /\ lock_state'[g] = lock_state[g]
                                   /\ lock_exp'[g] = lock_exp[g]
  BY <1>1 DEF TypeOK
<1> QED
  BY <1>2, <1>3, <1>4, <1>5 DEF LockAgrees

LEMMA ReleaseAgrees ==
    ASSUME TypeOK, LockAgrees, NEW h \in Handlers, Release(h),
           \A g \in Handlers : g # h =>
               active'[g] = active[g] /\ action_seq_index'[g] = action_seq_index[g],
           lock_state[h] = "Pending" => active'[h] /\ action_seq_index'[h] > 0
    PROVE  LockAgrees'
<1>1. CASE lock_state[h] = "Locked"
  <2>1. /\ lock_state' = [lock_state EXCEPT ![h] = "None"]
        /\ lock_exp' = [lock_exp EXCEPT ![h] = "none"]
    BY <1>1 DEF Release
  <2>2. ~mitigation_lock'
    BY <1>1 DEF Release
  <2>3. \A g \in Handlers : g # h => lock_state[g] # "Locked"
    BY <1>1 DEF LockAgrees
  <2>4. lock_state'[h] = "None" /\ lock_exp'[h] = "none"
    BY <2>1 DEF TypeOK
  <2>5. \A g \in Handlers : g # h => /\ lock_state'[g] = lock_state[g]
                                     /\ lock_exp'[g] = lock_exp[g]
    BY <2>1 DEF TypeOK
  <2> QED
    BY <2>2, <2>3, <2>4, <2>5 DEF LockAgrees
<1>2. CASE lock_state[h] # "Locked"
  <2>1. lock_state' = lock_state /\ lock_exp' = lock_exp
    BY <1>2 DEF Release
  <2>2. mitigation_lock' <=> mitigation_lock
    BY <1>2 DEF Release
  <2>3. lock_state[h] \in {"None", "Pending"}
    BY <1>2 DEF TypeOK
  <2> QED
    BY <2>1, <2>2, <2>3 DEF LockAgrees
<1> QED
  BY <1>1, <1>2

\* What a handler that takes a response knows of it.
LEMMA AnsweredFacts ==
    ASSUME TypeOK, RequestInv, NEW h \in Handlers, NEW q \in Requests,
           Answered(h, q)
    PROVE  /\ q \in open /\ q[1] = h /\ q[2] = action_seq_index[h]
           /\ active[h] /\ ct_instance_id[h] = q
           /\ action_seq_index[h] < SeqLen(h)
           /\ lock_state[h] # "Pending"
           /\ answered' = answered \cup {q} /\ turn' = turn
           /\ pc = "read"
<1>1. /\ q \in open /\ active[h] /\ ct_instance_id[h] = q /\ pc = "read"
      /\ answered' = answered \cup {q} /\ turn' = turn
  BY DEF Answered, Awaits
<1>2. q[1] \in Handlers /\ q # NoRequest
  BY RequestParts, Lengths DEF NoRequest
<1>3. q[1] = h
  BY <1>1, <1>2 DEF RequestInv
<1>4. q[2] = action_seq_index[h] /\ lock_state[h] # "Pending"
  BY <1>1, <1>3 DEF RequestInv
<1> QED
  BY <1>1, <1>3, <1>4 DEF TypeOK

\* A step of a finished sequence, and what it leaves alone.
LEMMA FinishFacts ==
    ASSUME TypeOK, RequestInv, NEW h \in Handlers, NEW q \in Requests,
           Fail(h, q) \/ Complete(h, q)
    PROVE  /\ Answered(h, q) /\ Release(h)
           /\ action_seq_index' \in [Handlers -> Nat]
           /\ \A g \in Handlers : g # h =>
                  /\ active'[g] = active[g]
                  /\ action_seq_index'[g] = action_seq_index[g]
                  /\ published'[g] = published[g]
           /\ published'[h] = "complete"
           /\ pc' \in {"resume", "crashed"} /\ (pc' = "resume" => ~active'[h])
           /\ UNCHANGED <<ct_instance_id, asked, plugins>>
<1>1. Finish(h, q)
  BY DEF Fail, Complete
<1>2. \/ action_seq_index' = action_seq_index
      \/ action_seq_index' = [action_seq_index EXCEPT ![h] = @ + 1]
  BY DEF Fail, Complete
<1>3. action_seq_index' \in [Handlers -> Nat]
  BY <1>2 DEF TypeOK
<1>4. \A g \in Handlers : g # h => action_seq_index'[g] = action_seq_index[g]
  BY <1>2 DEF TypeOK
<1>5. /\ \A g \in Handlers : g # h => /\ active'[g] = active[g]
                                      /\ published'[g] = published[g]
      /\ published'[h] = "complete"
      /\ pc' \in {"resume", "crashed"} /\ (pc' = "resume" => ~active'[h])
  BY <1>1 DEF Finish, Drop, TypeOK
<1> QED
  BY <1>1, <1>3, <1>4, <1>5 DEF Finish

LEMMA LockStep ==
    ASSUME TypeOK, LockAgrees, RequestInv, [Next]_vars PROVE LockAgrees'
<1>1. CASE Start \/ ReadNothing \/ PluginsEnd \/ UNCHANGED vars
  <2>1. /\ UNCHANGED <<active, action_seq_index, lock_state, lock_exp>>
        /\ mitigation_lock' <=> mitigation_lock
    BY <1>1 DEF Start, ReadNothing, PluginsEnd
  <2> QED
    BY <2>1 DEF LockAgrees
<1>2. CASE Resume
  <2>1. turn \in Handlers /\ UNCHANGED active
    BY <1>2 DEF Resume, TypeOK
  <2>2. CASE ResumeLocks(turn)
    <3>1. /\ LockFree /\ Acquire(turn) /\ active[turn]
          /\ lock_state[turn] = "Pending" /\ UNCHANGED action_seq_index
      BY <2>2 DEF ResumeLocks
    <3>2. action_seq_index[turn] > 0
      BY <2>1, <3>1 DEF LockAgrees
    <3> QED
      BY <2>1, <3>1, <3>2, AcquireAgrees
  <2>3. CASE ResumeExpires(turn)
    <3>1. /\ Release(turn) /\ lock_exp[turn] # "none"
          /\ UNCHANGED action_seq_index
      BY <2>3 DEF ResumeExpires
    <3>2. lock_state[turn] = "Locked"
      BY <2>1, <3>1 DEF LockAgrees
    <3> QED
      BY <2>1, <3>1, <3>2, ReleaseAgrees
  <2>4. CASE ResumeIdles(turn)
    <3>1. /\ UNCHANGED <<active, action_seq_index, lock_state, lock_exp>>
          /\ mitigation_lock' <=> mitigation_lock
      BY <2>4 DEF ResumeIdles
    <3> QED
      BY <3>1 DEF LockAgrees
  <2> QED
    BY <1>2, <2>2, <2>3, <2>4 DEF Resume
<1>3. ASSUME NEW h \in Handlers, NEW q \in Requests, ReadHeartbeat(h, q)
      PROVE  LockAgrees'
  <2>1. /\ UNCHANGED <<active, action_seq_index, lock_state, lock_exp>>
        /\ mitigation_lock' <=> mitigation_lock
    BY <1>3 DEF ReadHeartbeat
  <2> QED
    BY <2>1 DEF LockAgrees
<1>4. ASSUME NEW h \in Handlers, NEW q \in Requests, Fail(h, q) \/ Complete(h, q)
      PROVE  LockAgrees'
  BY <1>4, FinishFacts, AnsweredFacts, ReleaseAgrees
<1>5. ASSUME NEW h \in Handlers, NEW q \in Requests, Detect(h, q)
      PROVE  LockAgrees'
  <2>1. /\ action_seq_index[h] = 0 /\ active[h] /\ UNCHANGED active
        /\ action_seq_index' = [action_seq_index EXCEPT ![h] = 1]
    BY <1>5, AnsweredFacts DEF Detect
  <2>2. /\ action_seq_index'[h] = 1
        /\ \A g \in Handlers : g # h => action_seq_index'[g] = action_seq_index[g]
    BY <2>1 DEF TypeOK
  <2>3. lock_state[h] = "None" /\ lock_exp[h] = "none"
    BY <2>1 DEF LockAgrees, TypeOK
  <2>4. CASE LockFree
    <3>1. Acquire(h)
      BY <1>5, <2>4 DEF Detect
    <3> QED
      BY <2>1, <2>2, <2>4, <3>1, AcquireAgrees
  <2>5. CASE ~LockFree
    <3>1. /\ lock_state' = [lock_state EXCEPT ![h] = "Pending"]
          /\ UNCHANGED lock_exp
      BY <1>5, <2>5 DEF Detect
    <3>2. mitigation_lock' <=> mitigation_lock
      BY <1>5, <2>5 DEF Detect
    <3>3. /\ lock_state'[h] = "Pending"
          /\ \A g \in Handlers : g # h => lock_state'[g] = lock_state[g]
      BY <3>1 DEF TypeOK
    <3> QED
      BY <2>1, <2>2, <2>3, <3>1, <3>2, <3>3 DEF LockAgrees
  <2> QED
    BY <2>4, <2>5
<1>6. ASSUME NEW h \in Handlers, NEW q \in Requests, Continue(h, q)
      PROVE  LockAgrees'
  <2>1. /\ UNCHANGED <<active, lock_state, lock_exp>>
        /\ action_seq_index' = [action_seq_index EXCEPT ![h] = @ + 1]
    BY <1>6 DEF Continue
  <2>2. mitigation_lock' <=> mitigation_lock
    BY <1>6 DEF Continue
  <2>3. \A g \in Handlers : action_seq_index[g] > 0 => action_seq_index'[g] > 0
    BY <2>1 DEF TypeOK
  <2> QED
    BY <2>1, <2>2, <2>3 DEF LockAgrees
<1>7. ASSUME NEW h \in Handlers, Expire(h)
      PROVE  LockAgrees'
  <2>1. /\ UNCHANGED <<active, action_seq_index, lock_state>>
        /\ lock_exp[h] = "set" /\ lock_exp' = [lock_exp EXCEPT ![h] = "passed"]
        /\ mitigation_lock' <=> mitigation_lock
    BY <1>7 DEF Expire
  <2>2. \A g \in Handlers : lock_exp'[g] # "none" <=> lock_exp[g] # "none"
    BY <2>1 DEF TypeOK
  <2> QED
    BY <2>1, <2>2 DEF LockAgrees
<1> QED
  BY <1>1, <1>2, <1>3, <1>4, <1>5, <1>6, <1>7 DEF Next, Engine, ReadResponse
-----------------------------------------------------------------------------
(* Requests.                                                                *)

LEMMA StartStep ==
    ASSUME TypeOK, StartInv, [Next]_vars PROVE StartInv'
<1> SUFFICES ASSUME pc' = "start"
             PROVE  /\ answered' = {}
                    /\ \A q \in asked' : q[1] < turn'
                    /\ \A h \in Handlers : active'[h] /\ action_seq_index'[h] = 0
  BY DEF StartInv
<1>1. CASE Start
  <2>1. /\ pc = "start" /\ UNCHANGED <<answered, action_seq_index, active>>
        /\ turn' = turn + 1 /\ turn \in Handlers /\ turn < N
    BY <1>1, Lengths DEF Start, Turn, TypeOK
  <2>2. asked' = asked \cup {<<turn, 0>>}
    BY <1>1, <2>1 DEF Start, WriteRequest, StartInv
  <2>3. \A q \in asked : q[1] < turn /\ q[1] \in Handlers
    BY <2>1, RequestParts DEF StartInv, TypeOK
  <2> QED
    BY <2>1, <2>2, <2>3, Lengths DEF StartInv
<1>2. CASE PluginsEnd \/ UNCHANGED vars
  BY <1>2 DEF PluginsEnd, StartInv
<1>3. ASSUME NEW h \in Handlers, Expire(h)
      PROVE  pc = "start" /\ UNCHANGED <<answered, asked, turn, active, action_seq_index>>
  BY <1>3 DEF Expire
<1>4. CASE ReadNothing \/ Resume
  BY <1>4 DEF ReadNothing, Resume, Turn
<1>5. ASSUME NEW h \in Handlers, NEW q \in Requests,
             ReadHeartbeat(h, q) \/ ReadResponse(h, q)
      PROVE  FALSE
  BY <1>5 DEF ReadHeartbeat, ReadResponse, Fail, Complete, Finish, Detect, Continue
<1> QED
  BY <1>1, <1>2, <1>3, <1>4, <1>5 DEF Next, Engine, StartInv

\* A handler without an open request that writes one waits for it.
LEMMA WriteKeeps ==
    ASSUME TypeOK, RequestInv, NEW h \in Handlers, WriteRequest(h),
           <<h, action_seq_index'[h]>> \in Requests, active'[h],
           answered \subseteq answered',
           \A q \in asked \ answered' : q[1] # h,
           lock_state'[h] # "Pending",
           \A g \in Handlers : g # h =>
               /\ active'[g] = active[g] /\ lock_state'[g] = lock_state[g]
               /\ action_seq_index'[g] = action_seq_index[g]
    PROVE  RequestInv'
<1> DEFINE r == <<h, action_seq_index'[h]>>
<1>1. ct_instance_id' = [ct_instance_id EXCEPT ![h] = r] /\ asked' = asked \cup {r}
  BY DEF WriteRequest
<1>2. r[1] = h /\ r[2] = action_seq_index'[h]
  OBVIOUS
<1> HIDE DEF r
<1>3. ct_instance_id'[h] = r /\ \A g \in Handlers : g # h =>
                                    ct_instance_id'[g] = ct_instance_id[g]
  BY <1>1 DEF TypeOK
<1>4. \A g \in Handlers : ct_instance_id'[g] # NoRequest =>
          ct_instance_id'[g] \in asked' /\ ct_instance_id'[g][1] = g
  BY <1>1, <1>2, <1>3 DEF RequestInv
<1>5. ASSUME NEW q \in open'
      PROVE  /\ active'[q[1]] /\ action_seq_index'[q[1]] = q[2]
             /\ ct_instance_id'[q[1]] = q
  <2>1. CASE q = r
    BY <1>2, <1>3, <2>1
  <2>2. CASE q # r
    <3>1. q \in open /\ q \in asked \ answered'
      BY <1>1, <1>5, <2>2
    <3>2. q[1] # h /\ q[1] \in Handlers
      BY <3>1, RequestParts DEF TypeOK
    <3> QED
      BY <1>3, <3>1, <3>2 DEF RequestInv
  <2> QED
    BY <2>1, <2>2
<1>6. ASSUME NEW g \in Handlers, lock_state'[g] = "Pending"
      PROVE  action_seq_index'[g] = 1 /\ \A q \in open' : q[1] # g
  <2>1. g # h /\ lock_state[g] = "Pending"
    BY <1>6
  <2>2. \A q \in open' : q = r \/ q \in open
    BY <1>1
  <2> QED
    BY <1>2, <2>1, <2>2 DEF RequestInv
<1> QED
  BY <1>4, <1>5, <1>6 DEF RequestInv

\* A response takes the only open request of its handler away.
LEMMA AnsweredLast ==
    ASSUME TypeOK, RequestInv, NEW h \in Handlers, NEW q \in Requests,
           Answered(h, q)
    PROVE  \A p \in asked \ answered' : p \in open /\ p[1] # h
<1>1. ct_instance_id[h] = q /\ answered' = answered \cup {q}
  BY AnsweredFacts
<1> QED
  BY <1>1 DEF RequestInv

\* The four steps that write a request, with what they know of it.
LEMMA StartFacts ==
    ASSUME TypeOK, LockAgrees, StartInv, Start
    PROVE  /\ turn \in Handlers /\ WriteRequest(turn)
           /\ action_seq_index'[turn] = 0
           /\ <<turn, action_seq_index'[turn]>> \in Requests
           /\ \A q \in asked \ answered' : q[1] # turn
           /\ lock_state[turn] # "Pending" /\ active[turn]
<1>1. /\ pc = "start" /\ UNCHANGED <<answered, action_seq_index>>
      /\ WriteRequest(turn)
  BY DEF Start
<1>2. turn \in Handlers /\ active[turn] /\ action_seq_index[turn] = 0
  BY <1>1 DEF StartInv, TypeOK
<1>3. <<turn, 0>> \in Requests
  BY <1>2, Lengths, RequestOf
<1>4. \A q \in asked : q[1] < turn /\ q[1] \in Handlers
  BY <1>1, RequestParts DEF StartInv, TypeOK
<1>5. lock_state[turn] # "Pending"
  BY <1>2 DEF LockAgrees
<1>6. \A q \in asked \ answered' : q[1] # turn
  BY <1>2, <1>4, Lengths
<1> QED
  BY <1>1, <1>2, <1>3, <1>5, <1>6

LEMMA ResumeLocksFacts ==
    ASSUME TypeOK, RequestInv, pc = "resume", ResumeLocks(turn)
    PROVE  /\ turn \in Handlers /\ Acquire(turn) /\ LockFree /\ WriteRequest(turn)
           /\ UNCHANGED <<answered, action_seq_index>>
           /\ <<turn, action_seq_index'[turn]>> \in Requests
           /\ \A q \in asked \ answered' : q[1] # turn
           /\ active[turn] /\ lock_state[turn] = "Pending"
<1>1. /\ turn \in Handlers /\ Acquire(turn) /\ LockFree /\ WriteRequest(turn)
      /\ UNCHANGED <<answered, action_seq_index>>
      /\ active[turn] /\ lock_state[turn] = "Pending"
  BY DEF ResumeLocks, Acquire, TypeOK
<1>2. action_seq_index[turn] \in Nat /\ action_seq_index[turn] < SeqLen(turn)
  BY <1>1 DEF TypeOK
<1>3. <<turn, action_seq_index[turn]>> \in Requests
  BY <1>1, <1>2, RequestOf
<1>4. \A q \in open : q[1] # turn
  BY <1>1 DEF RequestInv
<1> QED
  BY <1>1, <1>3, <1>4

LEMMA DetectFacts ==
    ASSUME TypeOK, RequestInv, NEW h \in Handlers, NEW q \in Requests,
           Detect(h, q)
    PROVE  /\ Answered(h, q)
           /\ action_seq_index[h] = 0 /\ action_seq_index'[h] = 1
           /\ \A g \in Handlers : g # h => action_seq_index'[g] = action_seq_index[g]
           /\ <<h, action_seq_index'[h]>> \in Requests
           /\ active[h] /\ UNCHANGED active /\ pc' = "resume"
           /\ published' = [published EXCEPT ![h] = "init"]
<1>1. /\ Answered(h, q) /\ action_seq_index[h] = 0 /\ ~Last(h)
      /\ action_seq_index' = [action_seq_index EXCEPT ![h] = 1]
      /\ UNCHANGED active /\ pc' = "resume"
      /\ published' = [published EXCEPT ![h] = "init"]
  BY DEF Detect
<1>2. /\ action_seq_index'[h] = 1
      /\ \A g \in Handlers : g # h => action_seq_index'[g] = action_seq_index[g]
  BY <1>1 DEF TypeOK
<1>3. 1 < SeqLen(h)
  BY <1>1, Lengths DEF Last
<1> QED
  BY <1>1, <1>2, <1>3, RequestOf, AnsweredFacts

LEMMA ContinueFacts ==
    ASSUME TypeOK, LockAgrees, RequestInv, NEW h \in Handlers,
           NEW q \in Requests, Continue(h, q)
    PROVE  /\ Answered(h, q) /\ WriteRequest(h)
           /\ action_seq_index[h] > 0 /\ action_seq_index'[h] > 0
           /\ \A g \in Handlers : g # h => action_seq_index'[g] = action_seq_index[g]
           /\ <<h, action_seq_index'[h]>> \in Requests
           /\ active[h] /\ UNCHANGED <<active, lock_state, published>>
           /\ lock_state[h] = "Locked" /\ pc' = "resume"
<1>1. /\ Answered(h, q) /\ WriteRequest(h) /\ ~Last(h) /\ ~LockTimedOut(h)
      /\ action_seq_index[h] > 0 /\ pc' = "resume"
      /\ action_seq_index' = [action_seq_index EXCEPT ![h] = @ + 1]
      /\ UNCHANGED <<active, lock_state, published>>
  BY DEF Continue
<1>2. /\ action_seq_index'[h] = action_seq_index[h] + 1
      /\ \A g \in Handlers : g # h => action_seq_index'[g] = action_seq_index[g]
      /\ action_seq_index[h] \in Nat
  BY <1>1 DEF TypeOK
<1>3. /\ action_seq_index[h] < SeqLen(h) /\ lock_state[h] # "Pending" /\ active[h]
      /\ action_seq_index[h] + 1 # SeqLen(h)
  BY <1>1, AnsweredFacts DEF Last
<1>4. lock_state[h] = "Locked"
  BY <1>1, <1>3 DEF LockTimedOut, TypeOK
<1>5. action_seq_index'[h] < SeqLen(h) /\ action_seq_index'[h] \in Nat
  BY <1>2, <1>3, Lengths
<1> QED
  BY <1>1, <1>2, <1>3, <1>4, <1>5, RequestOf

\* A step that changes no request, and of active, index and lock only what
\* handlers without an open request have, keeps RequestInv.
LEMMA RequestFrame ==
    ASSUME RequestInv, asked' = asked, ct_instance_id' = ct_instance_id,
           answered \subseteq answered',
           \A p \in asked \ answered' :
               /\ active'[p[1]] = active[p[1]]
               /\ action_seq_index'[p[1]] = action_seq_index[p[1]],
           \A g \in Handlers : lock_state'[g] = "Pending" =>
               /\ action_seq_index'[g] = 1
               /\ lock_state[g] = "Pending" \/ \A p \in asked \ answered' : p[1] # g
    PROVE  RequestInv'
BY DEF RequestInv

LEMMA RequestStep ==
    ASSUME TypeOK, LockAgrees, StartInv, RequestInv, [Next]_vars
    PROVE  RequestInv'
<1>1. CASE Start
  <2>1. UNCHANGED <<answered, action_seq_index, active, lock_state>>
    BY <1>1 DEF Start
  <2> QED
    BY <1>1, <2>1, StartFacts, WriteKeeps
<1>2. CASE Resume
  <2>1. turn \in Handlers /\ pc = "resume" /\ UNCHANGED active
    BY <1>2 DEF Resume, TypeOK
  <2>2. CASE ResumeLocks(turn)
    <3>1. lock_state' = [lock_state EXCEPT ![turn] = "Locked"]
      BY <2>2 DEF ResumeLocks, Acquire
    <3>2. /\ lock_state'[turn] = "Locked"
          /\ \A g \in Handlers : g # turn => lock_state'[g] = lock_state[g]
      BY <2>1, <3>1 DEF TypeOK
    <3> QED
      BY <2>1, <2>2, <3>2, ResumeLocksFacts, WriteKeeps
  <2>3. CASE ResumeExpires(turn)
    <3>1. UNCHANGED <<action_seq_index, ct_instance_id, asked, answered>>
      BY <2>3 DEF ResumeExpires
    <3>2. \A g \in Handlers : lock_state'[g] = "Pending" => lock_state[g] = "Pending"
      BY <2>1, <2>3 DEF ResumeExpires, Release, TypeOK
    <3> QED
      BY <2>1, <3>1, <3>2, RequestFrame DEF RequestInv
  <2>4. CASE ResumeIdles(turn)
    BY <2>1, <2>4, RequestFrame DEF ResumeIdles, RequestInv
  <2> QED
    BY <1>2, <2>2, <2>3, <2>4 DEF Resume
<1>3. ASSUME NEW h \in Handlers, NEW q \in Requests, Fail(h, q) \/ Complete(h, q)
      PROVE  RequestInv'
  <2>1. /\ Answered(h, q) /\ Release(h) /\ q[1] = h /\ lock_state[h] # "Pending"
        /\ answered' = answered \cup {q} /\ UNCHANGED <<ct_instance_id, asked>>
    BY <1>3, AnsweredFacts, FinishFacts
  <2>2. \A p \in asked \ answered' : p \in open /\ p[1] # h /\ p[1] \in Handlers
    BY <2>1, AnsweredLast, RequestParts DEF TypeOK
  <2>3. \A g \in Handlers : lock_state'[g] = "Pending" =>
            lock_state[g] = "Pending" /\ g # h
    BY <2>1 DEF Release, TypeOK
  <2>4. \A g \in Handlers : g # h => /\ active'[g] = active[g]
                                     /\ action_seq_index'[g] = action_seq_index[g]
    BY <1>3, FinishFacts
  <2>5. \A g \in Handlers : lock_state'[g] = "Pending" => action_seq_index'[g] = 1
    BY <2>3, <2>4 DEF RequestInv
  <2> QED
    BY <2>1, <2>2, <2>3, <2>4, <2>5, RequestFrame
<1>4. ASSUME NEW h \in Handlers, NEW q \in Requests, Detect(h, q)
      PROVE  RequestInv'
  <2>1. /\ Answered(h, q) /\ active[h] /\ UNCHANGED active
        /\ action_seq_index'[h] = 1
        /\ \A g \in Handlers : g # h => action_seq_index'[g] = action_seq_index[g]
        /\ <<h, action_seq_index'[h]>> \in Requests
        /\ answered \subseteq answered'
    BY <1>4, AnsweredFacts, DetectFacts
  <2>2. \A p \in asked \ answered' : p \in open /\ p[1] # h /\ p[1] \in Handlers
    BY <2>1, AnsweredLast, RequestParts DEF TypeOK
  <2>3. CASE LockFree
    <3>1. Acquire(h) /\ WriteRequest(h)
      BY <1>4, <2>3 DEF Detect, Acquire
    <3>2. /\ lock_state'[h] = "Locked"
          /\ \A g \in Handlers : g # h => lock_state'[g] = lock_state[g]
      BY <3>1 DEF Acquire, TypeOK
    <3> QED
      BY <2>1, <2>2, <3>1, <3>2, WriteKeeps
  <2>4. CASE ~LockFree
    <3>1. /\ UNCHANGED <<ct_instance_id, asked>>
          /\ lock_state' = [lock_state EXCEPT ![h] = "Pending"]
      BY <1>4, <2>4 DEF Detect
    <3>2. \A g \in Handlers : g # h => lock_state'[g] = lock_state[g]
      BY <3>1 DEF TypeOK
    <3>3. \A g \in Handlers : lock_state'[g] = "Pending" =>
              /\ action_seq_index'[g] = 1
              /\ lock_state[g] = "Pending" \/ \A p \in asked \ answered' : p[1] # g
      BY <2>1, <2>2, <3>2 DEF RequestInv
    <3> QED
      BY <2>1, <2>2, <3>1, <3>3, RequestFrame
  <2> QED
    BY <2>3, <2>4
<1>5. ASSUME NEW h \in Handlers, NEW q \in Requests, Continue(h, q)
      PROVE  RequestInv'
  <2>1. Answered(h, q)
    BY <1>5, ContinueFacts
  <2>2. answered \subseteq answered' /\ \A p \in asked \ answered' : p[1] # h
    BY <2>1, AnsweredFacts, AnsweredLast
  <2> QED
    BY <1>5, <2>2, ContinueFacts, WriteKeeps
<1>6. ASSUME NEW h \in Handlers, NEW q \in Requests, ReadHeartbeat(h, q)
      PROVE  RequestInv'
  BY <1>6 DEF ReadHeartbeat, RequestInv
<1>7. ASSUME NEW h \in Handlers, Expire(h)
      PROVE  RequestInv'
  BY <1>7 DEF Expire, RequestInv
<1>8. CASE ReadNothing \/ PluginsEnd \/ UNCHANGED vars
  BY <1>8 DEF ReadNothing, PluginsEnd, RequestInv
<1> QED
  BY <1>1, <1>2, <1>3, <1>4, <1>5, <1>6, <1>7, <1>8 DEF Next, Engine, ReadResponse

-----------------------------------------------------------------------------
(* Publications.                                                            *)

\* What a handler has published, if it is at work, in the steps of the others.
LEMMA PublishStep ==
    ASSUME TypeOK, LockAgrees, StartInv, RequestInv, PublishInv, [Next]_vars
    PROVE  PublishInv'
<1>1. CASE Start \/ ReadNothing \/ PluginsEnd \/ UNCHANGED vars
  <2>1. pc # "crashed" \/ UNCHANGED pc
    BY <1>1 DEF Start, ReadNothing, PluginsEnd
  <2> QED
    BY <1>1, <2>1 DEF Start, ReadNothing, PluginsEnd, PublishInv
<1>2. CASE Resume
  <2>1. turn \in Handlers /\ pc = "resume" /\ UNCHANGED active
    BY <1>2 DEF Resume, TypeOK
  <2>2. CASE ResumeLocks(turn) \/ ResumeIdles(turn)
    BY <1>2, <2>1, <2>2 DEF ResumeLocks, ResumeIdles, PublishInv
  <2>3. CASE ResumeExpires(turn)
    <3>1. /\ lock_exp[turn] = "passed" /\ UNCHANGED action_seq_index
          /\ published' = [published EXCEPT ![turn] = "timeout"]
      BY <2>3 DEF ResumeExpires
    <3>2. action_seq_index[turn] > 0
      BY <2>1, <3>1 DEF LockAgrees
    <3> QED
      BY <2>1, <3>1, <3>2 DEF PublishInv, TypeOK
  <2> QED
    BY <1>2, <2>2, <2>3 DEF Resume
<1>3. ASSUME NEW h \in Handlers, NEW q \in Requests, Fail(h, q) \/ Complete(h, q)
      PROVE  PublishInv'
  <2>1. pc = "read"
    BY <1>3, FinishFacts, AnsweredFacts
  <2> QED
    BY <1>3, <2>1, FinishFacts DEF PublishInv
<1>4. ASSUME NEW h \in Handlers, NEW q \in Requests, Detect(h, q)
      PROVE  PublishInv'
  <2>1. Answered(h, q)
    BY <1>4, DetectFacts
  <2>2. pc = "read"
    BY <2>1, AnsweredFacts
  <2>3. /\ published' = [published EXCEPT ![h] = "init"] /\ UNCHANGED active
        /\ action_seq_index'[h] = 1
        /\ \A g \in Handlers : g # h => action_seq_index'[g] = action_seq_index[g]
    BY <1>4, DetectFacts
  <2> QED
    BY <2>2, <2>3 DEF PublishInv, TypeOK
<1>5. ASSUME NEW h \in Handlers, NEW q \in Requests, Continue(h, q)
      PROVE  PublishInv'
  <2>1. Answered(h, q)
    BY <1>5, ContinueFacts
  <2>2. pc = "read"
    BY <2>1, AnsweredFacts
  <2>3. /\ UNCHANGED <<active, published>> /\ action_seq_index'[h] > 0
        /\ \A g \in Handlers : g # h => action_seq_index'[g] = action_seq_index[g]
    BY <1>5, ContinueFacts
  <2> QED
    BY <2>2, <2>3 DEF PublishInv
<1>6. ASSUME NEW h \in Handlers, NEW q \in Requests, ReadHeartbeat(h, q)
      PROVE  PublishInv'
  <2>1. /\ pc = "read" /\ UNCHANGED <<active, action_seq_index>>
        /\ published' = [published EXCEPT ![h] = IF @ = "nothing" THEN @ ELSE "in-progress"]
    BY <1>6 DEF ReadHeartbeat
  <2> QED
    BY <2>1 DEF PublishInv, TypeOK
<1>7. ASSUME NEW h \in Handlers, Expire(h)
      PROVE  PublishInv'
  BY <1>7 DEF Expire, PublishInv
<1> QED
  BY <1>1, <1>2, <1>3, <1>4, <1>5, <1>6, <1>7 DEF Next, Engine, ReadResponse

\* Nothing asked for is forgotten, and "in-progress" is published for a
\* heartbeat only.
LEMMA ProgressFacts ==
    ASSUME TypeOK, LockAgrees, StartInv, RequestInv, [Next]_vars,
           \A h \in Handlers, q \in Requests : ~ReadHeartbeat(h, q)
    PROVE  /\ asked \subseteq asked'
           /\ \A g \in Handlers : published'[g] = "in-progress" =>
                                      published[g] = "in-progress"
<1>1. CASE Start
  BY <1>1 DEF Start, WriteRequest
<1>2. CASE Resume
  <2>1. turn \in Handlers
    BY DEF TypeOK
  <2>2. CASE ResumeLocks(turn)
    BY <2>2 DEF ResumeLocks, Acquire, WriteRequest
  <2>3. CASE ResumeExpires(turn)
    BY <2>1, <2>3 DEF ResumeExpires, TypeOK
  <2>4. CASE ResumeIdles(turn)
    BY <2>4 DEF ResumeIdles
  <2> QED
    BY <1>2, <2>2, <2>3, <2>4 DEF Resume
<1>3. ASSUME NEW h \in Handlers, NEW q \in Requests, Fail(h, q) \/ Complete(h, q)
      PROVE  /\ asked \subseteq asked'
             /\ \A g \in Handlers : published'[g] = "in-progress" =>
                                        published[g] = "in-progress"
  <2>1. /\ asked' = asked /\ published'[h] = "complete"
        /\ \A g \in Handlers : g # h => published'[g] = published[g]
    BY <1>3, FinishFacts
  <2> QED
    BY <2>1
<1>4. ASSUME NEW h \in Handlers, NEW q \in Requests, Detect(h, q)
      PROVE  /\ asked \subseteq asked'
             /\ \A g \in Handlers : published'[g] = "in-progress" =>
                                        published[g] = "in-progress"
  <2>1. asked \subseteq asked'
    BY <1>4 DEF Detect, Acquire, WriteRequest
  <2>2. published' = [published EXCEPT ![h] = "init"]
    BY <1>4 DEF Detect
  <2> QED
    BY <2>1, <2>2 DEF TypeOK
<1>5. ASSUME NEW h \in Handlers, NEW q \in Requests, Continue(h, q)
      PROVE  asked \subseteq asked' /\ published' = published
  BY <1>5 DEF Continue, WriteRequest
<1>6. ASSUME NEW h \in Handlers, Expire(h)
      PROVE  asked \subseteq asked' /\ published' = published
  BY <1>6 DEF Expire
<1>7. CASE ReadNothing \/ PluginsEnd \/ UNCHANGED vars
  BY <1>7 DEF ReadNothing, PluginsEnd
<1> QED
  BY <1>1, <1>2, <1>3, <1>4, <1>5, <1>6, <1>7 DEF Next, Engine, ReadResponse

\* A heartbeat is published once its handler is past the anomaly action, whose
\* index its request then has: a late heartbeat of the anomaly action is not
\* for the action the handler is at.
LEMMA ProgressStep ==
    ASSUME TypeOK, LockAgrees, StartInv, RequestInv, PublishInv,
           ProgressIsStarted, [Next]_vars
    PROVE  ProgressIsStarted'
<1>1. ASSUME NEW h \in Handlers, NEW q \in Requests, ReadHeartbeat(h, q)
      PROVE  ProgressIsStarted'
  <2>1. /\ pc = "read" /\ q \in asked /\ asked' = asked /\ Awaits(h, q)
        /\ published' = [published EXCEPT ![h] = IF @ = "nothing" THEN @ ELSE "in-progress"]
    BY <1>1 DEF ReadHeartbeat
  <2>2. \A g \in Handlers : g # h => published'[g] = published[g]
    BY <2>1 DEF TypeOK
  <2>3. CASE published[h] = "nothing"
    <3>1. published'[h] # "in-progress"
      BY <2>1, <2>3 DEF TypeOK
    <3> QED
      BY <2>1, <2>2, <3>1 DEF ProgressIsStarted
  <2>4. CASE published[h] # "nothing"
    <3> DEFINE i == action_seq_index[h]
    <3>1. /\ active[h] /\ ct_instance_id[h] = q
          /\ ActionOf(q) = ActionSeq[h][i + 1]
      BY <2>1 DEF Awaits
    <3>2. i \in Nat /\ i < SeqLen(h)
      BY <2>1, <3>1 DEF TypeOK
    <3>3. i > 0
      BY <2>1, <2>4, <3>1, <3>2 DEF PublishInv
    <3>4. q \in Requests /\ q[1] \in Handlers /\ q # NoRequest
      BY RequestParts, Lengths DEF NoRequest
    <3>5. q[1] = h
      BY <3>1, <3>4 DEF RequestInv
    <3>6. <<h, i>> \in Requests /\ ActionOf(<<h, i>>) = ActionSeq[h][i + 1]
      BY <3>2, RequestOf DEF ActionOf
    <3>7. q = <<h, i>>
      BY <3>1, <3>5, <3>6, SameAction
    <3>8. q[2] > 0
      BY <3>3, <3>7
    <3> QED
      BY <2>1, <2>2, <3>5, <3>8 DEF ProgressIsStarted
  <2> QED
    BY <2>3, <2>4
<1>2. CASE \A h \in Handlers, q \in Requests : ~ReadHeartbeat(h, q)
  BY <1>2, ProgressFacts DEF ProgressIsStarted
<1> QED
  BY <1>1, <1>2

-----------------------------------------------------------------------------
(* Busy actions.                                                            *)

\* A request for an action at work: the handler at work holds no lock, if the
\* one that asks has it, or is about to get it, or asks for an anomaly action.
LEMMA WriteBusy ==
    ASSUME TypeOK, RequestInv, NEW h \in Handlers, WriteRequest(h),
           <<h, action_seq_index'[h]>> \in Requests,
           \A p \in asked \ answered' : p \in open /\ p[1] # h,
           plugins # "busy", plugins' = "busy",
           action_seq_index'[h] = 0 \/
               \A g \in Handlers : g # h => lock_state[g] # "Locked"
    PROVE  \E g \in Handlers : Overdue(g)
<1> DEFINE r == <<h, action_seq_index'[h]>>
<1>1. PICK p \in asked \ answered' : ActionOf(p) = ActionOf(r)
  BY DEF WriteRequest
<1>2. p \in open /\ p[1] # h /\ p \in Requests /\ r \in Requests
  BY <1>1 DEF TypeOK
<1>3. p # r /\ r[2] = action_seq_index'[h]
  BY <1>2
<1>4. p[2] > 0 /\ r[2] > 0
  BY <1>1, <1>2, <1>3, SameAction
<1>5. p[1] \in Handlers /\ active[p[1]] /\ action_seq_index[p[1]] > 0
  BY <1>2, <1>4, RequestParts DEF RequestInv
<1>6. lock_state[p[1]] # "Pending" /\ lock_state[p[1]] # "Locked"
  BY <1>2, <1>3, <1>4, <1>5 DEF RequestInv
<1>7. lock_state[p[1]] = "None"
  BY <1>5, <1>6 DEF TypeOK
<1> QED
  BY <1>5, <1>7 DEF Overdue

LEMMA BusyStep ==
    ASSUME TypeOK, LockAgrees, StartInv, RequestInv, [Next]_vars,
           plugins # "busy", plugins' = "busy"
    PROVE  \E g \in Handlers : Overdue(g)
<1>1. CASE Start
  <2>1. /\ turn \in Handlers /\ WriteRequest(turn) /\ action_seq_index'[turn] = 0
        /\ <<turn, action_seq_index'[turn]>> \in Requests
        /\ \A q \in asked \ answered' : q[1] # turn
    BY <1>1, StartFacts
  <2>2. \A p \in asked \ answered' : p \in open
    BY <1>1 DEF Start
  <2> QED
    BY <2>1, <2>2, WriteBusy
<1>2. CASE Resume
  <2>1. CASE ResumeLocks(turn)
    <3>1. /\ turn \in Handlers /\ LockFree /\ WriteRequest(turn)
          /\ answered' = answered
          /\ <<turn, action_seq_index'[turn]>> \in Requests
          /\ \A q \in asked \ answered' : q[1] # turn
      BY <1>2, <2>1, ResumeLocksFacts DEF Resume
    <3>2. \A g \in Handlers : lock_state[g] # "Locked"
      BY <3>1 DEF LockFree, LockAgrees
    <3>3. \A p \in asked \ answered' : p \in open
      BY <3>1
    <3> QED
      BY <3>1, <3>2, <3>3, WriteBusy
  <2>2. CASE ResumeExpires(turn) \/ ResumeIdles(turn)
    BY <2>2 DEF ResumeExpires, ResumeIdles
  <2> QED
    BY <1>2, <2>1, <2>2 DEF Resume
<1>3. ASSUME NEW h \in Handlers, NEW q \in Requests, Fail(h, q) \/ Complete(h, q)
      PROVE  FALSE
  BY <1>3, FinishFacts
<1>4. ASSUME NEW h \in Handlers, NEW q \in Requests, Detect(h, q)
      PROVE  \E g \in Handlers : Overdue(g)
  <2>1. Answered(h, q) /\ <<h, action_seq_index'[h]>> \in Requests
    BY <1>4, DetectFacts
  <2>2. \A p \in asked \ answered' : p \in open /\ p[1] # h
    BY <2>1, AnsweredLast
  <2>3. LockFree /\ WriteRequest(h)
    BY <1>4 DEF Detect, Acquire
  <2>4. \A g \in Handlers : lock_state[g] # "Locked"
    BY <2>3 DEF LockFree, LockAgrees
  <2> QED
    BY <2>1, <2>2, <2>3, <2>4, WriteBusy
<1>5. ASSUME NEW h \in Handlers, NEW q \in Requests, Continue(h, q)
      PROVE  \E g \in Handlers : Overdue(g)
  <2>1. /\ Answered(h, q) /\ WriteRequest(h) /\ lock_state[h] = "Locked"
        /\ <<h, action_seq_index'[h]>> \in Requests
    BY <1>5, ContinueFacts
  <2>2. \A p \in asked \ answered' : p \in open /\ p[1] # h
    BY <2>1, AnsweredLast
  <2>3. \A g \in Handlers : g # h => lock_state[g] # "Locked"
    BY <2>1 DEF LockAgrees
  <2> QED
    BY <2>1, <2>2, <2>3, WriteBusy
<1>6. ASSUME NEW h \in Handlers, NEW q \in Requests, ReadHeartbeat(h, q)
      PROVE  FALSE
  BY <1>6 DEF ReadHeartbeat
<1>7. ASSUME NEW h \in Handlers, Expire(h)
      PROVE  FALSE
  BY <1>7 DEF Expire
<1>8. CASE ReadNothing \/ PluginsEnd \/ UNCHANGED vars
  BY <1>8 DEF ReadNothing, PluginsEnd
<1> QED
  BY <1>1, <1>2, <1>3, <1>4, <1>5, <1>6, <1>7, <1>8 DEF Next, Engine, ReadResponse

-----------------------------------------------------------------------------
(* The theorems.                                                            *)

LEMMA Inductive == IInv /\ [Next]_vars => IInv'
BY TypeStep, LockStep, StartStep, RequestStep, PublishStep, ProgressStep
DEF IInv

\* Every reachable state of the engine of test_main.py satisfies the inductive
\* invariant.
THEOREM Invariant == Spec => []IInv
<1> QED
  BY InitIInv, Inductive, PTL DEF Spec

\* The variables of the handlers, the loop and the channel have their types.
THEOREM TypeCorrect == Spec => []TypeOK
<1>1. IInv => TypeOK
  BY DEF IInv
<1> QED
  BY <1>1, Invariant, PTL

\* The flag mitigation_lock and the lock states of the handlers agree, and one
\* handler at most is Locked.
THEOREM LockConsistent == Spec => []LockAgrees
<1>1. IInv => LockAgrees
  BY DEF IInv
<1> QED
  BY <1>1, Invariant, PTL

\* Each response finds the handler that waits for it: process_plugin_response
\* never drops one on its filters.
THEOREM RequestsAwaited == Spec => []OpenIsAwaited
<1>1. IInv => OpenIsAwaited
  <2> SUFFICES ASSUME IInv, NEW q \in open PROVE Awaits(q[1], q)
    BY DEF OpenIsAwaited
  <2> QED
    BY DEF IInv, RequestInv, Awaits, ActionOf
<1> QED
  BY <1>1, Invariant, PTL

\* Actions of two mitigations overlap only after a lock expired.
THEOREM MitigationsExclusive == Spec => []MitigationsApart
<1>1. IInv => MitigationsApart
  <2> SUFFICES ASSUME IInv, NEW p \in open, NEW q \in open,
                      p[2] > 0, q[2] > 0, p[1] # q[1],
                      ~Overdue(p[1]), ~Overdue(q[1])
               PROVE  FALSE
    BY DEF MitigationsApart
  <2>1. p[1] \in Handlers /\ q[1] \in Handlers
    BY RequestParts DEF IInv, TypeOK
  <2>2. lock_state[p[1]] # "None" /\ lock_state[q[1]] # "None"
    BY DEF Overdue, IInv, RequestInv
  <2>3. lock_state[p[1]] # "Pending" /\ lock_state[q[1]] # "Pending"
    BY <2>1 DEF IInv, RequestInv
  <2>4. lock_state[p[1]] = "Locked" /\ lock_state[q[1]] = "Locked"
    BY <2>1, <2>2, <2>3 DEF IInv, TypeOK
  <2> QED
    BY <2>1, <2>4 DEF IInv, LockAgrees
<1> QED
  BY <1>1, Invariant, PTL

\* The engine asks for an action at work only when a lock has expired.
THEOREM BusyOnlyLate == Spec => BusyOnlyWhenOverdue
<1>1. IInv /\ [Next]_vars =>
          [plugins # "busy" /\ plugins' = "busy" => \E h \in Handlers : Overdue(h)]_vars
  BY BusyStep DEF IInv
<1> QED
  BY <1>1, Invariant, PTL DEF Spec, BusyOnlyWhenOverdue

\* No anomaly is published "in-progress" before its mitigation is asked for.
THEOREM ProgressAfterStart == Spec => []ProgressIsStarted
<1>1. IInv => ProgressIsStarted
  BY DEF IInv
<1> QED
  BY <1>1, Invariant, PTL

\* A handler publishes nothing after "complete".
THEOREM FinalPublication == Spec => CompleteIsLast
<1>1. ASSUME IInv, [Next]_vars, NEW h \in Handlers, published[h] = "complete"
      PROVE  published'[h] = "complete"
  <2>1. pc # "crashed" => ~active[h]
    BY <1>1 DEF IInv, PublishInv
  <2>2. published \in [Handlers -> {"nothing", "init", "in-progress", "timeout", "complete"}]
    BY <1>1 DEF IInv, TypeOK
  <2>3. CASE Resume
    <3>1. turn \in Handlers /\ pc = "resume"
      BY <1>1, <2>3 DEF IInv, TypeOK, Resume
    <3> QED
      BY <1>1, <2>1, <2>2, <2>3, <3>1
      DEF Resume, ResumeLocks, ResumeExpires, ResumeIdles
  <2>4. ASSUME NEW g \in Handlers, NEW q \in Requests,
               ReadHeartbeat(g, q) \/ Detect(g, q)
        PROVE  published'[h] = "complete"
    <3>1. active[g] /\ pc = "read"
      BY <2>4 DEF ReadHeartbeat, Detect, Answered, Awaits
    <3> QED
      BY <1>1, <2>1, <2>2, <2>4, <3>1 DEF ReadHeartbeat, Detect
  <2>5. ASSUME NEW g \in Handlers, NEW q \in Requests,
               Fail(g, q) \/ Complete(g, q)
        PROVE  published'[h] = "complete"
    BY <1>1, <2>2, <2>5 DEF Fail, Complete, Finish
  <2>6. ASSUME NEW g \in Handlers, NEW q \in Requests, Continue(g, q)
        PROVE  published'[h] = "complete"
    BY <1>1, <2>6 DEF Continue
  <2>7. CASE Start \/ ReadNothing \/ PluginsEnd \/ UNCHANGED vars
    BY <1>1, <2>7 DEF Start, ReadNothing, PluginsEnd
  <2>8. ASSUME NEW g \in Handlers, Expire(g)
        PROVE  published'[h] = "complete"
    BY <1>1, <2>8 DEF Expire
  <2> QED
    BY <1>1, <2>3, <2>4, <2>5, <2>6, <2>7, <2>8 DEF Next, Engine, ReadResponse
<1>2. IInv /\ [Next]_vars =>
          [\A h \in Handlers : published[h] = "complete" => published'[h] = "complete"]_vars
  BY <1>1
<1> QED
  BY <1>2, Invariant, PTL DEF Spec, CompleteIsLast
-----------------------------------------------------------------------------
(* The engine implements MitigationLease.                                   *)

\* Requests are made in the order of the sequence, up to the index of their
\* handler, and a pending handler has not made the one it is at.
AskedInv ==
    /\ \A q \in asked : <<q[1], 0>> \in asked /\ q[2] <= action_seq_index[q[1]]
    /\ \A h \in Handlers : action_seq_index[h] > 0 => <<h, 0>> \in asked
    /\ \A h \in Handlers : lock_state[h] = "Pending" => <<h, 1>> \notin asked

\* A handler has not asked for what is past its index.
LEMMA NotAsked ==
    ASSUME TypeOK, AskedInv, NEW h \in Handlers, NEW i \in Nat, action_seq_index[h] < i
    PROVE  <<h, i>> \notin asked
<1> SUFFICES ASSUME <<h, i>> \in asked PROVE FALSE
  OBVIOUS
<1>1. <<h, i>>[2] <= action_seq_index[<<h, i>>[1]]
  BY DEF AskedInv
<1>2. action_seq_index[h] \in Nat
  BY DEF TypeOK
<1> QED BY <1>1, <1>2

\* A step that makes no request, or one at the index of a handler, keeps it.
LEMMA AskedFrame ==
    ASSUME TypeOK, TypeOK', AskedInv, asked' = asked,
           \A h \in Handlers :
               /\ action_seq_index'[h] = action_seq_index[h] \/
                      /\ action_seq_index'[h] = action_seq_index[h] + 1
                      /\ <<h, 0>> \in asked
               /\ lock_state'[h] = "Pending" =>
                      lock_state[h] = "Pending" \/ action_seq_index[h] = 0
    PROVE  AskedInv'
<1>1. action_seq_index \in [Handlers -> Nat] /\ asked \subseteq Requests
  BY DEF TypeOK
<1>2. \A q \in asked : q[1] \in Handlers /\ q[2] \in Nat
  BY <1>1, RequestParts
<1>3. \A h \in Handlers : action_seq_index[h] = 0 => <<h, 1>> \notin asked
  BY NotAsked
<1>4. ASSUME NEW q \in asked
      PROVE  <<q[1], 0>> \in asked /\ q[2] <= action_seq_index'[q[1]]
  <2>1. <<q[1], 0>> \in asked /\ q[2] <= action_seq_index[q[1]]
    BY DEF AskedInv
  <2> QED BY <1>1, <1>2, <2>1
<1>5. \A h \in Handlers : action_seq_index'[h] > 0 => <<h, 0>> \in asked
  BY <1>1 DEF AskedInv
<1>6. \A h \in Handlers : lock_state'[h] = "Pending" => <<h, 1>> \notin asked
  BY <1>3 DEF AskedInv
<1> QED BY <1>4, <1>5, <1>6 DEF AskedInv

LEMMA AskedWrite ==
    ASSUME TypeOK, TypeOK', AskedInv, NEW h \in Handlers, WriteRequest(h),
           action_seq_index'[h] >= action_seq_index[h],
           action_seq_index'[h] = 0 \/ <<h, 0>> \in asked,
           lock_state'[h] # "Pending",
           \A g \in Handlers : g # h => /\ action_seq_index'[g] = action_seq_index[g]
                                        /\ lock_state'[g] = lock_state[g]
    PROVE  AskedInv'
<1> DEFINE i == action_seq_index'[h]
<1>1. asked' = asked \cup {<<h, i>>} /\ i \in Nat
  BY DEF WriteRequest, TypeOK
<1>2. \A q \in asked : q[1] \in Handlers /\ q[2] \in Nat
  BY RequestParts DEF TypeOK
<1>3. action_seq_index \in [Handlers -> Nat]
  BY DEF TypeOK
<1>4. <<h, 0>> \in asked'
  BY <1>1
<1>5. ASSUME NEW q \in asked'
      PROVE  <<q[1], 0>> \in asked' /\ q[2] <= action_seq_index'[q[1]]
  <2>1. CASE q \in asked
    <3>1. <<q[1], 0>> \in asked /\ q[2] <= action_seq_index[q[1]]
      BY <2>1 DEF AskedInv
    <3>2. PICK g \in Handlers, m \in Nat : g = q[1] /\ m = q[2]
      BY <1>2, <2>1
    <3>3. m <= action_seq_index[g] /\ action_seq_index'[g] \in Nat
      BY <3>1, <3>2 DEF TypeOK
    <3>4. action_seq_index[g] <= action_seq_index'[g]
      BY <1>3, <3>3
    <3>5. m <= action_seq_index'[g]
      BY <1>3, <3>3, <3>4
    <3> QED BY <1>1, <3>1, <3>2, <3>5
  <2>2. CASE q = <<h, i>>
    <3>1. q[1] = h /\ q[2] = i
      BY <2>2
    <3> QED BY <1>1, <1>4, <3>1
  <2> QED BY <1>1, <2>1, <2>2
<1>6. \A g \in Handlers : action_seq_index'[g] > 0 => <<g, 0>> \in asked'
  BY <1>1, <1>4 DEF AskedInv
<1>7. \A g \in Handlers : lock_state'[g] = "Pending" => <<g, 1>> \notin asked'
  BY <1>1 DEF AskedInv
<1> QED BY <1>5, <1>6, <1>7 DEF AskedInv

LEMMA AskedStep ==
    ASSUME IInv, IInv', AskedInv, [Next]_vars
    PROVE  AskedInv'
<1>i. /\ TypeOK /\ TypeOK' /\ LockAgrees /\ StartInv /\ RequestInv
      /\ action_seq_index \in [Handlers -> Nat] /\ turn \in Handlers
      /\ lock_state \in [Handlers -> {"None", "Pending", "Locked"}]
  BY DEF IInv, TypeOK
<1>1. CASE Start
  <2>1. /\ WriteRequest(turn) /\ action_seq_index'[turn] = 0 /\ lock_state[turn] # "Pending"
        /\ UNCHANGED <<action_seq_index, lock_state>>
    BY <1>i, <1>1, StartFacts DEF Start
  <2>2. action_seq_index'[turn] >= action_seq_index[turn]
    BY <1>i, <2>1
  <2> QED BY <1>i, <2>1, <2>2, AskedWrite
<1>2. CASE Resume
  <2>1. CASE ResumeLocks(turn)
    <3>1. /\ WriteRequest(turn) /\ Acquire(turn) /\ UNCHANGED action_seq_index
          /\ lock_state[turn] = "Pending"
      BY <1>i, <1>2, <2>1, ResumeLocksFacts DEF Resume
    <3>2. action_seq_index[turn] = 1 /\ <<turn, 0>> \in asked
      BY <1>i, <3>1 DEF RequestInv, AskedInv
    <3>3. lock_state' = [lock_state EXCEPT ![turn] = "Locked"]
      BY <3>1 DEF Acquire
    <3> QED BY <1>i, <3>1, <3>2, <3>3, AskedWrite
  <2>2. CASE ResumeExpires(turn) \/ ResumeIdles(turn)
    <3>1. /\ UNCHANGED <<asked, action_seq_index>>
          /\ \A h \in Handlers : lock_state'[h] = lock_state[h] \/ lock_state'[h] = "None"
      BY <1>i, <2>2 DEF ResumeExpires, ResumeIdles, Release
    <3> QED BY <1>i, <3>1, AskedFrame
  <2> QED BY <1>2, <2>1, <2>2 DEF Resume
<1>3. ASSUME NEW h \in Handlers, NEW q \in Requests, Fail(h, q) \/ Complete(h, q)
      PROVE  AskedInv'
  <2>1. Answered(h, q) /\ Release(h) /\ UNCHANGED asked
    BY <1>i, <1>3, FinishFacts
  <2>2. q \in asked /\ q[1] = h
    BY <1>i, <2>1, AnsweredFacts
  <2>3. <<h, 0>> \in asked
    BY <2>2 DEF AskedInv
  <2>4. \A g \in Handlers : lock_state'[g] = lock_state[g] \/ lock_state'[g] = "None"
    BY <1>i, <2>1 DEF Release
  <2>5. \/ UNCHANGED action_seq_index
        \/ action_seq_index' = [action_seq_index EXCEPT ![h] = @ + 1]
    BY <1>3 DEF Fail, Complete
  <2> QED BY <1>i, <2>1, <2>3, <2>4, <2>5, AskedFrame
<1>4. ASSUME NEW h \in Handlers, NEW q \in Requests, Detect(h, q)
      PROVE  AskedInv'
  <2>1. /\ Answered(h, q) /\ action_seq_index[h] = 0
        /\ action_seq_index' = [action_seq_index EXCEPT ![h] = 1]
    BY <1>4 DEF Detect
  <2>2. q \in asked /\ q[1] = h
    BY <1>i, <2>1, AnsweredFacts
  <2>3. <<h, 0>> \in asked
    BY <2>2 DEF AskedInv
  <2>4. CASE LockFree
    <3>1. WriteRequest(h) /\ lock_state' = [lock_state EXCEPT ![h] = "Locked"]
      BY <1>4, <2>4 DEF Detect, Acquire
    <3> QED BY <1>i, <2>1, <2>3, <3>1, AskedWrite
  <2>5. CASE ~LockFree
    <3>1. UNCHANGED asked /\ lock_state' = [lock_state EXCEPT ![h] = "Pending"]
      BY <1>4, <2>5 DEF Detect
    <3> QED BY <1>i, <2>1, <2>3, <3>1, AskedFrame
  <2> QED BY <2>4, <2>5
<1>5. ASSUME NEW h \in Handlers, NEW q \in Requests, Continue(h, q)
      PROVE  AskedInv'
  <2>1. /\ Answered(h, q) /\ WriteRequest(h) /\ lock_state[h] = "Locked"
        /\ UNCHANGED lock_state
        /\ action_seq_index' = [action_seq_index EXCEPT ![h] = @ + 1]
    BY <1>i, <1>5, ContinueFacts DEF Continue
  <2>2. q \in asked /\ q[1] = h
    BY <1>i, <2>1, AnsweredFacts
  <2>3. <<h, 0>> \in asked
    BY <2>2 DEF AskedInv
  <2> QED BY <1>i, <2>1, <2>3, AskedWrite
<1>6. ASSUME NEW h \in Handlers, NEW q \in Requests, ReadHeartbeat(h, q)
      PROVE  AskedInv'
  BY <1>i, <1>6, AskedFrame DEF ReadHeartbeat
<1>7. ASSUME NEW h \in Handlers, Expire(h) PROVE AskedInv'
  BY <1>i, <1>7, AskedFrame DEF Expire
<1>8. CASE ReadNothing \/ PluginsEnd \/ UNCHANGED vars
  BY <1>i, <1>8, AskedFrame DEF ReadNothing, PluginsEnd
<1> QED
  BY <1>1, <1>2, <1>3, <1>4, <1>5, <1>6, <1>7, <1>8 DEF Next, Engine, ReadResponse

\* The phase of an anomaly.
LEMMA PhaseIs ==
    ASSUME NEW h \in Handlers
    PROVE  /\ phase[h] = IF <<h, 0>> \notin asked THEN "idle"
                         ELSE IF published[h] = "complete" THEN "done"
                         ELSE IF lock_state[h] = "Pending" THEN "pending"
                         ELSE IF lock_state[h] = "Locked" THEN "mitigating"
                         ELSE IF action_seq_index[h] = 0 THEN "detecting"
                         ELSE "overdue"
           /\ phase'[h] = IF <<h, 0>> \notin asked' THEN "idle"
                          ELSE IF published'[h] = "complete" THEN "done"
                          ELSE IF lock_state'[h] = "Pending" THEN "pending"
                          ELSE IF lock_state'[h] = "Locked" THEN "mitigating"
                          ELSE IF action_seq_index'[h] = 0 THEN "detecting"
                          ELSE "overdue"
  BY DEF phase

LEMMA PhaseKept ==
    ASSUME NEW h \in Handlers, <<h, 0>> \in asked' <=> <<h, 0>> \in asked,
           published'[h] = "complete" <=> published[h] = "complete",
           lock_state'[h] = lock_state[h],
           action_seq_index'[h] = 0 <=> action_seq_index[h] = 0
    PROVE  phase'[h] = phase[h]
  BY PhaseIs

\* One anomaly changes its phase.
LEMMA PhaseEntered ==
    ASSUME NEW h \in Handlers, \A g \in Handlers \ {h} : phase'[g] = phase[g]
    PROVE  Lease!Enter(h, phase'[h])
<1>1. phase = [g \in Handlers |-> phase[g]] /\ phase' = [g \in Handlers |-> phase'[g]]
  BY DEF phase
<1> QED BY <1>1 DEF Lease!Enter

LEMMA PhasesKept ==
    ASSUME \A g \in Handlers : phase'[g] = phase[g]
    PROVE  phase' = phase
<1>1. phase = [g \in Handlers |-> phase[g]] /\ phase' = [g \in Handlers |-> phase'[g]]
  BY DEF phase
<1> QED BY <1>1

\* A handler that takes a response: its request is the only one it has.
LEMMA AnswersLast ==
    ASSUME IInv, AskedInv, NEW h \in Handlers, NEW q \in Requests, Answered(h, q)
    PROVE  /\ Lease!Answer(q) /\ Lease!LastOf(h, q)
           /\ q \in asked \ answered /\ q = <<h, action_seq_index[h]>>
           /\ <<h, 0>> \in asked /\ published[h] # "complete"
           /\ active[h] /\ lock_state[h] # "Pending"
<1>1. /\ q \in open /\ q[1] = h /\ q[2] = action_seq_index[h] /\ active[h]
      /\ ct_instance_id[h] = q /\ lock_state[h] # "Pending" /\ pc = "read"
      /\ answered' = answered \cup {q}
  BY AnsweredFacts DEF IInv
<1>2. \A r \in open : r[1] = h => r = q
  BY <1>1 DEF IInv, RequestInv
<1>3. q = <<h, action_seq_index[h]>>
  BY <1>1, RequestParts
<1>4. published[h] # "complete" /\ <<h, 0>> \in asked
  BY <1>1 DEF IInv, PublishInv, AskedInv
<1> QED BY <1>1, <1>2, <1>3, <1>4 DEF Lease!Answer, Lease!LastOf

\* The lock is free exactly when no anomaly is in mitigation.
LEMMA FreeIs ==
    ASSUME IInv, AskedInv, pc # "crashed"
    PROVE  LockFree <=> Lease!Free
<1>1. ASSUME NEW h \in Handlers, lock_state[h] = "Locked" PROVE phase[h] = "mitigating"
  <2>1. active[h] /\ action_seq_index[h] > 0
    BY <1>1 DEF IInv, LockAgrees
  <2>2. published[h] # "complete" /\ <<h, 0>> \in asked
    BY <2>1 DEF IInv, PublishInv, AskedInv
  <2> QED BY <1>1, <2>2, PhaseIs
<1>2. \A h \in Handlers : phase[h] = "mitigating" => lock_state[h] = "Locked"
  BY PhaseIs
<1>3. mitigation_lock <=> \E h \in Handlers : lock_state[h] = "Locked"
  BY DEF IInv, LockAgrees
<1> QED BY <1>1, <1>2, <1>3 DEF LockFree, Lease!Free

\* A request that was not made before.
LEMMA Asks ==
    ASSUME TypeOK, NEW h \in Handlers, NEW i \in Nat, WriteRequest(h),
           action_seq_index'[h] = i, <<h, i>> \notin asked
    PROVE  /\ Lease!Ask(<<h, i>>)
           /\ \A g \in Handlers \ {h} : <<g, 0>> \in asked' <=> <<g, 0>> \in asked
           /\ <<h, 0>> \in asked' <=> i = 0 \/ <<h, 0>> \in asked
  BY DEF WriteRequest, Lease!Ask

\* The lock is taken.
LEMMA Leased ==
    ASSUME IInv, AskedInv, NEW h \in Handlers, pc # "crashed", LockFree, Acquire(h),
           action_seq_index'[h] = 1, <<h, 0>> \in asked, <<h, 1>> \notin asked,
           published'[h] # "complete",
           \A g \in Handlers \ {h} :
               action_seq_index'[g] = action_seq_index[g] /\ published'[g] = published[g],
           \/ phase[h] = "detecting" /\ Lease!Answer(<<h, 0>>)
           \/ phase[h] = "pending" /\ answered' = answered
    PROVE  Lease!Next
<1>1. /\ Lease!Ask(<<h, 1>>)
      /\ \A g \in Handlers \ {h} : <<g, 0>> \in asked' <=> <<g, 0>> \in asked
      /\ <<h, 0>> \in asked'
  BY Asks DEF Acquire, IInv
<1>2. lock_state' = [lock_state EXCEPT ![h] = "Locked"]
  BY DEF Acquire
<1>3. lock_state'[h] = "Locked" /\ \A g \in Handlers \ {h} : lock_state'[g] = lock_state[g]
  BY <1>2 DEF IInv, TypeOK
<1>4. phase'[h] = "mitigating"
  BY <1>1, <1>3, PhaseIs
<1>5. \A g \in Handlers \ {h} : phase'[g] = phase[g]
  BY <1>1, <1>3, PhaseKept
<1>6. Lease!Enter(h, "mitigating")
  BY <1>4, <1>5, PhaseEntered
<1>7. Lease!Free
  BY FreeIs
<1>8. Lease!Lease(h)
  BY <1>1, <1>6, <1>7 DEF Lease!Lease
<1> QED BY <1>8 DEF Lease!Next

\* Steps that neither ask nor answer, and touch no phase.
LEMMA LeaseIdle ==
    ASSUME UNCHANGED <<asked, answered, lock_state, action_seq_index>>,
           \A h \in Handlers : published'[h] = "complete" <=> published[h] = "complete"
    PROVE  UNCHANGED <<phase, asked, answered>>
<1>1. phase' = phase
  BY PhaseKept, PhasesKept
<1> QED BY <1>1

LEMMA StartLeases ==
    ASSUME IInv, AskedInv, Start
    PROVE  Lease!Next
<1> PICK h \in Handlers : h = turn
  BY DEF IInv, TypeOK
<1>1. /\ WriteRequest(h) /\ action_seq_index'[h] = 0 /\ pc = "start"
      /\ UNCHANGED <<answered, action_seq_index, lock_state, published>>
  BY StartFacts DEF IInv, Start
<1>2. <<h, 0>> \notin asked /\ active[h] /\ action_seq_index[h] = 0
  BY <1>1 DEF IInv, StartInv, TypeOK
<1>3. published[h] # "complete" /\ lock_state[h] = "None"
  BY <1>1, <1>2 DEF IInv, PublishInv, LockAgrees, TypeOK
<1>4. /\ Lease!Ask(<<h, 0>>) /\ <<h, 0>> \in asked'
      /\ \A g \in Handlers \ {h} : <<g, 0>> \in asked' <=> <<g, 0>> \in asked
  BY <1>1, <1>2, Asks DEF IInv
<1>5. phase[h] = "idle" /\ phase'[h] = "detecting"
  BY <1>1, <1>2, <1>3, <1>4, PhaseIs
<1>6. \A g \in Handlers \ {h} : phase'[g] = phase[g]
  BY <1>1, <1>4, PhaseKept
<1>7. Lease!Enter(h, "detecting")
  BY <1>5, <1>6, PhaseEntered
<1>8. Lease!Begin(h)
  BY <1>1, <1>4, <1>5, <1>7 DEF Lease!Begin
<1> QED BY <1>8 DEF Lease!Next

LEMMA ResumeLeases ==
    ASSUME IInv, AskedInv, Resume
    PROVE  Lease!Next \/ UNCHANGED <<phase, asked, answered>>
<1> PICK h \in Handlers : h = turn
  BY DEF IInv, TypeOK
<1>p. pc = "resume"
  BY DEF Resume
<1>1. CASE ResumeLocks(h)
  <2>1. /\ Acquire(h) /\ LockFree /\ active[h] /\ lock_state[h] = "Pending"
        /\ UNCHANGED <<answered, action_seq_index, published>>
    BY <1>p, <1>1, ResumeLocksFacts DEF IInv, ResumeLocks
  <2>2. action_seq_index[h] = 1 /\ <<h, 0>> \in asked /\ <<h, 1>> \notin asked
    BY <2>1 DEF IInv, RequestInv, AskedInv
  <2>3. published[h] # "complete"
    BY <1>p, <2>1 DEF IInv, PublishInv
  <2>4. phase[h] = "pending"
    BY <2>1, <2>2, <2>3, PhaseIs
  <2> QED BY <1>p, <2>1, <2>2, <2>3, <2>4, Leased
<1>2. CASE ResumeExpires(h)
  <2>1. /\ active[h] /\ lock_exp[h] = "passed" /\ Release(h)
        /\ published' = [published EXCEPT ![h] = "timeout"]
        /\ UNCHANGED <<action_seq_index, asked, answered>>
    BY <1>2 DEF ResumeExpires
  <2>2. lock_state[h] = "Locked" /\ action_seq_index[h] > 0
    BY <2>1 DEF IInv, LockAgrees
  <2>3. published[h] # "complete" /\ <<h, 0>> \in asked
    BY <1>p, <2>1, <2>2 DEF IInv, PublishInv, AskedInv
  <2>4. lock_state' = [lock_state EXCEPT ![h] = "None"]
    BY <2>1, <2>2 DEF Release
  <2>5. /\ lock_state'[h] = "None" /\ published'[h] = "timeout"
        /\ \A g \in Handlers \ {h} :
              lock_state'[g] = lock_state[g] /\ published'[g] = published[g]
    BY <2>1, <2>4 DEF IInv, TypeOK
  <2>6. phase[h] = "mitigating" /\ phase'[h] = "overdue"
    BY <2>1, <2>2, <2>3, <2>5, PhaseIs DEF IInv, TypeOK
  <2>7. \A g \in Handlers \ {h} : phase'[g] = phase[g]
    BY <2>1, <2>5, PhaseKept
  <2>8. Lease!Lose(h)
    BY <2>1, <2>6, <2>7, PhaseEntered DEF Lease!Lose
  <2> QED BY <2>8 DEF Lease!Next
<1>3. CASE ResumeIdles(h)
  BY <1>3, LeaseIdle DEF ResumeIdles
<1> QED BY <1>1, <1>2, <1>3 DEF Resume

LEMMA FinishLeases ==
    ASSUME IInv, AskedInv, NEW h \in Handlers, NEW q \in Requests,
           Fail(h, q) \/ Complete(h, q)
    PROVE  Lease!Next
<1>1. /\ Answered(h, q) /\ Release(h) /\ published'[h] = "complete"
      /\ \A g \in Handlers \ {h} : /\ published'[g] = published[g]
                                   /\ action_seq_index'[g] = action_seq_index[g]
      /\ asked' = asked
  BY FinishFacts DEF IInv
<1>2. /\ Lease!Answer(q) /\ Lease!LastOf(h, q) /\ q \in asked \ answered /\ q[1] = h
      /\ <<h, 0>> \in asked /\ published[h] # "complete" /\ lock_state[h] # "Pending"
  BY <1>1, AnswersLast
<1>3. phase[h] \in {"detecting", "mitigating", "overdue"} /\ phase'[h] = "done"
  BY <1>1, <1>2, PhaseIs
<1>4. \A g \in Handlers \ {h} : lock_state'[g] = lock_state[g]
  BY <1>1 DEF Release, IInv, TypeOK
<1>5. \A g \in Handlers \ {h} : phase'[g] = phase[g]
  BY <1>1, <1>4, PhaseKept
<1>6. Lease!Finish(h)
  BY <1>1, <1>2, <1>3, <1>5, PhaseEntered DEF Lease!Finish
<1> QED BY <1>6 DEF Lease!Next

LEMMA DetectLeases ==
    ASSUME IInv, AskedInv, NEW h \in Handlers, NEW q \in Requests, Detect(h, q)
    PROVE  Lease!Next
<1>1. /\ Answered(h, q) /\ action_seq_index[h] = 0 /\ action_seq_index'[h] = 1
      /\ \A g \in Handlers \ {h} : action_seq_index'[g] = action_seq_index[g]
      /\ published' = [published EXCEPT ![h] = "init"]
  BY DetectFacts DEF IInv
<1>2. /\ Lease!Answer(<<h, 0>>) /\ <<h, 0>> \in asked
      /\ published[h] # "complete" /\ lock_state[h] # "Pending"
  BY <1>1, AnswersLast
<1>3. lock_state[h] = "None"
  BY <1>1, <1>2 DEF IInv, LockAgrees, TypeOK
<1>4. phase[h] = "detecting"
  BY <1>1, <1>2, <1>3, PhaseIs
<1>5. /\ published'[h] = "init" /\ \A g \in Handlers \ {h} : published'[g] = published[g]
  BY <1>1 DEF IInv, TypeOK
<1>6. pc = "read"
  BY DEF Detect, Answered
<1>7. CASE LockFree
  <2>1. Acquire(h)
    BY <1>7 DEF Detect
  <2>2. <<h, 1>> \notin asked
    BY <1>1, NotAsked DEF IInv
  <2> QED BY <1>1, <1>2, <1>4, <1>5, <1>6, <1>7, <2>1, <2>2, Leased
<1>8. CASE ~LockFree
  <2>1. lock_state' = [lock_state EXCEPT ![h] = "Pending"] /\ asked' = asked
    BY <1>8 DEF Detect
  <2>2. lock_state'[h] = "Pending" /\ \A g \in Handlers \ {h} : lock_state'[g] = lock_state[g]
    BY <2>1 DEF IInv, TypeOK
  <2>3. phase'[h] = "pending"
    BY <1>2, <1>5, <2>1, <2>2, PhaseIs
  <2>4. \A g \in Handlers \ {h} : phase'[g] = phase[g]
    BY <1>1, <1>5, <2>1, <2>2, PhaseKept
  <2>5. ~Lease!Free
    BY <1>6, <1>8, FreeIs
  <2>6. Lease!Wait(h)
    BY <1>2, <1>4, <2>1, <2>3, <2>4, <2>5, PhaseEntered DEF Lease!Wait
  <2> QED BY <2>6 DEF Lease!Next
<1> QED BY <1>7, <1>8

LEMMA ContinueLeases ==
    ASSUME IInv, AskedInv, NEW h \in Handlers, NEW q \in Requests, Continue(h, q)
    PROVE  Lease!Next
<1>1. /\ Answered(h, q) /\ WriteRequest(h) /\ lock_state[h] = "Locked"
      /\ action_seq_index[h] > 0
      /\ action_seq_index' = [action_seq_index EXCEPT ![h] = @ + 1]
      /\ UNCHANGED <<lock_state, published>>
  BY ContinueFacts DEF IInv, Continue
<1>2. /\ Lease!Answer(q) /\ Lease!LastOf(h, q) /\ q \in asked \ answered
      /\ q = <<h, action_seq_index[h]>>
      /\ <<h, 0>> \in asked /\ published[h] # "complete"
  BY <1>1, AnswersLast
<1>i. PICK i \in Nat : i = action_seq_index[h]
  BY DEF IInv, TypeOK
<1>3. /\ action_seq_index'[h] = i + 1
      /\ \A g \in Handlers \ {h} : action_seq_index'[g] = action_seq_index[g]
  BY <1>1, <1>i DEF IInv, TypeOK
<1>4. <<h, i + 1>> \notin asked
  BY <1>i, NotAsked DEF IInv
<1>5. /\ Lease!Ask(<<h, i + 1>>) /\ <<h, 0>> \in asked'
      /\ \A g \in Handlers \ {h} : <<g, 0>> \in asked' <=> <<g, 0>> \in asked
  BY <1>1, <1>2, <1>3, <1>4, Asks DEF IInv
<1>6. phase[h] = "mitigating" /\ phase'[h] = "mitigating"
  BY <1>1, <1>2, <1>5, PhaseIs
<1>7. phase' = phase
  <2>1. \A g \in Handlers \ {h} : phase'[g] = phase[g]
    BY <1>1, <1>3, <1>5, PhaseKept
  <2> QED BY <1>6, <2>1, PhasesKept
<1>8. q[1] = h /\ q[2] = i /\ i > 0
  BY <1>1, <1>2, <1>i
<1>9. Lease!Advance(h)
  BY <1>2, <1>5, <1>6, <1>7, <1>8 DEF Lease!Advance
<1> QED BY <1>9 DEF Lease!Next

\* Every step of the engine is one of the lease, or none.
LEMMA LeaseStep ==
    ASSUME IInv, AskedInv, [Next]_vars
    PROVE  Lease!Next \/ UNCHANGED <<phase, asked, answered>>
<1>1. ASSUME NEW h \in Handlers, NEW q \in Requests, ReadHeartbeat(h, q)
      PROVE  UNCHANGED <<phase, asked, answered>>
  <2>1. /\ active[h] /\ pc = "read"
        /\ UNCHANGED <<asked, answered, lock_state, action_seq_index>>
        /\ published' = [published EXCEPT ![h] = IF @ = "nothing" THEN @ ELSE "in-progress"]
    BY <1>1 DEF ReadHeartbeat, Awaits
  <2>2. published[h] # "complete"
    BY <2>1 DEF IInv, PublishInv
  <2>3. \A g \in Handlers : published'[g] = "complete" <=> published[g] = "complete"
    BY <2>1, <2>2 DEF IInv, TypeOK
  <2> QED BY <2>1, <2>3, LeaseIdle
<1>2. ASSUME NEW h \in Handlers, Expire(h)
      PROVE  UNCHANGED <<phase, asked, answered>>
  BY <1>2, LeaseIdle DEF Expire
<1>3. CASE ReadNothing \/ PluginsEnd \/ UNCHANGED vars
  BY <1>3, LeaseIdle DEF ReadNothing, PluginsEnd
<1> QED
  BY <1>1, <1>2, <1>3, StartLeases, ResumeLeases, FinishLeases, DetectLeases,
     ContinueLeases DEF Next, Engine, ReadResponse

\* The engine of test_main.py implements the lease: all requests of a mitigation
\* are made under one hold of mitigation_lock, which one anomaly has at a time;
\* a handler waits for it only while another has it, and one that lost it to the
\* clock asks for nothing more and ends with the answer it still waits for.
THEOREM LeaseImplemented == Spec => Implements
<1>1. Init => Lease!Init
  <2> SUFFICES ASSUME Init PROVE Lease!Init
    OBVIOUS
  <2>1. asked = {} /\ answered = {}
    BY DEF Init
  <2>2. phase = [h \in Handlers |-> "idle"]
    BY <2>1 DEF phase
  <2> QED BY <2>1, <2>2 DEF Lease!Init
<1>2. Init => AskedInv
  BY DEF Init, AskedInv
<1>3. IInv /\ AskedInv /\ [Next]_vars => AskedInv'
  BY AskedStep, Inductive
<1>4. IInv /\ AskedInv /\ [Next]_vars => [Lease!Next]_<<phase, asked, answered>>
  BY LeaseStep
<1> QED BY Invariant, <1>1, <1>2, <1>3, <1>4, PTL DEF Spec, Implements, Lease!Spec
=============================================================================
