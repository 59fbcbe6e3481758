---------------------------- MODULE LinkSystemProofs ----------------------------
(***************************************************************************)
(* Proofs about the composition LinkSystem: each step is a step, or a      *)
(* stutter, of LinkPlugins, and keeps the invariant of ProcStart, so that  *)
(* what is proved of the parts holds of the whole.                         *)
(***************************************************************************)
EXTENDS LinkSystem, TLAPS

ProcP == INSTANCE ProcStartProofs
LinkP == INSTANCE LinkPluginsProofs

-----------------------------------------------------------------------------
(* The plugins                                                              *)

LEMMA LinkStepIsLink == [Next]_vars => [Link!Next]_(Link!vars)
  BY DEF Next, vars, LinkStep, Unloaded, linkVars, Link!Next, Link!vars,
         Link!switch, Link!plugin, Link!engine

\* The composition implements LinkPlugins: link_flap.py, link_safety.py and
\* link_down.py in a process of the system do what they do by themselves.
THEOREM PluginsRefined == Spec => Link!Spec
<1>1. Init => Link!Init
  BY DEF Init
<1> QED BY <1>1, LinkStepIsLink, PTL DEF Spec, Link!Spec

\* LinkPlugins by its two names, that of the composition and that of its proofs.
LEMMA SameLink ==
    (Link!Init <=> LinkP!Init) /\ (Link!Next <=> LinkP!Next) /\ Link!vars = LinkP!vars
  BY DEF Link!Init, Link!Next, Link!Plugin, Link!Switch, Link!Engine,
         Link!vars, Link!switch, Link!plugin, Link!engine, Link!Tick,
         Link!LinkDown, Link!LinkUp, Link!GoesDown, Link!ReadEvent,
         Link!Window, Link!Flapping, Link!SafetyOK, Link!MissingName,
         Link!ShutLink, Link!ShutFails, Link!Ask, Link!Begin, Link!GiveUp,
         LinkP!Init, LinkP!Next, LinkP!Plugin, LinkP!Switch, LinkP!Engine,
         LinkP!vars, LinkP!switch, LinkP!plugin, LinkP!engine, LinkP!Tick,
         LinkP!LinkDown, LinkP!LinkUp, LinkP!GoesDown, LinkP!ReadEvent,
         LinkP!Window, LinkP!Flapping, LinkP!SafetyOK, LinkP!MissingName,
         LinkP!ShutLink, LinkP!ShutFails, LinkP!Ask, LinkP!Begin,
         LinkP!GiveUp

\* The invariant of LinkPlugins holds of the composition.
LEMMA LinkInv == Spec => [](LinkP!IInv /\ LinkP!ReadAfter)
<1>1. Init => LinkP!IInv /\ LinkP!ReadAfter
  BY SameLink, LinkP!InitInv, LinkP!InitAfter, LinkAssumption DEF Init
<1>2. LinkP!IInv /\ LinkP!ReadAfter /\ [Next]_vars => (LinkP!IInv /\ LinkP!ReadAfter)'
  <2>1. [Next]_vars => [LinkP!Next]_(LinkP!vars)
    <3> SUFFICES ASSUME [Next]_vars PROVE LinkP!Next \/ LinkP!vars' = LinkP!vars
      OBVIOUS
    <3>1. Link!Next \/ Link!vars' = Link!vars
      BY LinkStepIsLink
    <3>2. Link!vars' = LinkP!vars'
      BY DEF Link!vars, LinkP!vars, Link!switch, Link!plugin, Link!engine,
             LinkP!switch, LinkP!plugin, LinkP!engine
    <3> QED BY <3>1, <3>2, SameLink
  <2> QED BY <2>1, LinkP!NextInv, LinkP!NextAfter, LinkAssumption DEF LinkP!IInv
<1> QED BY <1>1, <1>2, PTL DEF Spec

-----------------------------------------------------------------------------
(* The processes                                                            *)

\* ProcStart by its two names.
LEMMA SameProc ==
    (Proc!Init <=> ProcP!Init) /\ (Proc!Next <=> ProcP!Next)
<1>1. Proc!Init <=> ProcP!Init
  BY DEF Proc!Init, Proc!Files, Proc!Procs, ProcP!Init, ProcP!Files,
         ProcP!Procs
<1>2. ASSUME NEW p PROVE
      /\ Proc!SetRcFile(p) <=> ProcP!SetRcFile(p)
      /\ Proc!SetPaths(p) <=> ProcP!SetPaths(p)
      /\ Proc!Look(p) <=> ProcP!Look(p)
  BY DEF Proc!SetRcFile, Proc!SetPaths, Proc!Look, Proc!FillRc, Proc!Goto,
         Proc!Procs, Proc!given, Proc!globals, Proc!config, Proc!holders,
         Proc!rings, Proc!suite, ProcP!SetRcFile, ProcP!SetPaths, ProcP!Look,
         ProcP!FillRc, ProcP!Goto, ProcP!Procs, ProcP!given, ProcP!globals,
         ProcP!config, ProcP!holders, ProcP!rings, ProcP!suite
<1>3. ASSUME NEW p PROVE
      /\ Proc!ClibLoaded(p) <=> ProcP!ClibLoaded(p)
      /\ Proc!ClibMocked(p) <=> ProcP!ClibMocked(p)
      /\ Proc!ClibRaises(p) <=> ProcP!ClibRaises(p)
  BY DEF Proc!ClibLoaded, Proc!ClibMocked, Proc!ClibRaises, Proc!Goto,
         Proc!Procs, Proc!given, Proc!globals, Proc!config, Proc!holders,
         Proc!rings, Proc!suite, ProcP!ClibLoaded, ProcP!ClibMocked,
         ProcP!ClibRaises, ProcP!Goto, ProcP!Procs, ProcP!given,
         ProcP!globals, ProcP!config, ProcP!holders, ProcP!rings, ProcP!suite
<1>4. ASSUME NEW p PROVE
      /\ Proc!Take(p) <=> ProcP!Take(p)
  BY DEF Proc!Take, Proc!TakeNoPath, Proc!TakePath, Proc!TakeNoName,
         Proc!TakeName, Proc!Answer, Proc!Asked, Proc!Waiting, Proc!Goto,
         Proc!Procs, Proc!given, Proc!globals, Proc!config, Proc!holders,
         Proc!rings, Proc!suite, ProcP!Take, ProcP!TakeNoPath,
         ProcP!TakePath, ProcP!TakeNoName, ProcP!TakeName, ProcP!Answer,
         ProcP!Asked, ProcP!Waiting, ProcP!Goto, ProcP!Procs, ProcP!given,
         ProcP!globals, ProcP!config, ProcP!holders, ProcP!rings, ProcP!suite
<1>5. ASSUME NEW p PROVE
      /\ Proc!Register(p) <=> ProcP!Register(p)
      /\ Proc!RegisterAction(p) <=> ProcP!RegisterAction(p)
  BY DEF Proc!Register, Proc!RegisterAction, Proc!Send, Proc!plugins,
         Proc!NextPlugin, Proc!More, Proc!IsDisabled, Proc!Goto, Proc!Procs,
         Proc!given, Proc!globals, Proc!config, Proc!holders, Proc!rings,
         Proc!suite, ProcP!Register, ProcP!RegisterAction, ProcP!Send,
         ProcP!plugins, ProcP!NextPlugin, ProcP!More, ProcP!IsDisabled,
         ProcP!Goto, ProcP!Procs, ProcP!given, ProcP!globals, ProcP!config,
         ProcP!holders, ProcP!rings, ProcP!suite
<1>6. ASSUME NEW p PROVE
      /\ Proc!SkipDisabled(p) <=> ProcP!SkipDisabled(p)
      /\ Proc!SetPipe(p) <=> ProcP!SetPipe(p)
  BY DEF Proc!SkipDisabled, Proc!SetPipe, Proc!plugins, Proc!NextPlugin,
         Proc!More, Proc!IsDisabled, Proc!Goto, Proc!Procs, Proc!given,
         Proc!globals, Proc!config, Proc!holders, Proc!rings, Proc!suite,
         ProcP!SkipDisabled, ProcP!SetPipe, ProcP!plugins, ProcP!NextPlugin,
         ProcP!More, ProcP!IsDisabled, ProcP!Goto, ProcP!Procs, ProcP!given,
         ProcP!globals, ProcP!config, ProcP!holders, ProcP!rings, ProcP!suite
<1>7. ASSUME NEW p PROVE
      /\ Proc!LoadInvalid(p) <=> ProcP!LoadInvalid(p)
      /\ Proc!PipeRaises(p) <=> ProcP!PipeRaises(p)
      /\ Proc!LoadDone(p) <=> ProcP!LoadDone(p)
  BY DEF Proc!LoadInvalid, Proc!PipeRaises, Proc!LoadDone, Proc!LoopIfLoaded,
         Proc!plugins, Proc!NextPlugin, Proc!More, Proc!IsDisabled,
         Proc!Goto, Proc!Procs, Proc!given, Proc!globals, Proc!config,
         Proc!holders, Proc!rings, Proc!suite, ProcP!LoadInvalid,
         ProcP!PipeRaises, ProcP!LoadDone, ProcP!LoopIfLoaded, ProcP!plugins,
         ProcP!NextPlugin, ProcP!More, ProcP!IsDisabled, ProcP!Goto,
         ProcP!Procs, ProcP!given, ProcP!globals, ProcP!config,
         ProcP!holders, ProcP!rings, ProcP!suite
<1>8. /\ Proc!Setup <=> ProcP!Setup
      /\ Proc!LoadProc <=> ProcP!LoadProc
  BY DEF Proc!Setup, Proc!LoadProc, Proc!Files, Proc!Goto,
         Proc!RegistrationsOf, Proc!Procs, Proc!given, Proc!globals,
         Proc!config, Proc!holders, Proc!rings, Proc!suite, ProcP!Setup,
         ProcP!LoadProc, ProcP!Files, ProcP!Goto, ProcP!RegistrationsOf,
         ProcP!Procs, ProcP!given, ProcP!globals, ProcP!config,
         ProcP!holders, ProcP!rings, ProcP!suite
<1>9. /\ Proc!VetTimeout <=> ProcP!VetTimeout
      /\ Proc!Compare <=> ProcP!Compare
      /\ Proc!Provide <=> ProcP!Provide
  BY DEF Proc!VetTimeout, Proc!Compare, Proc!Provide, Proc!Files,
         Proc!Vetted, Proc!Wanted, Proc!Procs, Proc!given, Proc!globals,
         Proc!config, Proc!holders, Proc!rings, Proc!suite, ProcP!VetTimeout,
         ProcP!Compare, ProcP!Provide, ProcP!Files, ProcP!Vetted,
         ProcP!Wanted, ProcP!Procs, ProcP!given, ProcP!globals, ProcP!config,
         ProcP!holders, ProcP!rings, ProcP!suite
<1>10. ASSUME NEW p PROVE Proc!VetRead(p) <=> ProcP!VetRead(p)
  BY DEF Proc!VetRead, Proc!First, Proc!Expected, Proc!Procs, Proc!given,
         Proc!globals, Proc!config, Proc!holders, Proc!rings, Proc!suite,
         ProcP!VetRead, ProcP!First, ProcP!Expected, ProcP!Procs,
         ProcP!given, ProcP!globals, ProcP!config, ProcP!holders,
         ProcP!rings, ProcP!suite
<1>11. ASSUME NEW p PROVE Proc!Start(p) <=> ProcP!Start(p)
  BY <1>2, <1>3, <1>4, <1>5, <1>6, <1>7 DEF Proc!Start, ProcP!Start
<1>12. Proc!Next <=> ProcP!Next
  BY <1>8, <1>9, <1>10, <1>11 DEF Proc!Next, ProcP!Next, Proc!Main, ProcP!Main,
         Proc!Procs, ProcP!Procs
<1> QED BY <1>1, <1>12

\* A request for an action without a holder reaches only a process that ran out
\* of pipes, for each other one has loaded what MAIN has vetted.
LEMMA UnloadedInv ==
    ASSUME ProcP!IInv, LinkP!IInv, Unloaded
    PROVE  ProcP!IInv'
<1> USE DEF ProcP!given, ProcP!globals, ProcP!config, ProcP!holders, ProcP!rings,
            ProcP!suite
<1>1. /\ main = "engine" /\ stage # "idle" /\ pc[Host] = "loop" /\ stage \notin loaded[Host]
      /\ pc' = [pc EXCEPT ![Host] = "died"]
      /\ UNCHANGED <<mode, n, disabled, files, rc_data, clib_dll, call, part, known, at,
                     loaded, spent, sent, stream, main, turn, rcnt, reg_conf, linkVars>>
  BY DEF Unloaded
<1>2. /\ ProcP!TypeOK /\ ProcP!Progress(Host) /\ ProcP!Received(Host) /\ ProcP!Decided
      /\ ProcP!Alone /\ Host \in Procs /\ Host \in ProcP!Procs
  BY HostAssumption DEF ProcP!IInv, ProcP!Procs, Procs
<1>3. stage \in LinkActions
  BY <1>1 DEF LinkP!IInv, LinkP!TypeOK, LinkP!Stages, LinkActions
<1>4. spent[Host]
  <2> SUFFICES ASSUME ~spent[Host] PROVE FALSE
    OBVIOUS
  <2>1. PICK i \in 1..Len(Plugins[Host]) : Plugins[Host][i] = stage
    BY <1>3, HostAssumption
  <2>2. stage \in ProcP!Wanted(Host) /\ stage # "client"
    BY <1>2, <2>1, StartAssumption DEF ProcP!Wanted
  <2>3. Host \in 1..n
    <3>1. ~(Host > n)
      BY <1>1, <1>2 DEF ProcP!Decided
    <3>2. n \in Nat /\ Host \in Nat /\ Host >= 1
      BY <1>2, StartAssumption DEF ProcP!TypeOK, ProcP!Procs
    <3> QED BY <3>1, <3>2
  <2>4. stage \in sent[Host]
    BY <1>1, <1>2, <2>2, <2>3 DEF ProcP!Decided, ProcP!Vetted, ProcP!Received
  <2>5. sent[Host] \subseteq {"client"} \cup loaded[Host]
    BY <1>1, <1>2 DEF ProcP!Progress, ProcP!Registered
  <2> QED BY <1>1, <2>2, <2>4, <2>5
<1>5. ProcP!TypeOK'
  <2>1. \A q : ProcP!plugins(q)' = ProcP!plugins(q) /\ ProcP!Wanted(q)' = ProcP!Wanted(q)
    BY <1>1 DEF ProcP!plugins, ProcP!Wanted
  <2>2. pc' \in [ProcP!Procs -> ProcP!Places]
    BY <1>1, <1>2 DEF ProcP!TypeOK, ProcP!Places
  <2> QED BY <1>1, <1>2, <2>1, <2>2 DEF ProcP!TypeOK, ProcP!Messages
<1>6. pc'[Host] = "died"
  BY <1>1, <1>2 DEF ProcP!TypeOK
<1>7. ProcP!Progress(Host)'
  <2>1. ProcP!Listed(Host)' = ProcP!Listed(Host)
    BY <1>1 DEF ProcP!Listed
  <2>2. ProcP!Registered(Host)' = ProcP!Registered(Host)
    BY <1>1, <1>4 DEF ProcP!Registered
  <2> QED BY <1>1, <1>2, <1>4, <1>6, <2>1, <2>2
          DEF ProcP!Progress, ProcP!Early, ProcP!Asking
<1>8. ProcP!Received(Host)'
  BY <1>1, <1>2 DEF ProcP!Received
<1>9. n = 1 /\ Host = 1 => ProcP!Alone'
  BY <1>1, <1>2, <1>6 DEF ProcP!Alone
<1>10. \A q \in ProcP!Procs \ {Host} : ProcP!Same(q)
  BY <1>1, <1>2 DEF ProcP!Same, ProcP!TypeOK
<1> QED BY <1>1, <1>2, <1>5, <1>7, <1>8, <1>9, <1>10, StartAssumption, ProcP!StartKeeps
       DEF Procs, ProcP!Procs

\* The invariant of ProcStart holds of the composition.
LEMMA ProcInv == Spec => [](ProcP!IInv /\ LinkP!IInv)
<1>1. Init => ProcP!IInv
  BY SameProc, ProcP!InitInv, StartAssumption DEF Init, Procs, ProcP!Procs
<1>2. ProcP!IInv /\ LinkP!IInv /\ [Next]_vars => ProcP!IInv'
  <2> SUFFICES ASSUME ProcP!IInv, LinkP!IInv, [Next]_vars PROVE ProcP!IInv'
    OBVIOUS
  <2>1. CASE Proc!Next
    BY <2>1, SameProc, ProcP!NextInv, StartAssumption DEF Procs, ProcP!Procs
  <2>2. CASE UNCHANGED procsVars
    <3>1. UNCHANGED ProcP!vars
      BY <2>2 DEF procsVars, ProcP!vars, ProcP!given, ProcP!globals, ProcP!config,
                  ProcP!holders, ProcP!rings, ProcP!suite
    <3> QED BY <3>1, ProcP!NextInv, StartAssumption DEF Procs, ProcP!Procs
  <2>3. CASE Unloaded
    BY <2>3, UnloadedInv
  <2> QED BY <2>1, <2>2, <2>3 DEF Next, vars, LinkStep
<1> QED BY <1>1, <1>2, LinkInv, PTL DEF Spec

\* A step of the composition is, for the processes, a step of ProcStart, or one
\* that the vetting has nothing to do with.
LEMMA ProcOrEngine ==
    ASSUME [Next]_vars
    PROVE  [ProcP!Next]_(ProcP!vars) \/ (main = "engine" /\ UNCHANGED main)
<1>1. CASE Proc!Next
  BY <1>1, SameProc
<1>2. CASE UNCHANGED procsVars
  BY <1>2 DEF procsVars, ProcP!vars, ProcP!given, ProcP!globals, ProcP!config,
              ProcP!holders, ProcP!rings, ProcP!suite
<1>3. CASE Unloaded
  BY <1>3 DEF Unloaded
<1> QED BY <1>1, <1>2, <1>3 DEF Next, vars, LinkStep

\* The messages of a single process reach MAIN in order in the composition too.
LEMMA OrderInv == Spec => []ProcP!InOrder
<1>1. Init => ProcP!InOrder
  BY SameProc, ProcP!InitInOrder, StartAssumption DEF Init, Procs, ProcP!Procs
<1>2. ProcP!IInv /\ ProcP!InOrder /\ [Next]_vars => ProcP!InOrder'
  <2> SUFFICES ASSUME ProcP!IInv, ProcP!InOrder, [Next]_vars PROVE ProcP!InOrder'
    OBVIOUS
  <2>1. CASE [ProcP!Next]_(ProcP!vars)
    BY <2>1, ProcP!NextInOrder, StartAssumption DEF Procs, ProcP!Procs
  <2>2. CASE main = "engine" /\ UNCHANGED main
    BY <2>2 DEF ProcP!InOrder
  <2> QED BY <2>1, <2>2, ProcOrEngine
<1> QED BY <1>1, <1>2, ProcInv, PTL DEF Spec

-----------------------------------------------------------------------------
(* Theorems                                                                 *)

\* All variables of the composition keep their types.
THEOREM SystemTypeCorrect == Spec => []TypeOK
<1>1. ProcP!IInv => Proc!TypeOK
  <2>1. ProcP!TypeOK => Proc!TypeOK
    BY DEF ProcP!TypeOK, Proc!TypeOK, ProcP!Procs, Proc!Procs, ProcP!Files, Proc!Files,
           ProcP!Places, Proc!Places, ProcP!Messages, Proc!Messages, ProcP!Wanted,
           Proc!Wanted, ProcP!plugins, Proc!plugins, ProcP!Asked, Proc!Asked
  <2> QED BY <2>1 DEF ProcP!IInv
<1>2. LinkP!IInv => Link!TypeOK
  BY DEF LinkP!IInv, LinkP!TypeOK, Link!TypeOK, LinkP!Stages, Link!Stages
<1> QED BY <1>1, <1>2, ProcInv, PTL DEF TypeOK

\* MAIN of test_main.py has its processes, whatever the plugins do to them.
THEOREM SystemEngineIsServed == Spec => []EngineIsServed
<1>1. ProcP!IInv => EngineIsServed
  <2>1. ProcP!EngineIsServed <=> EngineIsServed
    BY DEF ProcP!EngineIsServed, EngineIsServed, Proc!EngineIsServed, ProcP!Wanted, Proc!Wanted
  <2> QED BY <2>1, ProcP!ServedByInv, StartAssumption DEF Procs, ProcP!Procs
<1> QED BY <1>1, ProcInv, PTL

\* MAIN of test_main.py gives a single process up only for what is missing.
THEOREM SystemQuitOnlyOnMissing == Spec => QuitOnlyOnMissing
<1>1. ProcP!IInv /\ ProcP!InOrder /\ [Next]_vars =>
        [n = 1 /\ main = "vet" /\ main' \in {"compare", "quit"} =>
             ~(Proc!Wanted(1) \subseteq sent[1])]_(Proc!vars)
  <2> SUFFICES ASSUME ProcP!IInv, ProcP!InOrder, [Next]_vars, n = 1, main = "vet",
                      main' \in {"compare", "quit"}
               PROVE  ~(Proc!Wanted(1) \subseteq sent[1])
    OBVIOUS
  <2>1. [ProcP!Next]_(ProcP!vars)
    BY ProcOrEngine
  <2>2. ~(ProcP!Wanted(1) \subseteq sent[1])
    BY <2>1, ProcP!QuitStep, StartAssumption DEF Procs, ProcP!Procs
  <2> QED BY <2>2 DEF ProcP!Wanted, Proc!Wanted
<1> QED BY <1>1, ProcInv, OrderInv, PTL DEF Spec, QuitOnlyOnMissing, Proc!QuitOnlyOnMissing

\* link_flap.py in a process of the system reports what it is to report.
THEOREM SystemReportsMatch == Spec => []ReportsMatch
<1>1. LinkP!IInv => ReportsMatch
  BY DEF LinkP!IInv, LinkP!ReportsMatch, LinkP!Flap, LinkP!Reported,
         ReportsMatch, Link!ReportsMatch, Link!Flap, Link!Reported
<1> QED BY <1>1, LinkInv, PTL

\* link_flap.py in the system reports slow downs only if it read them late.
THEOREM SystemSlowOnlyIfLate == Spec => []SlowOnlyIfLate
<1>1. LinkP!IInv /\ LinkP!ReadAfter => LinkP!SlowOnlyIfLate
  BY LinkP!LateByInv, LinkAssumption
<1>2. LinkP!SlowOnlyIfLate => SlowOnlyIfLate
  BY DEF LinkP!SlowOnlyIfLate, LinkP!Flap, LinkP!Reported,
         SlowOnlyIfLate, Link!SlowOnlyIfLate, Link!Flap, Link!Reported
<1> QED BY <1>1, <1>2, LinkInv, PTL

\* main_run of plugin_proc.py loads what it is told to, in the composition too.
THEOREM SystemLoadsConfiguration == Spec => []LoadedAsConfigured
<1>1. ProcP!IInv => LoadedAsConfigured
  <2>1. ProcP!LoadedAsConfigured <=> LoadedAsConfigured
    BY DEF ProcP!LoadedAsConfigured, LoadedAsConfigured, Proc!LoadedAsConfigured,
           ProcP!Procs, Proc!Procs
  <2> QED BY <2>1, ProcP!LoadedByInv, StartAssumption DEF Procs, ProcP!Procs
<1> QED BY <1>1, ProcInv, PTL

\* link_down.py shuts only what was reported in the same run, through the context
\* that the engine passes on.
THEOREM SystemShutIsReported == Spec => ShutIsReported
<1>1. LinkP!IInv /\ [Next]_vars =>
        [shut' # shut => \E r \in 1..Len(reports) :
             reports[r].run = runs /\ shut' = shut \cup {reports[r].ifname}]_(Link!vars)
  <2> SUFFICES ASSUME LinkP!IInv, [Next]_vars, shut' # shut
               PROVE  \E r \in 1..Len(reports) :
                          reports[r].run = runs /\ shut' = shut \cup {reports[r].ifname}
    OBVIOUS
  <2>1. Link!Next
    BY LinkStepIsLink DEF Link!vars, Link!switch
  <2>2. Link!ShutLink
    BY <2>1 DEF Link!Next, Link!Plugin, Link!Switch, Link!Engine, Link!Tick, Link!LinkDown,
           Link!LinkUp, Link!ReadEvent, Link!SafetyOK, Link!MissingName, Link!ShutFails,
           Link!Ask, Link!GiveUp, Link!switch, Link!vars
  <2> QED BY <2>2 DEF Link!ShutLink, LinkP!IInv, LinkP!ContextIsReported
<1> QED BY <1>1, LinkInv, PTL DEF Spec, ShutIsReported, Link!ShutIsReported
=============================================================================
