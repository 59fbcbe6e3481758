------------------------------- MODULE ProcStart -------------------------------
(***************************************************************************)
(* The start of plugin processes: plugin_proc.main and main_run up to the  *)
(* reading loop, with the configuration helpers of common.py, the choice   *)
(* of the library in clib_bind.c_lib_init, and, in the repository's own    *)
(* test suite, the MAIN thread of test_main.py, which writes the           *)
(* configuration, starts one thread for each process and vets their        *)
(* registrations.  These threads share the module globals of one Python    *)
(* process: the cached global rc data and the loaded library.              *)
(*                                                                         *)
(* The rings of test_client.py are bounded queues here.                    *)
(***************************************************************************)
EXTENDS StartParams

Files == {"procs", "actions", "bindings"}

VARIABLES
    mode, n, disabled,  \* how plugin_proc is run; processes in the
                        \* configuration; actions it disables
    files,              \* running configuration files that exist
    rc_data,            \* whether _global_rc_data is non-empty
    clib_dll,           \* whether _clib_dll is set
    pc,                 \* where a process is; see Start
    call, part,         \* which configuration file it asks for (Asked), and
                        \* whether it computes the "path" or the "name"
    known,              \* the configuration it has read
    at,                 \* plugins it has been through
    loaded,             \* active_plugin_holders
    spent,              \* whether os.pipe() raised
    sent, stream,       \* messages its ring has taken, and those unread
    main,               \* where MAIN is
    turn, rcnt, reg_conf

given    == <<mode, n, disabled>>
globals  == <<rc_data, clib_dll>>
config   == <<call, part, known>>
holders  == <<at, loaded, spent>>
rings    == <<sent, stream>>
suite    == <<main, turn, rcnt, reg_conf>>
vars     == <<given, files, globals, pc, config, holders, rings, suite>>

Wanted(p) == {"client"} \cup {Plugins[p][i] : i \in 1..Len(Plugins[p])}

Init ==
    /\ mode \in Modes
    /\ n \in IF mode = "suite" THEN Procs ELSE {1}
    /\ disabled \in DisabledSets
    /\ files \in IF mode = "suite" THEN {{}} ELSE SUBSET Files
    /\ rc_data = FALSE /\ clib_dll = FALSE
    /\ pc = [p \in Procs |-> IF mode = "suite" \/ p > 1 THEN "unborn" ELSE "main"]
    /\ call = [p \in Procs |-> 1]
    /\ part = [p \in Procs |-> "path"]
    /\ known = [p \in Procs |-> {}]
    /\ at = [p \in Procs |-> 0]
    /\ loaded = [p \in Procs |-> {}]
    /\ spent = [p \in Procs |-> FALSE]
    /\ sent = [p \in Procs |-> {}]
    /\ stream = [p \in Procs |-> <<>>]
    /\ main = IF mode = "suite" THEN "setup" ELSE "absent"
    /\ turn = 0 /\ rcnt = 0
    /\ reg_conf = [p \in Procs |-> {}]

Goto(p, from, to) == pc[p] = from /\ pc' = [pc EXCEPT ![p] = to]

-----------------------------------------------------------------------------
(* main: globals, paths, library                                            *)

\* main, set_global_rc_file: the cache is emptied, whoever is using it.
SetRcFile(p) ==
    /\ Goto(p, "main", "paths")
    /\ rc_data' = FALSE
    /\ UNCHANGED <<given, files, clib_dll, config, holders, rings, suite>>

\* Mutant: the data read are not stored in the global.
FillRc_Local == UNCHANGED rc_data

\* get_global_rc up to its last line: the data are there, or are read.
FillRc == rc_data' = TRUE

\* The paths of plugins, from the global rc data.
SetPaths(p) ==
    /\ Goto(p, "paths", "clib")
    /\ FillRc
    /\ UNCHANGED <<given, files, clib_dll, config, holders, rings, suite>>

\* c_lib_init finds the library loaded by another thread of the suite.
ClibLoaded(p) ==
    /\ clib_dll
    /\ Goto(p, "clib", "look")
    /\ UNCHANGED <<given, files, globals, config, holders, rings, suite>>

\* c_lib_init in test mode: clib_init wants a process in the configuration.
ClibMocked(p) ==
    /\ ~clib_dll /\ mode = "alone"
    /\ clib_dll' = ("procs" \in files)
    /\ Goto(p, "clib", IF clib_dll' THEN "look" ELSE "returned")
    /\ UNCHANGED <<given, files, rc_data, config, holders, rings, suite>>

\* c_lib_init over the C library: CLIB_DLL_FILE is None and nothing sets it, so
\* the interpreter's own symbols are loaded, which have no get_last_error: the
\* exception resets _clib_dll.
ClibRaises(p) ==
    /\ ~clib_dll /\ mode = "library"
    /\ Goto(p, "clib", "returned")
    /\ UNCHANGED <<given, files, globals, config, holders, rings, suite>>

-----------------------------------------------------------------------------
(* main_run: the configuration                                              *)

\* Mutant: the availability test looks at one of the three files.
Asked_First == <<"procs", "procs", "procs", "procs", "actions">>

\* The files asked for: three by is_running_config_available, then
\* get_proc_plugins_conf and get_actions_conf.
Asked == <<"procs", "actions", "bindings", "procs", "actions">>

Waiting(p) == call[p] <= 3

\* A call of get_global_rc, by the helper for the path or for the name.
Look(p) ==
    /\ Goto(p, "look", "take")
    /\ FillRc
    /\ UNCHANGED <<given, files, clib_dll, config, holders, rings, suite>>

\* One helper has its answer.  Without a file the availability loop sleeps and
\* begins again, and the other two go on with an empty dictionary.
Answer(p, found) ==
    LET again == Waiting(p) /\ ~found IN
    /\ part' = [part EXCEPT ![p] = "path"]
    /\ call' = [call EXCEPT ![p] = IF again THEN 1 ELSE @ + 1]
    /\ known' = [known EXCEPT ![p] =
                   IF found /\ ~Waiting(p) THEN @ \cup {Asked[call[p]]} ELSE @]
    /\ Goto(p, "take", IF ~again /\ call[p] = Len(Asked) THEN "register" ELSE "look")

\* get_config_path returns an empty path for empty data.
TakeNoPath(p) ==
    /\ part[p] = "path" /\ ~rc_data
    /\ Answer(p, FALSE)

TakePath(p) ==
    /\ part[p] = "path" /\ rc_data
    /\ Goto(p, "take", "look")
    /\ part' = [part EXCEPT ![p] = "name"]
    /\ UNCHANGED <<call, known>>

\* The name is looked up in empty data: KeyError.
TakeNoName(p) ==
    /\ part[p] = "name" /\ ~rc_data
    /\ Goto(p, "take", "died")
    /\ UNCHANGED config

TakeName(p) ==
    /\ part[p] = "name" /\ rc_data
    /\ Answer(p, Asked[call[p]] \in files)

\* get_global_rc returns the global, which may have been emptied since.
Take(p) ==
    /\ TakeNoPath(p) \/ TakePath(p) \/ TakeNoName(p) \/ TakeName(p)
    /\ UNCHANGED <<given, files, globals, holders, rings, suite>>

-----------------------------------------------------------------------------
(* main_run: registrations and plugins                                      *)

\* A full ring refuses the message, which nobody looks at.
Send(p, m) ==
    IF Len(stream[p]) < CacheLimit
    THEN /\ stream' = [stream EXCEPT ![p] = Append(@, m)]
         /\ sent' = [sent EXCEPT ![p] = @ \cup {m}]
    ELSE UNCHANGED rings

Register(p) ==
    /\ Goto(p, "register", "load")
    /\ Send(p, "client")
    /\ UNCHANGED <<given, files, globals, config, holders, suite>>

plugins(p) == IF "procs" \in known[p] THEN Plugins[p] ELSE <<>>
NextPlugin(p)   == plugins(p)[at[p] + 1]
More(p)    == at[p] < Len(plugins(p))
IsDisabled(p) == "actions" \in known[p] /\ NextPlugin(p) \in disabled

SkipDisabled(p) ==
    /\ Goto(p, "load", "load") /\ More(p) /\ IsDisabled(p)
    /\ at' = [at EXCEPT ![p] = @ + 1]
    /\ UNCHANGED <<given, files, globals, config, loaded, spent, rings, suite>>

\* The holder is not valid: its plugin cannot be imported or constructed, has
\* another name, or finds itself invalid.
LoadInvalid(p) ==
    /\ Goto(p, "load", "failed") /\ More(p) /\ ~IsDisabled(p)
    /\ UNCHANGED <<given, files, globals, config, holders, rings, suite>>

\* The constructor of the holder has registered the action.
RegisterAction(p) ==
    /\ Goto(p, "load", "pipe") /\ More(p) /\ ~IsDisabled(p)
    /\ Send(p, NextPlugin(p))
    /\ UNCHANGED <<given, files, globals, config, holders, suite>>

SetPipe(p) ==
    /\ Goto(p, "pipe", "load")
    /\ loaded' = [loaded EXCEPT ![p] = @ \cup {NextPlugin(p)}]
    /\ at' = [at EXCEPT ![p] = @ + 1]
    /\ UNCHANGED <<given, files, globals, config, spent, rings, suite>>

LoopIfLoaded(p, from) == Goto(p, from, IF loaded[p] = {} THEN "failed" ELSE "loop")

\* os.pipe() raises: loading ends, and main_run goes on with what it has.
PipeRaises(p) ==
    /\ LoopIfLoaded(p, "pipe")
    /\ spent' = [spent EXCEPT ![p] = TRUE]
    /\ UNCHANGED <<given, files, globals, config, at, loaded, rings, suite>>

LoadDone(p) ==
    /\ LoopIfLoaded(p, "load") /\ ~More(p)
    /\ UNCHANGED <<given, files, globals, config, holders, rings, suite>>

Start(p) ==
    \/ SetRcFile(p) \/ SetPaths(p)
    \/ ClibLoaded(p) \/ ClibMocked(p) \/ ClibRaises(p)
    \/ Look(p) \/ Take(p)
    \/ Register(p) \/ SkipDisabled(p) \/ LoadInvalid(p)
    \/ RegisterAction(p) \/ SetPipe(p) \/ PipeRaises(p) \/ LoadDone(p)

-----------------------------------------------------------------------------
(* MAIN of the suite, and the tool that writes the configuration            *)

\* run_a_testcase writes the files, sets the global rc file, and loads the mock
\* library, which reads the configuration.
Setup ==
    /\ main = "setup" /\ main' = "threads"
    /\ files' = Files /\ rc_data' = TRUE /\ clib_dll' = TRUE
    /\ UNCHANGED <<given, pc, config, holders, rings, turn, rcnt, reg_conf>>

\* Mutant: the client registration is not counted.
RegistrationsOf_Actions(p) == Len(Plugins[p])

RegistrationsOf(p) == 1 + Len(Plugins[p])

\* _load_procs, one thread at a time.  After the last one the count to wait for
\* is set, to that of the last process.
LoadProc ==
    /\ main = "threads"
    /\ turn' = turn + 1
    /\ Goto(turn + 1, "unborn", "main")
    /\ IF turn' < n
       THEN UNCHANGED <<main, rcnt>>
       ELSE main' = "vet" /\ rcnt' = RegistrationsOf(n)
    /\ UNCHANGED <<given, files, globals, config, holders, rings, reg_conf>>

\* Mutant: the ring of the first process only is read.
First_Only(p) == p = 1 /\ stream[p] # <<>>

\* server_read_request takes the first ring that has a message.
First(p) == stream[p] # <<>> /\ \A q \in 1..(p - 1) : stream[q] = <<>>

\* The registration is one to expect: of a new client, or of a new action of a
\* client that is known.
Expected(p, m) == m \notin reg_conf[p] /\ (m # "client" => "client" \in reg_conf[p])

VetRead(p) ==
    LET m  == Head(stream[p])
        ok == Expected(p, m)
    IN
    /\ main = "vet" /\ rcnt > 0 /\ First(p)
    /\ stream' = [stream EXCEPT ![p] = Tail(@)]
    /\ reg_conf' = IF ok THEN [reg_conf EXCEPT ![p] = @ \cup {m}] ELSE reg_conf
    /\ rcnt' = IF ok THEN rcnt - 1 ELSE rcnt
    /\ main' = IF ok THEN main ELSE "compare"
    /\ UNCHANGED <<given, files, globals, pc, config, holders, sent, turn>>

\* Ten seconds have passed, and no ring has a message.
VetTimeout ==
    /\ main = "vet" /\ rcnt > 0 /\ \A p \in Procs : stream[p] = <<>>
    /\ main' = "compare"
    /\ UNCHANGED <<given, files, globals, pc, config, holders, rings, turn, rcnt, reg_conf>>

\* Mutant: clients are compared, and not their actions.
Vetted_Clients == \A p \in 1..n : "client" \in reg_conf[p]

Vetted == \A p \in 1..n : reg_conf[p] = Wanted(p)

\* The comparison with procs_conf: the test goes on to its engine, or ends.
Compare ==
    /\ main = "compare" \/ (main = "vet" /\ rcnt = 0)
    /\ main' = IF Vetted THEN "engine" ELSE "quit"
    /\ UNCHANGED <<given, files, globals, pc, config, holders, rings, turn, rcnt, reg_conf>>

Main == Setup \/ LoadProc \/ VetTimeout \/ Compare \/ \E p \in Procs : VetRead(p)

\* The tool that makes the running configuration, of which no code exists yet.
Provide ==
    /\ mode # "suite"
    /\ \E f \in Files \ files : files' = files \cup {f}
    /\ UNCHANGED <<given, globals, pc, config, holders, rings, suite>>

Next == Main \/ Provide \/ \E p \in Procs : Start(p)

Spec == Init /\ [][Next]_vars

\* Threads run, reads of MAIN have a timeout, and the configuration gets there.
Fairness == /\ \A p \in Procs : WF_vars(Start(p))
            /\ WF_vars(Main) /\ WF_vars(Provide)

FairSpec == Spec /\ Fairness

-----------------------------------------------------------------------------
(* Properties                                                               *)

Places == {"unborn", "main", "paths", "clib", "look", "take", "register",
           "load", "pipe", "loop", "failed", "died", "returned"}

Messages == UNION {Wanted(p) : p \in Procs}

TypeOK ==
    /\ mode \in Modes /\ n \in Procs /\ disabled \in DisabledSets
    /\ files \subseteq Files
    /\ rc_data \in BOOLEAN /\ clib_dll \in BOOLEAN
    /\ pc \in [Procs -> Places]
    /\ call \in [Procs -> 1..(Len(Asked) + 1)]
    /\ part \in [Procs -> {"path", "name"}]
    /\ known \in [Procs -> SUBSET Files]
    /\ at \in [Procs -> Nat]
    /\ \A p \in Procs : at[p] <= Len(plugins(p))
    /\ loaded \in [Procs -> SUBSET Messages]
    /\ \A p \in Procs : loaded[p] \subseteq Wanted(p)
    /\ spent \in [Procs -> BOOLEAN]
    /\ sent \in [Procs -> SUBSET Messages]
    /\ \A p \in Procs : sent[p] \subseteq Wanted(p)
    /\ stream \in [Procs -> Seq(Messages)]
    /\ \A p \in Procs : stream[p] \in Seq(Wanted(p)) /\ Len(stream[p]) <= CacheLimit
    /\ main \in {"absent", "setup", "threads", "vet", "compare", "engine", "quit"}
    /\ turn \in 0..n
    /\ rcnt \in Nat
    /\ reg_conf \in [Procs -> SUBSET Messages]
    /\ \A p \in Procs : reg_conf[p] \subseteq Wanted(p)

\* MAIN starts its engine only when each process has registered as a client and
\* with all its actions, and then no process has ended, but for want of a pipe:
\* what MAIN has read tells it that much of threads it never looks at.
EngineIsServed ==
    main = "engine" => \A p \in 1..n :
        /\ Wanted(p) \subseteq sent[p]
        /\ pc[p] \in {"failed", "died"} => spent[p]
        /\ pc[p] \in {"load", "pipe", "loop", "failed", "died"}

\* The vetting of a single process ends without success only if a registration
\* it waits for has not been taken by the ring by then.
QuitOnlyOnMissing ==
    [][n = 1 /\ main = "vet" /\ main' \in {"compare", "quit"} =>
           ~(Wanted(1) \subseteq sent[1])]_vars

\* A process that is alone in its interpreter loads, in the order of the
\* configuration, all its plugins that are not disabled and none that is, up to
\* the one it has no pipe for, whenever the configuration files appear.
LoadedAsConfigured ==
    \A p \in Procs :
        n = 1 /\ pc[p] = "loop" =>
            /\ loaded[p] = {Plugins[p][i] : i \in 1..at[p]} \ disabled
            /\ at[p] = Len(Plugins[p]) \/ spent[p]

\* "Expect the config to be available, else sleep until available"
\* (README.local): no process ends on its way to the configuration, or goes on
\* without a part of it.
ConfigIsFound ==
    \A p \in Procs :
        /\ pc[p] = "died" => loaded[p] # {}
        /\ call[p] > Len(Asked) => known[p] = {"procs", "actions"}

\* Each process that is started ends up in its reading loop or gives up.
Settles ==
    \A p \in Procs :
        pc[p] = "main" ~> pc[p] \in {"loop", "failed", "died", "returned"}

\* MAIN comes to a decision, whatever the threads it waits for do.
Decides == main = "setup" ~> main \in {"engine", "quit"}
=============================================================================
