----------------------------- MODULE ProcStartProofs -----------------------------
(***************************************************************************)
(* Proofs about ProcStart, for any number of processes, any configuration  *)
(* and rings of any size.  The inductive invariant follows each process    *)
(* through its start: what it has sent it has loaded, or was about to when *)
(* it ran out of pipes, and what MAIN has read it has sent.                *)
(***************************************************************************)
EXTENDS ProcStart, TLAPS

Early == {"unborn", "main", "paths", "clib", "look", "take", "register",
          "returned"}
Asking == {"unborn", "main", "paths", "clib", "look", "take"}

Listed(p) == {Plugins[p][i] : i \in 1..at[p]}

\* The action that is registered and not yet, or never, loaded.
Registered(p) ==
    IF pc[p] = "pipe" \/ spent[p] THEN {Plugins[p][i] : i \in {at[p] + 1}} ELSE {}

Progress(p) ==
    /\ pc[p] \in Early => at[p] = 0 /\ loaded[p] = {} /\ sent[p] = {} /\ ~spent[p]
    /\ pc[p] \in Asking => call[p] <= 5
    /\ pc[p] = "pipe" => More(p) /\ ~IsDisabled(p)
    /\ spent[p] => pc[p] \in {"loop", "failed", "died"}
    /\ pc[p] = "died" /\ ~spent[p] => sent[p] = {}
    /\ loaded[p] \subseteq Listed(p)
    /\ sent[p] \subseteq {"client"} \cup loaded[p] \cup Registered(p)
    /\ pc[p] = "failed" /\ ~spent[p] => at[p] < Len(Plugins[p]) \/ loaded[p] = {}

\* MAIN reads what was sent.
Received(p) ==
    /\ reg_conf[p] \subseteq sent[p]
    /\ \A k \in 1..Len(stream[p]) : stream[p][k] \in sent[p]

\* What MAIN has found out, and whom it has not started.
Decided ==
    /\ main = "engine" => Vetted
    /\ main \in {"setup", "threads"} => turn < n
    /\ \A q \in Procs : q > n => pc[q] = "unborn"

\* What holds of a process that is alone in its interpreter.
Alone ==
    n = 1 =>
        /\ \A q \in Procs \ {1} : pc[q] = "unborn"
        /\ pc[1] \notin {"unborn", "main", "paths"} => rc_data
        /\ \A k \in 1..3 : k < call[1] => Asked[k] \in files
        /\ \A k \in 4..5 : k < call[1] => Asked[k] \in known[1]
        /\ pc[1] \in {"register", "load", "pipe", "loop", "failed"} => call[1] = 6
        /\ pc[1] \in {"load", "pipe", "loop"} => loaded[1] = Listed(1) \ disabled
        /\ pc[1] = "loop" => at[1] = Len(Plugins[1]) \/ spent[1]

IInv == /\ TypeOK /\ Decided /\ Alone
        /\ \A p \in Procs : Progress(p) /\ Received(p)

-----------------------------------------------------------------------------
(* The constants                                                            *)

\* The configuration of a process is a sequence of its actions.
LEMMA PluginsType ==
    ASSUME NEW p \in Procs
    PROVE  /\ Len(Plugins[p]) \in Nat /\ Len(Plugins[p]) >= 1
           /\ \A i \in 1..Len(Plugins[p]) : Plugins[p][i] \in Wanted(p)
           /\ \A i \in 1..Len(Plugins[p]) : Plugins[p][i] # "client"
           /\ \A i, j \in 1..Len(Plugins[p]) : i # j => Plugins[p][i] # Plugins[p][j]
           /\ plugins(p) = Plugins[p] \/ (plugins(p) = <<>> /\ Len(plugins(p)) = 0)
           /\ Len(plugins(p)) \in Nat /\ Len(plugins(p)) <= Len(Plugins[p])
           /\ "procs" \in known[p] => plugins(p) = Plugins[p]
           /\ \A i \in 1..Len(plugins(p)) : plugins(p)[i] = Plugins[p][i]
<1>1. /\ Len(Plugins[p]) \in Nat \ {0}
      /\ \A i \in 1..Len(Plugins[p]) :
            Plugins[p][i] # "client" /\ \A j \in 1..(i - 1) : Plugins[p][i] # Plugins[p][j]
  BY StartAssumption
<1>2. ASSUME NEW i \in 1..Len(Plugins[p]), NEW j \in 1..Len(Plugins[p]), i # j
      PROVE  Plugins[p][i] # Plugins[p][j]
  <2>1. i < j \/ j < i
    BY <1>1, <1>2
  <2>2. i < j => i \in 1..(j - 1)
    BY <1>1
  <2>3. j < i => j \in 1..(i - 1)
    BY <1>1
  <2> QED BY <1>1, <2>1, <2>2, <2>3
<1> QED BY <1>1, <1>2 DEF Wanted, plugins

\* What one process sends is a message.
LEMMA MessagesType ==
    ASSUME NEW p \in Procs
    PROVE  Wanted(p) \subseteq Messages /\ Seq(Wanted(p)) \subseteq Seq(Messages)
<1>1. Wanted(p) \subseteq Messages
  BY DEF Messages
<1>2. ASSUME NEW s \in Seq(Wanted(p)) PROVE s \in Seq(Messages)
  <2> DEFINE W == Wanted(p)
  <2>1. s \in Seq(W) /\ W \subseteq Messages
    BY <1>1
  <2> HIDE DEF W
  <2> QED BY <2>1
<1> QED BY <1>1, <1>2

LEMMA InitInv == Init => IInv
<1> SUFFICES ASSUME Init PROVE IInv
  OBVIOUS
<1>0. N \in Nat \ {0} /\ 1 \in Procs /\ CacheLimit \in Nat \ {0}
  BY StartAssumption DEF Procs
<1>1. TypeOK
  <2>1. n \in Procs
    BY <1>0 DEF Init
  <2>2. \A p \in Procs : at[p] <= Len(plugins(p))
    BY PluginsType DEF Init
  <2>3. files \subseteq Files /\ pc \in [Procs -> Places]
    BY DEF Init, Places
  <2>4. call \in [Procs -> 1..(Len(Asked) + 1)]
    BY DEF Init, Asked
  <2>5. turn \in 0..n
    BY <2>1 DEF Init, Procs
  <2>6. \A p \in Procs : stream[p] \in Seq(Wanted(p)) /\ Len(stream[p]) <= CacheLimit
    BY <1>0 DEF Init
  <2>7. /\ loaded \in [Procs -> SUBSET Messages] /\ sent \in [Procs -> SUBSET Messages]
        /\ stream \in [Procs -> Seq(Messages)] /\ reg_conf \in [Procs -> SUBSET Messages]
    BY DEF Init
  <2> QED BY <2>1, <2>2, <2>3, <2>4, <2>5, <2>6, <2>7 DEF Init, TypeOK
<1>2. Decided
  BY <1>0 DEF Decided, Init, Procs
<1>3. Alone
  BY <1>0 DEF Alone, Init
<1>4. ASSUME NEW p \in Procs PROVE Progress(p) /\ Received(p)
  BY DEF Init, Progress, Received, Early, Asking, Listed, Registered
<1> QED BY <1>1, <1>2, <1>3, <1>4 DEF IInv

-----------------------------------------------------------------------------
(* Steps of a process                                                       *)

\* What a process has is left alone.
Same(q) ==
    /\ pc'[q] = pc[q] /\ call'[q] = call[q] /\ known'[q] = known[q]
    /\ at'[q] = at[q] /\ loaded'[q] = loaded[q] /\ spent'[q] = spent[q]
    /\ sent'[q] = sent[q] /\ stream'[q] = stream[q] /\ reg_conf'[q] = reg_conf[q]
    /\ disabled' = disabled

LEMMA SameKeeps ==
    ASSUME NEW q \in Procs, Progress(q), Received(q), Same(q)
    PROVE  Progress(q)' /\ Received(q)'
<1>1. plugins(q)' = plugins(q)
  BY DEF plugins, Same
<1>2. More(q)' = More(q) /\ IsDisabled(q)' = IsDisabled(q)
  BY <1>1 DEF More, IsDisabled, NextPlugin, Same
<1>3. Listed(q)' = Listed(q) /\ Registered(q)' = Registered(q)
  BY DEF Listed, Registered, Same
<1>4. Progress(q)'
  BY <1>2, <1>3 DEF Progress, Same
<1>5. Received(q)'
  BY DEF Received, Same
<1> QED BY <1>4, <1>5

\* A step of one process keeps the invariant if it keeps the types and what is
\* said of that process.
LEMMA StartKeeps ==
    ASSUME IInv, NEW p \in Procs, pc[p] # "unborn",
           UNCHANGED <<given, suite>>, \A q \in Procs \ {p} : Same(q),
           TypeOK', Progress(p)', Received(p)', n = 1 /\ p = 1 => Alone'
    PROVE  IInv'
<1>1. Decided'
  BY DEF IInv, Decided, Vetted, given, suite, Wanted, Same
<1>2. Alone'
  BY DEF IInv, Alone, given
<1>3. \A q \in Procs : Progress(q)' /\ Received(q)'
  BY SameKeeps DEF IInv
<1> QED BY <1>1, <1>2, <1>3 DEF IInv

\* The steps up to the configuration.
LEMMA PathInv ==
    ASSUME IInv, NEW p \in Procs,
           \/ SetRcFile(p) \/ SetPaths(p) \/ ClibLoaded(p)
           \/ ClibMocked(p) \/ ClibRaises(p) \/ Look(p)
    PROVE  IInv'
<1> USE DEF SetRcFile, SetPaths, ClibLoaded, ClibMocked, ClibRaises, Look, Goto, FillRc
<1>1. /\ TypeOK /\ Progress(p) /\ Received(p) /\ Alone
  BY DEF IInv
<1>2. /\ UNCHANGED <<given, files, config, holders, rings, suite>>
      /\ pc[p] \in {"main", "paths", "clib", "look"}
      /\ pc' = [pc EXCEPT ![p] = pc'[p]]
      /\ pc'[p] \in {"paths", "clib", "look", "returned", "take"}
      /\ pc[p] = "main" => pc'[p] = "paths"
  <2>1. pc \in [Procs -> Places]
    BY <1>1 DEF TypeOK
  <2> QED BY <2>1
<1>10. /\ rc_data' \in BOOLEAN /\ clib_dll' \in BOOLEAN
       /\ pc[p] \in {"paths", "look"} => rc_data'
       /\ pc[p] = "clib" => rc_data' = rc_data
  <2>1. rc_data \in BOOLEAN /\ clib_dll \in BOOLEAN
    BY <1>1 DEF TypeOK
  <2>2. \/ pc[p] = "main" /\ rc_data' = FALSE /\ clib_dll' = clib_dll
        \/ pc[p] \in {"paths", "look"} /\ rc_data' = TRUE /\ clib_dll' = clib_dll
        \/ pc[p] = "clib" /\ rc_data' = rc_data /\ clib_dll' = clib_dll
        \/ pc[p] = "clib" /\ rc_data' = rc_data /\ clib_dll' = ("procs" \in files)
    BY DEF globals
  <2>3. rc_data' \in BOOLEAN /\ clib_dll' \in BOOLEAN
    <3>1. /\ rc_data' = FALSE \/ rc_data' = TRUE \/ rc_data' = rc_data
          /\ clib_dll' = clib_dll \/ clib_dll' = ("procs" \in files)
      BY <2>2
    <3>2. ("procs" \in files) \in BOOLEAN
      OBVIOUS
    <3>3. rc_data' \in BOOLEAN
      BY <2>1, <3>1, Zenon
    <3>4. clib_dll' \in BOOLEAN
      BY <2>1, <3>1, <3>2, Zenon
    <3> QED BY <3>3, <3>4
  <2>4. pc[p] \in {"paths", "look"} => rc_data'
    BY <2>2
  <2>5. pc[p] = "clib" => rc_data' = rc_data
    BY <2>2
  <2> QED BY <2>3, <2>4, <2>5
<1> USE DEF given, config, holders, rings, suite
<1>3. TypeOK'
  <2>1. \A q \in Procs : plugins(q)' = plugins(q) /\ Wanted(q)' = Wanted(q)
    BY <1>2 DEF plugins, Wanted
  <2>2. pc' \in [Procs -> Places]
    BY <1>1, <1>2 DEF TypeOK, Places
  <2> QED BY <1>1, <1>2, <1>10, <2>1, <2>2 DEF TypeOK, Messages
<1>4. Progress(p)' /\ Received(p)'
  <2>1. Progress(p)'
    BY <1>1, <1>2 DEF Progress, Early, Asking, Listed, Registered
  <2> QED BY <1>1, <1>2, <2>1 DEF Received
<1>5. n = 1 /\ p = 1 => Alone'
  BY <1>1, <1>2, <1>10 DEF Alone, Listed, TypeOK
<1>6. \A q \in Procs \ {p} : Same(q)
  BY <1>1, <1>2 DEF Same, TypeOK
<1> QED BY <1>2, <1>3, <1>4, <1>5, <1>6, StartKeeps

\* The answers of the configuration helpers.
LEMMA TakeInv ==
    ASSUME IInv, NEW p \in Procs, Take(p)
    PROVE  IInv'
<1>1. /\ TypeOK /\ Progress(p) /\ Received(p) /\ Alone /\ pc[p] = "take"
  BY DEF IInv, Take, TakeNoPath, TakePath, TakeNoName, TakeName, Answer, Goto
<1>2. UNCHANGED <<given, files, globals, holders, rings, suite>>
  BY DEF Take
<1> DEFINE Answered(found) ==
        /\ call' = [call EXCEPT ![p] = IF Waiting(p) /\ ~found THEN 1 ELSE call[p] + 1]
        /\ known' = [known EXCEPT ![p] = IF found /\ ~Waiting(p)
                                        THEN known[p] \cup {Asked[call[p]]} ELSE known[p]]
        /\ pc' = [pc EXCEPT ![p] = IF ~(Waiting(p) /\ ~found) /\ call[p] = 5
                                  THEN "register" ELSE "look"]
        /\ part' = [part EXCEPT ![p] = "path"]
<1>3. \/ UNCHANGED <<call, known>> /\ pc' = [pc EXCEPT ![p] = "look"]
         /\ part' = [part EXCEPT ![p] = "name"]
      \/ ~rc_data /\ UNCHANGED config /\ pc' = [pc EXCEPT ![p] = "died"]
      \/ ~rc_data /\ Answered(FALSE)
      \/ Asked[call[p]] \in files /\ Answered(TRUE)
      \/ Asked[call[p]] \notin files /\ Answered(FALSE)
  <2>1. Len(Asked) = 5
    BY DEF Asked
  <2>2. CASE TakeNoPath(p)
    BY <2>1, <2>2 DEF TakeNoPath, Answer, Goto
  <2>3. CASE TakeName(p)
    <3>1. CASE Asked[call[p]] \in files
      BY <2>1, <2>3, <3>1 DEF TakeName, Answer, Goto
    <3>2. CASE Asked[call[p]] \notin files
      BY <2>1, <2>3, <3>2 DEF TakeName, Answer, Goto
    <3> QED BY <3>1, <3>2
  <2>4. CASE TakePath(p)
    BY <2>4 DEF TakePath, Goto
  <2>5. CASE TakeNoName(p)
    BY <2>5 DEF TakeNoName, Goto
  <2> QED BY <2>2, <2>3, <2>4, <2>5 DEF Take
<1>4. /\ call[p] \in 1..5 /\ at[p] = 0 /\ loaded[p] = {} /\ sent[p] = {} /\ ~spent[p]
      /\ Asked[call[p]] \in Files
  BY <1>1 DEF Progress, Early, Asking, TypeOK, Asked, Files
<1>5. /\ call' \in [Procs -> 1..6] /\ (call'[p] <= 5 \/ pc'[p] = "register")
      /\ known' \in [Procs -> SUBSET Files]
      /\ part' \in [Procs -> {"path", "name"}]
      /\ pc' \in [Procs -> Places] /\ pc'[p] \in {"look", "died", "register"}
      /\ \A q \in Procs \ {p} : pc'[q] = pc[q] /\ call'[q] = call[q] /\ known'[q] = known[q]
  <2>1. call \in [Procs -> 1..6] /\ known \in [Procs -> SUBSET Files]
        /\ part \in [Procs -> {"path", "name"}] /\ pc \in [Procs -> Places]
    BY <1>1 DEF TypeOK, Asked
  <2>2. ASSUME NEW b \in BOOLEAN, Answered(b)
        PROVE  /\ call' \in [Procs -> 1..6] /\ (call'[p] <= 5 \/ pc'[p] = "register")
               /\ known' \in [Procs -> SUBSET Files]
               /\ part' \in [Procs -> {"path", "name"}]
               /\ pc' \in [Procs -> Places] /\ pc'[p] \in {"look", "died", "register"}
               /\ \A q \in Procs \ {p} :
                      pc'[q] = pc[q] /\ call'[q] = call[q] /\ known'[q] = known[q]
    BY <1>4, <2>1, <2>2 DEF Places, Waiting
  <2>3. CASE Answered(TRUE)
    BY <2>2, <2>3
  <2>4. CASE Answered(FALSE)
    BY <2>2, <2>4
  <2>5. CASE UNCHANGED <<call, known>> /\ pc' = [pc EXCEPT ![p] = "look"]
             /\ part' = [part EXCEPT ![p] = "name"]
    BY <1>4, <2>1, <2>5 DEF Places
  <2>6. CASE UNCHANGED config /\ pc' = [pc EXCEPT ![p] = "died"]
    BY <1>4, <2>1, <2>6 DEF Places, config
  <2> HIDE DEF Answered
  <2> QED BY <1>3, <2>3, <2>4, <2>5, <2>6
<1> USE DEF given, globals, holders, rings, suite
<1>6. TypeOK'
  <2>1. \A q \in Procs : at'[q] <= Len(plugins(q)')
    <3>1. \A q \in Procs \ {p} : at'[q] <= Len(plugins(q)')
      BY <1>1, <1>2, <1>5 DEF TypeOK, plugins
    <3>2. at'[p] <= Len(plugins(p)')
      BY <1>2, <1>4, PluginsType DEF plugins
    <3> QED BY <3>1, <3>2
  <2>2. call' \in [Procs -> 1..(Len(Asked) + 1)]
    <3>1. Len(Asked) = 5
      BY DEF Asked
    <3> QED BY <1>5, <3>1
  <2>3. \A q \in Procs : Wanted(q)' = Wanted(q)
    BY DEF Wanted
  <2> QED BY <1>1, <1>2, <1>5, <2>1, <2>2, <2>3 DEF TypeOK, Messages
<1>7. Progress(p)' /\ Received(p)'
  <2>1. Progress(p)'
    BY <1>2, <1>4, <1>5 DEF Progress, Early, Asking, Listed, Registered
  <2> QED BY <1>1, <1>2, <2>1 DEF Received
<1>8. n = 1 /\ p = 1 => Alone'
  <2> SUFFICES ASSUME n = 1, p = 1 PROVE Alone'
    OBVIOUS
  <2>1. rc_data /\ pc[1] = "take"
    BY <1>1 DEF Alone
  <2>2. \A q \in Procs \ {1} : pc'[q] = "unborn"
    BY <1>1, <1>5 DEF Alone
  <2>3. /\ \A k \in 1..3 : k < call'[1] => Asked[k] \in files'
        /\ \A k \in 4..5 : k < call'[1] => Asked[k] \in known'[1]
        /\ pc'[1] = "register" => call'[1] = 6
    <3>0. /\ \A k \in 1..3 : k < call[1] => Asked[k] \in files
          /\ \A k \in 4..5 : k < call[1] => Asked[k] \in known[1]
          /\ call \in [Procs -> 1..6] /\ known \in [Procs -> SUBSET Files]
          /\ pc \in [Procs -> Places]
          /\ Asked[4] = Asked[1] /\ Asked[5] = Asked[2]
      BY <1>1 DEF Alone, TypeOK, Asked
    <3>1. CASE UNCHANGED <<call, known>> /\ pc' = [pc EXCEPT ![p] = "look"]
      BY <1>2, <3>0, <3>1
    <3>2. CASE Asked[call[p]] \in files /\ Answered(TRUE)
      BY <1>2, <1>4, <3>0, <3>2 DEF Waiting
    <3>3. CASE Asked[call[p]] \notin files /\ Answered(FALSE)
      BY <1>2, <1>4, <3>0, <3>3 DEF Waiting
    <3> QED BY <1>3, <2>1, <3>1, <3>2, <3>3
  <2> QED BY <1>2, <1>3, <1>5, <2>1, <2>2, <2>3 DEF Alone
<1>9. \A q \in Procs \ {p} : Same(q)
  BY <1>2, <1>5 DEF Same
<1> QED BY <1>1, <1>2, <1>6, <1>7, <1>8, <1>9, StartKeeps

\* What a process sends its ring takes or refuses.
LEMMA SendType ==
    ASSUME TypeOK, NEW p \in Procs, NEW m \in Wanted(p), Send(p, m), Received(p)
    PROVE  /\ sent'[p] \subseteq sent[p] \cup {m}
           /\ sent[p] \subseteq sent'[p]
           /\ sent' = [sent EXCEPT ![p] = sent'[p]]
           /\ stream'[p] \in Seq(Wanted(p)) /\ Len(stream'[p]) <= CacheLimit
           /\ stream' = [stream EXCEPT ![p] = stream'[p]]
           /\ \A k \in 1..Len(stream'[p]) : stream'[p][k] \in sent'[p]
<1>0. /\ stream[p] \in Seq(Wanted(p)) /\ Len(stream[p]) <= CacheLimit
      /\ DOMAIN sent = Procs /\ DOMAIN stream = Procs
      /\ CacheLimit \in Nat
      /\ sent = [q \in Procs |-> sent[q]] /\ stream = [q \in Procs |-> stream[q]]
  BY StartAssumption DEF TypeOK
<1>1. CASE Len(stream[p]) < CacheLimit
  <2>1. /\ stream' = [stream EXCEPT ![p] = Append(stream[p], m)]
        /\ sent' = [sent EXCEPT ![p] = sent[p] \cup {m}]
    BY <1>1 DEF Send
  <2>2. /\ Append(stream[p], m) \in Seq(Wanted(p))
        /\ Len(Append(stream[p], m)) = Len(stream[p]) + 1
        /\ Append(stream[p], m)[Len(stream[p]) + 1] = m
        /\ \A k \in 1..Len(stream[p]) : Append(stream[p], m)[k] = stream[p][k]
        /\ Len(stream[p]) \in Nat
    BY <1>0
  <2>3. stream'[p] = Append(stream[p], m) /\ sent'[p] = sent[p] \cup {m}
    BY <1>0, <2>1
  <2>4. \A k \in 1..(Len(stream[p]) + 1) : Append(stream[p], m)[k] \in sent[p] \cup {m}
    BY <2>2 DEF Received
  <2> QED BY <1>0, <1>1, <2>1, <2>2, <2>3, <2>4
<1>2. CASE ~(Len(stream[p]) < CacheLimit)
  BY <1>0, <1>2 DEF Send, rings, Received
<1> QED BY <1>1, <1>2

\* The registration of the client.
LEMMA RegisterInv ==
    ASSUME IInv, NEW p \in Procs, Register(p)
    PROVE  IInv'
<1> USE DEF given, globals, config, holders, suite, Goto
<1>1. TypeOK /\ Progress(p) /\ Received(p) /\ Alone /\ pc \in [Procs -> Places]
  BY DEF IInv, TypeOK
<1>2. /\ UNCHANGED <<given, files, globals, config, holders, suite>>
      /\ pc[p] = "register" /\ pc' = [pc EXCEPT ![p] = "load"] /\ pc'[p] = "load"
  BY <1>1 DEF Register
<1>3. /\ sent'[p] \subseteq sent[p] \cup {"client"}
      /\ sent[p] \subseteq sent'[p]
      /\ sent' = [sent EXCEPT ![p] = sent'[p]]
      /\ stream'[p] \in Seq(Wanted(p)) /\ Len(stream'[p]) <= CacheLimit
      /\ stream' = [stream EXCEPT ![p] = stream'[p]]
      /\ \A k \in 1..Len(stream'[p]) : stream'[p][k] \in sent'[p]
  <2>1. "client" \in Wanted(p) /\ Send(p, "client")
    BY DEF Wanted, Register
  <2> QED BY <1>1, <2>1, SendType
<1>4. \A q \in Procs \ {p} : Same(q)
  BY <1>1, <1>2, <1>3 DEF Same, TypeOK
<1>5. \A q \in Procs : plugins(q)' = plugins(q) /\ Wanted(q)' = Wanted(q)
  BY <1>2 DEF plugins, Wanted
<1>6. TypeOK'
  <2>1. pc' \in [Procs -> Places]
    BY <1>1, <1>2 DEF Places
  <2>2. \A q \in Procs : /\ sent'[q] \subseteq Wanted(q)
                        /\ stream'[q] \in Seq(Wanted(q)) /\ Len(stream'[q]) <= CacheLimit
    <3>1. "client" \in Wanted(p)
      BY DEF Wanted
    <3> QED BY <1>1, <1>3, <1>4, <3>1 DEF TypeOK, Same
  <2>3. sent' \in [Procs -> SUBSET Messages] /\ stream' \in [Procs -> Seq(Messages)]
    BY <1>1, <1>3, <2>2, MessagesType DEF TypeOK
  <2> QED BY <1>1, <1>2, <1>5, <2>1, <2>2, <2>3 DEF TypeOK, Messages
<1>7. Progress(p)'
  BY <1>1, <1>2, <1>3 DEF Progress, Early, Asking, Listed, Registered
<1>8. Received(p)'
  BY <1>1, <1>2, <1>3 DEF Received
<1>9. n = 1 /\ p = 1 => Alone'
  <2> SUFFICES ASSUME n = 1, p = 1 PROVE Alone'
    OBVIOUS
  <2>1. at[1] = 0 /\ loaded[1] = {}
    BY <1>1, <1>2 DEF Progress, Early
  <2>2. Listed(1)' = {}
    BY <1>2, <2>1 DEF Listed
  <2> QED BY <1>1, <1>2, <2>1, <2>2 DEF Alone
<1> QED BY <1>2, <1>4, <1>6, <1>7, <1>8, <1>9, StartKeeps

\* The registration of an action.
LEMMA RegisterActionInv ==
    ASSUME IInv, NEW p \in Procs, RegisterAction(p)
    PROVE  IInv'
<1> USE DEF given, globals, config, holders, suite, Goto
<1>1. TypeOK /\ Progress(p) /\ Received(p) /\ Alone /\ pc \in [Procs -> Places]
  BY DEF IInv, TypeOK
<1>2. /\ UNCHANGED <<given, files, globals, config, holders, suite>>
      /\ pc[p] = "load" /\ pc' = [pc EXCEPT ![p] = "pipe"] /\ pc'[p] = "pipe"
      /\ More(p) /\ ~IsDisabled(p)
  BY <1>1 DEF RegisterAction
<1>3. /\ at[p] + 1 \in 1..Len(plugins(p)) /\ NextPlugin(p) = Plugins[p][at[p] + 1]
      /\ NextPlugin(p) \in Wanted(p)
  <2>1. at[p] \in Nat
    BY <1>1 DEF TypeOK
  <2>2. at[p] + 1 \in 1..Len(plugins(p)) /\ at[p] + 1 \in 1..Len(Plugins[p])
    BY <1>2, <2>1, PluginsType DEF More
  <2> QED BY <2>2, PluginsType DEF NextPlugin
<1>4. /\ sent'[p] \subseteq sent[p] \cup {NextPlugin(p)}
      /\ sent[p] \subseteq sent'[p]
      /\ sent' = [sent EXCEPT ![p] = sent'[p]]
      /\ stream'[p] \in Seq(Wanted(p)) /\ Len(stream'[p]) <= CacheLimit
      /\ stream' = [stream EXCEPT ![p] = stream'[p]]
      /\ \A k \in 1..Len(stream'[p]) : stream'[p][k] \in sent'[p]
  <2>1. Send(p, NextPlugin(p))
    BY DEF RegisterAction
  <2> QED BY <1>1, <1>3, <2>1, SendType
<1>5. \A q \in Procs \ {p} : Same(q)
  BY <1>1, <1>2, <1>4 DEF Same, TypeOK
<1>6. \A q \in Procs : plugins(q)' = plugins(q) /\ Wanted(q)' = Wanted(q)
  BY <1>2 DEF plugins, Wanted
<1>7. TypeOK'
  <2>1. pc' \in [Procs -> Places]
    BY <1>1, <1>2 DEF Places
  <2>2. \A q \in Procs : /\ sent'[q] \subseteq Wanted(q)
                        /\ stream'[q] \in Seq(Wanted(q)) /\ Len(stream'[q]) <= CacheLimit
    BY <1>1, <1>3, <1>4, <1>5 DEF TypeOK, Same
  <2>3. sent' \in [Procs -> SUBSET Messages] /\ stream' \in [Procs -> Seq(Messages)]
    BY <1>1, <1>4, <2>2, MessagesType DEF TypeOK
  <2> QED BY <1>1, <1>2, <1>6, <2>1, <2>2, <2>3 DEF TypeOK, Messages
<1>8. Progress(p)'
  <2>1. Registered(p)' = {NextPlugin(p)}
    BY <1>2, <1>3 DEF Registered
  <2>2. sent[p] \subseteq {"client"} \cup loaded[p]
    BY <1>1, <1>2 DEF Progress, Registered
  <2>3. More(p)' /\ ~IsDisabled(p)'
    BY <1>2, <1>6 DEF More, IsDisabled, NextPlugin
  <2>4. Listed(p)' = Listed(p) /\ loaded' = loaded /\ spent' = spent
    BY <1>2 DEF Listed
  <2> QED BY <1>1, <1>2, <1>4, <2>1, <2>2, <2>3, <2>4 DEF Progress, Early, Asking
<1>9. Received(p)'
  BY <1>1, <1>2, <1>4 DEF Received
<1>10. n = 1 /\ p = 1 => Alone'
  <2>1. Listed(1)' = Listed(1)
    BY <1>2 DEF Listed
  <2> QED BY <1>1, <1>2, <2>1 DEF Alone
<1> QED BY <1>2, <1>5, <1>7, <1>8, <1>9, <1>10, StartKeeps

\* The steps that go on to the next plugin.
LEMMA NextPluginInv ==
    ASSUME IInv, NEW p \in Procs, SkipDisabled(p) \/ SetPipe(p)
    PROVE  IInv'
<1> USE DEF given, globals, config, rings, suite, Goto
<1>1. TypeOK /\ Progress(p) /\ Received(p) /\ Alone /\ pc \in [Procs -> Places]
      /\ at \in [Procs -> Nat]
  BY DEF IInv, TypeOK
<1>2. /\ UNCHANGED <<given, files, globals, config, spent, rings, suite>>
      /\ pc[p] \in {"load", "pipe"} /\ pc' = [pc EXCEPT ![p] = "load"] /\ pc'[p] = "load"
      /\ at' = [at EXCEPT ![p] = at[p] + 1] /\ at'[p] = at[p] + 1
      /\ More(p)
      /\ \/ pc[p] = "load" /\ IsDisabled(p) /\ loaded' = loaded
         \/ /\ pc[p] = "pipe" /\ ~IsDisabled(p)
            /\ loaded' = [loaded EXCEPT ![p] = loaded[p] \cup {NextPlugin(p)}]
  BY <1>1 DEF SkipDisabled, SetPipe, Progress
<1>3. /\ at[p] + 1 \in 1..Len(plugins(p)) /\ NextPlugin(p) = Plugins[p][at[p] + 1]
      /\ NextPlugin(p) \in Wanted(p) /\ at[p] + 1 \in 1..Len(Plugins[p])
  <2>1. at[p] + 1 \in 1..Len(plugins(p)) /\ at[p] + 1 \in 1..Len(Plugins[p])
    BY <1>1, <1>2, PluginsType DEF More
  <2> QED BY <2>1, PluginsType DEF NextPlugin
<1>4. \A q \in Procs \ {p} : Same(q)
  BY <1>1, <1>2 DEF Same, TypeOK
<1>5. \A q \in Procs : plugins(q)' = plugins(q) /\ Wanted(q)' = Wanted(q)
  BY <1>2 DEF plugins, Wanted
<1>6. Listed(p)' = Listed(p) \cup {NextPlugin(p)}
  <2>1. 1..(at[p] + 1) = 1..at[p] \cup {at[p] + 1}
    BY <1>1
  <2> QED BY <1>2, <1>3, <2>1 DEF Listed
<1>7. TypeOK'
  <2>1. pc' \in [Procs -> Places] /\ at' \in [Procs -> Nat]
    BY <1>1, <1>2 DEF Places
  <2>2. \A q \in Procs : at'[q] <= Len(plugins(q)')
    BY <1>1, <1>2, <1>3, <1>4, <1>5 DEF TypeOK, Same
  <2>3. \A q \in Procs : loaded'[q] \subseteq Wanted(q)
    <3>1. loaded'[p] \subseteq loaded[p] \cup {NextPlugin(p)}
      BY <1>1, <1>2 DEF TypeOK
    <3> QED BY <1>1, <1>3, <1>4, <3>1 DEF TypeOK, Same
  <2>4. loaded' \in [Procs -> SUBSET Messages]
    <3>1. loaded'[p] \in SUBSET Messages
      BY <2>3, MessagesType
    <3> QED BY <1>1, <1>2, <3>1 DEF TypeOK
  <2> QED BY <1>1, <1>2, <1>5, <2>1, <2>2, <2>3, <2>4 DEF TypeOK, Messages
<1>8. Progress(p)'
  <2>1. loaded'[p] \subseteq Listed(p)'
    BY <1>1, <1>2, <1>6 DEF Progress, TypeOK
  <2>2. Registered(p) \subseteq {NextPlugin(p)} /\ Registered(p)' = {}
    BY <1>1, <1>2, <1>3 DEF Registered, Progress
  <2>3. sent'[p] \subseteq {"client"} \cup loaded'[p]
    <3>1. CASE pc[p] = "load"
      BY <1>1, <1>2, <3>1 DEF Progress, Registered
    <3>2. CASE pc[p] = "pipe"
      BY <1>1, <1>2, <2>2, <3>2 DEF Progress, TypeOK
    <3> QED BY <1>2, <3>1, <3>2
  <2>4. ~spent[p] /\ spent' = spent
    BY <1>1, <1>2 DEF Progress
  <2> QED BY <1>2, <2>1, <2>2, <2>3, <2>4 DEF Progress, Early, Asking
<1>9. Received(p)'
  BY <1>1, <1>2 DEF Received
<1>10. n = 1 /\ p = 1 => Alone'
  <2> SUFFICES ASSUME n = 1, p = 1 PROVE Alone'
    OBVIOUS
  <2>1. known[1] = {"procs", "actions"} \/ {"procs", "actions"} \subseteq known[1]
    BY <1>1, <1>2 DEF Alone, Asked
  <2>2. loaded[1] = Listed(1) \ disabled
    BY <1>1, <1>2 DEF Alone
  <2>3. loaded'[1] = Listed(1)' \ disabled
    BY <1>1, <1>2, <1>6, <2>1, <2>2 DEF IsDisabled, TypeOK
  <2> QED BY <1>1, <1>2, <2>3 DEF Alone
<1> QED BY <1>2, <1>4, <1>7, <1>8, <1>9, <1>10, StartKeeps

\* Loading ends: with a plugin that is not valid, at the last one, or for want of
\* a pipe.
LEMMA LoadEndInv ==
    ASSUME IInv, NEW p \in Procs, LoadInvalid(p) \/ LoadDone(p) \/ PipeRaises(p)
    PROVE  IInv'
<1> USE DEF given, globals, config, rings, suite, Goto
<1>1. TypeOK /\ Progress(p) /\ Received(p) /\ Alone /\ pc \in [Procs -> Places]
      /\ at \in [Procs -> Nat]
  BY DEF IInv, TypeOK
<1>2. /\ UNCHANGED <<given, files, globals, config, at, loaded, rings, suite>>
      /\ pc' = [pc EXCEPT ![p] = pc'[p]] /\ pc'[p] \in {"loop", "failed"}
      /\ \/ pc[p] = "load" /\ More(p) /\ pc'[p] = "failed" /\ spent' = spent
         \/ /\ pc[p] = "load" /\ ~More(p) /\ spent' = spent
            /\ pc'[p] = "failed" => loaded[p] = {}
         \/ pc[p] = "pipe" /\ spent' = [spent EXCEPT ![p] = TRUE]
  BY <1>1 DEF LoadInvalid, LoadDone, PipeRaises, LoopIfLoaded, holders
<1>3. \A q \in Procs \ {p} : Same(q)
  BY <1>1, <1>2 DEF Same, TypeOK
<1>4. \A q \in Procs : plugins(q)' = plugins(q) /\ Wanted(q)' = Wanted(q)
  BY <1>2 DEF plugins, Wanted
<1>5. spent[p] = FALSE /\ spent' \in [Procs -> BOOLEAN]
  BY <1>1, <1>2, Zenon DEF Progress, TypeOK
<1>6. TypeOK'
  <2>1. pc' \in [Procs -> Places]
    BY <1>1, <1>2 DEF Places
  <2> QED BY <1>1, <1>2, <1>4, <1>5, <2>1 DEF TypeOK, Messages
<1>7. Progress(p)'
  <2>1. Listed(p)' = Listed(p)
    BY <1>2 DEF Listed
  <2>2. CASE pc[p] = "load"
    <3>1. ~spent[p] /\ ~spent'[p] /\ sent[p] \subseteq {"client"} \cup loaded[p]
      BY <1>1, <1>2, <1>5, <2>2 DEF Registered, Progress
    <3>2. More(p) => at[p] < Len(Plugins[p])
      BY <1>1, PluginsType DEF More
    <3> QED BY <1>1, <1>2, <2>1, <2>2, <3>1, <3>2 DEF Progress, Early, Asking
  <2>3. CASE pc[p] = "pipe"
    <3>1. spent'[p] /\ Registered(p)' = Registered(p)
      BY <1>1, <1>2, <2>3 DEF Registered, TypeOK
    <3> QED BY <1>1, <1>2, <2>1, <2>3, <3>1 DEF Progress, Early, Asking
  <2> QED BY <1>2, <2>2, <2>3
<1>8. Received(p)'
  BY <1>1, <1>2 DEF Received
<1>9. n = 1 /\ p = 1 => Alone'
  <2> SUFFICES ASSUME n = 1, p = 1 PROVE Alone'
    OBVIOUS
  <2>1. Listed(1)' = Listed(1)
    BY <1>2 DEF Listed
  <2>2. "procs" \in known[1]
    BY <1>1, <1>2 DEF Alone, Asked
  <2>3. pc'[1] = "loop" => at[1] = Len(Plugins[1]) \/ spent'[1]
    <3>1. CASE pc[1] = "load" /\ ~More(1)
      BY <1>1, <2>2, <3>1, PluginsType DEF More, TypeOK
    <3>2. CASE pc[1] = "pipe"
      BY <1>1, <1>2, <3>2 DEF TypeOK
    <3> QED BY <1>2, <3>1, <3>2
  <2> QED BY <1>1, <1>2, <2>1, <2>3 DEF Alone
<1> QED BY <1>1, <1>2, <1>3, <1>6, <1>7, <1>8, <1>9, StartKeeps

-----------------------------------------------------------------------------
(* Steps of MAIN, and of the configuration's tool                           *)

\* More files, and the state of the suite's globals after its setup.
LEMMA FilesInv ==
    ASSUME IInv, Setup \/ Provide
    PROVE  IInv'
<1> USE DEF given, globals, config, holders, rings
<1>1. TypeOK /\ Decided /\ Alone /\ \A p \in Procs : Progress(p) /\ Received(p)
  BY DEF IInv
<1>2. /\ UNCHANGED <<given, pc, config, holders, rings, turn, rcnt, reg_conf>>
      /\ files \subseteq files' /\ files' \subseteq Files
      /\ rc_data' \/ rc_data' = rc_data
      /\ main' = main \/ (main = "setup" /\ main' = "threads")
  BY <1>1 DEF Setup, Provide, suite, TypeOK
<1>3. rc_data' \in BOOLEAN /\ clib_dll' \in BOOLEAN
  <2>1. rc_data \in BOOLEAN /\ clib_dll \in BOOLEAN
    BY <1>1 DEF TypeOK
  <2>2. /\ rc_data' = TRUE \/ rc_data' = rc_data
        /\ clib_dll' = TRUE \/ clib_dll' = clib_dll
    BY DEF Setup, Provide
  <2>3. rc_data' \in BOOLEAN
    BY <2>1, <2>2, Zenon
  <2>4. clib_dll' \in BOOLEAN
    BY <2>1, <2>2, Zenon
  <2> QED BY <2>3, <2>4
<1>4. TypeOK'
  <2>1. \A q \in Procs : plugins(q)' = plugins(q) /\ Wanted(q)' = Wanted(q)
    BY <1>2 DEF plugins, Wanted
  <2> QED BY <1>1, <1>2, <1>3, <2>1 DEF TypeOK, Messages
<1>5. Decided'
  BY <1>1, <1>2 DEF Decided, Vetted, Wanted
<1>6. Alone'
  <2>1. Listed(1)' = Listed(1)
    BY <1>2 DEF Listed
  <2> QED BY <1>1, <1>2, <2>1 DEF Alone
<1>7. \A q \in Procs : Progress(q)' /\ Received(q)'
  BY <1>1, <1>2, SameKeeps DEF Same
<1> QED BY <1>4, <1>5, <1>6, <1>7 DEF IInv

\* A thread is started.
LEMMA LoadProcInv ==
    ASSUME IInv, LoadProc
    PROVE  IInv'
<1> USE DEF given, globals, config, holders, rings
<1>1. TypeOK /\ Decided /\ Alone /\ \A p \in Procs : Progress(p) /\ Received(p)
  BY DEF IInv
<1>2. PICK p \in Procs : p = turn + 1 /\ p \in 1..n
  BY <1>1, StartAssumption DEF LoadProc, Decided, TypeOK, Procs
<1>3. /\ UNCHANGED <<given, files, globals, config, holders, rings, reg_conf>>
      /\ pc[p] = "unborn" /\ pc' = [pc EXCEPT ![p] = "main"] /\ pc'[p] = "main"
      /\ turn' = p /\ main = "threads"
      /\ (p < n /\ UNCHANGED <<main, rcnt>>) \/ (main' = "vet" /\ rcnt' = RegistrationsOf(n))
      /\ \A q \in Procs \ {p} : Same(q)
  BY <1>1, <1>2 DEF LoadProc, Goto, TypeOK, Same
<1>4. TypeOK'
  <2>1. \A q \in Procs : plugins(q)' = plugins(q) /\ Wanted(q)' = Wanted(q)
    BY <1>3 DEF plugins, Wanted
  <2>2. pc' \in [Procs -> Places]
    BY <1>1, <1>3 DEF TypeOK, Places
  <2>3. rcnt' \in Nat
    BY <1>1, <1>3, PluginsType DEF TypeOK, RegistrationsOf
  <2> QED BY <1>1, <1>2, <1>3, <2>1, <2>2, <2>3 DEF TypeOK, Messages
<1>5. Decided'
  BY <1>1, <1>2, <1>3 DEF Decided, TypeOK, Procs
<1>6. Alone'
  <2> SUFFICES ASSUME n = 1 PROVE Alone'
    BY <1>3 DEF Alone
  <2>1. p = 1
    BY <1>2
  <2> QED BY <1>1, <1>3, <2>1 DEF Alone, Same
<1>7. Progress(p)' /\ Received(p)'
  <2>1. Progress(p)'
    BY <1>1, <1>3 DEF Progress, Early, Asking, Listed, Registered
  <2> QED BY <1>1, <1>3, <2>1 DEF Received
<1> QED BY <1>1, <1>3, <1>4, <1>5, <1>6, <1>7, SameKeeps DEF IInv

\* MAIN reads a registration, of those that were sent.
LEMMA VetReadInv ==
    ASSUME IInv, NEW p \in Procs, VetRead(p)
    PROVE  IInv'
<1> USE DEF given, globals, config, holders
<1> DEFINE m == Head(stream[p])
<1>1. TypeOK /\ Decided /\ Alone /\ \A q \in Procs : Progress(q) /\ Received(q)
  BY DEF IInv
<1>2. /\ UNCHANGED <<given, files, globals, pc, config, holders, sent, turn>>
      /\ main' \in {"vet", "compare"} /\ stream[p] # <<>>
      /\ stream' = [stream EXCEPT ![p] = Tail(stream[p])]
      /\ reg_conf' = reg_conf \/ reg_conf' = [reg_conf EXCEPT ![p] = reg_conf[p] \cup {m}]
      /\ rcnt' \in Nat
  BY <1>1 DEF VetRead, First, TypeOK
<1>3. /\ m \in sent[p] /\ m \in Wanted(p) /\ stream[p] \in Seq(Wanted(p))
      /\ Tail(stream[p]) \in Seq(Wanted(p)) /\ Len(Tail(stream[p])) = Len(stream[p]) - 1
      /\ \A k \in 1..Len(Tail(stream[p])) : Tail(stream[p])[k] \in sent[p]
  <2>1. stream[p] \in Seq(Wanted(p)) /\ \A k \in 1..Len(stream[p]) : stream[p][k] \in sent[p]
    BY <1>1 DEF Received, TypeOK
  <2>2. /\ Tail(stream[p]) \in Seq(Wanted(p)) /\ Len(Tail(stream[p])) = Len(stream[p]) - 1
        /\ Len(stream[p]) \in Nat \ {0} /\ m = stream[p][1]
        /\ \A k \in 1..Len(Tail(stream[p])) : Tail(stream[p])[k] = stream[p][k + 1]
    BY <1>2, <2>1
  <2>3. \A k \in 1..Len(Tail(stream[p])) : k + 1 \in 1..Len(stream[p])
    BY <2>2
  <2>4. 1 \in 1..Len(stream[p])
    BY <2>2
  <2>5. m \in sent[p] /\ m \in Wanted(p)
    BY <1>1, <2>1, <2>2, <2>4 DEF TypeOK
  <2> QED BY <2>1, <2>2, <2>3, <2>5
<1> HIDE DEF m
<1>4. \A q \in Procs : plugins(q)' = plugins(q) /\ Wanted(q)' = Wanted(q)
  BY <1>2 DEF plugins, Wanted
<1>5. /\ stream'[p] = Tail(stream[p]) /\ reg_conf'[p] \subseteq reg_conf[p] \cup {m}
      /\ \A q \in Procs \ {p} : stream'[q] = stream[q] /\ reg_conf'[q] = reg_conf[q]
  BY <1>1, <1>2 DEF TypeOK
<1>6. TypeOK'
  <2>1. \A q \in Procs : /\ stream'[q] \in Seq(Wanted(q)) /\ Len(stream'[q]) <= CacheLimit
                        /\ reg_conf'[q] \subseteq Wanted(q)
    <3>1. Len(stream[p]) <= CacheLimit /\ CacheLimit \in Nat /\ Len(stream[p]) \in Nat
      BY <1>1, <1>3, StartAssumption DEF TypeOK
    <3>2. Len(Tail(stream[p])) <= CacheLimit
      BY <1>3, <3>1
    <3> QED BY <1>1, <1>3, <1>5, <3>2 DEF TypeOK
  <2>2. stream' \in [Procs -> Seq(Messages)] /\ reg_conf' \in [Procs -> SUBSET Messages]
    <3>1. stream'[p] \in Seq(Messages) /\ reg_conf'[p] \in SUBSET Messages
      BY <2>1, MessagesType
    <3>2. DOMAIN stream' = Procs /\ DOMAIN reg_conf' = Procs
          /\ stream' = [q \in Procs |-> stream'[q]] /\ reg_conf' = [q \in Procs |-> reg_conf'[q]]
      BY <1>1, <1>2 DEF TypeOK
    <3> QED BY <2>1, <3>2, MessagesType
  <2> QED BY <1>1, <1>2, <1>4, <2>1, <2>2 DEF TypeOK, Messages
<1>7. Decided'
  BY <1>1, <1>2 DEF Decided
<1>8. Alone'
  <2>1. Listed(1)' = Listed(1)
    BY <1>2 DEF Listed
  <2> QED BY <1>1, <1>2, <2>1 DEF Alone
<1>9. ASSUME NEW q \in Procs PROVE Progress(q)' /\ Received(q)'
  <2>1. Progress(q)'
    <3>1. Listed(q)' = Listed(q) /\ Registered(q)' = Registered(q)
      BY <1>2 DEF Listed, Registered
    <3>2. More(q)' = More(q) /\ IsDisabled(q)' = IsDisabled(q)
      BY <1>2, <1>4 DEF More, IsDisabled, NextPlugin
    <3> QED BY <1>1, <1>2, <3>1, <3>2 DEF Progress
  <2>2. Received(q)'
    BY <1>1, <1>2, <1>3, <1>5 DEF Received
  <2> QED BY <2>1, <2>2
<1> QED BY <1>6, <1>7, <1>8, <1>9 DEF IInv

\* MAIN ends its vetting, or stutters.
LEMMA VetEndInv ==
    ASSUME IInv, VetTimeout \/ Compare \/ UNCHANGED vars
    PROVE  IInv'
<1> USE DEF given, globals, config, holders, rings, suite
<1>1. TypeOK /\ Decided /\ Alone /\ \A p \in Procs : Progress(p) /\ Received(p)
  BY DEF IInv
<1>2. /\ UNCHANGED <<given, files, globals, pc, config, holders, rings, turn, rcnt, reg_conf>>
      /\ main' = main \/ main' \in {"compare", "quit"} \/ (Vetted /\ main' = "engine")
  BY DEF VetTimeout, Compare, vars
<1>3. TypeOK'
  <2>1. \A q \in Procs : plugins(q)' = plugins(q) /\ Wanted(q)' = Wanted(q)
    BY <1>2 DEF plugins, Wanted
  <2> QED BY <1>1, <1>2, <2>1 DEF TypeOK, Messages
<1>4. Decided'
  BY <1>1, <1>2 DEF Decided, Vetted, Wanted
<1>5. Alone'
  <2>1. Listed(1)' = Listed(1)
    BY <1>2 DEF Listed
  <2> QED BY <1>1, <1>2, <2>1 DEF Alone
<1>6. \A q \in Procs : Progress(q)' /\ Received(q)'
  BY <1>1, <1>2, SameKeeps DEF Same
<1> QED BY <1>3, <1>4, <1>5, <1>6 DEF IInv

\* Every step keeps the invariant.
LEMMA NextInv == IInv /\ [Next]_vars => IInv'
<1> SUFFICES ASSUME IInv, [Next]_vars PROVE IInv'
  OBVIOUS
<1>1. ASSUME NEW p \in Procs, Start(p) PROVE IInv'
  BY <1>1, PathInv, TakeInv, RegisterInv, RegisterActionInv, NextPluginInv, LoadEndInv DEF Start
<1>2. CASE Main
  BY <1>2, FilesInv, LoadProcInv, VetReadInv, VetEndInv DEF Main
<1>3. CASE Provide
  BY <1>3, FilesInv
<1>4. CASE UNCHANGED vars
  BY <1>4, VetEndInv
<1> QED BY <1>1, <1>2, <1>3, <1>4 DEF Next

\* What MAIN has read, a process has sent, and it sends all of it only if it gets
\* through its plugins.
LEMMA ServedByInv == IInv => EngineIsServed
<1> SUFFICES ASSUME IInv, main = "engine", NEW p \in 1..n
             PROVE  /\ Wanted(p) \subseteq sent[p]
                    /\ pc[p] \in {"failed", "died"} => spent[p]
                    /\ pc[p] \in {"load", "pipe", "loop", "failed", "died"}
  BY DEF EngineIsServed
<1>1. p \in Procs
  BY StartAssumption DEF IInv, TypeOK, Procs
<1>2. Progress(p) /\ Received(p) /\ reg_conf[p] = Wanted(p) /\ TypeOK
  BY <1>1 DEF IInv, Decided, Vetted
<1>3. Wanted(p) \subseteq sent[p]
  BY <1>2 DEF Received
<1>4. /\ pc[p] \in {"load", "pipe", "loop", "failed", "died"}
      /\ pc[p] = "died" => spent[p]
  BY <1>1, <1>2, <1>3 DEF Progress, Early, Wanted, TypeOK, Places
<1>5. ASSUME pc[p] = "failed", ~spent[p] PROVE FALSE
  <2>1. Wanted(p) \subseteq {"client"} \cup loaded[p]
    BY <1>2, <1>3, <1>5 DEF Progress, Registered
  <2>2. at[p] \in Nat /\ Len(Plugins[p]) \in Nat
    BY <1>1, <1>2, PluginsType DEF TypeOK
  <2>3. PICK k \in 1..Len(Plugins[p]) : Plugins[p][k] \notin loaded[p]
    <3>1. CASE loaded[p] = {}
      BY <1>1, <3>1, PluginsType
    <3>2. CASE at[p] < Len(Plugins[p])
      <4>1. at[p] + 1 \in 1..Len(Plugins[p])
        BY <2>2, <3>2
      <4>2. \A i \in 1..at[p] : i \in 1..Len(Plugins[p]) /\ i # at[p] + 1
        BY <2>2, <3>2
      <4>3. Plugins[p][at[p] + 1] \notin Listed(p)
        BY <1>1, <4>1, <4>2, PluginsType DEF Listed
      <4> QED BY <1>2, <4>1, <4>3 DEF Progress
    <3> QED BY <1>2, <1>5, <3>1, <3>2 DEF Progress
  <2>4. Plugins[p][k] \in Wanted(p) /\ Plugins[p][k] # "client"
    BY <1>1, PluginsType
  <2> QED BY <2>1, <2>3, <2>4
<1> QED BY <1>3, <1>4, <1>5

\* What the invariant says of a process alone.
LEMMA LoadedByInv == IInv => LoadedAsConfigured
<1> SUFFICES ASSUME IInv, NEW p \in Procs, n = 1, pc[p] = "loop"
             PROVE  /\ loaded[p] = {Plugins[p][i] : i \in 1..at[p]} \ disabled
                    /\ at[p] = Len(Plugins[p]) \/ spent[p]
  BY DEF LoadedAsConfigured
<1>1. p = 1
  BY DEF IInv, Alone
<1> QED BY <1>1 DEF IInv, Alone, Listed

-----------------------------------------------------------------------------
(* The registrations of a process alone                                     *)

\* The k-th message that process 1 sends, if it has no plugin disabled.
Nth(k) == IF k = 1 THEN "client" ELSE Plugins[1][k - 1]

\* The messages it has sent, or tried to, or gone past.
Tried ==
    IF pc[1] \in Early THEN 0
    ELSE IF pc[1] = "pipe" \/ spent[1] THEN at[1] + 2 ELSE at[1] + 1

AllTaken == \A k \in 1..Tried : Nth(k) \in sent[1]

\* The messages MAIN has counted.
Got == IF main = "vet" THEN RegistrationsOf(1) - rcnt ELSE 0

\* As long as the ring has taken every message, MAIN has counted the first of
\* them and has the others before it, in order.
InOrder ==
    n = 1 /\ main \in {"setup", "threads", "vet"} =>
        /\ pc[1] # "died" /\ Tried <= RegistrationsOf(1)
        /\ main # "vet" => pc[1] = "unborn" /\ reg_conf[1] = {}
        /\ main = "vet" => rcnt <= RegistrationsOf(1)
        /\ AllTaken => /\ Len(stream[1]) + Got = Tried
                       /\ \A j \in 1..Len(stream[1]) : stream[1][j] = Nth(Got + j)
                       /\ reg_conf[1] = {Nth(k) : k \in 1..Got}

LEMMA NthFacts ==
    /\ 1 \in Procs /\ RegistrationsOf(1) \in Nat /\ RegistrationsOf(1) >= 2
    /\ \A k \in 1..RegistrationsOf(1) : Nth(k) \in Wanted(1)
    /\ \A m \in Wanted(1) : \E k \in 1..RegistrationsOf(1) : m = Nth(k)
    /\ \A j, k \in 1..RegistrationsOf(1) : j # k => Nth(j) # Nth(k)
<1>1. 1 \in Procs
  BY StartAssumption DEF Procs
<1> DEFINE l == Len(Plugins[1])
<1>2. /\ l \in Nat /\ l >= 1 /\ RegistrationsOf(1) = l + 1
      /\ \A i \in 1..l : Plugins[1][i] \in Wanted(1) /\ Plugins[1][i] # "client"
      /\ \A i, j \in 1..l : i # j => Plugins[1][i] # Plugins[1][j]
  BY <1>1, PluginsType DEF RegistrationsOf
<1>3. \A k \in 1..(l + 1) : k # 1 => k - 1 \in 1..l
  BY <1>2
<1>4. \A k \in 1..(l + 1) : Nth(k) \in Wanted(1)
  BY <1>2, <1>3 DEF Nth, Wanted
<1>5. ASSUME NEW m \in Wanted(1) PROVE \E k \in 1..(l + 1) : m = Nth(k)
  <2>1. CASE m = "client"
    <3>1. 1 \in 1..(l + 1) /\ Nth(1) = m
      BY <1>2, <2>1 DEF Nth
    <3> QED BY <3>1
  <2>2. CASE m # "client"
    <3>1. PICK i \in 1..l : m = Plugins[1][i]
      BY <2>2 DEF Wanted
    <3>2. i + 1 \in 1..(l + 1) /\ i + 1 # 1 /\ (i + 1) - 1 = i
      BY <1>2, <3>1
    <3>3. Nth(i + 1) = m
      BY <3>1, <3>2 DEF Nth
    <3> QED BY <3>2, <3>3
  <2> QED BY <2>1, <2>2
<1>6. ASSUME NEW j \in 1..(l + 1), NEW k \in 1..(l + 1), j # k PROVE Nth(j) # Nth(k)
  <2>1. j # 1 /\ k # 1 => j - 1 # k - 1
    BY <1>2, <1>6
  <2> QED BY <1>2, <1>3, <1>6, <2>1 DEF Nth
<1>7. l \in Nat /\ l >= 1 /\ RegistrationsOf(1) = l + 1
  BY <1>2
<1> HIDE DEF l
<1> QED BY <1>1, <1>4, <1>5, <1>6, <1>7

\* What is sent has been tried, so that the next message is not sent yet.
LEMMA NotTried ==
    ASSUME IInv, pc[1] # "died"
    PROVE  /\ Tried \in Nat
           /\ \A m \in sent[1] : \E k \in 1..Tried : m = Nth(k)
           /\ Tried < RegistrationsOf(1) => Nth(Tried + 1) \notin sent[1]
<1>1. 1 \in Procs /\ Progress(1) /\ at[1] \in Nat /\ spent[1] \in BOOLEAN
  BY NthFacts DEF IInv, TypeOK
<1>2. Tried \in Nat
  BY <1>1 DEF Tried
<1>3. ASSUME NEW m \in sent[1] PROVE \E k \in 1..Tried : m = Nth(k)
  <2>1. pc[1] \notin Early /\ m \in {"client"} \cup Listed(1) \cup Registered(1)
    BY <1>1 DEF Progress
  <2>2. Tried >= at[1] + 1 /\ (Registered(1) # {} => Tried = at[1] + 2)
    BY <1>1, <2>1 DEF Tried, Registered
  <2>3. CASE m = "client"
    <3>1. 1 \in 1..Tried /\ Nth(1) = m
      BY <1>1, <1>2, <2>2, <2>3 DEF Nth
    <3> QED BY <3>1
  <2>4. CASE m \in Listed(1)
    <3>1. PICK i \in 1..at[1] : m = Plugins[1][i]
      BY <2>4 DEF Listed
    <3>2. i + 1 \in 1..Tried /\ i + 1 # 1 /\ (i + 1) - 1 = i
      BY <1>1, <1>2, <2>2, <3>1
    <3>3. Nth(i + 1) = m
      BY <3>1, <3>2 DEF Nth
    <3> QED BY <3>2, <3>3
  <2>5. CASE m \in Registered(1)
    <3>1. m = Plugins[1][at[1] + 1] /\ Tried = at[1] + 2
      BY <2>2, <2>5 DEF Registered
    <3>2. at[1] + 2 \in 1..Tried /\ at[1] + 2 # 1 /\ (at[1] + 2) - 1 = at[1] + 1
      BY <1>1, <3>1
    <3>3. Nth(at[1] + 2) = m
      BY <3>1, <3>2 DEF Nth
    <3> QED BY <3>2, <3>3
  <2> QED BY <2>1, <2>3, <2>4, <2>5
<1>4. ASSUME Tried < RegistrationsOf(1), Nth(Tried + 1) \in sent[1] PROVE FALSE
  <2>1. PICK k \in 1..Tried : Nth(Tried + 1) = Nth(k)
    BY <1>3, <1>4
  <2>2. k \in 1..RegistrationsOf(1) /\ Tried + 1 \in 1..RegistrationsOf(1) /\ k # Tried + 1
    BY <1>2, <1>4, <2>1, NthFacts
  <2> QED BY <2>1, <2>2, NthFacts
<1> QED BY <1>2, <1>3, <1>4

\* A step of process 1 that sends nothing keeps the order: either it goes past no
\* message, or past one that is never sent.
LEMMA SilentInOrder ==
    ASSUME IInv, InOrder, UNCHANGED <<n, main, rcnt, reg_conf, sent, stream>>,
           n = 1 /\ main = "vet" => pc'[1] # "died",
           main # "vet" => pc'[1] = pc[1],
           \/ Tried' = Tried
           \/ Tried' = Tried + 1 /\ Tried < RegistrationsOf(1)
    PROVE  InOrder'
<1> SUFFICES ASSUME n = 1, main \in {"setup", "threads", "vet"} PROVE InOrder'
  BY DEF InOrder
<1>1. /\ pc[1] # "died" /\ pc'[1] # "died" /\ Tried <= RegistrationsOf(1)
      /\ main # "vet" => pc'[1] = "unborn" /\ reg_conf'[1] = {}
  BY DEF InOrder
<1>2. Got' = Got /\ RegistrationsOf(1)' = RegistrationsOf(1)
  BY DEF Got, RegistrationsOf
<1>3. CASE Tried' = Tried
  <2>1. AllTaken' => AllTaken
    BY <1>3 DEF AllTaken, Nth
  <2> QED BY <1>1, <1>2, <1>3, <2>1 DEF InOrder, Nth
<1>4. CASE Tried' = Tried + 1 /\ Tried < RegistrationsOf(1)
  <2>1. Tried \in Nat /\ Nth(Tried + 1) \notin sent[1]
    BY <1>1, <1>4, NotTried
  <2>2. Tried + 1 \in 1..Tried'
    BY <1>4, <2>1
  <2>3. ~AllTaken'
    BY <2>1, <2>2 DEF AllTaken, Nth
  <2>4. Tried' <= RegistrationsOf(1)
    BY <1>4, <2>1, NthFacts
  <2> QED BY <1>1, <1>2, <2>3, <2>4 DEF InOrder, Nth
<1> QED BY <1>3, <1>4

\* So does one that sends the next message, taken or refused.
LEMMA SendInOrder ==
    ASSUME IInv, InOrder, n = 1, main = "vet", UNCHANGED <<n, main, rcnt, reg_conf>>,
           pc'[1] # "died", Tried < RegistrationsOf(1), Tried' = Tried + 1,
           Send(1, Nth(Tried + 1))
    PROVE  InOrder'
<1>1. /\ pc[1] # "died" /\ rcnt <= RegistrationsOf(1)
      /\ Got' = Got /\ RegistrationsOf(1)' = RegistrationsOf(1)
      /\ rcnt \in Nat /\ RegistrationsOf(1) \in Nat /\ Got \in Nat
  BY NthFacts DEF InOrder, Got, RegistrationsOf, IInv, TypeOK
<1>2. Tried \in Nat /\ Nth(Tried + 1) \notin sent[1]
  BY <1>1, NotTried
<1>3. /\ stream[1] \in Seq(Wanted(1)) /\ Nth(Tried + 1) \in Wanted(1)
      /\ DOMAIN stream = Procs /\ DOMAIN sent = Procs /\ 1 \in Procs
  <2>1. Tried + 1 \in 1..RegistrationsOf(1)
    BY <1>1, <1>2
  <2> QED BY <2>1, NthFacts DEF IInv, TypeOK
<1>4. Tried' <= RegistrationsOf(1)
  BY <1>1, <1>2
<1>5. CASE Len(stream[1]) < CacheLimit
  <2>1. /\ stream'[1] = Append(stream[1], Nth(Tried + 1))
        /\ sent'[1] = sent[1] \cup {Nth(Tried + 1)}
    BY <1>3, <1>5 DEF Send
  <2>2. ASSUME AllTaken' PROVE AllTaken
    <3> SUFFICES ASSUME NEW k \in 1..Tried PROVE Nth(k) \in sent[1]
      BY DEF AllTaken
    <3>1. k \in 1..Tried' /\ k # Tried + 1
      BY <1>2
    <3>2. Nth(k) \in sent'[1]
      BY <2>2, <3>1 DEF AllTaken, Nth
    <3>3. k \in 1..RegistrationsOf(1) /\ Tried + 1 \in 1..RegistrationsOf(1)
      BY <1>1, <1>2
    <3>4. Nth(k) # Nth(Tried + 1)
      BY <3>1, <3>3, NthFacts
    <3> QED BY <2>1, <3>2, <3>4
  <2>3. /\ Len(stream'[1]) = Len(stream[1]) + 1 /\ Len(stream[1]) \in Nat
        /\ stream'[1][Len(stream[1]) + 1] = Nth(Tried + 1)
        /\ \A j \in 1..Len(stream[1]) : stream'[1][j] = stream[1][j]
    BY <1>3, <2>1
  <2>4. ASSUME AllTaken'
        PROVE  /\ Len(stream'[1]) + Got = Tried + 1
               /\ \A j \in 1..Len(stream'[1]) : stream'[1][j] = Nth(Got + j)
               /\ reg_conf[1] = {Nth(k) : k \in 1..Got}
    <3>1. /\ Len(stream[1]) + Got = Tried
          /\ \A j \in 1..Len(stream[1]) : stream[1][j] = Nth(Got + j)
          /\ reg_conf[1] = {Nth(k) : k \in 1..Got}
      BY <2>2, <2>4 DEF InOrder
    <3>2. Got + (Len(stream[1]) + 1) = Tried + 1
      BY <1>1, <1>2, <2>3, <3>1
    <3>3. ASSUME NEW j \in 1..Len(stream'[1]) PROVE stream'[1][j] = Nth(Got + j)
      <4>1. j \in 1..Len(stream[1]) \/ j = Len(stream[1]) + 1
        BY <2>3
      <4> QED BY <2>3, <3>1, <3>2, <4>1
    <3> QED BY <1>1, <2>3, <3>1, <3>2, <3>3
  <2> QED BY <1>1, <1>4, <2>4 DEF InOrder, Nth
<1>6. CASE ~(Len(stream[1]) < CacheLimit)
  <2>1. sent' = sent
    BY <1>6 DEF Send, rings
  <2>2. Tried + 1 \in 1..Tried'
    BY <1>2
  <2>3. ~AllTaken'
    BY <1>2, <2>1, <2>2 DEF AllTaken, Nth
  <2> QED BY <1>1, <1>4, <2>3 DEF InOrder, Nth
<1> QED BY <1>5, <1>6

\* The steps of a process that is alone.
LEMMA StartInOrder ==
    ASSUME IInv, InOrder, NEW p \in Procs, Start(p)
    PROVE  InOrder'
<1> USE DEF Goto, given, globals, config, holders, rings, suite
<1>1. UNCHANGED <<n, main, rcnt, reg_conf>>
  BY DEF Start, SetRcFile, SetPaths, ClibLoaded, ClibMocked, ClibRaises, Look, Take,
         Register, SkipDisabled, LoadInvalid, RegisterAction, SetPipe, PipeRaises, LoadDone
<1> SUFFICES ASSUME n = 1, main \in {"setup", "threads", "vet"} PROVE InOrder'
  BY <1>1 DEF InOrder
<1>2. pc[p] # "unborn"
  BY DEF Start, SetRcFile, SetPaths, ClibLoaded, ClibMocked, ClibRaises, Look, Take,
         TakeNoPath, TakePath, TakeNoName, TakeName, Answer, Register, SkipDisabled, LoadInvalid, RegisterAction, SetPipe, PipeRaises, LoadDone,
         LoopIfLoaded
<1>3. p = 1
  BY <1>2 DEF IInv, Alone
<1>4. main = "vet"
  BY <1>2, <1>3 DEF InOrder
<1>5. /\ TypeOK /\ Progress(1) /\ Alone /\ pc \in [Procs -> Places] /\ at[1] \in Nat
      /\ at \in [Procs -> Nat] /\ spent \in [Procs -> BOOLEAN] /\ pc[1] # "died"
  BY <1>3, <1>4 DEF IInv, TypeOK, InOrder
<1>6. CASE SetRcFile(1) \/ SetPaths(1) \/ ClibLoaded(1) \/ ClibMocked(1) \/ ClibRaises(1)
           \/ Look(1) \/ Take(1)
  <2>1. UNCHANGED <<sent, stream>> /\ pc[1] \in Early
    BY <1>6 DEF SetRcFile, SetPaths, ClibLoaded, ClibMocked, ClibRaises, Look, Take,
                TakeNoPath, TakePath, TakeNoName, TakeName, Answer, Early
  <2>2. pc'[1] \in Early
    <3>1. CASE Take(1)
      <4>1. rc_data
        BY <1>5, <3>1 DEF Alone, Take, TakeNoPath, TakePath, TakeNoName, TakeName, Answer
      <4> QED BY <1>3, <1>5, <3>1, <4>1 DEF Take, TakeNoPath, TakePath, TakeNoName, TakeName,
                                      Answer, Early
    <3> QED BY <1>3, <1>5, <1>6, <3>1 DEF SetRcFile, SetPaths, ClibLoaded, ClibMocked,
                                    ClibRaises, Look, Early
  <2>3. Tried' = Tried /\ pc'[1] # "died"
    BY <2>1, <2>2 DEF Tried, Early
  <2> QED BY <1>1, <1>4, <2>1, <2>3, SilentInOrder
<1>7. CASE Register(1)
  <2>1. pc[1] = "register" /\ pc'[1] = "load" /\ at[1] = 0 /\ ~spent[1]
        /\ UNCHANGED <<at, spent>> /\ Send(1, "client")
    BY <1>3, <1>5, <1>7 DEF Register, Progress, Early
  <2>2. Tried = 0 /\ Tried' = 1 /\ Nth(1) = "client"
    BY <2>1 DEF Tried, Early, Nth
  <2> QED BY <1>1, <1>4, <2>1, <2>2, NthFacts, SendInOrder
<1>8. ASSUME pc[1] = "load", More(1)
      PROVE  /\ ~spent[1] /\ Tried = at[1] + 1 /\ Tried < RegistrationsOf(1)
             /\ NextPlugin(1) = Nth(Tried + 1)
  <2>1. ~spent[1] /\ Tried = at[1] + 1
    BY <1>5, <1>8 DEF Progress, Tried, Early
  <2>2. at[1] + 1 \in 1..Len(plugins(1)) /\ Len(plugins(1)) \in Nat
        /\ Len(plugins(1)) <= Len(Plugins[1]) /\ Len(Plugins[1]) \in Nat
    BY <1>3, <1>5, <1>8, PluginsType DEF More
  <2>3. NextPlugin(1) = Plugins[1][at[1] + 1]
    BY <1>3, <2>2, PluginsType DEF NextPlugin
  <2>4. Tried + 1 # 1 /\ (Tried + 1) - 1 = at[1] + 1
    BY <1>5, <2>1
  <2> QED BY <1>5, <2>1, <2>2, <2>3, <2>4 DEF Nth, RegistrationsOf
<1>9. CASE RegisterAction(1)
  <2>1. pc[1] = "load" /\ More(1) /\ pc'[1] = "pipe" /\ UNCHANGED <<at, spent>>
        /\ Send(1, NextPlugin(1))
    BY <1>3, <1>5, <1>9 DEF RegisterAction
  <2>2. Tried' = Tried + 1
    BY <1>5, <1>8, <2>1 DEF Tried, Early
  <2> QED BY <1>1, <1>4, <1>8, <2>1, <2>2, SendInOrder
<1>10. CASE SkipDisabled(1)
  <2>1. pc[1] = "load" /\ More(1) /\ pc'[1] = "load" /\ at'[1] = at[1] + 1
        /\ UNCHANGED <<spent, sent, stream>>
    BY <1>3, <1>5, <1>10 DEF SkipDisabled
  <2>2. Tried' = Tried + 1
    BY <1>5, <1>8, <2>1 DEF Tried, Early
  <2> QED BY <1>1, <1>4, <1>8, <2>1, <2>2, SilentInOrder
<1>11. CASE LoadInvalid(1) \/ LoadDone(1)
  <2>1. pc[1] = "load" /\ pc'[1] \in {"failed", "loop"}
        /\ UNCHANGED <<at, spent, sent, stream>>
    BY <1>3, <1>5, <1>11 DEF LoadInvalid, LoadDone, LoopIfLoaded
  <2>2. Tried' = Tried
    BY <2>1 DEF Tried, Early
  <2> QED BY <1>1, <1>4, <2>1, <2>2, SilentInOrder
<1>12. CASE SetPipe(1)
  <2>1. pc[1] = "pipe" /\ pc'[1] = "load" /\ at'[1] = at[1] + 1 /\ ~spent[1]
        /\ UNCHANGED <<spent, sent, stream>>
    BY <1>3, <1>5, <1>12 DEF SetPipe, Progress
  <2>2. Tried' = Tried
    BY <1>5, <2>1 DEF Tried, Early
  <2> QED BY <1>1, <1>4, <2>1, <2>2, SilentInOrder
<1>13. CASE PipeRaises(1)
  <2>1. pc[1] = "pipe" /\ pc'[1] \in {"failed", "loop"} /\ spent'[1]
        /\ UNCHANGED <<at, sent, stream>>
    BY <1>3, <1>5, <1>13 DEF PipeRaises, LoopIfLoaded
  <2>2. Tried' = Tried
    BY <2>1 DEF Tried, Early
  <2> QED BY <1>1, <1>4, <2>1, <2>2, SilentInOrder
<1> QED BY <1>3, <1>6, <1>7, <1>9, <1>10, <1>11, <1>12, <1>13 DEF Start


\* With every message sent, each was taken, and none is left to try.
LEMMA AllSentTaken ==
    ASSUME IInv, pc[1] # "died", Tried <= RegistrationsOf(1),
           Wanted(1) \subseteq sent[1]
    PROVE  AllTaken /\ Tried >= RegistrationsOf(1)
<1>1. Tried \in Nat /\ (Tried < RegistrationsOf(1) => Nth(Tried + 1) \notin sent[1])
  BY NotTried
<1>2. Tried >= RegistrationsOf(1)
  <2> SUFFICES ASSUME Tried < RegistrationsOf(1) PROVE FALSE
    BY <1>1, NthFacts
  <2>1. Tried + 1 \in 1..RegistrationsOf(1)
    BY <1>1, NthFacts
  <2> QED BY <1>1, <2>1, NthFacts
<1>3. \A k \in 1..Tried : k \in 1..RegistrationsOf(1)
  BY <1>1, NthFacts
<1> QED BY <1>2, <1>3, NthFacts DEF AllTaken


\* The next message MAIN reads is the one it expects.
LEMMA VetReadInOrder ==
    ASSUME IInv, InOrder, NEW p \in Procs, VetRead(p), n = 1
    PROVE  /\ InOrder'
           /\ Wanted(1) \subseteq sent[1] => main' = "vet"
<1> USE DEF given, globals, config, holders
<1> DEFINE m == Head(stream[p])
<1>1. /\ main = "vet" /\ rcnt \in Nat /\ rcnt > 0 /\ stream[p] # <<>>
      /\ UNCHANGED <<n, pc, at, spent, sent>>
      /\ stream' = [stream EXCEPT ![p] = Tail(stream[p])]
      /\ \/ /\ Expected(p, m) /\ main' = "vet" /\ rcnt' = rcnt - 1
            /\ reg_conf' = [reg_conf EXCEPT ![p] = reg_conf[p] \cup {m}]
         \/ ~Expected(p, m) /\ main' = "compare"
  BY DEF VetRead, First, IInv, TypeOK
<1>2. stream[p] \in Seq(Wanted(p)) /\ Received(p) /\ Progress(p) /\ DOMAIN stream = Procs
      /\ DOMAIN reg_conf = Procs
  BY DEF IInv, TypeOK
<1>3. p = 1
  <2> SUFFICES ASSUME p # 1 PROVE FALSE
    OBVIOUS
  <2>1. sent[p] = {}
    BY <1>2 DEF IInv, Alone, Progress, Early
  <2>2. 1 \in 1..Len(stream[p])
    BY <1>1, <1>2
  <2> QED BY <1>2, <2>1, <2>2 DEF Received
<1>4. /\ stream[1] \in Seq(Wanted(1)) /\ Len(stream[1]) \in Nat \ {0}
      /\ m = stream[1][1] /\ stream'[1] = Tail(stream[1])
      /\ Len(stream'[1]) = Len(stream[1]) - 1
      /\ \A j \in 1..Len(stream'[1]) : stream'[1][j] = stream[1][j + 1]
      /\ \A j \in 1..Len(stream'[1]) : j + 1 \in 1..Len(stream[1])
      /\ 1 \in 1..Len(stream[1])
  BY <1>1, <1>2, <1>3
<1> HIDE DEF m
<1>5. /\ RegistrationsOf(1) \in Nat /\ rcnt <= RegistrationsOf(1)
      /\ Got = RegistrationsOf(1) - rcnt /\ Got \in Nat /\ Got + 1 \in 1..RegistrationsOf(1)
  BY <1>1, NthFacts DEF InOrder, Got
<1>6. Tried' = Tried /\ (AllTaken' <=> AllTaken) /\ RegistrationsOf(1)' = RegistrationsOf(1)
  BY <1>1 DEF Tried, AllTaken, Nth, RegistrationsOf
<1>7. ASSUME AllTaken
      PROVE  /\ Len(stream[1]) + Got = Tried
             /\ \A j \in 1..Len(stream[1]) : stream[1][j] = Nth(Got + j)
             /\ reg_conf[1] = {Nth(k) : k \in 1..Got}
             /\ m = Nth(Got + 1) /\ Expected(1, m)
  <2>1. /\ Len(stream[1]) + Got = Tried
        /\ \A j \in 1..Len(stream[1]) : stream[1][j] = Nth(Got + j)
        /\ reg_conf[1] = {Nth(k) : k \in 1..Got}
    BY <1>1, <1>7 DEF InOrder
  <2>2. m = Nth(Got + 1)
    BY <1>4, <2>1
  <2>3. ASSUME NEW k \in 1..Got PROVE Nth(k) # m
    <3>1. k \in 1..RegistrationsOf(1) /\ k # Got + 1
      BY <1>5
    <3> QED BY <1>5, <2>2, <3>1, NthFacts
  <2>4. m # "client" => "client" \in reg_conf[1]
    <3>1. Got = 0 => m = "client"
      BY <2>2 DEF Nth
    <3>2. Got # 0 => 1 \in 1..Got
      BY <1>5
    <3> QED BY <2>1, <3>1, <3>2 DEF Nth
  <2> QED BY <2>1, <2>2, <2>3, <2>4 DEF Expected
<1>8. InOrder'
  <2> SUFFICES ASSUME main' = "vet" PROVE InOrder'
    BY <1>1 DEF InOrder
  <2>1. /\ rcnt' = rcnt - 1 /\ Got' = Got + 1 /\ rcnt' <= RegistrationsOf(1)
        /\ reg_conf'[1] = reg_conf[1] \cup {m}
    BY <1>1, <1>2, <1>3, <1>5, <1>6 DEF Got
  <2>2. pc'[1] # "died" /\ Tried <= RegistrationsOf(1)
    BY <1>1 DEF InOrder
  <2>3. ASSUME AllTaken
        PROVE  /\ Len(stream'[1]) + (Got + 1) = Tried
               /\ \A j \in 1..Len(stream'[1]) : stream'[1][j] = Nth((Got + 1) + j)
               /\ reg_conf'[1] = {Nth(k) : k \in 1..(Got + 1)}
    <3>1. Len(stream'[1]) + (Got + 1) = Tried
      BY <1>4, <1>5, <1>7, <2>3
    <3>2. ASSUME NEW j \in 1..Len(stream'[1]) PROVE stream'[1][j] = Nth((Got + 1) + j)
      <4>1. j \in Nat /\ Got \in Nat
        BY <1>5
      <4>2. Got + (j + 1) = (Got + 1) + j
        BY <4>1
      <4>3. j + 1 \in 1..Len(stream[1]) /\ stream'[1][j] = stream[1][j + 1]
        BY <1>4
      <4> QED BY <1>7, <2>3, <4>2, <4>3
    <3>3. \A k : k \in 1..(Got + 1) <=> k \in 1..Got \/ k = Got + 1
      BY <1>5
    <3>4. reg_conf'[1] = {Nth(k) : k \in 1..(Got + 1)}
      BY <1>7, <2>1, <2>3, <3>3
    <3> QED BY <3>1, <3>2, <3>4
  <2> QED BY <1>6, <2>1, <2>2, <2>3 DEF InOrder, Nth
<1>9. ASSUME Wanted(1) \subseteq sent[1] PROVE main' = "vet"
  <2>1. pc[1] # "died" /\ Tried <= RegistrationsOf(1)
    BY <1>1 DEF InOrder
  <2>2. AllTaken
    BY <1>9, <2>1, AllSentTaken
  <2> QED BY <1>1, <1>3, <1>7, <2>2
<1> QED BY <1>8, <1>9

\* Every step keeps the order.
LEMMA NextInOrder == IInv /\ InOrder /\ [Next]_vars => InOrder'
<1> SUFFICES ASSUME IInv, InOrder, [Next]_vars PROVE InOrder'
  OBVIOUS
<1> USE DEF given, globals, config, holders, rings, suite
<1>1. ASSUME NEW p \in Procs, Start(p) PROVE InOrder'
  BY <1>1, StartInOrder
<1>2. ASSUME NEW p \in Procs, VetRead(p) PROVE InOrder'
  BY <1>2, VetReadInOrder DEF InOrder, VetRead
<1>3. CASE Setup
  BY <1>3 DEF Setup, InOrder, AllTaken, Tried, Got, Nth
<1>4. CASE LoadProc
  <2> SUFFICES ASSUME n = 1 PROVE InOrder'
    BY <1>4 DEF LoadProc, InOrder
  <2>1. turn = 0 /\ main = "threads" /\ 1 \in Procs /\ pc \in [Procs -> Places]
    BY <1>4, NthFacts DEF LoadProc, IInv, Decided, TypeOK
  <2>2. /\ main' = "vet" /\ rcnt' = RegistrationsOf(1) /\ pc'[1] = "main"
        /\ UNCHANGED <<n, at, spent, sent, stream, reg_conf>>
    BY <1>4, <2>1 DEF LoadProc, Goto
  <2>3. Tried = 0 /\ Tried' = 0 /\ Got = 0 /\ reg_conf[1] = {}
    BY <2>1, <2>2 DEF Tried, Got, InOrder, Early
  <2>4. Got' = 0 /\ rcnt' <= RegistrationsOf(1) /\ RegistrationsOf(1)' = RegistrationsOf(1)
    BY <2>2, NthFacts DEF Got, RegistrationsOf
  <2>5. AllTaken
    BY <2>3 DEF AllTaken
  <2>6. Len(stream[1]) = 0
    <3>1. Len(stream[1]) \in Nat /\ Len(stream[1]) + Got = Tried
      BY <2>1, <2>5 DEF InOrder, IInv, TypeOK
    <3> QED BY <2>3, <3>1
  <2> QED BY <2>2, <2>3, <2>4, <2>6, NthFacts DEF InOrder, Nth
<1>5. CASE VetTimeout \/ Compare
  BY <1>5 DEF VetTimeout, Compare, InOrder
<1>6. CASE Provide \/ UNCHANGED vars
  <2>1. UNCHANGED <<n, main, rcnt, reg_conf, sent, stream, pc, at, spent>>
    BY <1>6 DEF Provide, vars
  <2> QED BY <2>1, SilentInOrder DEF Tried, InOrder
<1> QED BY <1>1, <1>2, <1>3, <1>4, <1>5, <1>6 DEF Next, Main

LEMMA InitInOrder == Init => InOrder
<1> SUFFICES ASSUME Init, n = 1, main \in {"setup", "threads", "vet"} PROVE InOrder
  BY DEF InOrder
<1>1. /\ main = "setup" /\ pc[1] = "unborn" /\ reg_conf[1] = {} /\ stream[1] = <<>>
  BY NthFacts DEF Init
<1>2. Tried = 0 /\ Got = 0
  BY <1>1 DEF Tried, Got, Early
<1> QED BY <1>1, <1>2, NthFacts DEF InOrder

\* MAIN gives up only on what is missing.
LEMMA QuitStep ==
    ASSUME IInv, InOrder, [Next]_vars, n = 1, main = "vet", main' \in {"compare", "quit"}
    PROVE  ~(Wanted(1) \subseteq sent[1])
<1> USE DEF given, globals, config, holders, rings, suite
<1> SUFFICES ASSUME Wanted(1) \subseteq sent[1] PROVE FALSE
  OBVIOUS
<1>1. pc[1] # "died" /\ Tried <= RegistrationsOf(1) /\ rcnt <= RegistrationsOf(1) 
      /\ RegistrationsOf(1) \in Nat /\ rcnt \in Nat
  BY NthFacts DEF InOrder, IInv, TypeOK
<1>2. AllTaken /\ Tried >= RegistrationsOf(1) /\ Tried \in Nat
  BY <1>1, AllSentTaken, NotTried
<1>3. /\ Len(stream[1]) + Got = Tried /\ reg_conf[1] = {Nth(k) : k \in 1..Got}
      /\ Got = RegistrationsOf(1) - rcnt
  BY <1>2 DEF InOrder, Got
<1>4. CASE VetTimeout
  <2>1. rcnt > 0 /\ stream[1] = <<>>
    BY <1>4, NthFacts DEF VetTimeout
  <2> QED BY <1>1, <1>2, <1>3, <2>1
<1>5. CASE Compare
  <2>1. rcnt = 0 /\ ~Vetted
    BY <1>5 DEF Compare
  <2>2. Got = RegistrationsOf(1)
    BY <1>1, <1>3, <2>1
  <2>3. reg_conf[1] = Wanted(1)
    BY <1>3, <2>2, NthFacts
  <2>4. 1..n = {1}
    OBVIOUS
  <2> QED BY <2>1, <2>3, <2>4 DEF Vetted
<1>6. ASSUME NEW p \in Procs, VetRead(p) PROVE FALSE
  BY <1>6, VetReadInOrder
<1>7. UNCHANGED main \/ Setup \/ LoadProc \/ VetTimeout \/ Compare \/ \E p \in Procs : VetRead(p)
  BY DEF Next, Main, vars, Provide, Start, SetRcFile, SetPaths, ClibLoaded, ClibMocked,
         ClibRaises, Look, Take, Register, SkipDisabled, LoadInvalid, RegisterAction, SetPipe,
         PipeRaises, LoadDone
<1> QED BY <1>4, <1>5, <1>6, <1>7 DEF Setup, LoadProc

-----------------------------------------------------------------------------
(* Theorems                                                                 *)

\* All variables keep their types (plugin_proc.py, common.py, test_main.py).
THEOREM TypeCorrect == Spec => []TypeOK
<1>1. IInv => TypeOK
  BY DEF IInv
<1> QED BY <1>1, InitInv, NextInv, PTL DEF Spec

\* When run_a_testcase of test_main.py goes on to its engine, every process has
\* registered itself and all its actions, and has not given up, but for a pipe.
THEOREM EngineHasProcesses == Spec => []EngineIsServed
  BY ServedByInv, InitInv, NextInv, PTL DEF Spec

\* A process alone in its interpreter has, in the reading loop of main_run, what
\* the configuration tells it to load, whenever its files appear.
THEOREM LoadsConfiguration == Spec => []LoadedAsConfigured
  BY LoadedByInv, InitInv, NextInv, PTL DEF Spec

\* A single process vetted by test_main.py is given up only while its ring has not
\* taken all its registrations.
THEOREM QuitsOnMissing == Spec => QuitOnlyOnMissing
<1>1. IInv /\ InOrder /\ [Next]_vars =>
        [n = 1 /\ main = "vet" /\ main' \in {"compare", "quit"} =>
             ~(Wanted(1) \subseteq sent[1])]_vars
  BY QuitStep
<1> QED BY <1>1, InitInv, NextInv, InitInOrder, NextInOrder, PTL DEF Spec, QuitOnlyOnMissing
=============================================================================
