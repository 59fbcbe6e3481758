# A verification project for LoM, the device health service

LoM runs small *actions* (anomaly detection, safety checks, mitigations) in
plugin processes on a switch and lets an engine call them one after another.
This directory holds TLA+ models of the parts of that program that keep state
and run concurrently, TLC runs that check them on small instances, and proofs
that TLAPS checks for every value of the constants.

Source paths below are relative to `src/src-c-python`.

## 1. Inventory

| Part | Files | State | Operations | Modelled |
|---|---|---|---|---|
| Plugin process | `python_plugins/src/plugin_proc.py` | holders (plugin, thread, pipe, last request, response, recorded end, touch, instance id), the process flags `shutdown_request`, `signal_raised`, ... | register, load, poll, handle requests, handle responses and heartbeats, shut down, reload; the request thread of each holder | `PluginProc` |
| Start of processes, configuration | `python_plugins/src/plugin_proc.py`, `common.py`, `clib_bind.py`, `tests/test_main.py` | the cached global rc data, the loaded library, configuration files, registrations | set and read the rc file, wait for the configuration, load the library, register, load plugins, vet registrations | `ProcStart` |
| Mock engine channel | `python_plugins/tests/lib/test_client.py` | per process two rings with indices, counts and a signal pipe | write, read, poll, filter on registered actions | `CacheRing`; polling and filter in `PluginProc`, registrations in `ProcStart` |
| FIFO transport | `lib/transport.cpp`, `lib/README` | FIFOs, read and write ends, cached ready descriptors | create, write a size and a body, poll, read a size and a body | `FifoTransport` (one direction, by system call), `LomLib` (both, by message) |
| Library | `lib/lom_lib.cpp`, `common/client.h`, `common/server.h` | registered client and actions, transports | register, deregister, heartbeat, read and write messages, validation | `LomLib` |
| Engine | `python_plugins/tests/test_main.py` | per anomaly: sequence index, instance ids, lock state, lock expiry; one mitigation lock | start, request, response, heartbeat, lock, expiry, shutdown | `MitigationEngine`; registration in `ProcStart` |
| Link plugins | `python_plugins/src/vendors/sonic/actions/link_*.py` | `shutdown_flag`; for `link_flap` the flap times of each interface | `request`, `shutdown` | `LinkPlugins`; their threads in `PluginProc` |
| Test plugin | `python_plugins/tests/plugins/test_action.py` | `shutdown_flag` | `request`, `shutdown` | as a request thread of `PluginProc` |
| Support helpers, C++ common code, YANG models, `cfg_monitor`, ZMQ transport, unit tests | see `PROJECT.json` | none, or not built | | no |

How the parts interact.  The engine writes requests and a shutdown message into
the channel of a plugin process and reads registrations, heartbeats and
responses from it.  In a plugin process the main thread polls the channel
together with one pipe per holder.  A request starts a thread that calls the
plugin; the thread writes the response and the end of the request into fields
of the holder and a few bytes into the pipe, without a lock.  Heartbeats take
the same pipe.  Signals set flags the main thread tests between polls.  In
production the channel is to be a pair of FIFOs per process (`transport.cpp`);
in the repository's own runs it is a pair of rings in shared memory
(`test_client.py`).  `clib_bind.c_lib_init` looks up a
function `get_last_error_str`, which the library's headers do not declare
(`common/common.h:61` has `get_last_error_msg`), and gives `poll_for_data` three of
its seven arguments, so that the composition the repository can run is the one
over the rings.

What is hard here: fields shared by two threads without a lock, in an order
that matters; a signal that may stand for a heartbeat or a completion; partial
drains of a pipe; full pipes; polling that prefers early descriptors; shutdown
that must reach threads blocked in a plugin or in a pipe; a reload while old
threads run; counts and indices of a ring shared by two threads; messages cut
into two non-blocking writes; ready descriptors kept from one poll to the next;
processes that end in the middle of a message.  `PROJECT.json` lists each of
these at its line, with the properties that would catch it, or the reason why
none does yet.

What makes each part correct:

- plugin process: one call of an action at a time, each request answered at
  most once and only with the response of its own call, no response stranded,
  heartbeats of a running call neither masked nor under an unknown id, and a
  shutdown that reaches every plugin and ends every thread;
- channel: a bounded FIFO queue without a lost wakeup;
- transport: what is read of a client is a prefix of what it sent, frame by
  frame, and is read in the end;
- library: the engine reads well-formed sessions whatever restarts, and agrees
  with a client that reaches it on the client's actions;
- engine: one mitigation at a time, each anomaly ending in a published final
  state, the lock released;
- start: the engine begins only with processes that are ready, each process
  loads what it was configured to, and nobody waits for ever;
- link plugins: a report for each flap and for nothing else, and no interface
  shut that was not reported.

## 2. Plan

Done:

1. `ActionService`: what a plugin process promises, request by request.
2. `PluginProc`: the process; `PluginProcProofs`, with the refinement of
   `ActionService` proved.
3. `BoundedQueue` and `CacheRing`: the channel and what it promises;
   `CacheRingProofs`, with the refinement proved.
4. `MessageChannel` and `FifoTransport`: what one direction of the transport
   promises, and the transport by system call; `FifoTransportProofs`, with the
   refinement proved.
5. `MitigationLease` and `MitigationEngine`: what the engine promises of its
   anomalies, and `AnomalyHandler` with the mitigation lock, its expiry and late
   answers; `MitigationEngineProofs`, with the refinement proved.
6. `LomLib`: registration around the transport, both directions, restarts;
   `LomLibProofs`.
7. `StartParams`, `ProcStart`: the start of processes over the configuration,
   and the vetting of their registrations; `ProcStartProofs`.
8. `LinkParams`, `LinkPlugins`: the three link plugins over a switch;
   `LinkPluginsProofs`.
9. `LinkSystem`: the two composed; `LinkSystemProofs`.

To come:

10. `MitigationEngine` over `PluginProc` with the loss of a response in a full ring.
11. `FifoTransport` with both directions.

## 3. The modules and the code

### PluginProc

The state is that of one process.  An action is its position in the
configuration, which is also the position of its pipe in the list that is
polled.  The main thread is a program counter:

| `pc` | place in `plugin_proc.py` |
|---|---|
| `start`, `load` | `main_run` up to its loop: `register_client`, then one holder per step |
| `top`, `poll` | `while not signal_raised`, `poll_for_data` |
| `check` | `handle_response` after its drain, for holder `cur` |
| `serve` | the loop of `handle_server_request`, one message per step |
| `leave`, `left`, `ret` | after the loop: deregister; `handle_shutdown` on a signal; back in `main` |
| `done`, `failed` | `main` has returned; `main_run` returned -1 |
| `crashBusy`, `crashUnloaded`, `crashBeat` | an exception has ended the main thread (lines 265, 365, 201) |

The request thread of a holder is `thr[a]`: `head` (the plugin tests its shutdown
flag), `working`, `touched` and `stamped` (inside `do_touch_heartbeat`, after
its first and its second assignment), `returned` (`self.response` is set),
`ended` (`self.req_end` is set), `signalled` (the completion is in the pipe, the
thread is still alive), `idle`.  A step is as long as the stretch of code
another thread cannot see into: each assignment to a field that the other
thread reads is a step of its own.

Data is abstracted so: a request is its instance id; a response is the id of its
request or `None`; a pipe is the number of five-byte signals in it; a touch is
the one bit `touchNew`, as the main thread looks at nothing else; whole
seconds appear as the choice, in `Touch`, whether a touch is in a new second.
With `Paced` the plugin's heartbeat interval is longer than a sweep over the
pipes.  A holder whose `os.pipe()` failed is registered and not loaded.  After a reload the
old threads can reach only their own objects: of them the model keeps the
requests they run (`orphans`).  Plugins in `Faulty` may raise or return `None`;
any plugin may return `None` once it is shut down, as `link_flap` does.

The environment is the engine, which sends each request once (with `Polite`:
only when the last one for the same action was answered), and the operating
system with its signals.

### ActionService

A status for each request: unsent, queued, running, answered, dropped.  At most
one request of an action runs; only a running request is answered.  `status` in
`PluginProc` maps the process to it.  It allows dropping, since no code tells
the engine of a dropped request.

### CacheRing, BoundedQueue

One `CacheData` with one writing and one reading thread.  Every access to a
shared field (`data`, `wr_index`, `wr_cnt`, `rd_index`, `rd_cnt`, the pipe) is a
step.  `BoundedQueue` is a FIFO queue that turns a write down exactly when it is
full and a read exactly when it is empty.  The refinement maps the slots from
`rd_index` on; between the last two steps of a read the index is one ahead of
the count, which `base` corrects.

### FifoTransport, MessageChannel

Several clients write to FIFOs of their own, the engine reads all of them through
one `reader_writer`.  The steps are the system calls: open the write end, write
the size, write the body, poll, read the size, read the body; a client may end
between any two of them, and its name be taken over.  A FIFO is a sequence of
units `[msg, pos]`, so that reading out of frame shows.  Sizes and bodies are
shorter than `PIPE_BUF`, hence a write is all or nothing.  A read of fewer than
four bytes leaves `sz` as it was on the stack: an error or any size.  The messages of a client
that ended or had a failure are not recorded any more (`broken`).

`MessageChannel` is a queue of whole messages for each client, from which a client drops
out for good when it ends or a call for one of its messages fails.  Its `queue` is
what `sent` has beyond `got`; the write of the body is its `Send`, the
read of the body its `Deliver`, and whatever adds to `broken` its `Lose`.  That a message
may be taken for one unit, as `LomLib` does, is what this refinement shows for clients that
run on.

### MitigationEngine, MitigationLease

The engine of `test_main.py` from the start of its handlers to the last answer.
A handler `h` has the index `i` into its sequence: its own anomaly action first,
bound actions after it.  The uuids are the pairs `<<h, i>>`, as a handler asks
for each action of its sequence once per run.  `pc` and `turn`
are the place in the loop at 505: the start of one handler, the read of one
message with all its handler does on it, the resume of one handler are a step each.
Time enters only through `Expire`, which lets a lock's expiry pass between any two steps.

The plugin processes are the environment: `open` has the requests they have
not answered, as seen from the engine, so an action counts as at work until its
response is read.  They answer in any order, with success or failure, send heartbeats
for requests answered or not, and may end, since a request for a busy action
ends them (`BusyIsDropped` of `PluginProc`).  After that what they wrote before may still be read;
the model lets any open request be answered then, which is more than can happen.
`BusyOnlyWhenOverdue` says when the engine brings them into that situation.

`MitigationLease` has no locks, turns or heartbeats: each anomaly goes from `idle` over
`detecting` and, if another holds the lease, `pending` to `mitigating` and `done`, or,
when it loses the lease to the clock, over `overdue`.  All requests but the one that detects
are made by the holder of the lease, one after the other, and only for a
mitigation that is under way.  `phase` in `MitigationEngine` maps the fields of a handler
to it; `ResumeExpires` is `Lose`, the late answer that follows is `Finish`.

The branches for a wrong anomaly key or anomaly instance id and the "internal
error" returns cannot be reached with plugins that copy these fields from the
request, as all plugins of the repository do, and are left out.

### LomLib

`lom_lib.cpp` on both sides, and the FIFOs as `create_a_fd` makes and opens
them: the reading side unlinks the path and makes it anew, the writing side
opens it on first demand and keeps what it opened.  So an end of a FIFO may be
of the FIFO that is read (`now`), of an earlier one whose reader's descriptor
is still open, since `~transportImpl` closes nothing (`old`), or of one whose
reader ended (`dead`).  What is written to an `old` FIFO is lost with success;
a `dead` one fails with `EPIPE`, as Python, which hosts the library, ignores `SIGPIPE`.

A message is written and read in one step, and a full FIFO takes nothing of it;
that both can be cut is the subject of `FifoTransport`.  The null pointer at
278 and 369 and the exceptions of the JSON parser end the process:
`ClientEnd`, `ReadThrows`.  `cached` is the count of descriptors that were
ready at the last poll and not read; the next read takes it for a timeout, with
an empty message, on which the parser throws.  `view` is no state of the
library: it is what an engine that follows `client.h` knows from the messages
it has read.

### StartParams, ProcStart

The start of processes: `main`, and `main_run` up to its loop, with the helpers it
calls.  `mode` is how `plugin_proc` is run: as a thread of `test_main.py`
(`suite`), by itself with `-t` (`alone`), or over the C library (`library`).

| `pc` | place |
|---|---|
| `unborn`, `main` | before `set_global_rc_file` (`plugin_proc.py:452`) |
| `paths`, `clib` | before `get_global_rc` (455) and `c_lib_init` (467) |
| `look`, `take` | in a helper of `common.py`, before and after the test at 109 |
| `register`, `load`, `pipe` | before `register_client` (391), in the loop over plugins, before `os.pipe()` (402) |
| `loop`, `failed`, `died`, `returned` | the reading loop; `main_run` returned -1; an exception; `main` returned |

All threads of the suite are in one interpreter and share `_global_rc_data` and
`_clib_dll`.  `get_global_rc` tests the global and then returns it, and another thread
may empty it in between, so that this is two steps (`Look`, `Take`).  Each helper for a file
asks twice, for the path and for the name: `part`.  `call` is the place in `Asked`, the
five files a process asks for one after another.  A ring of `test_client.py` is
the bounded queue that `CacheRing` was shown to implement; a message is
`"client"` or the name of an action.  `main`, `turn`, `rcnt` and `reg_conf` are the MAIN
thread of `test_main.py`.  Outside is the tool that writes the configuration
files, of which the repository has a comment (`common.py:91`).

The end of the loop, signals and requests are `PluginProc`'s.  A thread
that registers with a name of a wrong form, or twice, is not modelled: the names of
the configuration are well-formed and their keys distinct (`StartAssumption`).

### LinkParams, LinkPlugins

`link_flap.request` reads events until the last `flap_cnt` times of one interface lie within
`flap_int` seconds; `self.flaps` is kept over requests (`flaps`).  `times` and
`went` are no state of the code: the times at which downs were read, and at which they
happened.  `link_safety` answers 0 however many links are up, `link_down` runs
`config int shutdown` and ignores its result.  The switch is the environment: interfaces go down
and come up, and its event service keeps events for its subscriber.  The
engine asks for one action after another with the context `link_flap` has left, and may
give a sequence up at any point.  A run may also begin with one of the other two
plugins, for an anomaly that is not `link_flap`'s: then the context has no interface.

### LinkSystem

`ProcStart` and `LinkPlugins` under one next-state relation: no plugin works
before MAIN has gone on to its engine, and then only in the loop of the process `Host` and
if that process holds it.  A request for an action without a holder ends
the process (`Unloaded`, `plugin_proc.py:365`).  The two parts are instances under the names of their
own variables; `StartParams` and `LinkParams` hold the constants that a part and
the composition must agree on.

## 4. The runs

| Run | Question | Answer |
|---|---|---|
| `plugin_one` | One action, two requests from an engine that does not wait and one of another process, a pipe of two signals drained one at a time, SIGHUP and SIGUSR1, a poll failure and the reload after it: is a request answered twice, under another's response, or never; can an old end mask new heartbeats, can a heartbeat go out without an id, can `main` end with a plugin not told; is `ActionService` implemented? | all as they should be |
| `plugin_live` | Two actions under fairness, one with a plugin that raises or returns `None`, heartbeats slower than the loop: is every response sent and none stranded, does every shutdown end every thread? | yes |
| `plugin_busy` | "request dropped as busy with previous" (line 309) | no: `NameError` at 265 |
| `ring` | Three slots, six writes of two items: lost wakeups, overwritten slots, growth of the pipe, the bounded queue, delivery | all hold |
| `fifo` | Two clients that write two messages each into FIFOs of 8 units (a message has 5) and may end once: does the engine read a prefix of what was sent, in frame; is `MessageChannel` implemented? | yes, for clients that run on and had no failure |
| `fifo_cached` | "All fds that have data are read" (`lib/README:33`) | no: cached descriptors are reported as timeouts for ever |
| `fifo_split` | "Reader will first read 4 bytes. Then read that many bytes" (`lib/README:26`) | no: between the two writes the second read fails |
| `engine` | Three anomalies that share bound actions, one without any, one lock: do mitigations overlap or an action get asked for while at work; is a response lost on a filter, progress published too early, anything published after "complete"; is `MitigationLease` implemented; is the lock given back, does each anomaly end? | overlaps only after a lock expired; the rest as it should be, every anomaly ends while the plugins live |
| `lom` | Two clients and an engine that end and come back at any point: can the engine read a malformed session, or disagree with a client that reaches it? | no |
| `lom_again` | "Any write occurs only upon some registration action by proc" (`lib/README:18`): is a registered client the one the engine writes to? | no: `m_wfds` keeps the FIFO of the registration before |
| `start` | Two processes in the suite, or one alone or over the C library, configuration files in any order, plugins invalid or disabled, a ring of two messages, pipes that run out; then the link plugins over two interfaces: does the engine begin with processes that are not there; does a process load other plugins than configured, or wait for ever; does MAIN decide, and rightly; are flaps reported exactly, and only reported interfaces shut? | all as they should be, within what the properties say |
| `start_race` | "Expect the config to be available, else sleep until available." (`README.local:32`), with "Each Python plugin proc is created in its own thread" (`tests/lib/test_client.py:190`) | no: another thread's `set_global_rc_file` empties the data between a test and a look-up, and the `KeyError` ends the thread |

### Properties

Of `PluginProc`:

- `TypeOK`: the types, with the order of loaded, registered and configured
  counts, and no pipe above its capacity.
- `NoLostCompletion`: while the loop runs, a response whose thread has signalled
  is being handled or has a signal in its pipe.
- `AnsweredOnce`, `PendingFits`: one answer for a request; a pending response is
  that of the last request, unanswered, and no running call can overwrite it.
- `HeartbeatsNotMasked`, `HeartbeatIdKnown`: for plugins that return responses,
  no recorded end while a call runs, and no heartbeat before a plugin has
  stamped an id.
- `ExitShutsPlugins`: `main` returns, without a poll failure, only with all
  loaded plugins told.
- `Implements`: the refinement of `ActionService`.
- `ResponseSent`, `ShutdownCompletes`: liveness.

Of `CacheRing`: `TypeOK`, `NoLostWakeup` (the reader does not sleep on an empty
pipe with an item in the ring that nobody is about to signal), `NoOverwrite`
(the slot about to be stored is not the one about to be copied),
`SignalsBounded`, `Implements`, `Delivered`.

Of `FifoTransport`: `TypeOK`; `Intact` (of a client that runs on, without a failed
write or read, the engine has the first of the messages sent, and the FIFO holds the others unit by unit);
`Implements` (the refinement of `MessageChannel`).

Of `MitigationEngine`:

- `TypeOK`; `LockAgrees` (the global lock, the lock states of the handlers and
  the expiry tell one story);
- `MitigationsApart`, `BusyOnlyWhenOverdue`: bound actions of two anomalies are
  at work together, and an action at work is asked for again, only if a
  lock expired;
- `OpenIsAwaited`: an open request is the one its handler waits for, so that
  its response passes the filters;
- `ProgressIsStarted`: no heartbeat is published as progress before the mitigation
  was asked for;
- `Implements`: the refinement of `MitigationLease`: besides the above, a handler that
  lost its lock asks for nothing more, a pending one waits for a holder, and no request is made
  twice.  That nothing is published after "complete" (`CompleteIsLast`) is a part of it, as nothing follows `done`;
- `LockReleased`, `AllComplete`: liveness.

Of `LomLib`: `TypeOK`; `SessionsLegal` (actions, heartbeats and responses only
after a register message, no action twice, nothing of before the engine's own
start); `ViewsAgree` (the engine's view after all that is on the way is the client's
`s_registered`).

Of `LinkSystem`, each a property of one of its parts:

- `TypeOK`;
- `EngineIsServed`: the engine begins only when the rings have taken every
  registration, and then no process has ended, but for want of a pipe, although
  MAIN looks at messages only and counts the registrations of the last process;
- `QuitOnlyOnMissing`: with a single process MAIN gives up only while a registration it
  waits for has not been taken (it may be on its way: ten seconds are the only
  limit).  With several processes it may stop with all of them sent;
- `LoadedAsConfigured`: for a process alone in its interpreter.  In the suite other
  threads empty the data, and a process may read an empty configuration;
- `ReportsMatch`: a down event is reported exactly if it is the last of `flap_cnt`
  *read* within `flap_int`, whatever requests lie between them;
- `SlowOnlyIfLate`: downs that *happened* further apart are reported only if the
  first of them was read later than it happened;
- `ShutIsReported`: `link_down` shuts the interface of a report of the same run;
- `Settles`, `Decides`: liveness.

### Bounds, and why they are enough

- Actions and requests: two requests of one action make a second call follow a
  first one, which is where old ends, old ids and pending responses matter; a
  second action adds the sharing of the main thread.  The proofs cover all numbers.
- `MaxBeats`: heartbeat signals a plugin leaves undrained.  One is enough to put
  a heartbeat before a completion in the same pipe, two to make a partial drain
  leave one.  The bound is lifted once a plugin is shut down, so that it hides
  no blocking at that point; `PipeCap` bounds the rest.
- `PipeCap`, `DrainMax`: a pipe holds 65536 bytes, 13107 signals, and one read
  takes 100 bytes, 20 signals.  The small values keep the order `DrainMax <
  PipeCap` and let both limits be met; `plugin_one` has the smallest.
- `MaxFails`: unexpected returns of `poll_for_data`; one gives a reload.
- `CacheRing`: `Limit` 3 for a real `CACHE_LIMIT` of 10, `MaxWrites` 6, so that
  the ring fills and wraps twice.
- `FifoTransport`: a header of two units and a body of three are enough to be
  cut at every place; 8 units are room for one message and the size, not the
  body, of the next, so that each of the two writes can fail; `fifo_cached` and
  `fifo_split` have room for two messages, so that no failure is due to space.
- `MitigationEngine`: two anomalies share a bound action, which takes a lost lock
  to be asked for twice; one has no bindings; one run each, as a second ends the engine.
- `LomLib`: two clients, which the symmetry of the model lets TLC swap, are
  enough for a poll that finds two; one action and a FIFO of two messages hold
  each pair of messages in either order, and every restart meets a FIFO empty, partly
  read and full.  `lom_again` needs one client and room for one message.

- `LinkSystem`: two processes are what a race on the globals takes; one has the three link
  plugins, of which a disabled one leaves an action without a holder; a ring of two
  messages (ten in the code) is too small for the registrations of a process, which the
  real ring is from ten plugins on.  `FlapCnt` is 2 as in the code, `FlapInt` 1
  (15 in the code) on a clock of four seconds, so that downs may be within it and
  beyond it.  Three downs of one interface give two windows, one down of
  another mixes them.  Two runs bring old times and old contexts to a second request:
  `test_main.py` does one run per anomaly, an engine in production repeats them.

A run without deadlock checking is one where the system may really stop:
`plugin_one` (after a poll failure and a stop of the main thread a request
thread may be blocked in a pipe nobody reads), `ring` (no more writes), the
`fifo` runs (the clients are silent and the engine waits in `poll`) and the
run `engine` (the loop ends with its last handler), and the two `start` runs (a test
that quits, a process that has returned).

### Fairness

`PluginProc`: weak fairness of the main thread, which the operating system runs
and which only waits in a poll with a timeout.  A request thread is fair wherever it
is outside the plugin, and inside the plugin only once the plugin is shut down:
the waits of `link_flap` (an event receive with a timeout) and of the test
action (a bounded sleep) end, and their loops test the flag.  `ResponseSent` needs
`Paced`: as `poll_for_data` returns the first readable descriptor, a plugin that
sends a heartbeat in each round of the loop would hold up the pipes after its own
for ever.  The plugins of the repository send one per interval of seconds.  `CacheRing`: both
threads take their next step.  `FifoTransport`: the engine calls `read_data`
again and again, and a client that wrote a size goes on to the body.
`MitigationEngine`: weak fairness of the loop, whose reads have a timeout, and of the
clock; strong fairness of the responses of each handler while the plugin process is up: the
channel is a queue, so that a response that was written is not passed over for
ever by heartbeats and timeouts, and the plugins of the repository return.
`LomLib` has no liveness property and no fairness.  `ProcStart`: threads run, the reads of
MAIN time out, and the configuration is written in the end; the plugins and
the switch need no fairness.

## 5. What is proved

`PluginProcProofs` (assumptions: `ReqsAssumption`, `BoundsAssumption`).  The
inductive invariant `IInv` has eight parts, each with a lemma that every step
keeps it:

- `TypeOK`;
- `LoadInv`: holders not loaded are as `__init__` leaves them, registration and
  loading go together;
- `ShutInv`: plugins are told exactly with `shutdown_request`, and the loop is
  left after it;
- `ThreadInv`: a pending response is of the last request, and from `ended` on
  its end is recorded;
- `InboxInv`: a message still unread has no run and no answer behind it;
- `AnswerInv`: at most one answer, none while the call runs or the response is
  pending;
- `MaskInv`: for plugins that return responses, an end on record goes with a
  response;
- `NoLostCompletion` itself.

The checked properties are not inductive alone.  `AnsweredOnce` needs to know
that a pending response has no answer, which needs that a request is started at
most once, which needs that the inbox has no request twice (`InboxInv`).
`NoLostCompletion` needs `ThreadInv`: the main thread may only take a signal away
if the end of a signalled request is on record, so that `handle_response` sends.
From `IInv` follow `TypeCorrect`, `CompletionKept`, `OneAnswer`,
`PendingResponse`, `HeartbeatsPass` and `PluginsShut`.  `HeartbeatsStamped` uses
one more invariant, `BeatInv`: until a holder has stamped an id its pipe has at
most the signal of a pending response, so that the main thread never gets to
`send_heartbeat`.

`ServiceImplemented`: every step of the process is a step of `ActionService` or a stutter.  The
status of a request depends on four facts only: whether it was issued, is in the inbox, has an answer,
and is served by the holder of its action; a request of which none changes keeps its status (`StatusKept`).  So each
action comes down to the requests it touches: the head of the inbox (`QueueRead`: it is there once, so that it is
not queued after the read), the last request of one holder (`LastIs`, `ServedBy`: no other
holder serves it), and for a reload all requests that run or wait to be sent,
which are dropped together.  This rests on `InboxInv`, `ThreadInv` and `AnswerInv`
before and after the step.

`CacheRingProofs` (assumption: `RingAssumption`): an inductive invariant that
says, for each pair of steps of the two threads, how indices and counts are
related; from it `TypeCorrect`, `WakeupKept`, `SlotsApart`, `PipeBounded`, and
`Refinement`: every step of the ring is a step of `BoundedQueue` or a stutter.

`MitigationEngineProofs` (assumption: `EngineAssumption`: sequences are not
empty, no sequence has an action twice, an anomaly action is in its own sequence
only).  The inductive invariant `IInv` has six parts: `TypeOK`;
`LockAgrees`; `StartInv` (handlers still to be started are as `__init__` left
them); `RequestInv` (an open request is at the index of its handler, which is active and
waits for it; a pending handler has none); `PublishInv` (a handler at work has not
published "complete", nor anything before its anomaly was detected); and `ProgressIsStarted`.  The properties
are not inductive alone: that two mitigations do not overlap needs `RequestInv`,
by which an open bound action belongs to a handler past its first answer, and
`LockAgrees`, by which such a handler holds the lock or lost it to the clock.
From `IInv` follow `TypeCorrect`, `LockConsistent`, `RequestsAwaited`, `MitigationsExclusive`,
`BusyOnlyLate`, `ProgressAfterStart` and `FinalPublication`, for any number of
anomalies, any sharing of bound actions and any number of expiries.
`LeaseImplemented` needs one more invariant, `AskedInv`: the requests of a handler are those up to its
index, and a pending handler has not made the one it is at, so that a new request is new for the
lease as well.  `LockAgrees` says that the lease is free when the engine finds the lock free, and
`RequestInv` that the answer a handler goes on with is the last of its requests at work (`AnswersLast`).

`LinkPluginsProofs` (assumption: `LinkAssumption`).  `ReportsMatch` is not
inductive: what the code compares is in `flaps`, what the property speaks of in
`times`.  `FlapsAreLast` says that the one is the end of the other; `ReportsAreRead`
that a report is of an event that was read, so that a new event is never
reported before; `ContextIsReported` and `Started` that a context names an interface reported in the
run that is under way.  Two lemmas on the ends of sequences carry the step of `ReadEvent`.
From it follow `TypeCorrect`, `ReportsMatchReads` and `OnlyReportedIsShut`, for
every `flap_cnt` from 2 on, every interval and any number of interfaces and runs.
`SlowIsLate` needs one more invariant, `ReadAfter`: the downs of an interface that are
read and those in the socket are together the downs that went, and the k-th reading is of
the k-th down, not before it.

`ProcStartProofs` (assumption: `StartAssumption`).  The invariant follows
each process: `Progress` (what it has sent is what it has loaded, the client, and at most the
one action it was about to load; a process that failed with a pipe left has not
sent all), `Received` (what MAIN has read or can read was sent), `Decided` (the engine
comes after a comparison that succeeded) and `Alone` (a process alone has the rc
data, the files it has gone past, and, of the plugins gone through, those not disabled).
`EngineIsServed` needs all but the last: what was vetted was sent, a process that sent
everything has been through its last plugin, hence has not failed.
From it follow `TypeCorrect`, `EngineHasProcesses` and `LoadsConfiguration`.
`QuitsOnMissing` needs one more invariant, `InOrder`, about a single process: as long as
its ring has taken all it sent, what MAIN has counted is a prefix of its messages, and
what the ring holds is the rest of those sent, in order.  So MAIN meets no unexpected message,
finds the ring empty only when something is not sent, and counts down to a comparison that succeeds.

`LinkSystemProofs` (assumptions: the two above and `HostAssumption`, that the configuration of `Host` lists
the three link actions).  `PluginsRefined`: every step of the system is a step of `LinkPlugins` or leaves it
alone, so that `Spec => Link!Spec`.  Of `ProcStart` the system is not
a refinement, as `Unloaded` ends a process where `ProcStart` does not; but
it keeps its invariant, because after a vetting that succeeded a process has an action without a holder
only if its pipes ran out or the action is disabled, and a disabled action is never registered.
So the properties of the parts hold of the system: `SystemTypeCorrect`,
`SystemEngineIsServed`, `SystemReportsMatch`, `SystemLoadsConfiguration`,
`SystemShutIsReported`, `SystemSlowOnlyIfLate` and `SystemQuitOnlyOnMissing`; for
the last, every step of the system is one of `ProcStart` or taken while the engine works, when
the vetting is over.

`FifoTransportProofs` (assumption: `TransportAssumption`, a FIFO holds one message at
least).  `Intact` is nearly inductive: `Parsed` adds that a closed FIFO has lost its client, that the
size in hand is that of a body, and that a half-written message has a number.  The lemmas say what
becomes of a FIFO that holds `u` messages and a rest (`Laid`) when a size or a body is added at its end
or taken from its front; they rest on one fact of arithmetic, `Frame`: a place lies in one
frame only.  From it follow `TypeCorrect` and `ArrivesIntact`, for all lengths of sizes and bodies.
`ChannelImplemented` then needs no further invariant: by `Intact` before and after the step, the messages read are
the first of those sent, so that the queue of a client is the end of `sent` (`QueueIs`), to which a
write of a body appends (`EndAppend`) and of which a read of a body takes the head (`EndTail`).

`LomLibProofs` (assumption: `LibAssumption`).  `SessionsLegal` and `ViewsAgree` speak of what the
engine will know when it has read a whole FIFO, a fold, about which nothing can be proved for
every length.  So the invariant, `Agreed`, has the fold's steps instead: to each FIFO there is just one history of what the engine
knows after each of its messages; it is legal at its end, and for a client that
writes to it, its end has the client's actions.  A write adds a last entry to the history, a read
drops the first, a new FIFO has a new one.  From it follow `TypeCorrect`, `SessionsAreLegal` and
`ViewsDoAgree`.

Only model-checked: all liveness (`ResponseSent`, `ShutdownCompletes`,
`Delivered`, `LockReleased`, `AllComplete`, `Settles`, `Decides`), which is
beyond the prover.  Every invariant, action property and refinement that a passing run
checks is a theorem.

## 6. What is not modelled, and observations without a run

- The parts listed as to come above.
- Shutdown of the test driver: one message and a join of threads, which add nothing to
  what `PluginProc` says of a shutdown.
- Time: timeouts of polls are steps that may happen when nothing is readable.
- Logging, JSON, constants (`gvars.py`), the publishing wrappers (`helpers.py`, whose
  `publish_deinit` calls a function it does not import): no state another part
  depends on.  `misc.py` is not Python (line 12) and is imported by nothing.
- `_chk_thread_done` can find the thread alive although its response was
  already sent (lines 111-112 say "the request thread will not be alive"): the model has
  this, as `RefuseBusy` after an early answer.
- A touch not yet sent when the response goes out on an earlier signal is sent
  afterwards, under the id of the answered request.
- A request for a registered action without a holder ends the main thread with a
  `NameError` at line 365 (`RefuseUnloaded`).
- The returns of -1 leave the client and its actions registered.
- A plugin that returns `None` leaves `req_end` set ("Internal error: Expect
  response", `plugin_proc.py:290`).  A signal left over is then taken for a heartbeat,
  and if no `do_touch_heartbeat` has run, line 201 reads an attribute
  `instance_id` that `__init__` does not set: the state `crashBeat`, which takes two
  requests of a faulty plugin and one more.  No run is kept for it.
- The YANG models and the engine differ: `PENDING` is never published as a
  mitigation state; an anomaly whose lock expired ends as "complete" when its late
  answer is read, with the code of that answer, where `DB-Actions.yang:113-120` says
  "Failed" and counts from the detection, not from the acquisition of the lock.
- `read_action_request` ignores its timeout (`lom_lib.cpp:250`), and
  `poll_for_data` gets none from `read_data` (`transport.cpp:189`).
- A response with an empty required field is a null pointer at `lom_lib.cpp:278`.
- What the engine makes of a registration is in no file of the repository but
  `test_main.py`, over the rings; `view` in `LomLib` is the reading of `client.h`.
- SIGHUP alone ends the process: lines 444-445 of `plugin_proc.py` call `handle_shutdown` for any signal,
  where 441 says "SIGHUP need a reload of everything".
- `test_main.py:291` formats two places with one argument: the first of several runs of
  an anomaly ends the engine, where `test_data.json:143-147` has a `run_cnt`.
- `c_lib_init` cannot succeed without `-t` (`ClibRaises`): `CLIB_DLL_FILE` is `None` and
  `c_int` is not imported.  With `-t` and no configuration file for processes it returns
  `False` before `main_run` would wait for one (`ClibMocked`).
- A plugin that is disabled in the configuration is expected by the vetting and never
  registered, so that the test quits after ten seconds; and a vetting that fails returns
  without shutting the processes down.
- `link_safety` has result code 0 however few links are up, counts the header lines of
  the command as links that are up, and divides by zero when there are no lines.
- The shutdown by `link_down` of an interface that is up is itself a down event, which the next request of
  `link_flap` may report for an interface that is shut already.
- `shutdown_request` is a global that outlives a test case: the processes of a second one in
  the same interpreter would end at once.
- In `LinkSystem` the switch is silent until the engine is there, as nothing
  reads its events before; downs from before would be read late, which `SlowOnlyIfLate` covers.
