# TLA+ models of the LTT control tools

This directory holds TLA+ models of the trace consumer in this repository and
the TLC configurations that check them. Each model is written from the C
source. The only parts taken from `spec.md` are the kernel ring buffers, which
are not code of this repository, and the lttng consumer daemon, which
sessiond forks but whose code is not here. `PROJECT.json` maps every definition to the
source lines it models, and lists the runs, mutants, findings and hazards.

## The system and its parts

The repository contains the following parts.

| Part | Source | Role |
|---|---|---|
| liblttd engine | `src/liblttd/liblttd.c` | Finds the per-CPU ring files under a trace root. Runs N worker threads that poll the rings and drain full sub-buffers into a sink. Follows CPU hot-plug through inotify. Tears everything down at the end. |
| kernel relay rings | not in the repository (spec section 6) | The producer side. Fills sub-buffers, overwrites them in flight mode and finalizes the ring (POLLHUP). Serves `RELAY_GET_SB`, `RELAY_GET_SB_SIZE` and `RELAY_PUT_SB`. |
| liblttdvfs sink | `src/liblttd/liblttdvfs.c` | The callbacks. It creates output files and directories and splices each sub-buffer to its file. |
| lttd | `src/lttd/lttd.c` | The command-line driver. It parses options, installs the SIGTERM, SIGINT and SIGQUIT handlers, creates the instance and starts it. |
| lttng-sessiond | `src/src/bin/lttng-sessiond/main.c`, `notification-thread.c` | The session daemon. Its threads handle clients, the kernel, UST application registration and dispatch, consumer daemons, health and notifications. |
| headers | `liblttctl/lttctl.h`, `common/ust-consumer/ust-consumer.h` | Declarations only. |

Inside liblttd the parts work as follows.

**Startup.** `liblttd_start_instance` runs `channels_init`:
- it creates the inotify fd;
- `open_channel_trace_pairs` walks the root, calling `open_buffer_file` for each ring file;
- `map_channels` reads the geometry and initialises each pair's mutex.

It then spawns the workers and joins them all.

**Registry.** The fd pairs form a registry. The array only ever grows, and `fd_pairs_lock` (a reader/writer lock) protects it.

**Workers.** Each worker runs `read_channels`. One iteration does these steps in order:
1. Test `quit_program`.
2. Call `poll(-1)` on its own pollfd array.
3. If the inotify fd is ready, run `read_inotify` under the write lock. This appends pairs.
4. **High-priority pass.** For each POLLPRI ring, call `pthread_mutex_trylock` and then `read_subbuffer` (`GET_SB`, `GET_SB_SIZE`, `on_read_subbuffer`, `PUT_SB`).
5. **All-hangup test.**
6. **Low-priority pass**, only if no high-priority drain happened.
7. **Reconcile.** Under the read lock, grow the pollfd array to the registry's length.

**Shutdown.** The signal handler of lttd only sets `quit_program`. After the last join, the main thread unmaps and closes every pair, calls `on_close_channel` for each, and then calls `on_trace_end`.

**Consumer daemons in lttng-sessiond.** A client command that needs a
consumer reaches the consumer-start block of `process_client_msg`. Under
`pid_mutex`, when `pid == 0`, it calls `start_consumerd`:
1. `spawn_consumerd` forks the daemon and `pid` is recorded.
2. `spawn_consumer_thread` runs `sem_init`, `pthread_create(thread_manage_consumer)`, `clock_gettime`, and then `sem_timedwait` (an untimed `sem_wait` if the clock call failed). On timeout it calls `pthread_cancel`. After a post, it checks `pid == 0` under the mutex.
3. Back in the client, the state is set to `CONSUMER_STARTED`.

`thread_manage_consumer` does these steps:
- listens on `err_sock`;
- polls the quit pipe and `err_sock`, accepts the daemon, and receives its first code;
- on `SOCK_READY`, connects the command socket and posts the semaphore (it also posts when the connect fails);
- polls the quit pipe and the daemon's socket.

Its exit path sets the state to `CONSUMER_ERROR`, closes `err_sock` and `cmd_sock`, unlinks the paths and sets `pid = 0`, without the mutex.

**UST application registration in lttng-sessiond.** Three threads pass an
application from its socket to the poll set:
1. `thread_registration_apps` accepts on `apps_sock` and checks `lttng_fd_get`. It receives the registration message and enqueues a `ust_command` on the wait-free queue `ust_cmd_queue` (`cds_wfq_enqueue`: a tail exchange, then a link). Then it calls `futex_nto1_wake`.
2. `thread_dispatch_ust_registration` loops while `dispatch_thread_exit` is 0. Each turn it runs `futex_nto1_prepare` (futex -1), dequeues every command into `apps_cmd_pipe` (a blocking write), and then runs `futex_nto1_wait`.
3. `thread_manage_apps` reads a command from the pipe and calls `ust_app_register` (`-ENOMEM` ends the thread) and `ust_app_register_done`. It then watches the application's socket for hang-up.

On SIGINT or SIGTERM, `stop_threads` writes the quit pipe, sets `dispatch_thread_exit` and wakes the futex. `main` joins the client thread, and then only the kernel consumer's thread (`join_consumer_thread`: `kill(pid, SIGTERM)`, `pthread_join`).

## Modules

| Module | Models | Kind |
|---|---|---|
| `RingDrain` | What the engine promises for each ring. The sink receives the oldest unread sub-buffer each time, in ring order, with nothing repeated. Only a full flight ring may lose its oldest sub-buffer. | abstract specification |
| `Liblttd` | The liblttd engine, with the kernel rings and inotify as its environment. | detailed specification |
| `MCLiblttd` | Model values and bounds for TLC. | model |
| `SessiondConsumer` | One `consumer_data` of lttng-sessiond: the client thread's `process_client_msg` for five kernel-domain commands (session list and session locks, kernel pre-action, consumer start, error label), the kernel and apps threads' session-list walks, the management thread, main's shutdown, with the consumer daemon as environment. | detailed specification |
| `MCSessiondConsumer` | Instantiation for TLC. The constants are in its `.cfg` files. | model |
| `UstRegistration` | The UST registration pipeline of lttng-sessiond: the registration, dispatch and apps threads, `stop_threads` and main's joins, with applications as environment. | detailed specification |
| `KernelThread` | `thread_manage_kernel` with `update_kernel_poll` and `update_kernel_stream`, with the client commands and the kernel tracer as environment. | detailed specification |
| `MCKernelThread` | The channels as model values for TLC. | model |
| `MCUstRegistration` | The applications as model values for TLC. | model |
| `Lttd` | The lttd program end to end: `main` and `handler` of `lttd.c`, the instance lifecycle, the recursive discovery walk over a trace tree, `read_inotify`, and the liblttdvfs callbacks that create the trace files. Ring creation by the kernel is the environment. | detailed specification |
| `MCLttd` | A two-level trace tree as model values for TLC. | model |

### How `Liblttd` corresponds to the code

**State.** The state is split into five groups.
- `kernel`: `present`, `produced`, `consumed`, `reserved`, `hungup` and `inq` (the queued IN_CREATE events).
- `reg`: the registry. It holds `pairs` (the ring of each `fd_pairs.pair[i]`), `mapped` (pairs whose mutex was initialised), `owner` (the pair mutex), `quit` (`quit_program`) and `tried` (the events that reached `open_buffer_file`).
- `sink`: what the callbacks were handed. It holds `sinkLog` (the sub-buffer numbers passed to `on_read_subbuffer`), `closed` and `traceEnded`.
- `mainv`: the main thread. It holds `mpc`, the loop index `mi` and `spawned`.
- `workerv`: the locals of `read_channels`. It holds `pc`, `wlen` (= `num_pollfd - inotify_fds`), `rev` (the revents of the last poll), `idx` (the pass loop index), `high` (`high_prio`), and `cur` and `cookie` (the reserved sub-buffer).

**Main thread.**
- `ChannelsInit` is the whole of `channels_init`. That covers the walk (`OpenEntries` over a `readdir` order), the empty test, `map_channels` and, on failure, `close_channel_trace_pairs`.
- `SpawnThread`, `SpawnFail` and `SpawnDone` are the `pthread_create` loop.
- `JoinThread`, `JoinGarbage` and `JoinDone` are the join loop. `JoinGarbage` joins a slot whose create failed.
- `Teardown` is the rest of the function. It and the failure path of `ChannelsInit` use `CloseChannelTracePairs`.

**Workers.**
- `ThreadStart` is `thread_main` together with the first pollfd array.
- `LoopTop` is the quit test.
- `Poll` is the poll, with the revents fixed at that moment.
- `ReadInotify` is the inotify case together with `read_inotify` and `map_channels`.
- Each visit of a pass is one of three steps:
  - `TryLockBusy`: trylock fails;
  - `GetSbAgain`: `GET_SB` fails with EAGAIN;
  - `GetSbSizeFail`: `GET_SB_SIZE` fails.
- `GetSb` is the successful reserve.
- `SinkAndPut` is `on_read_subbuffer` followed by `PUT_SB` and the unlocks.
- `PassEnd` is the end of a pass, including the all-hangup test.
- `Reconcile` is the pollfd update.

A drain is split into two steps, `GetSb` and `SinkAndPut`. Between them the worker holds the read lock and the pair mutex. Everything else can interleave there, except the inotify writer, which waits for `Readers = {}`.

**Environment.**
- `Produce` fills a sub-buffer. On a full flight ring that is not reserved, it overwrites the oldest one.
- `HangUp` finalizes a ring.
- `Create` is a CPU hot-plug. It adds a ring file and queues an IN_CREATE event.
- `SignalStop(t)` is lttd's `handler` running on thread `t`. On a worker blocked in poll, the poll fails with EINTR and the worker returns.

**Failure points.** The constant `Faults` selects which ones the model may take:
- `open`: `open` fails;
- `sink_open`: `on_open_channel` refuses;
- `map`: `map_channels` fails;
- `sb_size`: `GET_SB_SIZE` fails;
- `thread`: `on_new_thread` fails;
- `spawn`: `pthread_create` fails.

**Uninitialised mutex.** A pair whose `map_channels` failed has an uninitialised mutex. `MayLock` and `MayFail` let its trylock go either way. This is the undefined behaviour of the code, modelled as a nondeterministic choice.

**Refinement.** `RingDrainSpec == RD!Spec` with `RD == INSTANCE RingDrain WITH delivered <- sinkLog`. `produced` and `consumed` map to themselves.

### How `SessiondConsumer` corresponds to the code

- **State.** The fields of `consumer_data` become `pid`, `sem`, `errSock`, `cmdSock`. The `*_consumerd_state` becomes `cstate`. There are three program counters: `cpc` (client), `tpc` (management thread) and `mpc` (main). `gen` numbers the forked daemons, so a pid is the generation of its daemon. `tgen` is the daemon the current thread was created for. The session state is `slist` (the session list, in order, as `session_list_ptr`), `ksess` (the sessions with a kernel session), `listLock` and `sessLock` (each mutex as its owner, `"free"` when unlocked), `tracerUp` (`kernel_tracer_fd != -1`) and `pollReq` (a byte on `kernel_poll_pipe`). The client's command is `ccmd` on session `csess`; `hasSess` is `cmd_ctx->session != NULL`. The walkers have `ipc`, `icur` (the cursor of `cds_list_for_each_entry`) and `ipolls`.
- **Client actions, in the order of the code.** `ClientAccept` receives a command. `ProcessClientMsg` is the preamble of `process_client_msg`: the `--no-kernel` refusal, the REGISTER_CONSUMER refusal when `pid > 0`, and `setup_lttng_msg`. `LockList` and `LockSession` are `session_lock_list`, `session_find_by_name` and `session_lock`. `KernelPre` is the root check and `init_kernel_tracer`. Then come `CheckError`, `KernelSession` (`create_kernel_session`), `CheckPid`, `StartConsumerd`, `SpawnConsumerThread`, `SemWait` / `SemTimeout` / `SemInterrupted` (EINTR after the client thread took the signal), `CheckStarted`, `SetStarted` and `ConsumerSocket` (`consumer_create_socket`, which dereferences `kernel_session->consumer`). The command bodies are `CmdCreateSession`, `CmdDestroySession`, `CmdEnableOrRegister` and `CmdListSessions`. `ProcessEpilogue` is the `error:` label. It unlocks the session when `cmd_ctx->session` is set, and unlocks the list whenever `need_tracing_session` is set, whether or not this call took the list lock. `pthread_mutex_unlock` on a default mutex does not check the owner, so that unlock frees the lock for whichever thread holds it.
  - `CheckStarted` follows `main.c:1499-1510`: a `pid` of 0 after the post jumps to `error` with `ret` still 0, so `spawn_consumer_thread` reports success either way and the client goes on to `SetStarted`. `StartConsumerd`'s early return when `pid != 0` also returns 0, and the client sets STARTED.
  - Every `goto error` goes to `"error"`. `init_setup_error` (allocation failure) goes straight to `"idle"`.
  - A `create_kernel_session` failure is not seen (`ret < 0` never holds for its positive error codes). With the `ksess` fault, `ConsumerSocket` then crashes the daemon (`"segv"`).
- **Walkers.** `IterWake`, `IterLockList`, `IterVisit` and `IterUnlock` are `update_kernel_poll`, called when `update_poll_flag` is set, and `update_ust_app`, called for each registered application (at most `MaxPolls`). `IterVisit` takes and releases one session's lock. For the kernel thread it may fail `lttng_poll_add` (`polladd`): the walk then unlocks the list and the kernel thread ends (`"ended"`), as `update_kernel_poll` returns -1 and `thread_manage_kernel` jumps to `error`. A cursor on a session that was freed ends the walk.
  - Only the client thread takes `pid_mutex`, so its critical sections are single steps.
  - The thread's `pid = 0` is unprotected, so it can fall between any two client steps.
- **Thread actions.** `TListen`, `TRecvCode`, `TConnect`, `TPoll2`, `TCleanup`. `TCancelled` is the deferred cancellation taking effect at a blocking call. A cancelled thread runs none of its exit path.
- **Daemon.** `DConnect` sends the first code, `READY` or an error. `DDie` is any exit.
- **Main.** `StopThreads`, `JoinClient`, `JoinConsumerThread`, `JoinWait`. Joining a `pthread_t` that was never written (`pthread_create` failed for the first daemon) may return or crash.
- **Parameters.** `Type` chooses the kernel, 64-bit or 32-bit UST block. `Faults` enables the failure of fork, `pthread_create`, `clock_gettime`, `listen`, the reply allocation, the tracer load, `create_kernel_session` or `lttng_poll_add`. `MaxCmds` bounds the commands, and so the daemons forked. `Cmds`, `Sess` and `Iters` are the commands, session names and walkers. `OptNoKernel` and `IsRoot` are `opt_no_kernel` and `is_root`.

### How `UstRegistration` corresponds to the code

- **State.** `rpc`, `dpc`, `apc` and `mpc` are the program counters of the registration, dispatch, apps and main threads. `queue` holds the linked nodes of `ust_cmd_queue`, and `pending` holds a node whose tail exchange is done but whose link is not. `futex` is `ust_cmd_queue.futex`. `pipe` is `apps_cmd_pipe`, bounded by `PipeCap`. `polled` is the apps thread's poll set.
- **Library code.** `futex_nto1_*` and the wfqueue are in liburcu and lttng's `futex.c`, not in this repository. They are modelled from their semantics:
  - prepare sets -1;
  - wake turns -1 into 0 and wakes;
  - `FUTEX_WAIT` sleeps only while the value is -1;
  - `cds_wfq_dequeue_blocking` returns NULL on an empty queue and spins while an enqueue is half done.
- **Registration thread.** `RegQuit` (the quit pipe and the exit path), `RegPoll` (accept, with the `lttng_fd_get` refusal; a failed accept or `zmalloc` ends the thread), `RegRecv`, `RegXchg` and `RegLink` (the two halves of `cds_wfq_enqueue`), `RegWake`.
- **Dispatcher.** `DispCheckExit`, `DispPrepare`, `DispDequeue`, `DispWrite` (blocks while the pipe is full), `DispWait`.
- **Apps thread.** `AppsExit` is the thread's exit path, taken by `AppsQuit` and by an `-ENOMEM` registration. The actions are `AppsQuit`, `AppsRegister` (the outcomes of `ust_app_register` and `ust_app_register_done`, and a failed `lttng_poll_add`, which ends the thread), `AppsHangup`.
- **Main.** `StopQuit`, `StopExitFlag` and `StopWake` are the three statements of `stop_threads`. `JoinThreads` is the joins of the apps, registration and dispatch threads, in that order.
- **Parameters.** `Faults` enables the `accept`, `alloc`, `fdlimit`, `recv`, `register`, `done`, `enomem` and `polladd` failures.

### How `KernelThread` corresponds to the code

- **State.** `kpc` is the kernel thread's place: the top of the loop, handling the fds a poll returned (`kready`), or ended. `updateFlag` is `update_poll_flag`, and `pollSet` holds the channels added by the last `update_kernel_poll`. `kpipe` counts the bytes in `kernel_poll_pipe`. `avail`, `opened` and `sent` count, per channel, the streams the kernel offers, the streams sessiond opened, and the streams sent to the consumer. `fdsSent` is `consumer_fds_sent`.
- **Environment.** `CreateChannel`, `StartTrace` and `DestroySession` are the cmd.c commands, which are not in this repository. Each writes the pipe where main.c passes it `kernel_poll_pipe[1]`. `CpuHotplug` is a CPU coming online.
- **Thread.** `UpdateKernelPoll`, `KPoll`, `KQuit`, `KReadPipe` and `UpdateKernelStream` follow the loop. `Continue` and `Break` are the loop's `continue` and `break`.
- **Locks.** The session list and session locks make `update_kernel_poll`, `update_kernel_stream` and each client command single steps.

### How `Lttd` corresponds to the code

- **State.** `mpc` is where `main` is, from `parse` to `return`, `exited` or `crashed`. `inst` is what the global `instance` points to: NULL, a live instance, or freed memory after `delete_instance`. `handler` is the `sigaction` already done. `stk` is the recursion of `open_channel_trace_pairs`: one frame per open `DIR`, holding the entries `readdir` has returned (`done`) and those present at the first `readdir` (`snap`). `watched` holds the directories with an inotify watch, and `inq` the queued `IN_CREATE` events. `pairs` is the registry, as the ring each pair reads. `outdirs` and `outputs` are what liblttdvfs created in the output trace directory.
- **Walk.** `ChannelsInit` opens the root. `Readdir` is one turn of the `readdir` loop:
  - a `stat` failure skips the entry;
  - a directory is entered through `EnterDir` (`opendir`, `on_new_channels_folder`, then the watch);
  - a ring file goes to `OpenBufferFile`, whose -1 ends the reading of that directory.

  `ReaddirEnd` is `readdir` returning NULL. `DirReturn` gives the result to the caller. A subdirectory's result is ignored, and the root's result decides `channels_init`. An entry created after the first `readdir` may or may not be listed, as POSIX allows.
- **Sink.** `LiblttdvfsOnOpenChannel` refuses an existing trace file unless `-a` is given, and creates a missing one in its output directory.
- **Run.** `ReadInotify` is one read of the inotify fd: every queued event, processed until the first -1. `Teardown` is the return of every worker, followed by unmap, `close_channel_trace_pairs`, `on_trace_end` and `delete_instance`. `Signal` is `handler()`. Through NULL it faults. Through a live instance it sets `quit_program`. Through freed memory the write is undefined; the model lets it fault, and otherwise it is a stutter.
- **Abstracted.** Argument parsing is reduced to its result: `-h`, an error, or accepted. The flags are the constants `Mode`, `AppendMode` and `DaemonMode`. The worker drain is `Liblttd`'s subject. Here a worker only handles inotify, which it does under the write lock, one worker at a time.

## Runs

The Liblttd runs use `MCLiblttd`. The sets of rings are model values defined in `MCLiblttd.tla`.

**Passing runs**

- **`hotplug`** (`MCLiblttdHotplug.cfg`): 2 workers, one ring at start and a flight ring that is hot-plugged, NSB = 1 < MaxSB = 2, so overwrites happen. It checks `TypeOK`, `TraceStopEnds`, `RingDrainSpec` and `DataDrained`.
  - Every ring reaches the sink in production order.
  - `DataDrained`: a sub-buffer completed on the hot-plugged ring is eventually handed to the sink, unless the instance ended or was asked to stop. This takes several steps of both workers: one reads the IN_CREATE event (the other may lose the read with EAGAIN), the pair is appended under the write lock, and some worker's reconcile grows its pollfd array to it, while the other keeps polling its old array.
  - Once every ring file exists and is finalized, the instance ends.
- **`faults`** (`MCLiblttdFaults.cfg`): the hotplug rings with NSB = MaxSB = 2, so a ring can be partly full (POLLIN) or full (POLLPRI) and both passes run, and every failure point. It checks `TypeOK`, `NoCallbackAfterTraceEnd` and `RingDrainSpec`.
  - No sink callback comes after `on_trace_end`.
  - Every ring reaches the sink in its own order, on the error paths too.

**Violation runs.** Each one checks one property and has a finding in `PROJECT.json`.

- **`idle_stop`**, `StopTerminates`: a stop request is not seen while the trace is idle.

A `GET_SB_SIZE` failure never releases the sub-buffer (`liblttd.c:258`): `read_subbuffer` jumps to `get_error` past `RELAY_PUT_SB`. The ring is then never drained again. The `hotplug` run leaves that fault out; adding `"sb_size"` to its `Faults` makes `DataDrained` fail for that reason. This is listed as a hazard, with no run of its own.

**UstRegistration runs** (`MCUstRegistration`, three applications).

- **`ust_registration`** passes. It uses a one-command pipe and every failure point, and checks these properties:
  - `TypeOK`;
  - `NoLostWakeup`: the dispatcher never sleeps on the futex while a command is queued, unless the registration thread's wake is still to come;
  - `RegistrationDelivered`: every enqueued registration reaches `thread_manage_apps` unless that thread has ended.
- **`ust_shutdown`**, `ShutdownCompletes`: the dispatcher tests `dispatch_thread_exit` (0), then `stop_threads` sets it and wakes a futex that is still 0. The dispatcher prepares -1, finds the queue empty and sleeps forever, and main hangs in `pthread_join(dispatch_thread)`.

Both cfgs turn deadlock reporting off, because of that hang.

**SessiondConsumer runs** (`MCSessiondConsumer`).

- **`consumer`** passes. It runs the kernel consumer over 3 commands, any of CREATE, DESTROY, ENABLE_CHANNEL, REGISTER_CONSUMER and LIST_SESSIONS, on one session. The kernel and apps threads walk the list. Fork, `pthread_create`, `listen`, allocation, tracer-load and poll-add failures are enabled. It checks these properties:
  - `TypeOK`;
  - `OneManagerThread`: no second management thread is created while one runs;
  - `WalkCompletes`: a walk of the session list by the kernel or apps thread always ends, returning the walker to its loop or, after a failed `lttng_poll_add`, ending the kernel thread (or the daemon crashed). The client holds the list lock across a consumer start, so this depends on the start coming back and on the error label releasing the session lock.
- **`list_unlock`**, `NoFreedSessionUse` (`MCSessiondListUnlock.cfg`, no faults): CREATE, then ENABLE_CHANNEL starts the consumer (`pid > 0`). The kernel thread takes the list lock to rebuild its poll set. A REGISTER_CONSUMER is refused at `main.c:2031` and its error label unlocks the list the kernel thread holds. A DESTROY_SESSION then locks the list and frees the session the kernel thread is visiting: a use after free in `update_kernel_poll`. The same holds for `update_ust_app` and for kernel commands under `--no-kernel` (`main.c:2022`).
- **`consumer_stuck`**, `ConsumerRecoverable`: after a timed-out start the cancelled thread never clears `pid` or sets ERROR. The consumer is never restarted or reported.

The `clock` fault is not in the `consumer` run. After a `clock_gettime` failure the untimed `sem_wait` blocks the client thread whenever the daemon never becomes ready, and main, which joins the client thread first, never joins the consumer thread. This is listed as a hazard at `main.c:1475`. `CheckStarted`'s success on `pid == 0` is listed as a hazard at `main.c:1503`: what follows it happens in `consumer.c`, which is not in this repository.

**KernelThread runs** (`MCKernelThread`, two channels, up to three CPUs).

- **`kernel_hotplug`** passes. `update_kernel_poll` may fail. It checks these properties:
  - `TypeOK`;
  - `HotplugHandled`: a stream the kernel offers on a live channel is eventually opened, unless the kernel thread has ended.
- **`kernel_stream_lost`**, `StreamEventuallySent` (`MCKernelThreadSend.cfg`): once tracing started, a stream opened on a live channel and not yet at the consumer is eventually sent, unless the channel is gone or the thread ended. TLC finds it violated: `kernel_consumer_send_channel_stream` fails after `update_kernel_stream` opened a hot-plugged CPU's stream, the channel fd no longer polls readable, and the kernel thread waits in `poll` with the stream unsent for as long as no other CPU comes online.

**Lttd runs** (`MCLttd`). The tree is a root holding a `metadata` ring and two channel directories. `chan` has `cpu0` at start. `chan/cpu1` and the flight channel's `flight-cpu1` appear when CPU 1 comes online, at any time, including during the walk.

- **`lttd`** passes. It runs in the default (non-append) mode with `-d`, and with every failure point: `stat`, `opendir`, `mkdir`, ring `open`, the sink's open, `map_channels`, `daemon()` and allocation. It checks these properties:
  - `TypeOK`;
  - `OnePairPerRing`: no kernel ring is read through two pairs. The walk and `read_inotify` can both meet a ring created during the walk, and only the sink's refusal of an existing trace file keeps the second pair out.

  The process really ends, so deadlock reporting is off.
- **`lttd_walk_race`**, `RingsTraced` (no faults): the watch is added before `readdir`, so `chan/cpu1`, created during the walk, is opened by the walk and also queued. `flight-cpu1` is queued behind it. The worker's read returns both events. The sink refuses the second open of `cpu1`'s trace file, and `read_inotify` returns, dropping `flight-cpu1`'s event. That ring is never traced, though no fault was injected.

**Mutants.** Each property of a passing run has a mutant in the module of its run, defined just before the operator it replaces. Each mutant is a plausible slip in the code:
- a `PUT_SB` that does not advance;
- a join that does not wait;
- a reconcile that does not grow the pollfd array to pairs appended since;
- an off-by-one in the hang-up count;
- an off-by-one in `num_pollfd`;
- (sessiond) a second `sem_post` on the failed-connect path;
- an error label that leaves the session locked;
- `pid` reset on timeout so that the next command restarts the daemon. This breaks `OneManagerThread`: the cancelled thread is still running;
- (UST) the wake after the enqueue left out;
- a pipe write that does not block when the pipe is full;
- a dispatcher that writes one command per wake-up;
- (kernel thread) a pipe read without the fd test;
- a pipe read that does not set `update_poll_flag`;
- (lttd) `main` returning parse_arguments' -1 itself;
- a trace file opened whether or not it exists.

## Bounds and why they are enough

- **Workers.** Two workers are enough for every race between workers in this code: the trylock race, the inotify EAGAIN race, and a writer waiting for a reader. Each of these involves two threads.
- **Sub-buffers per ring.**
  - NSB = 2 and MaxSB = 2 let a ring be partly full (POLLIN) or full (POLLPRI). That makes both passes and the `high_prio` skip happen.
  - NSB = 1 and MaxSB = 2 let a flight ring overwrite.
- **Rings.** Two rings let one worker drain several rings in a pass and let workers split the rings between them. Three rings let two hot-plug events arrive in one inotify read.
- **Size and time.** The largest run (`faults`) has about 2.6 million states and takes under 2 minutes with two workers. The `hotplug` run, with its liveness properties, has about 330 thousand states and takes about 2 minutes.
- **Dead locals.** The locals that are dead until they are overwritten (`rev` after a pass, `cur` and `cookie` after a drain) are cleared. States that differ only in them then coincide.

- **SessiondConsumer.** Three commands let a daemon be forked, fail, and be forked again after its thread reset `pid`. They also let a session be created, get a kernel session, and be destroyed. One session name is enough: every walker race is about the session the cursor is on. The list-unlock race needs four commands (create, enable, register, destroy). One application registration lets the apps walk meet every client step. The pass run has about 163 thousand states and takes about 35 seconds.

- **UstRegistration.** Three applications let one be refused, one be half-enqueued while the dispatcher runs, and one wait behind a full pipe. A pipe of one command makes the blocking write happen. The pass run has about 180 thousand states and takes about half a minute.

- **KernelThread.** Two channels let one be created after the other is in the poll set. Three CPUs let two be hot-plugged, before and after tracing starts. The pass run has about 16 thousand states.

- **Lttd.** Two channel directories below the root let a subdirectory's error be swallowed while the walk goes on. A root-level ring lets a refusal at the root abort the start. Two CPUs coming online let one ring be queued behind another's duplicate event. The pass run has about 12.6 thousand states and finishes in seconds.

## Fairness

- Each worker has weak fairness on its own steps.
- The main thread has weak fairness on its steps.

- In sessiond, the client, management and main threads are weakly fair, and so is a killed daemon's death, since SIGTERM is delivered. A daemon is never forced to connect. `sem_timedwait`'s timeout is a client step, so it is weakly fair too. The walkers' steps are weakly fair (`IterSteps`): the kernel thread wakes while a byte is on its pipe, and a walk that has started goes on. An application's arrival (the apps thread's `IterWake`) gets no fairness, because nothing forces an application to register.

- The kernel thread and main's join are weakly fair. Clients, CPUs and the signal are not.
- In the UST pipeline, the registration, dispatch and apps threads and main's joins are weakly fair. So are the last two statements of `stop_threads`, once the handler has started. Applications and the signal get no fairness.

These threads are preemptively scheduled OS threads, and none of them waits except in `poll`, `pthread_join` or the rwlock. When such a step is possible, it keeps being possible until it is taken.

The Lttd runs check safety only and assume no fairness.

The producer, hot-plug and signals get no fairness. A trace may stay idle, a CPU may never come online, and nobody has to send a signal. `TraceStopEnds` therefore assumes that every ring has appeared and hung up. `StopTerminates` fails exactly because an idle trace is allowed.

## Not modelled, and the plan

The planned modules are listed below, in order.

1. **The discovery walker** is modelled in `Lttd`, except for these parts:
   - symbolic links, which `stat` follows against spec 4.D (`liblttd.c:215`). The kernel's trace directories contain none, and a link to an ancestor would make the walk unbounded;
   - dot-names, which are skipped before any state changes.
2. **`on_read_subbuffer`**, the splice loop of liblttdvfs (`liblttdvfs.c:161`), is not modelled. Its short counts are byte arithmetic, and it would need byte-level data.
3. **`Lttd`** reaches two defects that no run checks:
   - the exit status of 0 when startup fails;
   - the fault of a signal that arrives before the instance exists or after it is freed.

   Each is one statement of `lttd.c` and fails in a couple of steps. They are listed as hazards.
4. **`SessiondConsumer`** is done. Still open:
   - an abstract "at most one live consumer per domain" specification for it to refine;
   - the UST domain pre-action of `process_client_msg` (`main.c:2158-2236`): the 64-bit and 32-bit UST consumers together, sharing `ust_consumerd_state`. The 32-bit block also unlocks `pid_mutex` without locking it (`main.c:2212`). Only the client thread takes that mutex, so this changes no modelled state;
   - the other client commands, and the bodies of the modelled ones in `cmd.c` (not in this repository);
   - the `ksess` crash at `main.c:2124`/`2151`. The model has it, but no run enables it: it ends every behaviour at once, and the sign of `create_kernel_session`'s result comes from `lttng-error.h`, which is not in this repository. It is listed as a hazard.
5. **`UstRegistration`** is done. Still open: the contents of `ust_app_register` (`ust-app.c` is not in this repository).
6. **`KernelThread`** is done. Still open: several kernel sessions, and the epoll `maxevents` limit (`lttng_poll` is in `common/`, not in this repository).
7. **The health thread** (`thread_manage_health`) is not modelled. Its answers come from `health_check_state` in `health.c`, which is not in this repository, and main never joins it. A health client that connects and never sends blocks it in `recv` (`main.c:2807`), and no other thread can see that.
8. **`notification-thread.c`** cannot be modelled from this tree:
   - `main.c` never calls `notification_thread_handle_create` or starts `thread_notification`, so nothing in the program reaches it;
   - the handlers its poll loop dispatches to are not in `src/`: client connect, in, out and disconnect, the command queue, and channel samples.

   A model of the loop would be written from the handlers' names, not their code. The one defect of its start-up path is listed as a hazard (`notification-thread.c:485`): `init_thread_state` returns 0 when the socket or the poll set cannot be created, and the thread then reports ready.

Some things are left out of every model:
- formatting, logging and verbose output;
- option parsing beyond the values that reach the core;
- path strings, which are model values;
- the contents of the data.

These do not affect any property stated here.
