-------------------------- MODULE SessiondConsumer --------------------------
(***************************************************************************)
(* How lttng-sessiond (src/src/bin/lttng-sessiond/main.c) starts, watches  *)
(* and stops one consumer daemon (one struct consumer_data):               *)
(*  - the client thread runs process_client_msg; a domain command may call *)
(*    start_consumerd, which forks the daemon (spawn_consumerd) and runs   *)
(*    spawn_consumer_thread: sem_init, pthread_create, sem_timedwait, and  *)
(*    on timeout pthread_cancel;                                           *)
(*  - thread_manage_consumer listens on err_sock, accepts the daemon,      *)
(*    receives its first code, connects the command socket and posts the   *)
(*    semaphore, then waits for the daemon to fail or for the quit pipe;   *)
(*    its exit path sets the consumerd state to ERROR and pid to 0;        *)
(*  - main, on SIGINT/SIGTERM, runs stop_threads, joins the client thread  *)
(*    and then join_consumer_thread (kill the daemon, pthread_join).       *)
(* The consumer daemon itself is the environment.                          *)
(* The client thread runs each command under the session list lock and the *)
(* session's own lock; the kernel thread (update_kernel_poll) and the apps *)
(* thread (update_ust_app) walk the session list under the same locks.     *)
(***************************************************************************)
EXTENDS Naturals, Sequences, SequencesExt

CONSTANTS Type,      \* consumer_data->type: "kernel", "ust64" or "ust32"
          Faults,    \* failure points the model may take
          MaxCmds,   \* bound: client commands accepted
          Cmds,      \* client commands sent (kernel domain where one applies)
          Sess,      \* session names
          Iters,     \* threads that walk the session list: "kernel", "apps"
          MaxPolls,  \* bound: update_ust_app calls (application registrations)
          OptNoKernel, \* --no-kernel
          IsRoot     \* is_root

ASSUME /\ Type \in {"kernel", "ust64", "ust32"}
       /\ Faults \subseteq {"fork", "thread", "clock", "listen", "alloc",
                            "tracer", "ksess", "polladd"}
       /\ MaxCmds \in Nat /\ MaxPolls \in Nat
       /\ Cmds \subseteq {"create", "destroy", "enable", "register", "list"}
       /\ Iters \subseteq {"kernel", "apps"}
       /\ OptNoKernel \in BOOLEAN /\ IsRoot \in BOOLEAN

NoPid == 0   \* consumer_data->pid when no daemon is known
NoOwner == "free"   \* a pthread mutex nobody holds

VARIABLES
  pid,        \* consumer_data->pid: NoPid or the generation of the daemon
  gen,        \* daemons forked so far (the pid of the latest one)
  sem,        \* consumer_data->sem
  cstate,     \* kernel_consumerd_state / ust_consumerd_state
  errSock,    \* consumer_data->err_sock: "open" or "closed"
  cmdSock,    \* consumer_data->cmd_sock: "none" (-1), "valid", "closed"
  quit,       \* thread quit pipe written by stop_threads
  \* the consumer daemon of the current generation (environment)
  daemon,     \* "none", "up", "dead"
  code,       \* first code the daemon sent on err_sock: "none", "ready", "error"
  killed,     \* join_consumer_thread sent SIGTERM to it
  \* client thread
  cpc,        \* program point in process_client_msg / start_consumerd
  cmds,       \* commands accepted so far
  timed,      \* clock_gettime succeeded: the wait is sem_timedwait
  ccmd,       \* cmd_ctx->lsm->cmd_type of the current command
  csess,      \* cmd_ctx->lsm->session.name of the current command
  hasSess,    \* cmd_ctx->session is set (and locked by the client)
  \* sessions (session.c's ltt_session_list)
  slist,      \* the session list, in list order
  ksess,      \* sessions that have a kernel_session
  listLock,   \* ltt_session_list.lock: NoOwner or the holding thread
  sessLock,   \* session->lock of each live session
  tracerUp,   \* kernel_tracer_fd != -1
  pollReq,    \* kernel_poll_pipe written, not yet read by the kernel thread
  \* session list walkers
  ipc,        \* program point of each walker
  icur,       \* the session each walker's list cursor points to
  ipolls,     \* update_ust_app calls so far
  \* consumer management thread
  tpc,        \* program point in thread_manage_consumer
  tgen,       \* generation of the daemon the thread was created for (0: none)
  cancelReq,  \* pthread_cancel was called on it
  \* main thread
  mpc         \* "run", "joinClient", "joinConsumer", "joinWait", "done",
              \* "crashed"

consVars == <<pid, gen, sem, cstate, errSock, cmdSock, quit, daemon, code,
              killed, cpc, cmds, timed, tpc, tgen, cancelReq, mpc>>
sessVars == <<ccmd, csess, hasSess, slist, ksess, listLock, sessLock,
              tracerUp, pollReq, ipc, icur, ipolls>>
vars == <<consVars, sessVars>>

Init ==
  /\ pid = NoPid /\ gen = 0 /\ sem = 0 /\ cstate = "STOPPED"
  /\ errSock = "open" /\ cmdSock = "none" /\ quit = FALSE
  /\ daemon = "none" /\ code = "none" /\ killed = FALSE
  /\ cpc = "idle" /\ cmds = 0 /\ timed = TRUE
  /\ tpc = "none" /\ tgen = 0 /\ cancelReq = FALSE
  /\ mpc = "run"
  /\ ccmd = "create" /\ csess = (CHOOSE s \in Sess : TRUE) /\ hasSess = FALSE
  /\ slist = <<>> /\ ksess = {} /\ listLock = NoOwner
  /\ sessLock = [s \in Sess |-> NoOwner]
  \* main's startup init_kernel_tracer (root, no --no-kernel) may fail
  /\ tracerUp \in IF IsRoot /\ ~OptNoKernel THEN BOOLEAN ELSE {FALSE}
  /\ pollReq = TRUE   \* update_poll_flag starts at 1
  /\ ipc = [t \in Iters |-> "idle"] /\ icur = [t \in Iters |-> CHOOSE s \in Sess : TRUE]
  /\ ipolls = 0

-----------------------------------------------------------------------------
(* Client thread: thread_manage_clients and process_client_msg.            *)

ClientVarsOff == <<pid, gen, sem, cstate, errSock, cmdSock, quit, daemon,
                   code, killed, timed, tpc, tgen, cancelReq, mpc>>
IterVars == <<ipc, icur, ipolls>>

Outcome(f) == {"ok"} \cup (IF f \in Faults THEN {"fail"} ELSE {})

\* need_domain: the commands that carry a domain (here the kernel domain).
NeedDomain(c) == c \in {"enable", "register"}
\* need_tracing_session: all but CREATE_SESSION and LIST_SESSIONS.
NeedSession(c) == c \notin {"create", "list"}

\* The client loop polls the quit pipe with the client socket: it exits on
\* quit, otherwise accepts one more command and receives its lsm.
ClientAccept ==
  /\ cpc = "idle"
  /\ \/ quit /\ cpc' = "exited" /\ UNCHANGED <<cmds, ccmd, csess>>
     \/ /\ ~quit /\ cmds < MaxCmds /\ cpc' = "msg" /\ cmds' = cmds + 1
        /\ ccmd' \in Cmds /\ csess' \in Sess
  /\ UNCHANGED ClientVarsOff
  /\ UNCHANGED <<hasSess, slist, ksess, listLock, sessLock, tracerUp,
                 pollReq, IterVars>>

\* setup_lttng_msg: the zmalloc of the reply can fail.
SetupLttngMsg == Outcome("alloc")

\* The head of process_client_msg: --no-kernel refuses a kernel-domain
\* command, REGISTER_CONSUMER is refused while a kernel consumer runs (both
\* "goto error" before any lock is taken), the reply is allocated (failure
\* returns at init_setup_error), then a command that needs a session takes
\* the session list lock.
ProcessClientMsg ==
  /\ cpc = "msg"
  /\ \E o \in (IF ccmd = "list" THEN {"ok"} ELSE SetupLttngMsg) :
       cpc' = CASE OptNoKernel /\ NeedDomain(ccmd)    -> "error"
                [] ccmd = "register" /\ pid # NoPid -> "error"
                [] o = "fail"                        -> "idle"
                [] NeedSession(ccmd)                 -> "lockList"
                [] OTHER                             -> "dispatch"
  /\ UNCHANGED ClientVarsOff /\ UNCHANGED cmds /\ UNCHANGED sessVars

\* session_lock_list(), then session_find_by_name: an unknown name goes to
\* error with the list lock held.
LockList ==
  /\ cpc = "lockList" /\ listLock = NoOwner
  /\ listLock' = "client"
  /\ cpc' = IF Contains(slist, csess) THEN "lockSess" ELSE "error"
  /\ UNCHANGED ClientVarsOff /\ UNCHANGED cmds
  /\ UNCHANGED <<ccmd, csess, hasSess, slist, ksess, sessLock, tracerUp,
                 pollReq, IterVars>>

\* session_lock(cmd_ctx->session); without a domain, go to skip_domain.
LockSession ==
  /\ cpc = "lockSess" /\ sessLock[csess] = NoOwner
  /\ sessLock' = [sessLock EXCEPT ![csess] = "client"] /\ hasSess' = TRUE
  /\ cpc' = IF NeedDomain(ccmd) THEN "kpre" ELSE "dispatch"
  /\ UNCHANGED ClientVarsOff /\ UNCHANGED cmds
  /\ UNCHANGED <<ccmd, csess, slist, ksess, listLock, tracerUp, pollReq,
                 IterVars>>

\* init_kernel_tracer: modprobe, open /proc/lttng, version check, data
\* modules; any failure leaves kernel_tracer_fd at -1.
InitKernelTracer == Outcome("tracer")

\* The kernel domain pre-action: root is required, and the kernel tracer
\* is loaded if it is not yet.
KernelPre ==
  /\ cpc = "kpre"
  /\ \E o \in InitKernelTracer :
       /\ cpc' = CASE ~IsRoot                -> "error"
                   [] ~tracerUp /\ o = "fail" -> "error"
                   [] OTHER                   -> "checkErr"
       /\ tracerUp' = (tracerUp \/ (IsRoot /\ o = "ok"))
  /\ UNCHANGED ClientVarsOff /\ UNCHANGED cmds
  /\ UNCHANGED <<ccmd, csess, hasSess, slist, ksess, listLock, sessLock,
                 pollReq, IterVars>>

\* "Consumer is in an ERROR state. Report back to client."
CheckError ==
  /\ cpc = "checkErr"
  /\ cpc' = IF cstate = "ERROR" THEN "error" ELSE "ksess"
  /\ UNCHANGED ClientVarsOff /\ UNCHANGED cmds /\ UNCHANGED sessVars

\* create_kernel_session: kernel_create_session and the consumer output
\* copy; on failure the kernel session is destroyed and set to NULL.
CreateKernelSession == Outcome("ksess")

\* A session without a kernel session gets one.  create_kernel_session
\* returns LTTNG_OK or a positive LTTNG_ERR_* code, so the "ret < 0" test
\* never sees its failure: the command goes on with kernel_session NULL.
KernelSession ==
  /\ cpc = "ksess"
  /\ \E o \in CreateKernelSession :
       ksess' = IF csess \in ksess \/ o = "ok" THEN ksess \cup {csess} ELSE ksess
  /\ cpc' = "checkPid"
  /\ UNCHANGED ClientVarsOff /\ UNCHANGED cmds
  /\ UNCHANGED <<ccmd, csess, hasSess, slist, listLock, sessLock, tracerUp,
                 pollReq, IterVars>>

\* The consumer-start block of the domain: under pid_mutex, a command that
\* needs a consumer (not REGISTER_CONSUMER, session->start_consumer) and
\* finds pid == 0 calls start_consumerd.  (The 32-bit UST block unlocks
\* pid_mutex without having locked it; only this thread takes the mutex.)
CheckPid ==
  /\ cpc = "checkPid"
  /\ \E startConsumer \in BOOLEAN :
       cpc' = IF /\ ccmd # "register" /\ startConsumer /\ pid = NoPid
                THEN "start" ELSE "socket"
  /\ UNCHANGED ClientVarsOff /\ UNCHANGED cmds /\ UNCHANGED sessVars

\* spawn_consumerd: fork() fails, or the child execs the consumer daemon.
ForkOutcomes == {"ok"} \cup (IF "fork" \in Faults THEN {"fail"} ELSE {})

\* start_consumerd, under pid_mutex: an already known pid returns 0 (and
\* the client sets STARTED); otherwise fork the daemon and record its pid.
StartConsumerd ==
  /\ cpc = "start"
  /\ IF pid # NoPid
       THEN cpc' = "started" /\ UNCHANGED <<pid, daemon, code, killed>>
       ELSE \E f \in ForkOutcomes :
              IF f = "fail"
                THEN cpc' = "fail" /\ UNCHANGED <<pid, daemon, code, killed>>
                ELSE /\ pid' = gen + 1 /\ daemon' = "up" /\ code' = "none"
                     /\ killed' = FALSE /\ cpc' = "spawn"
  /\ gen' = IF cpc' = "spawn" THEN gen + 1 ELSE gen
  /\ UNCHANGED <<sem, cstate, errSock, cmdSock, quit, cmds, timed,
                 tpc, tgen, cancelReq, mpc>>
  /\ UNCHANGED sessVars

\* spawn_consumer_thread: sem_init(0), pthread_create, clock_gettime.  A
\* failed pthread_create returns with the daemon's pid still recorded; a
\* failed clock_gettime makes the wait an untimed sem_wait.
SpawnConsumerThread ==
  /\ cpc = "spawn"
  /\ sem' = 0
  /\ \/ /\ tpc' = "listen" /\ tgen' = pid /\ cancelReq' = FALSE
        /\ cpc' = "wait"
        /\ timed' \in IF "clock" \in Faults THEN BOOLEAN ELSE {TRUE}
     \/ /\ "thread" \in Faults
        /\ cpc' = "fail" /\ UNCHANGED <<tpc, tgen, cancelReq, timed>>
  /\ UNCHANGED <<pid, gen, cstate, errSock, cmdSock, quit, daemon, code,
                 killed, cmds, mpc>>
  /\ UNCHANGED sessVars

\* sem_timedwait (or sem_wait) returns once the thread posted.
SemWait ==
  /\ cpc = "wait" /\ sem > 0
  /\ sem' = sem - 1 /\ cpc' = "checkStarted"
  /\ UNCHANGED <<pid, gen, cstate, errSock, cmdSock, quit, daemon, code,
                 killed, cmds, timed, tpc, tgen, cancelReq, mpc>>
  /\ UNCHANGED sessVars

\* Mutant: on timeout, also forget the daemon (pid = 0) so that a later
\* command starts a new one.
SemTimeoutResetPid ==
  /\ cpc = "wait" /\ timed /\ sem = 0
  /\ cancelReq' = TRUE /\ cpc' = "fail" /\ pid' = NoPid
  /\ UNCHANGED <<gen, sem, cstate, errSock, cmdSock, quit, daemon,
                 code, killed, cmds, timed, tpc, tgen, mpc>>
  /\ UNCHANGED sessVars

\* A signal taken by the client thread (sighandler, after which quit is
\* set) interrupts sem_timedwait or sem_wait with EINTR, which is not
\* ETIMEDOUT: the wait fails without cancelling the thread.
SemInterrupted ==
  /\ cpc = "wait" /\ quit
  /\ cpc' = "fail"
  /\ UNCHANGED <<pid, gen, sem, cstate, errSock, cmdSock, quit, daemon,
                 code, killed, cmds, timed, tpc, tgen, cancelReq, mpc>>
  /\ UNCHANGED sessVars

\* sem_timedwait times out before any post: pthread_cancel the thread and
\* return an error.
SemTimeout ==
  /\ cpc = "wait" /\ timed /\ sem = 0
  /\ cancelReq' = TRUE /\ cpc' = "fail"
  /\ UNCHANGED <<pid, gen, sem, cstate, errSock, cmdSock, quit, daemon,
                 code, killed, cmds, timed, tpc, tgen, mpc>>
  /\ UNCHANGED sessVars

\* After the post, under pid_mutex: pid == 0 means the thread already
\* gave up ("Kconsumerd did not start"), but the jump to error returns
\* ret, which still holds sem_timedwait's 0, so spawn_consumer_thread
\* reports success either way.
CheckStarted ==
  /\ cpc = "checkStarted"
  /\ cpc' = "started"
  /\ UNCHANGED <<pid, gen, sem, cstate, errSock, cmdSock, quit, daemon,
                 code, killed, cmds, timed, tpc, tgen, cancelReq, mpc>>
  /\ UNCHANGED sessVars

\* start_consumerd returned 0: uatomic_set(..., CONSUMER_STARTED).
SetStarted ==
  /\ cpc = "started"
  /\ cstate' = "STARTED" /\ cpc' = "socket"
  /\ UNCHANGED <<pid, gen, sem, errSock, cmdSock, quit, daemon, code,
                 killed, cmds, timed, tpc, tgen, cancelReq, mpc>>
  /\ UNCHANGED sessVars

\* consumer_create_socket(&kconsumer_data,
\* cmd_ctx->session->kernel_session->consumer): with the kernel session
\* NULL (its creation failed) this dereference kills sessiond.
ConsumerSocket ==
  /\ cpc = "socket"
  /\ IF csess \in ksess
       THEN cpc' = "dispatch" /\ UNCHANGED mpc
       ELSE cpc' = "segv" /\ mpc' = "crashed"
  /\ UNCHANGED <<pid, gen, sem, cstate, errSock, cmdSock, quit, daemon, code,
                 killed, timed, tpc, tgen, cancelReq, cmds>>
  /\ UNCHANGED sessVars

\* CREATE_SESSION: cmd_create_session_uri adds a session of a new name at
\* the tail of the session list (an existing name is refused).
CmdCreateSession ==
  /\ cpc = "dispatch" /\ ccmd = "create"
  /\ slist' = IF Contains(slist, csess) THEN slist ELSE Append(slist, csess)
  /\ cpc' = "error"
  /\ UNCHANGED ClientVarsOff /\ UNCHANGED cmds
  /\ UNCHANGED <<ccmd, csess, hasSess, ksess, listLock, sessLock, tracerUp,
                 pollReq, IterVars>>

\* DESTROY_SESSION: cmd_destroy_session removes the session from the list
\* and frees it, lock included, and wakes the kernel thread when it had a
\* kernel session; cmd_ctx->session is set to NULL so that it is not
\* unlocked after the free.
CmdDestroySession ==
  /\ cpc = "dispatch" /\ ccmd = "destroy"
  /\ slist' = Remove(slist, csess) /\ ksess' = ksess \ {csess}
  /\ sessLock' = [sessLock EXCEPT ![csess] = NoOwner]
  /\ pollReq' = (pollReq \/ csess \in ksess)
  /\ hasSess' = FALSE /\ cpc' = "error"
  /\ UNCHANGED ClientVarsOff /\ UNCHANGED cmds
  /\ UNCHANGED <<ccmd, csess, listLock, tracerUp, IterVars>>

\* ENABLE_CHANNEL: cmd_enable_channel creates the kernel channel and writes
\* kernel_poll_pipe[1]; REGISTER_CONSUMER: cmd_register_consumer.
CmdEnableOrRegister ==
  /\ cpc = "dispatch" /\ ccmd \in {"enable", "register"}
  /\ pollReq' = (pollReq \/ ccmd = "enable")
  /\ cpc' = "error"
  /\ UNCHANGED ClientVarsOff /\ UNCHANGED cmds
  /\ UNCHANGED <<ccmd, csess, hasSess, slist, ksess, listLock, sessLock,
                 tracerUp, IterVars>>

\* LIST_SESSIONS: under its own session_lock_list, count the sessions,
\* allocate the reply and fill it, then unlock.
CmdListSessions ==
  /\ cpc = "dispatch" /\ ccmd = "list" /\ listLock = NoOwner
  /\ cpc' = "error"
  /\ UNCHANGED ClientVarsOff /\ UNCHANGED cmds /\ UNCHANGED sessVars

\* Mutant: the error label forgets the session unlock.
ProcessEpilogueNoSessionUnlock ==
  /\ cpc \in {"error", "fail"}
  /\ listLock' = IF NeedSession(ccmd) THEN NoOwner ELSE listLock
  /\ hasSess' = FALSE /\ cpc' = "idle"
  /\ UNCHANGED ClientVarsOff /\ UNCHANGED cmds
  /\ UNCHANGED <<ccmd, csess, slist, ksess, sessLock, tracerUp, pollReq,
                 IterVars>>

\* The error label, where every command ends: the reply code is set, the
\* session is unlocked if cmd_ctx->session is set, and the session list is
\* unlocked whenever need_tracing_session, whether or not this call locked
\* it.  session_unlock_list is pthread_mutex_unlock on a default mutex,
\* which does not check the owner: it frees the lock whoever holds it.
ProcessEpilogue ==
  /\ cpc \in {"error", "fail"}
  /\ sessLock' = IF hasSess THEN [sessLock EXCEPT ![csess] = NoOwner]
                 ELSE sessLock
  /\ listLock' = IF NeedSession(ccmd) THEN NoOwner ELSE listLock
  /\ hasSess' = FALSE /\ cpc' = "idle"
  /\ UNCHANGED ClientVarsOff /\ UNCHANGED cmds
  /\ UNCHANGED <<ccmd, csess, slist, ksess, tracerUp, pollReq, IterVars>>

Client ==
  \/ ClientAccept \/ ProcessClientMsg \/ LockList \/ LockSession
  \/ KernelPre \/ CheckError \/ KernelSession \/ CheckPid \/ StartConsumerd
  \/ SpawnConsumerThread \/ SemWait \/ SemInterrupted \/ SemTimeout \/ CheckStarted
  \/ SetStarted
  \/ ConsumerSocket \/ CmdCreateSession \/ CmdDestroySession
  \/ CmdEnableOrRegister \/ CmdListSessions \/ ProcessEpilogue

-----------------------------------------------------------------------------
(* The threads that walk the session list: update_kernel_poll, run by the  *)
(* kernel thread whenever kernel_poll_pipe was written, and update_ust_app, *)
(* run by the apps thread for each registered application.  Each takes    *)
(* the list lock, then each session's lock in list order.                  *)

\* The kernel thread reads kernel_poll_pipe; the apps thread gets a new
\* application.
IterWake(t) ==
  /\ ipc[t] = "idle"
  /\ \/ t = "kernel" /\ pollReq /\ pollReq' = FALSE /\ UNCHANGED ipolls
     \/ t = "apps" /\ ipolls < MaxPolls /\ ipolls' = ipolls + 1
        /\ UNCHANGED pollReq
  /\ ipc' = [ipc EXCEPT ![t] = "lockList"]
  /\ UNCHANGED <<ccmd, csess, hasSess, slist, ksess, listLock, sessLock,
                 tracerUp, icur>>
  /\ UNCHANGED consVars

\* session_lock_list(); the cursor goes to the head of the list.
IterLockList(t) ==
  /\ ipc[t] = "lockList" /\ listLock = NoOwner
  /\ listLock' = t
  /\ IF slist = <<>>
       THEN ipc' = [ipc EXCEPT ![t] = "unlock"] /\ UNCHANGED icur
       ELSE /\ ipc' = [ipc EXCEPT ![t] = "visit"]
            /\ icur' = [icur EXCEPT ![t] = Head(slist)]
  /\ UNCHANGED <<ccmd, csess, hasSess, slist, ksess, sessLock, tracerUp,
                 pollReq, ipolls>>
  /\ UNCHANGED consVars

\* lttng_poll_add of a kernel channel fd can fail.
PollAdd == Outcome("polladd")

\* One session: session_lock, the kernel thread adds the channels of its
\* kernel session to the poll set (a failure unlocks the session and goes
\* to the list unlock, after which the thread ends), session_unlock, and the cursor moves to the next
\* session.  A cursor on a freed session reads freed memory; the walk is
\* taken to end there.
IterVisit(t) ==
  /\ ipc[t] = "visit"
  /\ IF Contains(slist, icur[t])
       THEN /\ sessLock[icur[t]] = NoOwner
            /\ \E o \in PollAdd :
                 LET i == SelectInSeq(slist, LAMBDA x : x = icur[t])
                     failed == t = "kernel" /\ icur[t] \in ksess /\ o = "fail"
                 IN  IF failed \/ i = Len(slist)
                       THEN ipc' = [ipc EXCEPT ![t] = IF failed THEN "fail"
                                                      ELSE "unlock"]
                            /\ UNCHANGED icur
                       ELSE icur' = [icur EXCEPT ![t] = slist[i + 1]]
                            /\ UNCHANGED ipc
       ELSE ipc' = [ipc EXCEPT ![t] = "unlock"] /\ UNCHANGED icur
  /\ UNCHANGED <<ccmd, csess, hasSess, slist, ksess, listLock, sessLock,
                 tracerUp, pollReq, ipolls>>
  /\ UNCHANGED consVars

\* session_unlock_list(); after a failed lttng_poll_add, update_kernel_poll
\* returns -1 and thread_manage_kernel leaves its loop (goto error).
IterUnlock(t) ==
  /\ ipc[t] \in {"unlock", "fail"}
  /\ listLock' = NoOwner
  /\ ipc' = [ipc EXCEPT ![t] = IF ipc[t] = "fail" THEN "ended" ELSE "idle"]
  /\ UNCHANGED <<ccmd, csess, hasSess, slist, ksess, sessLock, tracerUp,
                 pollReq, icur, ipolls>>
  /\ UNCHANGED consVars

Iter ==
  \E t \in Iters :
    IterWake(t) \/ IterLockList(t) \/ IterVisit(t) \/ IterUnlock(t)

-----------------------------------------------------------------------------
(* Consumer management thread: thread_manage_consumer.  pthread_cancel is *)
(* deferred: the thread stops at its next cancellation point (poll, accept, *)
(* recv, connect, close) without running any of its exit path.             *)

ThreadVarsOff == <<gen, quit, daemon, code, killed, cpc, cmds, timed,
                   tgen, cancelReq, mpc, sessVars>>

\* lttcomm_listen_unix_sock(err_sock).  err_sock is created once, at
\* startup; the exit path of an earlier thread closed it, so listen fails.
\* error_listen skips the whole exit path: no ERROR state, pid kept.
TListen ==
  /\ tpc = "listen"
  /\ \/ /\ errSock = "open" /\ tpc' = "poll1"
     \/ /\ errSock = "closed" \/ "listen" \in Faults
        /\ tpc' = "gone"
  /\ UNCHANGED <<pid, sem, cstate, errSock, cmdSock>> /\ UNCHANGED ThreadVarsOff

\* First poll on the quit pipe and err_sock, then accept and receive the
\* daemon's first code: the quit pipe goes to exit, SOCK_READY to the
\* command socket connect, any other code to error.
TRecvCode ==
  /\ tpc = "poll1" /\ ~cancelReq
  /\ quit \/ code # "none"
  /\ tpc' = CASE quit -> "cleanup"
              [] code = "ready" -> "connect"
              [] OTHER -> "cleanup"
  /\ UNCHANGED <<pid, sem, cstate, errSock, cmdSock>> /\ UNCHANGED ThreadVarsOff

\* Mutant: the failed-connect branch posts, and the error path posts again.
TConnectDoublePost ==
  /\ tpc = "connect" /\ ~cancelReq
  /\ IF daemon = "up"
       THEN cmdSock' = "valid" /\ tpc' = "poll2" /\ sem' = sem + 1
       ELSE cmdSock' = "none" /\ tpc' = "cleanup" /\ sem' = sem + 2
  /\ UNCHANGED <<pid, cstate, errSock>> /\ UNCHANGED ThreadVarsOff

\* lttcomm_connect_unix_sock(cmd_unix_sock_path), then sem_post whether it
\* succeeded or not; a failed connect stores -1 in cmd_sock and goes to error.
TConnect ==
  /\ tpc = "connect" /\ ~cancelReq
  /\ sem' = sem + 1
  /\ IF daemon = "up"
       THEN cmdSock' = "valid" /\ tpc' = "poll2"
       ELSE cmdSock' = "none" /\ tpc' = "cleanup"
  /\ UNCHANGED <<pid, cstate, errSock>> /\ UNCHANGED ThreadVarsOff

\* Second poll, on the quit pipe and the daemon's socket: quit goes to exit;
\* a hang-up, or any later code received, to error.
TPoll2 ==
  /\ tpc = "poll2" /\ ~cancelReq
  /\ quit \/ daemon = "dead"
  /\ tpc' = "cleanup"
  /\ UNCHANGED <<pid, sem, cstate, errSock, cmdSock>> /\ UNCHANGED ThreadVarsOff

\* The exit/error path: consumerd state ERROR, close err_sock and cmd_sock
\* (the fields keep their old numbers), unlink the socket paths, pid = 0.
\* A thread cancelled while blocked stops at the first close.
TCleanup ==
  /\ tpc = "cleanup"
  /\ cstate' = "ERROR"
  /\ IF cancelReq
       THEN tpc' = "cancelled" /\ UNCHANGED <<pid, errSock, cmdSock>>
       ELSE /\ errSock' = "closed"
            /\ cmdSock' = IF cmdSock = "none" THEN "none" ELSE "closed"
            /\ pid' = NoPid /\ tpc' = "gone"
  /\ UNCHANGED sem /\ UNCHANGED ThreadVarsOff

\* The cancellation requested by spawn_consumer_thread takes effect at a
\* blocking call.
TCancelled ==
  /\ tpc \in {"poll1", "connect", "poll2"} /\ cancelReq
  /\ tpc' = "cancelled"
  /\ UNCHANGED <<pid, sem, cstate, errSock, cmdSock>> /\ UNCHANGED ThreadVarsOff

Thread == TListen \/ TRecvCode \/ TConnect \/ TPoll2 \/ TCleanup \/ TCancelled

-----------------------------------------------------------------------------
(* The consumer daemon (environment).  It connects to the error socket     *)
(* once the thread listens there and sends its first code; it may die at   *)
(* any time, and does die once SIGTERM was sent to it.                     *)

DaemonVarsOff == <<pid, gen, sem, cstate, errSock, cmdSock, quit,
                   killed, cpc, cmds, timed, tpc, tgen, cancelReq, mpc, sessVars>>

DConnect ==
  /\ daemon = "up" /\ code = "none"
  /\ tgen = pid /\ tpc \notin {"none", "listen"}
  /\ code' \in {"ready", "error"}
  /\ UNCHANGED daemon /\ UNCHANGED DaemonVarsOff

DDie ==
  /\ daemon = "up"
  /\ daemon' = "dead"
  /\ UNCHANGED code /\ UNCHANGED DaemonVarsOff

Daemon == DConnect \/ DDie

-----------------------------------------------------------------------------
(* Main thread: sighandler / stop_threads, then the joins at the end of   *)
(* main.  Only kconsumer_data's thread is joined.                         *)

MainVarsOff == <<pid, gen, sem, cstate, errSock, cmdSock, daemon, code,
                 cpc, cmds, timed, tpc, tgen, cancelReq, sessVars>>

\* SIGINT/SIGTERM: sighandler calls stop_threads, which writes the quit pipe.
StopThreads ==
  /\ mpc = "run"
  /\ quit' = TRUE /\ mpc' = "joinClient"
  /\ UNCHANGED killed /\ UNCHANGED MainVarsOff

\* pthread_join(client_thread).
JoinClient ==
  /\ mpc = "joinClient" /\ cpc = "exited"
  /\ mpc' = "joinConsumer"
  /\ UNCHANGED <<quit, killed>> /\ UNCHANGED MainVarsOff

\* join_consumer_thread(&kconsumer_data): with pid > 0, kill(pid, SIGTERM)
\* and pthread_join(consumer_data->thread); with pid 0, nothing.
JoinConsumerThread ==
  /\ mpc = "joinConsumer"
  /\ IF Type = "kernel" /\ pid # NoPid
       THEN killed' = TRUE /\ mpc' = "joinWait"
       ELSE mpc' = "done" /\ UNCHANGED killed
  /\ UNCHANGED quit /\ UNCHANGED MainVarsOff

\* pthread_join(consumer_data->thread) returns once the thread of this
\* daemon ended.  When pthread_create failed for it, the field holds the
\* previous, ended thread, or 0 if there never was one: joining thread 0
\* is undefined and may crash.
JoinWait ==
  /\ mpc = "joinWait"
  /\ \/ tgen = pid /\ tpc \in {"gone", "cancelled"} /\ mpc' = "done"
     \/ tgen # pid /\ tgen # 0 /\ mpc' = "done"
     \/ tgen = 0 /\ mpc' \in {"done", "crashed"}
  /\ UNCHANGED <<quit, killed>> /\ UNCHANGED MainVarsOff

Main == StopThreads \/ JoinClient \/ JoinConsumerThread \/ JoinWait

\* sessiond has exited.
Terminated ==
  /\ mpc \in {"done", "crashed"}
  /\ UNCHANGED vars

Next == Client \/ Iter \/ Thread \/ Daemon \/ Main \/ Terminated

\* The steps of the list walkers that sessiond itself drives: everything
\* but the arrival of an application.
IterSteps ==
  \E t \in Iters :
    \/ t = "kernel" /\ IterWake(t)
    \/ IterLockList(t) \/ IterVisit(t) \/ IterUnlock(t)

\* Every thread of sessiond is scheduled; sem_timedwait's timer fires; a
\* daemon sent SIGTERM dies.  Nothing forces a daemon to connect or an
\* application to register.
Fairness ==
  /\ WF_vars(Client) /\ WF_vars(Thread) /\ WF_vars(Main)
  /\ WF_vars(killed /\ DDie) /\ WF_vars(IterSteps)

Spec == Init /\ [][Next]_vars /\ Fairness

-----------------------------------------------------------------------------
(* Properties.                                                             *)

TypeOK ==
  /\ pid \in 0..MaxCmds /\ gen \in 0..MaxCmds /\ tgen \in 0..MaxCmds
  /\ sem \in 0..1
  /\ cstate \in {"STOPPED", "STARTED", "ERROR"}
  /\ errSock \in {"open", "closed"} /\ cmdSock \in {"none", "valid", "closed"}
  /\ quit \in BOOLEAN /\ daemon \in {"none", "up", "dead"}
  /\ code \in {"none", "ready", "error"} /\ killed \in BOOLEAN
  /\ cpc \in {"idle", "msg", "lockList", "lockSess", "kpre", "checkErr",
              "ksess", "checkPid", "start", "spawn", "wait", "checkStarted",
              "started", "socket", "dispatch", "fail", "error", "segv",
              "exited"}
  /\ ccmd \in Cmds \cup {"create"} /\ csess \in Sess /\ hasSess \in BOOLEAN
  /\ slist \in Seq(Sess) /\ IsInjective(slist) /\ ksess \subseteq ToSet(slist)
  /\ listLock \in {NoOwner, "client"} \cup Iters
  /\ sessLock \in [Sess -> {NoOwner, "client"} \cup Iters]
  /\ tracerUp \in BOOLEAN /\ pollReq \in BOOLEAN
  /\ ipc \in [Iters -> {"idle", "lockList", "visit", "unlock", "fail", "ended"}]
  /\ icur \in [Iters -> Sess] /\ ipolls \in 0..MaxPolls
  /\ cmds \in 0..MaxCmds /\ timed \in BOOLEAN
  /\ tpc \in {"none", "listen", "poll1", "connect", "poll2", "cleanup",
              "gone", "cancelled"}
  /\ cancelReq \in BOOLEAN
  /\ mpc \in {"run", "joinClient", "joinConsumer", "joinWait", "done", "crashed"}

\* start_consumerd never creates a second management thread for a
\* consumer_data whose previous thread is still running: both would share
\* sem, cmd_sock and pid.
OneManagerThread == cpc = "spawn" => tpc \in {"none", "gone", "cancelled"}

\* A walk of the session list (update_kernel_poll, update_ust_app) that
\* has started ends: no path of process_client_msg leaves the session list
\* lock or a session lock held, so the walker is never blocked for good.
\* A walk that fails (the kernel thread's lttng_poll_add) ends its thread
\* once it has released both locks.
WalkCompletes ==
  \A t \in Iters :
    ipc[t] \notin {"idle", "ended"} ~> (ipc[t] \in {"idle", "ended"} \/ mpc = "crashed")

\* A walker's cursor only ever points at a live session: the client cannot
\* destroy a session while a walker holds the session list lock.
NoFreedSessionUse ==
  \A t \in Iters : ipc[t] = "visit" => Contains(slist, icur[t])

\* Once the management thread has ended and the client is idle, the
\* consumer can be restarted (pid 0) or is reported broken (ERROR).
ConsumerRecoverable ==
  (tpc \in {"gone", "cancelled"} /\ cpc = "idle") => (pid = NoPid \/ cstate = "ERROR")

=============================================================================
