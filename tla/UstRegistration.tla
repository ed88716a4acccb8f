--------------------------- MODULE UstRegistration ---------------------------
(***************************************************************************)
(* The UST application registration pipeline of lttng-sessiond            *)
(* (src/src/bin/lttng-sessiond/main.c):                                    *)
(*  - thread_registration_apps accepts an application on apps_sock,        *)
(*    receives its registration message and enqueues a ust_command on the  *)
(*    wait-free queue ust_cmd_queue, then wakes the queue's futex;         *)
(*  - thread_dispatch_ust_registration prepares the futex, dequeues every  *)
(*    command and writes it to apps_cmd_pipe, then waits on the futex,     *)
(*    until dispatch_thread_exit is set;                                   *)
(*  - thread_manage_apps reads commands from the pipe and registers the    *)
(*    applications, then watches their sockets for hang-up;                *)
(*  - stop_threads (from sighandler) writes the quit pipe, sets            *)
(*    dispatch_thread_exit and wakes the futex; main joins the apps, the   *)
(*    registration and the dispatch threads in that order.                 *)
(* The futex_nto1 helpers and the wfqueue come from liburcu/lttng futex.c, *)
(* which are not in this repository: they are modelled from their         *)
(* documented semantics.  Applications are the environment.               *)
(***************************************************************************)
EXTENDS Naturals, Sequences, SequencesExt

CONSTANTS Apps,      \* applications that may register (model values)
          PipeCap,   \* bound: ust_commands apps_cmd_pipe holds before write blocks
          Faults     \* failure points the model may take

ASSUME /\ PipeCap \in Nat \ {0}
       /\ Faults \subseteq {"accept", "alloc", "fdlimit", "recv", "register",
                            "done", "enomem", "polladd"}

NoApp == "none"

VARIABLES
  backlog,    \* applications connected to apps_sock, not yet accepted
  arrived,    \* applications that ever connected
  \* registration thread
  rpc,        \* "poll", "recv", "xchg", "link", "wake", "done"
  rcur,       \* the application of ust_cmd being built
  \* ust_cmd_queue
  queue,      \* linked nodes of the wait-free queue, oldest first
  pending,    \* node whose tail exchange is done but not yet linked
  futex,      \* ust_cmd_queue.futex: 0 or -1
  exitFlag,   \* dispatch_thread_exit
  quit,       \* the thread quit pipe was written
  \* dispatch thread
  dpc,        \* "top", "prepare", "deq", "write", "wait", "done"
  dcur,       \* the ust_command being written to the pipe
  pipe,       \* apps_cmd_pipe contents
  \* apps thread
  apc,        \* "poll", "done"
  polled,     \* registered applications whose socket is in the poll set
  hungup,     \* applications that closed their socket
  handled,    \* applications the apps thread has processed
  refused,    \* applications the registration thread closed
  \* main thread
  mpc         \* "run", "exitflag", "wake", "joinApps", "joinReg",
              \* "joinDispatch", "done"

vars == <<backlog, arrived, rpc, rcur, queue, pending, futex, exitFlag, quit,
          dpc, dcur, pipe, apc, polled, hungup, handled, refused, mpc>>

regv == <<backlog, rpc, rcur, refused>>
qv == <<queue, pending, futex>>
dispv == <<dpc, dcur, pipe>>
appv == <<apc, polled, hungup, handled>>

Init ==
  /\ backlog = {} /\ arrived = {}
  /\ rpc = "poll" /\ rcur = NoApp
  /\ queue = <<>> /\ pending = NoApp /\ futex = 0
  /\ exitFlag = FALSE /\ quit = FALSE
  /\ dpc = "top" /\ dcur = NoApp /\ pipe = <<>>
  /\ apc = "poll" /\ polled = {} /\ hungup = {} /\ handled = {}
  /\ refused = {}
  /\ mpc = "run"

\* futex_nto1_wake: a waiter announced by -1 is released by setting 0.
FutexWake == futex' = IF futex = -1 THEN 0 ELSE futex

Outcomes(f) == {"ok"} \cup (IF f \in Faults THEN {"fail"} ELSE {})

-----------------------------------------------------------------------------
(* Applications (environment).                                             *)

\* An application connects to apps_sock while the registration thread
\* still runs.
AppConnect ==
  /\ rpc # "done"
  /\ \E a \in Apps \ arrived :
       backlog' = backlog \cup {a} /\ arrived' = arrived \cup {a}
  /\ UNCHANGED <<rpc, rcur, refused, exitFlag, quit, mpc>>
  /\ UNCHANGED qv /\ UNCHANGED dispv /\ UNCHANGED appv

\* A registered application exits and its socket hangs up.
AppHangup ==
  /\ \E a \in polled \ hungup : hungup' = hungup \cup {a}
  /\ UNCHANGED <<apc, polled, handled, arrived, exitFlag, quit, mpc>>
  /\ UNCHANGED regv /\ UNCHANGED qv /\ UNCHANGED dispv

-----------------------------------------------------------------------------
(* thread_registration_apps.                                               *)

RegOff == <<arrived, exitFlag, quit, mpc>>

\* check_thread_quit_pipe, then the exit path: notify_ust_apps(0), close
\* apps_sock, unlink the socket path; the thread returns.
RegQuit ==
  /\ rpc = "poll" /\ quit
  /\ rpc' = "done"
  /\ UNCHANGED <<backlog, rcur, refused>>
  /\ UNCHANGED qv /\ UNCHANGED dispv /\ UNCHANGED appv /\ UNCHANGED RegOff

\* Poll on apps_sock: lttcomm_accept_unix_sock, the ust_command zmalloc
\* and lttng_fd_get.  A failed accept or zmalloc goes to the exit path,
\* which closes the accepted socket and apps_sock: the thread returns and
\* no later application is accepted.  A refused fd closes the socket and
\* the loop continues.
RegPoll ==
  /\ rpc = "poll"
  /\ \E a \in backlog, ac \in Outcomes("accept"), m \in Outcomes("alloc"),
        f \in Outcomes("fdlimit") :
       CASE ac = "fail" -> rpc' = "done" /\ UNCHANGED <<backlog, rcur, refused>>
         [] m = "fail" ->
              /\ backlog' = backlog \ {a} /\ refused' = refused \cup {a}
              /\ rpc' = "done" /\ UNCHANGED rcur
         [] f = "fail" ->
              /\ backlog' = backlog \ {a} /\ refused' = refused \cup {a}
              /\ UNCHANGED <<rpc, rcur>>
         [] OTHER ->
              /\ backlog' = backlog \ {a}
              /\ rcur' = a /\ rpc' = "recv" /\ UNCHANGED refused
  /\ UNCHANGED qv /\ UNCHANGED dispv /\ UNCHANGED appv /\ UNCHANGED RegOff

\* lttcomm_recv_unix_sock of the registration message: a short or failed
\* read closes the socket and continues.
RegRecv ==
  /\ rpc = "recv"
  /\ \E f \in Outcomes("recv") :
       IF f = "ok"
         THEN rpc' = "xchg" /\ UNCHANGED <<rcur, refused>>
         ELSE /\ refused' = refused \cup {rcur} /\ rcur' = NoApp
              /\ rpc' = "poll"
  /\ UNCHANGED backlog
  /\ UNCHANGED qv /\ UNCHANGED dispv /\ UNCHANGED appv /\ UNCHANGED RegOff

\* cds_wfq_enqueue, first half: exchange the queue tail.
RegXchg ==
  /\ rpc = "xchg"
  /\ pending' = rcur /\ rpc' = "link"
  /\ UNCHANGED <<backlog, rcur, refused, queue, futex>>
  /\ UNCHANGED dispv /\ UNCHANGED appv /\ UNCHANGED RegOff

\* cds_wfq_enqueue, second half: link the node after the old tail.
RegLink ==
  /\ rpc = "link"
  /\ queue' = Append(queue, pending) /\ pending' = NoApp /\ rpc' = "wake"
  /\ UNCHANGED <<backlog, rcur, refused, futex>>
  /\ UNCHANGED dispv /\ UNCHANGED appv /\ UNCHANGED RegOff

\* Mutant: the wake after the enqueue is left out.
RegWakeMissing ==
  /\ rpc = "wake"
  /\ rpc' = "poll" /\ rcur' = NoApp
  /\ UNCHANGED <<backlog, refused, queue, pending, futex>>
  /\ UNCHANGED dispv /\ UNCHANGED appv /\ UNCHANGED RegOff

\* futex_nto1_wake(&ust_cmd_queue.futex), then back to poll.
RegWake ==
  /\ rpc = "wake"
  /\ FutexWake /\ rpc' = "poll" /\ rcur' = NoApp
  /\ UNCHANGED <<backlog, refused, queue, pending>>
  /\ UNCHANGED dispv /\ UNCHANGED appv /\ UNCHANGED RegOff

Registration == RegQuit \/ RegPoll \/ RegRecv \/ RegXchg \/ RegLink \/ RegWake

-----------------------------------------------------------------------------
(* thread_dispatch_ust_registration.                                       *)

DispOff == <<regv, appv, arrived, exitFlag, quit, mpc>>

\* while (!CMM_LOAD_SHARED(dispatch_thread_exit))
DispCheckExit ==
  /\ dpc = "top"
  /\ dpc' = IF exitFlag THEN "done" ELSE "prepare"
  /\ UNCHANGED <<dcur, pipe>> /\ UNCHANGED qv /\ UNCHANGED DispOff

\* futex_nto1_prepare: announce the coming wait with -1.
DispPrepare ==
  /\ dpc = "prepare"
  /\ futex' = -1 /\ dpc' = "deq"
  /\ UNCHANGED <<dcur, pipe, queue, pending>> /\ UNCHANGED DispOff

\* cds_wfq_dequeue_blocking: the oldest linked node; with none, NULL when
\* the queue is empty, and a busy wait while an enqueue is half done.
DispDequeue ==
  /\ dpc = "deq"
  /\ \/ /\ queue # <<>>
        /\ dcur' = Head(queue) /\ queue' = Tail(queue) /\ dpc' = "write"
     \/ /\ queue = <<>> /\ pending = NoApp
        /\ dpc' = "wait" /\ UNCHANGED <<dcur, queue>>
  /\ UNCHANGED <<pipe, pending, futex>> /\ UNCHANGED DispOff

\* Mutant: the write does not wait for room in the pipe.
DispWriteUnbounded ==
  /\ dpc = "write"
  /\ pipe' = Append(pipe, dcur) /\ dcur' = NoApp /\ dpc' = "deq"
  /\ UNCHANGED qv /\ UNCHANGED DispOff

\* Mutant: no do-while; one command is written and the thread waits.
DispWriteOnce ==
  /\ dpc = "write" /\ Len(pipe) < PipeCap
  /\ pipe' = Append(pipe, dcur) /\ dcur' = NoApp /\ dpc' = "wait"
  /\ UNCHANGED qv /\ UNCHANGED DispOff

\* write(apps_cmd_pipe[1], ust_cmd) blocks while the pipe is full; then
\* free(ust_cmd) and dequeue again.
DispWrite ==
  /\ dpc = "write" /\ Len(pipe) < PipeCap
  /\ pipe' = Append(pipe, dcur) /\ dcur' = NoApp /\ dpc' = "deq"
  /\ UNCHANGED qv /\ UNCHANGED DispOff

\* futex_nto1_wait: FUTEX_WAIT sleeps while the futex still holds -1.
DispWait ==
  /\ dpc = "wait" /\ futex # -1
  /\ dpc' = "top"
  /\ UNCHANGED <<dcur, pipe>> /\ UNCHANGED qv /\ UNCHANGED DispOff

Dispatch == DispCheckExit \/ DispPrepare \/ DispDequeue \/ DispWrite \/ DispWait

-----------------------------------------------------------------------------
(* thread_manage_apps.                                                     *)

AppsOff == <<regv, qv, arrived, exitFlag, quit, mpc, dpc, dcur>>

\* The exit path of thread_manage_apps: clean the poll set, report the
\* health state, unregister from RCU; the thread is gone.
AppsExit == apc' = "done"

\* The poll returned the quit pipe.
AppsQuit ==
  /\ apc = "poll" /\ quit
  /\ AppsExit
  /\ UNCHANGED <<pipe, polled, hungup, handled>> /\ UNCHANGED AppsOff

\* A ust_command read from apps_cmd_pipe: ust_app_register (-ENOMEM ends
\* the thread, another error drops the command), version check and
\* update_ust_app, then ust_app_register_done: on success the socket joins
\* the poll set (a failed lttng_poll_add ends the thread), otherwise the
\* application is unregistered.
AppsRegister ==
  /\ apc = "poll" /\ pipe # <<>>
  /\ LET a == Head(pipe) IN
     \E r \in Outcomes("register") \cup (IF "enomem" \in Faults THEN {"enomem"} ELSE {}),
        d \in Outcomes("done"), p \in Outcomes("polladd") :
       LET done == r = "ok" /\ d = "ok"
       IN /\ pipe' = Tail(pipe) /\ handled' = handled \cup {a}
          /\ IF r = "enomem" \/ (done /\ p = "fail") THEN AppsExit
             ELSE UNCHANGED apc
          /\ polled' = IF done /\ p = "ok" THEN polled \cup {a} ELSE polled
  /\ UNCHANGED hungup /\ UNCHANGED AppsOff

\* A registered application's socket hung up: remove it from the poll set
\* and ust_app_unregister.
AppsHangup ==
  /\ apc = "poll"
  /\ \E a \in polled \cap hungup : polled' = polled \ {a}
  /\ UNCHANGED <<apc, pipe, hungup, handled>> /\ UNCHANGED AppsOff

AppsThread == AppsQuit \/ AppsRegister \/ AppsHangup

-----------------------------------------------------------------------------
(* sighandler / stop_threads, and the joins at the end of main.            *)

MainOff == <<regv, appv, dispv, queue, pending, arrived>>

\* notify_thread_pipe(thread_quit_pipe[1]).
StopQuit ==
  /\ mpc = "run"
  /\ quit' = TRUE /\ mpc' = "exitflag"
  /\ UNCHANGED <<exitFlag, futex>> /\ UNCHANGED MainOff

\* CMM_STORE_SHARED(dispatch_thread_exit, 1).
StopExitFlag ==
  /\ mpc = "exitflag"
  /\ exitFlag' = TRUE /\ mpc' = "wake"
  /\ UNCHANGED <<quit, futex>> /\ UNCHANGED MainOff

\* futex_nto1_wake(&ust_cmd_queue.futex).
StopWake ==
  /\ mpc = "wake"
  /\ FutexWake /\ mpc' = "joinApps"
  /\ UNCHANGED <<quit, exitFlag>> /\ UNCHANGED MainOff

\* pthread_join of apps_thread, reg_apps_thread, dispatch_thread.
JoinThreads ==
  /\ \/ mpc = "joinApps" /\ apc = "done" /\ mpc' = "joinReg"
     \/ mpc = "joinReg" /\ rpc = "done" /\ mpc' = "joinDispatch"
     \/ mpc = "joinDispatch" /\ dpc = "done" /\ mpc' = "done"
  /\ UNCHANGED <<quit, exitFlag, futex>> /\ UNCHANGED MainOff

\* sessiond has exited.
Terminated == mpc = "done" /\ UNCHANGED vars

Next ==
  \/ AppConnect \/ AppHangup
  \/ Registration \/ Dispatch \/ AppsThread
  \/ StopQuit \/ StopExitFlag \/ StopWake \/ JoinThreads
  \/ Terminated

\* The sessiond threads are scheduled; the signal handler, once entered,
\* runs to its end.  Applications and the signal itself are not forced.
Fairness ==
  /\ WF_vars(Registration) /\ WF_vars(Dispatch) /\ WF_vars(AppsThread)
  /\ WF_vars(StopExitFlag) /\ WF_vars(StopWake) /\ WF_vars(JoinThreads)

Spec == Init /\ [][Next]_vars /\ Fairness

-----------------------------------------------------------------------------
(* Properties.                                                             *)

AppOrNone == Apps \cup {NoApp}

TypeOK ==
  /\ backlog \subseteq Apps /\ arrived \subseteq Apps /\ refused \subseteq Apps
  /\ rpc \in {"poll", "recv", "xchg", "link", "wake", "done"} /\ rcur \in AppOrNone
  /\ queue \in Seq(Apps) /\ Len(queue) <= Cardinality(Apps)
  /\ pending \in AppOrNone /\ futex \in {0, -1}
  /\ exitFlag \in BOOLEAN /\ quit \in BOOLEAN
  /\ dpc \in {"top", "prepare", "deq", "write", "wait", "done"} /\ dcur \in AppOrNone
  /\ pipe \in Seq(Apps) /\ Len(pipe) <= PipeCap
  /\ apc \in {"poll", "done"}
  /\ polled \subseteq Apps /\ hungup \subseteq Apps /\ handled \subseteq Apps
  /\ mpc \in {"run", "exitflag", "wake", "joinApps", "joinReg", "joinDispatch", "done"}

\* The futex_nto1 protocol between the registration and the dispatch
\* threads: the dispatcher never sleeps on the futex while a command is
\* queued, unless the registration thread is about to wake it.
NoLostWakeup ==
  (dpc = "wait" /\ futex = -1 /\ (queue # <<>> \/ pending # NoApp))
    => rpc \in {"link", "wake"}

\* Every enqueued registration reaches thread_manage_apps, unless that
\* thread has ended.
RegistrationDelivered ==
  \A a \in Apps : (a \in Range(queue)) ~> (a \in handled \/ apc = "done")

\* After stop_threads, main joins the apps, registration and dispatch
\* threads.
ShutdownCompletes == quit ~> mpc = "done"

=============================================================================
