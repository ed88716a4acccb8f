----------------------------- MODULE KernelThread -----------------------------
(***************************************************************************)
(* CPU hot-plug handling of lttng-sessiond                                 *)
(* (src/src/bin/lttng-sessiond/main.c):                                    *)
(*  - thread_manage_kernel polls the thread quit pipe, kernel_poll_pipe    *)
(*    and the fd of every kernel channel; a byte on kernel_poll_pipe sets  *)
(*    update_poll_flag, and the next turn rebuilds the channel part of the *)
(*    poll set with update_kernel_poll;                                    *)
(*  - a readable channel fd means the kernel has a stream for a new CPU:   *)
(*    update_kernel_stream opens it (kernel_open_channel_stream) and, once *)
(*    consumer_fds_sent is set, sends it to the kernel consumer.           *)
(* The client commands that create channels, start tracing and destroy the *)
(* session (cmd.c) and the kernel tracer are not in this repository: they  *)
(* are the environment, modelled from what main.c expects of them.  One    *)
(* kernel session; the session locks make each of update_kernel_poll,      *)
(* update_kernel_stream and a client command a single step.                *)
(***************************************************************************)
EXTENDS Naturals, FiniteSets

CONSTANTS Chans,    \* kernel channels the client may enable (model values)
          MaxCPU,   \* bound: CPUs online, counting those hot-plugged
          Faults    \* failure points the model may take

ASSUME /\ MaxCPU \in Nat \ {0}
       /\ Faults \subseteq {"polladd", "open", "send"}

VARIABLES
  \* the kernel session (environment side)
  chans,      \* channels in ksess->channel_list
  cpus,       \* CPUs online
  avail,      \* avail[c]: streams the kernel offers on channel c
  opened,     \* opened[c]: streams sessiond has opened (channel->stream_count)
  sent,       \* sent[c]: streams the kernel consumer has received
  fdsSent,    \* ksess->consumer_fds_sent
  destroyed,  \* the session was destroyed
  kpipe,      \* bytes in kernel_poll_pipe
  quit,       \* the thread quit pipe was written
  \* thread_manage_kernel
  kpc,        \* "top", "handle", "done"
  updateFlag, \* update_poll_flag
  pollSet,    \* channel fds in the thread's poll set
  kready,     \* fds the last poll returned, not yet handled
  \* main
  mpc         \* "run", "join", "done"

vars == <<chans, cpus, avail, opened, sent, fdsSent, destroyed, kpipe, quit,
          kpc, updateFlag, pollSet, kready, mpc>>

sessv == <<chans, cpus, avail, opened, sent, fdsSent, destroyed>>
thrv == <<kpc, updateFlag, pollSet, kready>>

QuitFd == "quit"
PipeFd == "pipe"

Init ==
  /\ chans = {} /\ cpus = 1
  /\ avail = [c \in Chans |-> 0] /\ opened = [c \in Chans |-> 0]
  /\ sent = [c \in Chans |-> 0]
  /\ fdsSent = FALSE /\ destroyed = FALSE /\ kpipe = 0 /\ quit = FALSE
  /\ kpc = "top" /\ updateFlag = TRUE /\ pollSet = {} /\ kready = {}
  /\ mpc = "run"

Outcomes(f) == {"ok"} \cup (IF f \in Faults THEN {"fail"} ELSE {})

\* A channel fd polls readable while the kernel offers a stream that
\* sessiond has not opened.
NewStream(c) == c \in chans /\ avail[c] > opened[c]

-----------------------------------------------------------------------------
(* Environment: client commands (cmd.c) and the kernel tracer.             *)

\* cmd_enable_channel: the channel is created with a stream per online CPU
\* available, then a byte is written to kernel_poll_pipe.  Kernel channels
\* are enabled before tracing starts.
CreateChannel ==
  /\ ~fdsSent /\ ~destroyed
  /\ \E c \in Chans \ chans :
       /\ chans' = chans \cup {c}
       /\ avail' = [avail EXCEPT ![c] = cpus]
  /\ kpipe' = kpipe + 1
  /\ UNCHANGED <<cpus, opened, sent, fdsSent, destroyed, quit, mpc>>
  /\ UNCHANGED thrv

\* cmd_start_trace: open the pending streams of every channel, send the
\* session's streams to the kernel consumer, set consumer_fds_sent.
StartTrace ==
  /\ ~fdsSent /\ ~destroyed /\ chans # {}
  /\ opened' = [c \in Chans |-> IF c \in chans THEN avail[c] ELSE opened[c]]
  /\ sent' = opened'
  /\ fdsSent' = TRUE
  /\ UNCHANGED <<chans, cpus, avail, destroyed, kpipe, quit, mpc>>
  /\ UNCHANGED thrv

\* cmd_destroy_session: the channels are closed and kernel_poll_pipe is
\* written.
DestroySession ==
  /\ ~destroyed /\ chans # {}
  /\ chans' = {} /\ destroyed' = TRUE /\ kpipe' = kpipe + 1
  /\ UNCHANGED <<cpus, avail, opened, sent, fdsSent, quit, mpc>>
  /\ UNCHANGED thrv

\* A CPU comes online: every channel offers one more stream.
CpuHotplug ==
  /\ cpus < MaxCPU
  /\ cpus' = cpus + 1
  /\ avail' = [c \in Chans |-> IF c \in chans THEN avail[c] + 1 ELSE avail[c]]
  /\ UNCHANGED <<chans, opened, sent, fdsSent, destroyed, kpipe, quit, mpc>>
  /\ UNCHANGED thrv

-----------------------------------------------------------------------------
(* thread_manage_kernel.                                                   *)

\* The rest of the fds the poll returned are handled next (continue), or
\* dropped for a new poll (break, or the end of the for loop).
Continue(fd) ==
  /\ kready' = kready \ {fd}
  /\ kpc' = IF kready' = {} THEN "top" ELSE "handle"
Break == kready' = {} /\ kpc' = "top"

\* update_poll_flag set: events.nb_fd = 2, then update_kernel_poll adds the
\* fd of every channel of the kernel session; a failed lttng_poll_add ends
\* the thread.
UpdateKernelPoll ==
  /\ kpc = "top" /\ updateFlag
  /\ \E r \in IF chans = {} THEN {"ok"} ELSE Outcomes("polladd") :
       IF r = "ok"
         THEN pollSet' = chans /\ updateFlag' = FALSE /\ UNCHANGED kpc
         ELSE kpc' = "done" /\ UNCHANGED <<updateFlag, pollSet>>
  /\ UNCHANGED kready /\ UNCHANGED sessv /\ UNCHANGED <<kpipe, quit, mpc>>

\* lttng_poll_wait(&events, -1): blocks until the quit pipe, the kernel
\* pipe or a channel of the poll set is readable (a closed channel has left
\* the epoll set).
KPoll ==
  /\ kpc = "top" /\ ~updateFlag
  /\ LET ready == (IF quit THEN {QuitFd} ELSE {})
                    \cup (IF kpipe > 0 THEN {PipeFd} ELSE {})
                    \cup {c \in pollSet : NewStream(c)}
     IN ready # {} /\ kready' = ready
  /\ kpc' = "handle"
  /\ UNCHANGED <<updateFlag, pollSet>> /\ UNCHANGED sessv
  /\ UNCHANGED <<kpipe, quit, mpc>>

\* check_thread_quit_pipe: the thread returns.
KQuit ==
  /\ kpc = "handle" /\ QuitFd \in kready
  /\ kpc' = "done" /\ kready' = {}
  /\ UNCHANGED <<updateFlag, pollSet>> /\ UNCHANGED sessv
  /\ UNCHANGED <<kpipe, quit, mpc>>

\* Mutant: the fd test is dropped; the pipe is read for any ready fd.
KReadPipeAnyFd ==
  /\ kpc = "handle"
  /\ \E fd \in kready :
       kpipe' = kpipe - 1 /\ updateFlag' = TRUE /\ Continue(fd)
  /\ UNCHANGED pollSet /\ UNCHANGED sessv /\ UNCHANGED <<quit, mpc>>

\* Mutant: the byte is read but update_poll_flag is not set.
KReadPipeNoFlag ==
  /\ kpc = "handle" /\ PipeFd \in kready
  /\ kpipe' = kpipe - 1 /\ Continue(PipeFd)
  /\ UNCHANGED <<updateFlag, pollSet>> /\ UNCHANGED sessv /\ UNCHANGED <<quit, mpc>>

\* read(kernel_poll_pipe[0], &tmp, 1); update_poll_flag = 1; continue.
KReadPipe ==
  /\ kpc = "handle" /\ PipeFd \in kready
  /\ kpipe' = kpipe - 1 /\ updateFlag' = TRUE /\ Continue(PipeFd)
  /\ UNCHANGED pollSet /\ UNCHANGED sessv /\ UNCHANGED <<quit, mpc>>

\* A readable channel fd: update_kernel_stream looks the fd up in the
\* kernel sessions (ret 0 when the channel is gone), opens its new streams
\* and, when consumer_fds_sent, sends them to every consumer socket.  A
\* negative return continues with the next fd, 0 breaks out of the loop.
UpdateKernelStream ==
  /\ kpc = "handle"
  /\ \E c \in kready \cap Chans :
       IF c \notin chans
         THEN Break /\ UNCHANGED <<opened, sent>>
         ELSE \E o \in Outcomes("open"), s \in Outcomes("send") :
                IF o = "fail"
                  THEN Continue(c) /\ UNCHANGED <<opened, sent>>
                  ELSE /\ opened' = [opened EXCEPT ![c] = avail[c]]
                       /\ IF fdsSent /\ s = "fail"
                            THEN Continue(c) /\ UNCHANGED sent
                            ELSE /\ Break
                                 /\ sent' = IF fdsSent
                                              THEN [sent EXCEPT ![c] = avail[c]]
                                              ELSE sent
  /\ UNCHANGED <<chans, cpus, avail, fdsSent, destroyed>>
  /\ UNCHANGED <<updateFlag, pollSet, kpipe, quit, mpc>>

KernelThread ==
  UpdateKernelPoll \/ KPoll \/ KQuit \/ KReadPipe \/ UpdateKernelStream

-----------------------------------------------------------------------------
(* stop_threads and main's join of kernel_thread.                          *)

\* notify_thread_pipe(thread_quit_pipe[1]).
StopThreads ==
  /\ mpc = "run"
  /\ quit' = TRUE /\ mpc' = "join"
  /\ UNCHANGED sessv /\ UNCHANGED thrv /\ UNCHANGED kpipe

\* pthread_join(kernel_thread).
JoinKernel ==
  /\ mpc = "join" /\ kpc = "done"
  /\ mpc' = "done"
  /\ UNCHANGED sessv /\ UNCHANGED thrv /\ UNCHANGED <<kpipe, quit>>

\* sessiond has exited.
Terminated == mpc = "done" /\ UNCHANGED vars

Next ==
  \/ CreateChannel \/ StartTrace \/ DestroySession \/ CpuHotplug
  \/ KernelThread \/ StopThreads \/ JoinKernel \/ Terminated

\* The kernel thread and main are scheduled; clients, the kernel and the
\* signal are not forced to act.
Spec == Init /\ [][Next]_vars /\ WF_vars(KernelThread) /\ WF_vars(JoinKernel)

-----------------------------------------------------------------------------
(* Properties.                                                             *)

TypeOK ==
  /\ chans \subseteq Chans /\ cpus \in 1..MaxCPU
  /\ avail \in [Chans -> 0..MaxCPU] /\ opened \in [Chans -> 0..MaxCPU]
  /\ sent \in [Chans -> 0..MaxCPU]
  /\ fdsSent \in BOOLEAN /\ destroyed \in BOOLEAN /\ quit \in BOOLEAN
  /\ kpipe \in 0..(Cardinality(Chans) + 1)
  /\ kpc \in {"top", "handle", "done"} /\ updateFlag \in BOOLEAN
  /\ pollSet \subseteq Chans /\ kready \subseteq Chans \cup {QuitFd, PipeFd}
  /\ mpc \in {"run", "join", "done"}

\* Once tracing has started (consumer_fds_sent), a stream sessiond opened
\* on a live channel and has not handed to the kernel consumer, such as
\* one update_kernel_stream opened for a hot-plugged CPU, is eventually
\* sent, unless the channel is gone or the kernel thread has ended.
StreamEventuallySent ==
  \A c \in Chans :
    (fdsSent /\ c \in chans /\ sent[c] < opened[c])
      ~> (sent[c] = opened[c] \/ c \notin chans \/ kpc = "done")

\* A stream the kernel offers on a live channel, for a CPU online when the
\* channel was created or hot-plugged later, is eventually opened, unless
\* the kernel thread has ended.
HotplugHandled ==
  \A c \in Chans : NewStream(c) ~> (~NewStream(c) \/ kpc = "done")

====
