------------------------------- MODULE Lttd ---------------------------------
(***************************************************************************)
(* The lttd program as a whole: main() and the signal handler of           *)
(* src/lttd/lttd.c, the liblttd instance lifecycle (liblttd_new_instance,  *)
(* liblttd_start_instance, liblttd_stop_instance), the recursive discovery *)
(* walk of channels_init() / open_channel_trace_pairs() over a trace tree, *)
(* read_inotify() for rings created later, and the liblttdvfs sink that   *)
(* creates one trace file per channel (src/liblttd/liblttdvfs.c).          *)
(*                                                                         *)
(* The sub-buffer drain of the worker threads is the subject of Liblttd;   *)
(* here a worker only handles IN_CREATE events (under the registry write   *)
(* lock, so one at a time) and returns when stopped or when every ring    *)
(* hung up.  Per-CPU ring files appear at any time: they are created by   *)
(* the kernel when a CPU comes online, concurrently with the walk.         *)
(***************************************************************************)
EXTENDS Naturals, Sequences, FiniteSets, SequencesExt

CONSTANTS Root,         \* the -c directory (instance->channel_name)
          Dirs,         \* channel directories of the tree, Root included
          Rings,        \* per-CPU ring files that may ever exist
          Parent,       \* Parent[x]: directory holding the entry x
          InitRings,    \* ring files present when lttd starts
          FlightRings,  \* ring files named "flight-..."
          Mode,         \* "all", "flight" (-f), "normal" (-n), "both" (-f -n)
          AppendMode,   \* -a
          DaemonMode,   \* -d
          Faults        \* the failure points this model may take

ASSUME /\ Root \in Dirs /\ Dirs \cap Rings = {}
       /\ Parent \in [(Dirs \ {Root}) \cup Rings -> Dirs]
       /\ InitRings \subseteq Rings /\ FlightRings \subseteq Rings
       /\ Mode \in {"all", "flight", "normal", "both"}
       /\ AppendMode \in BOOLEAN /\ DaemonMode \in BOOLEAN
       /\ Faults \subseteq {"stat", "opendir", "mkdir", "open", "sink", "map",
                            "daemon", "alloc"}

EINVAL == 22    \* main returns EINVAL on bad arguments
ExitFail == 255 \* exit(-1) when daemon() fails

VARIABLES
  \* environment: the trace tree and the signals
  present,    \* ring files that exist
  \* lttd main() and the global `instance` pointer
  mpc,        \* "parse", "daemon", "new", "init", "walk", "map", "run",
              \* "return" (main returned), "exited", "crashed"
  exitCode,   \* value main returned (meaningful from "return" on)
  handler,    \* sigaction installed for SIGTERM, SIGQUIT, SIGINT
  inst,       \* what `instance` points to: "null", "live", "freed"
  quit,       \* instance->quit_program
  stopped,    \* every ring hung up (the kernel trace was stopped)
  \* liblttd_instance
  stk,        \* open_channel_trace_pairs() recursion: one frame per open DIR
  watched,    \* directories with an inotify watch
  inq,        \* IN_CREATE events queued on inotify_fd, oldest first
  pairs,      \* fd_pairs.pair[0 .. num_pairs-1], as the ring each one reads
  closedAll,  \* close_channel_trace_pairs() ran (on_close_channel per pair)
  traceEnded, \* on_trace_end was called
  \* liblttdvfs: the trace directory being written
  outdirs,    \* output directories made by on_new_channels_folder
  outputs     \* output trace files created by on_open_channel

vars == <<present, mpc, exitCode, handler, inst, quit, stopped, stk, watched,
          inq, pairs, closedAll, traceEnded, outdirs, outputs>>

Outcome(f) == {"ok"} \cup (IF f \in Faults THEN {"fail"} ELSE {})

\* Entries of directory d that exist now (directories are never created
\* or removed while lttd runs; "." and ".." entries are skipped by the
\* name test and are left out).
Children(d) == {x \in (Dirs \ {Root}) \cup present : Parent[x] = d}

-----------------------------------------------------------------------------
(* open_buffer_file() and the liblttdvfs callbacks it calls.  A walk or    *)
(* event state is a record [pairs, outputs, ret].                          *)

\* The -f / -n filter on the base name.
Selected(f) ==
  IF f \in FlightRings THEN Mode # "normal" ELSE Mode # "flight"

\* Mutant: the trace file is opened whether or not it exists (no O_EXCL
\* and no existence check outside append mode).
LiblttdvfsOnOpenChannelNoExclusive(f, outs, o) ==
  /\ o = "ok"
  /\ f \notin outs => Parent[f] \in outdirs

\* liblttdvfs_on_open_channel: an existing trace file is opened for append
\* under -a and refused otherwise; a missing one is created (O_EXCL).
\* "fail" stands for open()/lseek() of the trace file failing.
\* A missing trace file whose output directory was never made fails with
\* ENOENT like any other open() failure.
LiblttdvfsOnOpenChannel(f, outs, o) ==
  /\ o = "ok"
  /\ f \in outs => AppendMode
  /\ f \notin outs => Parent[f] \in outdirs

\* The outcomes of one call: filtered, open() of the ring failed,
\* or the sink's outcome.
OpenOutcomes(f) ==
  IF ~Selected(f) THEN {"filtered"}
  ELSE (IF "open" \in Faults THEN {"openfail"} ELSE {}) \cup Outcome("sink")

\* Returns 0 for a filtered file or a failed open(); appends the pair when
\* the sink accepts it; returns -1 (pair dropped) when the sink refuses.
OpenBufferFile(f, o, s) ==
  IF o \in {"filtered", "openfail"} THEN [s EXCEPT !.ret = 0]
  ELSE IF LiblttdvfsOnOpenChannel(f, s.outputs, o)
       THEN [s EXCEPT !.pairs = Append(@, f), !.outputs = @ \cup {f},
                      !.ret = 0]
       ELSE [s EXCEPT !.ret = -1]

\* The outcomes of one IN_CREATE event in read_inotify(): open_buffer_file,
\* then map_channels on the range it appended.
InotifyOutcomes(f) ==
  (OpenOutcomes(f) \ {"ok"})
    \cup (IF "ok" \in OpenOutcomes(f)
          THEN {"ok"} \cup (IF "map" \in Faults THEN {"mapfail"} ELSE {})
          ELSE {})

\* The event loop of read_inotify() over the events of one read(): a -1
\* from open_buffer_file or a failing map_channels returns at once.
RECURSIVE InotifyEntries(_, _, _)
InotifyEntries(evs, outs, s) ==
  IF evs = <<>> THEN s
  ELSE LET o == IF Head(outs) = "mapfail" THEN "ok" ELSE Head(outs)
           t == OpenBufferFile(Head(evs), o, s)
       IN IF t.ret = -1 \/ Head(outs) = "mapfail" THEN t
          ELSE InotifyEntries(Tail(evs), Tail(outs), t)

OutcomeSeqs(evs, Out(_)) ==
  {o \in [1 .. Len(evs) -> UNION {Out(r) : r \in Rings}] :
     \A i \in 1 .. Len(evs) : o[i] \in Out(evs[i])}
-----------------------------------------------------------------------------
(* main() of lttd.                                                          *)

\* Mutant: main returns parse_arguments' -1 itself.
ParseExitRet ==
  /\ mpc = "parse"
  /\ \E ret \in {-1, 1} : exitCode' = IF ret < 0 THEN ret ELSE 0
  /\ mpc' = "exited"
  /\ UNCHANGED <<present, handler, inst, quit, stopped, stk, watched, inq,
                 pairs, closedAll, traceEnded, outdirs, outputs>>

\* parse_arguments returns 1 for "-h" and -1 for a bad or missing -t / -c:
\* main returns 0 or EINVAL before any handler is installed.
ParseExit ==
  /\ mpc = "parse"
  /\ \E ret \in {-1, 1} : exitCode' = IF ret < 0 THEN EINVAL ELSE 0
  /\ mpc' = "exited"
  /\ UNCHANGED <<present, handler, inst, quit, stopped, stk, watched, inq,
                 pairs, closedAll, traceEnded, outdirs, outputs>>

\* Arguments accepted: show_info, then sigaction for SIGTERM, SIGQUIT and
\* SIGINT while `instance` is still NULL.
Parse ==
  /\ mpc = "parse"
  /\ handler' = TRUE
  /\ mpc' = "daemon"
  /\ UNCHANGED <<present, exitCode, inst, quit, stopped, stk, watched, inq,
                 pairs, closedAll, traceEnded, outdirs, outputs>>

\* daemon(0, 0) under -d; on failure exit(-1).
Daemonize ==
  /\ mpc = "daemon"
  /\ \E o \in IF DaemonMode THEN Outcome("daemon") ELSE {"ok"} :
       /\ mpc' = IF o = "ok" THEN "new" ELSE "exited"
       /\ exitCode' = IF o = "ok" THEN exitCode ELSE ExitFail
  /\ UNCHANGED <<present, handler, inst, quit, stopped, stk, watched, inq,
                 pairs, closedAll, traceEnded, outdirs, outputs>>

\* liblttdvfs_new_callbacks: NULL when malloc fails.
LiblttdvfsNewCallbacks == Outcome("alloc")

\* liblttd_new_instance is NULL for NULL callbacks and for -f with -n
\* (its own malloc failing is the same "alloc" failure point).
LiblttdNewInstance(cb) == cb = "ok" /\ Mode # "both"

\* The callbacks and the instance are created; on NULL main returns ret,
\* which is 0.
NewInstance ==
  /\ mpc = "new"
  /\ \E cb \in LiblttdvfsNewCallbacks :
       IF LiblttdNewInstance(cb)
       THEN inst' = "live" /\ mpc' = "init" /\ UNCHANGED exitCode
       ELSE mpc' = "return" /\ exitCode' = 0 /\ UNCHANGED inst
  /\ UNCHANGED <<present, handler, quit, stopped, stk, watched, inq, pairs,
                 closedAll, traceEnded, outdirs, outputs>>

-----------------------------------------------------------------------------
(* liblttd_start_instance(): channels_init() and the recursion of          *)
(* open_channel_trace_pairs().  main ignores what start returns.           *)

\* liblttdvfs_on_new_channels_folder: mkdir of the output directory;
\* EEXIST is accepted, any other error returns -1.
LiblttdvfsOnNewChannelsFolder == Outcome("mkdir")

\* opendir() of a directory, then the sink's folder callback: either
\* failing ends the call before the watch is added.
DirOutcomes == Outcome("opendir") \cup LiblttdvfsOnNewChannelsFolder

\* A directory being read: the first readdir() lists every entry present
\* then; an entry created later may or may not be listed.
Frame(d) == [dir |-> d, done |-> {}, snap |-> Children(d)]

\* Entering a directory: the output directory is made, the inotify watch is
\* added, and only then is the directory read.
EnterDir(base, d) ==
  /\ stk' = Append(base, Frame(d))
  /\ watched' = watched \cup {d}
  /\ outdirs' = outdirs \cup {d}

\* close_channel_trace_pairs: close every channel fd and call
\* on_close_channel (liblttdvfs closes the trace file) for every pair.
CloseChannelTracePairs == closedAll' = TRUE

\* delete_instance: free(instance); the global pointer still points there.
DeleteInstance == inst' = "freed"

\* channels_init failing: close_channel_trace_pairs (on_close_channel for
\* every pair), close(inotify_fd); start returns without delete_instance or
\* on_trace_end and main returns 0.
StartFailed ==
  /\ CloseChannelTracePairs
  /\ watched' = {} /\ inq' = <<>> /\ stk' = <<>>
  /\ mpc' = "return" /\ exitCode' = 0

\* A call of open_channel_trace_pairs returning ret: the caller of a
\* subdirectory ignores it; for the root it decides channels_init.
DirReturn(ret) ==
  IF Len(stk) > 1
  THEN stk' = Front(stk) /\ UNCHANGED <<mpc, exitCode, watched, inq, closedAll>>
  ELSE IF ret = 0
  THEN stk' = <<>> /\ mpc' = "map" /\ UNCHANGED <<exitCode, watched, inq, closedAll>>
  ELSE StartFailed

\* inotify_init, then the root directory: a failing opendir or sink
\* callback fails channels_init.
ChannelsInit ==
  /\ mpc = "init"
  /\ \E o \in DirOutcomes :
       IF o = "ok"
       THEN EnterDir(<<>>, Root) /\ mpc' = "walk"
            /\ UNCHANGED <<exitCode, inq, closedAll>>
       ELSE StartFailed /\ UNCHANGED outdirs
  /\ UNCHANGED <<present, handler, inst, quit, stopped, pairs, traceEnded,
                 outputs>>
\* One readdir() of the directory on top of the recursion: the entry is
\* stat()ed (a failure skips it), a directory is entered and whatever it
\* returns is ignored, a regular file goes to open_buffer_file, whose -1
\* ends the reading of this directory.
Readdir ==
  /\ mpc = "walk"
  /\ \E e \in Children(Last(stk).dir) \ Last(stk).done :
     LET base == [stk EXCEPT ![Len(stk)].done = @ \cup {e}] IN
     \/ /\ "stat" \in Faults
        /\ stk' = base
        /\ UNCHANGED <<mpc, exitCode, watched, inq, pairs, closedAll, outdirs,
                       outputs>>
     \/ /\ e \in Dirs
        /\ \E o \in DirOutcomes :
             IF o = "ok" THEN EnterDir(base, e)
             ELSE stk' = base /\ UNCHANGED <<watched, outdirs>>
        /\ UNCHANGED <<mpc, exitCode, inq, pairs, closedAll, outputs>>
     \/ /\ e \in Rings
        /\ \E o \in OpenOutcomes(e) :
           LET s == OpenBufferFile(e, o, [pairs |-> pairs, outputs |-> outputs,
                                          ret |-> 0])
           IN /\ pairs' = s.pairs /\ outputs' = s.outputs
              /\ IF s.ret = 0
                 THEN stk' = base /\ UNCHANGED <<mpc, exitCode, watched, inq,
                                                 closedAll>>
                 ELSE DirReturn(-1)
        /\ UNCHANGED outdirs
  /\ UNCHANGED <<present, handler, inst, quit, stopped, traceEnded>>

\* readdir() returns NULL: closedir, return 0.
ReaddirEnd ==
  /\ mpc = "walk"
  /\ Last(stk).snap \subseteq Last(stk).done
  /\ DirReturn(0)
  /\ UNCHANGED <<present, handler, inst, quit, stopped, pairs, traceEnded,
                 outdirs, outputs>>

\* The empty-registry check, then map_channels over every pair.
MapChannels ==
  /\ mpc = "map"
  /\ \E o \in Outcome("map") :
       IF pairs # <<>> /\ o = "ok"
       THEN mpc' = "run" /\ UNCHANGED <<exitCode, watched, inq, stk, closedAll>>
       ELSE StartFailed
  /\ UNCHANGED <<present, handler, inst, quit, stopped, pairs, traceEnded,
                 outdirs, outputs>>

-----------------------------------------------------------------------------
(* The worker threads, and the end of liblttd_start_instance().            *)

\* A worker woken by the inotify fd takes the write lock and runs
\* read_inotify(): one read() returns every queued event; the result is
\* ignored by read_channels.
ReadInotify ==
  /\ mpc = "run" /\ inq # <<>>
  /\ \E outs \in OutcomeSeqs(inq, InotifyOutcomes) :
     LET s == InotifyEntries(inq, outs, [pairs |-> pairs, outputs |-> outputs,
                                         ret |-> 0])
     IN pairs' = s.pairs /\ outputs' = s.outputs
  /\ inq' = <<>>
  /\ UNCHANGED <<present, mpc, exitCode, handler, inst, quit, stopped, stk,
                 watched, closedAll, traceEnded, outdirs>>

\* Every worker returned (stopped, or every ring hung up) and was joined:
\* unmap_channels, close_channel_trace_pairs, close(inotify_fd),
\* on_trace_end (liblttdvfs frees its callbacks), delete_instance; main
\* returns 0.
Teardown ==
  /\ mpc = "run" /\ (quit \/ stopped)
  /\ CloseChannelTracePairs /\ traceEnded' = TRUE
  /\ watched' = {} /\ inq' = <<>>
  /\ DeleteInstance
  /\ mpc' = "return" /\ exitCode' = 0
  /\ UNCHANGED <<present, handler, quit, stopped, stk, pairs, outdirs, outputs>>

\* The process exits with main's return value.
Exit ==
  /\ mpc = "return"
  /\ mpc' = "exited"
  /\ UNCHANGED <<present, exitCode, handler, inst, quit, stopped, stk, watched,
                 inq, pairs, closedAll, traceEnded, outdirs, outputs>>

-----------------------------------------------------------------------------
(* Environment.                                                            *)

Running == mpc \notin {"exited", "crashed"}

\* A CPU comes online: its ring file appears; a watched directory queues
\* IN_CREATE.
CreateRing(f) ==
  /\ Running /\ f \in Rings \ present
  /\ present' = present \cup {f}
  /\ inq' = IF Parent[f] \in watched THEN Append(inq, f) ELSE inq
  /\ UNCHANGED <<mpc, exitCode, handler, inst, quit, stopped, stk, watched,
                 pairs, closedAll, traceEnded, outdirs, outputs>>

\* The trace is stopped: every ring hangs up and the workers return.
StopTrace ==
  /\ Running /\ ~stopped
  /\ stopped' = TRUE
  /\ UNCHANGED <<present, mpc, exitCode, handler, inst, quit, stk, watched,
                 inq, pairs, closedAll, traceEnded, outdirs, outputs>>

\* SIGTERM, SIGQUIT or SIGINT runs handler(): liblttd_stop_instance
\* (instance) writes instance->quit_program.  Through NULL it faults; through
\* the freed instance the write is undefined: it may go unnoticed or crash.
Signal ==
  /\ Running /\ handler
  /\ \/ inst = "null" /\ mpc' = "crashed" /\ UNCHANGED quit
     \/ inst = "live" /\ ~quit /\ quit' = TRUE /\ UNCHANGED mpc
     \/ inst = "freed" /\ mpc' = "crashed" /\ UNCHANGED quit
  /\ UNCHANGED <<present, exitCode, handler, inst, stopped, stk, watched, inq,
                 pairs, closedAll, traceEnded, outdirs, outputs>>

-----------------------------------------------------------------------------
Init ==
  /\ present = InitRings
  /\ mpc = "parse" /\ exitCode = 0
  /\ handler = FALSE /\ inst = "null"
  /\ quit = FALSE /\ stopped = FALSE
  /\ stk = <<>> /\ watched = {} /\ inq = <<>>
  /\ pairs = <<>> /\ closedAll = FALSE /\ traceEnded = FALSE
  /\ outdirs = {} /\ outputs = {}

Next ==
  \/ ParseExit \/ Parse \/ Daemonize \/ NewInstance
  \/ ChannelsInit \/ Readdir \/ ReaddirEnd \/ MapChannels
  \/ ReadInotify \/ Teardown \/ Exit
  \/ \E f \in Rings : CreateRing(f)
  \/ StopTrace \/ Signal

Spec == Init /\ [][Next]_vars

-----------------------------------------------------------------------------
TypeOK ==
  /\ present \subseteq Rings /\ InitRings \subseteq present
  /\ mpc \in {"parse", "daemon", "new", "init", "walk", "map", "run",
              "return", "exited", "crashed"}
  /\ exitCode \in {0, EINVAL, ExitFail}
  /\ handler \in BOOLEAN /\ inst \in {"null", "live", "freed"}
  /\ quit \in BOOLEAN /\ stopped \in BOOLEAN
  /\ \A i \in 1 .. Len(stk) : stk[i].dir \in Dirs /\ stk[i].done \subseteq
                                Children(stk[i].dir)
  /\ watched \subseteq Dirs /\ inq \in Seq(Rings)
  /\ pairs \in Seq(Rings) /\ closedAll \in BOOLEAN /\ traceEnded \in BOOLEAN
  /\ outdirs \subseteq Dirs /\ outputs \subseteq Rings

\* Spec S4 and 4.E: a ring file that appears in a watched directory is
\* opened exactly once and read.  Once lttd runs and no IN_CREATE event is
\* pending, every selected ring file of a watched directory has a pair.
\* (open_channel_trace_pairs adds the watch before readdir, and
\* read_inotify returns at the first refused channel.)
RingsTraced ==
  mpc = "run" /\ inq = <<>> =>
    \A f \in present : Selected(f) /\ Parent[f] \in watched => f \in Range(pairs)

\* A kernel ring is read through one pair only: the walk and read_inotify
\* may both meet a ring created during the walk, and in the default mode
\* liblttdvfs_on_open_channel refuses the second open of its trace file.
OnePairPerRing == IsInjective(pairs)
====
