------------------------------ MODULE Liblttd ------------------------------
(***************************************************************************)
(* The trace consumer engine of liblttd (src/liblttd/liblttd.c): the       *)
(* registry of ring fd pairs behind fd_pairs_lock, the worker threads of   *)
(* read_channels() with their two-pass poll scheduler, the sub-buffer      *)
(* protocol of read_subbuffer(), CPU hot-plug through read_inotify(), and  *)
(* the start/join/teardown sequence of liblttd_start_instance().           *)
(*                                                                         *)
(* The kernel ring buffers and the file system are the environment: the   *)
(* producer fills and finalizes rings and new per-CPU files appear.  The   *)
(* sink (liblttd_callbacks) is observed through what it was handed.       *)
(***************************************************************************)
EXTENDS Naturals, Sequences, FiniteSets, SequencesExt

CONSTANTS NumThreads,   \* instance->num_threads (>= 1, liblttd_new_instance)
          Rings,        \* per-CPU ring files that may ever exist
          InitRings,    \* ring files under the trace root at start
          FlightRings,  \* ring files named "flight-..."
          Mode,         \* "all", "flight" (dump_flight_only), "normal" (dump_normal_only)
          NSB,          \* sub-buffers per ring (RELAY_GET_N_SB)
          MaxSB,        \* bound: sub-buffers the producer writes per ring
          Faults        \* the failure points this model may take

ASSUME /\ NumThreads \in Nat \ {0}
       /\ InitRings \subseteq Rings /\ FlightRings \subseteq Rings
       /\ Mode \in {"all", "flight", "normal"}
       /\ NSB \in Nat \ {0} /\ MaxSB \in Nat
       /\ Faults \subseteq {"open", "sink_open", "map", "sb_size",
                            "thread", "spawn"}

Workers == 0 .. NumThreads - 1   \* thread_num of each worker
NoOwner == -1                    \* an unlocked pair mutex
MainThread == NumThreads         \* the thread running liblttd_start_instance
NoRing == CHOOSE r \in Rings : TRUE   \* cur of a worker holding no sub-buffer

VARIABLES
  \* kernel ring buffers and trace directory (environment)
  present,    \* ring files that exist
  produced,   \* produced[r]: sub-buffers completed by the producer
  consumed,   \* consumed[r]: the ring's consumed count (RELAY_PUT_SB advances it)
  reserved,   \* reserved[r]: a sub-buffer is held by RELAY_GET_SB
  hungup,     \* hungup[r]: the producer finalized the ring
  inq,        \* IN_CREATE events queued on inotify_fd, oldest first
  \* liblttd_instance
  pairs,      \* fd_pairs.pair[0 .. num_pairs-1], as the ring each one reads
  mapped,     \* rings whose pair went through map_channels (mutex initialized)
  owner,      \* owner[r]: worker holding the pair mutex, or NoOwner
  quit,       \* quit_program
  tried,      \* rings whose IN_CREATE event read_inotify passed to open_buffer_file
  \* sink, as observed through its callbacks
  sinkLog,    \* sinkLog[r]: sub-buffer numbers passed to on_read_subbuffer
  closed,     \* rings passed to on_close_channel
  traceEnded, \* on_trace_end was called
  \* main thread of liblttd_start_instance
  mpc,        \* "init", "spawn", "join", "teardown", "end", "failed", "crashed"
  mi,         \* loop index i of the spawn and join loops
  spawned,    \* threads for which pthread_create succeeded
  \* worker threads (locals of read_channels)
  pc,         \* program point of each worker
  wlen,       \* num_pollfd - inotify_fds: pairs in the worker's pollfd array
  rev,        \* rev[w][i]: revents of pair i returned by the last poll
  idx,        \* loop index i of the current priority pass
  high,       \* high_prio
  cur,        \* the ring of the pair whose sub-buffer the worker holds
  cookie      \* consumed_old returned by RELAY_GET_SB

kernel  == <<present, produced, consumed, reserved, hungup, inq>>
reg     == <<pairs, mapped, owner, quit, tried>>
sink    == <<sinkLog, closed, traceEnded>>
mainv   == <<mpc, mi, spawned>>
workerv == <<pc, wlen, rev, idx, high, cur, cookie>>
vars    == <<kernel, reg, sink, mainv, workerv>>

-----------------------------------------------------------------------------
(* Kernel ring buffer, as read through poll() and the relay ioctls.        *)

Unread(r) == produced[r] - consumed[r]

\* What poll() reports for a ring file: POLLHUP once finalized and empty,
\* POLLPRI when the ring is full, POLLIN when a sub-buffer can be read.
RingRevents(r) ==
  IF hungup[r] /\ Unread(r) = 0 THEN "hup"
  ELSE IF Unread(r) = NSB THEN "pri"
  ELSE IF Unread(r) > 0 THEN "in"
  ELSE "none"

\* The producer completes a sub-buffer; a full normal ring makes it discard,
\* a full flight ring overwrites its oldest sub-buffer unless it is reserved.
Produce(r) ==
  /\ r \in present /\ ~hungup[r] /\ produced[r] < MaxSB
  /\ \/ /\ Unread(r) < NSB
        /\ produced' = [produced EXCEPT ![r] = @ + 1]
        /\ UNCHANGED consumed
     \/ /\ r \in FlightRings /\ Unread(r) = NSB /\ ~reserved[r]
        /\ produced' = [produced EXCEPT ![r] = @ + 1]
        /\ consumed' = [consumed EXCEPT ![r] = @ + 1]
  /\ UNCHANGED <<present, reserved, hungup, inq, reg, sink, mainv, workerv>>

\* The trace is stopped and the producer finalizes the ring.
HangUp(r) ==
  /\ r \in present /\ ~hungup[r]
  /\ hungup' = [hungup EXCEPT ![r] = TRUE]
  /\ UNCHANGED <<present, produced, consumed, reserved, inq, reg, sink,
                 mainv, workerv>>

\* A CPU comes online: its ring file appears in the watched trace root and
\* inotify queues IN_CREATE (the watch exists from channels_init on).
Create(r) ==
  /\ r \in Rings \ present
  /\ mpc \in {"spawn", "join"}
  /\ present' = present \cup {r}
  /\ inq' = Append(inq, r)
  /\ UNCHANGED <<produced, consumed, reserved, hungup, reg, sink, mainv,
                 workerv>>

Environment == \E r \in Rings : Produce(r) \/ HangUp(r) \/ Create(r)

-----------------------------------------------------------------------------
(* open_buffer_file(): the mode filter on the base name, open(), and the   *)
(* sink's on_open_channel.  The outcome of each file is one of:            *)
(*   "filtered"  skipped by -f / -n, returns 0                             *)
(*   "openfail"  open() failed, num_pairs restored, returns 0              *)
(*   "refused"   on_open_channel failed, fd closed, returns -1             *)
(*   "ok"        the pair stays appended                                   *)

Selected(r) ==
  IF r \in FlightRings THEN Mode # "normal" ELSE Mode # "flight"

OpenOutcomes(r) ==
  IF ~Selected(r) THEN {"filtered"}
  ELSE {"ok"} \cup (IF "open" \in Faults THEN {"openfail"} ELSE {})
              \cup (IF "sink_open" \in Faults THEN {"refused"} ELSE {})

\* map_channels() over new pairs: the geometry ioctls and pthread_mutex_init.
MapOutcomes == {"ok"} \cup (IF "map" \in Faults THEN {"mapfail"} ELSE {})

\* Outcomes of read_inotify() for one event: open_buffer_file, then
\* map_channels on the pair it appended.
InotifyOutcomes(r) ==
  (OpenOutcomes(r) \ {"ok"})
    \cup (IF "ok" \in OpenOutcomes(r) THEN MapOutcomes ELSE {})

\* The ways outcomes can fall for the files of a sequence.
OutcomeSeqs(files, Out(_)) ==
  {o \in [1 .. Len(files) -> UNION {Out(r) : r \in Rings}] :
     \A i \in 1 .. Len(files) : o[i] \in Out(files[i])}

\* The readdir() loop of open_channel_trace_pairs() over the trace root:
\* a refused channel ends the walk with open_ret = -1.
RECURSIVE OpenEntries(_, _, _)
OpenEntries(files, outs, acc) ==
  IF files = <<>> THEN acc
  ELSE CASE Head(outs) \in {"filtered", "openfail"} ->
              OpenEntries(Tail(files), Tail(outs), acc)
         [] Head(outs) = "refused" -> [acc EXCEPT !.err = TRUE]
         [] Head(outs) = "ok" ->
              OpenEntries(Tail(files), Tail(outs),
                          [acc EXCEPT !.pairs = Append(@, Head(files))])

\* The event loop of read_inotify(): a refused channel or a failed
\* map_channels returns -1 at once, dropping the rest of the events read.
RECURSIVE InotifyEntries(_, _, _)
InotifyEntries(evs, outs, acc) ==
  IF evs = <<>> THEN acc
  ELSE LET seen  == [acc EXCEPT !.tried = @ \cup {Head(evs)}]
           added == [seen EXCEPT !.pairs = Append(@, Head(evs))]
       IN CASE Head(outs) \in {"filtered", "openfail"} ->
                 InotifyEntries(Tail(evs), Tail(outs), seen)
            [] Head(outs) = "refused" -> seen
            [] Head(outs) = "mapfail" -> added
            [] Head(outs) = "ok" ->
                 InotifyEntries(Tail(evs), Tail(outs),
                                [added EXCEPT !.mapped = @ \cup {Head(evs)}])

-----------------------------------------------------------------------------
(* Main thread: liblttd_start_instance().                                  *)

\* channels_init(): inotify_init, the walk of the trace root in readdir
\* order (a watch on the root is added first), the empty check, and
\* map_channels over every pair.  On failure close_channel_trace_pairs()
\* calls on_close_channel for the pairs opened so far and the start
\* returns without on_trace_end.
\* close_channel_trace_pairs: close every channel fd and call
\* on_close_channel for each pair of the registry.
CloseChannelTracePairs(ps) == closed' = Range(ps)

ChannelsInit ==
  /\ mpc = "init"
  /\ \E order \in SetToSeqs(InitRings) :
     \E outs \in OutcomeSeqs(order, OpenOutcomes) :
     \E mapOut \in MapOutcomes :
       LET walk == OpenEntries(order, outs, [pairs |-> <<>>, err |-> FALSE])
           ok   == ~walk.err /\ walk.pairs # <<>> /\ mapOut = "ok"
       IN /\ pairs'  = walk.pairs
          /\ mapped' = IF ok THEN Range(walk.pairs) ELSE {}
          /\ IF ok THEN UNCHANGED closed ELSE CloseChannelTracePairs(walk.pairs)
          /\ mpc'    = IF ok THEN "spawn" ELSE "failed"
  /\ UNCHANGED <<kernel, owner, quit, tried, sinkLog, traceEnded, mi, spawned,
                 workerv>>

\* The pthread_create loop: a failure breaks out of it.
SpawnThread ==
  /\ mpc = "spawn" /\ mi < NumThreads
  /\ spawned' = spawned \cup {mi}
  /\ mi' = mi + 1
  /\ UNCHANGED <<kernel, reg, sink, mpc, workerv>>

SpawnFail ==
  /\ mpc = "spawn" /\ mi < NumThreads /\ "spawn" \in Faults
  /\ mpc' = "join" /\ mi' = 0
  /\ UNCHANGED <<kernel, reg, sink, spawned, workerv>>

SpawnDone ==
  /\ mpc = "spawn" /\ mi = NumThreads
  /\ mpc' = "join" /\ mi' = 0
  /\ UNCHANGED <<kernel, reg, sink, spawned, workerv>>

\* Mutant: pthread_join does not wait for the thread to return.
JoinThreadNoWait ==
  /\ mpc = "join" /\ mi < NumThreads /\ mi \in spawned
  /\ mi' = mi + 1
  /\ UNCHANGED <<kernel, reg, sink, mpc, spawned, workerv>>

\* The pthread_join loop over all num_threads slots.
JoinThread ==
  /\ mpc = "join" /\ mi < NumThreads /\ mi \in spawned
  /\ pc[mi] = "done"
  /\ mi' = mi + 1
  /\ UNCHANGED <<kernel, reg, sink, mpc, spawned, workerv>>

\* Joining a slot whose pthread_create failed reads an uninitialized
\* pthread_t: glibc either reports an error (the loop breaks) or faults.
JoinGarbage ==
  /\ mpc = "join" /\ mi < NumThreads /\ mi \notin spawned
  /\ mpc' \in {"teardown", "crashed"}
  /\ UNCHANGED <<kernel, reg, sink, mi, spawned, workerv>>

JoinDone ==
  /\ mpc = "join" /\ mi = NumThreads
  /\ mpc' = "teardown"
  /\ UNCHANGED <<kernel, reg, sink, mi, spawned, workerv>>

\* unmap_channels, close_channel_trace_pairs (close + on_close_channel for
\* every pair), close(inotify_fd), on_trace_end, delete_instance.
Teardown ==
  /\ mpc = "teardown"
  /\ CloseChannelTracePairs(pairs)
  /\ traceEnded' = TRUE
  /\ mpc' = "end"
  /\ UNCHANGED <<kernel, reg, sinkLog, mi, spawned, workerv>>

Main == ChannelsInit \/ SpawnThread \/ SpawnFail \/ SpawnDone \/ JoinThread
          \/ JoinGarbage \/ JoinDone \/ Teardown

\* lttd's handler() calls liblttd_stop_instance(), which sets quit_program.
\* The signal runs on one thread: on main nothing else happens (pthread_join
\* resumes); on a worker blocked in poll() the poll fails with EINTR and
\* read_channels() leaves through free_fd.
SignalStop(t) ==
  /\ mpc \in {"init", "spawn", "join"}
  /\ quit' = TRUE
  /\ \/ t = MainThread /\ UNCHANGED pc
     \/ t \in Workers /\ pc[t] = "poll" /\ pc' = [pc EXCEPT ![t] = "done"]
  /\ UNCHANGED <<kernel, pairs, mapped, owner, tried, sink, mainv, wlen, rev, idx,
                 high, cur, cookie>>

Terminated ==
  /\ mpc \in {"end", "failed", "crashed"}
  /\ UNCHANGED vars

-----------------------------------------------------------------------------
(* Worker threads: thread_main() and read_channels().                      *)

\* Workers inside a fd_pairs_lock read section that spans other steps: the
\* drain of one sub-buffer (mutex held, on_read_subbuffer pending).
Readers == {w \in Workers : pc[w] = "sink"}

\* on_new_thread, then the first pollfd array built under the read lock.
ThreadStart(w) ==
  /\ pc[w] = "new" /\ w \in spawned
  /\ \/ /\ pc' = [pc EXCEPT ![w] = "top"]
        /\ wlen' = [wlen EXCEPT ![w] = Len(pairs)]
     \/ /\ "thread" \in Faults          \* on_new_thread < 0: thread returns
        /\ pc' = [pc EXCEPT ![w] = "done"] /\ UNCHANGED wlen
  /\ UNCHANGED <<kernel, reg, sink, mainv, rev, idx, high, cur, cookie>>

\* Top of the loop: quit_program ends it (free_fd, then on_close_thread).
LoopTop(w) ==
  /\ pc[w] = "top"
  /\ pc' = [pc EXCEPT ![w] = IF quit THEN "done" ELSE "poll"]
  /\ UNCHANGED <<kernel, reg, sink, mainv, wlen, rev, idx, high, cur, cookie>>

\* poll(pollfd, num_pollfd, -1) returns once the inotify fd or a ring of
\* the worker's own pollfd array is ready; revents are fixed from here on.
Poll(w) ==
  /\ pc[w] = "poll"
  /\ inq # <<>> \/ \E i \in 1 .. wlen[w] : RingRevents(pairs[i]) # "none"
  /\ rev' = [rev EXCEPT ![w] = [i \in 1 .. wlen[w] |-> RingRevents(pairs[i])]]
  /\ pc' = [pc EXCEPT ![w] = IF inq # <<>> THEN "ino" ELSE "hi"]
  /\ idx' = [idx EXCEPT ![w] = 1]
  /\ high' = [high EXCEPT ![w] = FALSE]
  /\ UNCHANGED <<kernel, reg, sink, mainv, wlen, cur, cookie>>

\* POLLIN on the inotify fd: read_inotify() under the write lock, which
\* waits for every reader.  If another worker read the events first the
\* read fails with EAGAIN.  Events read are gone from the fd whatever
\* read_inotify makes of them.
ReadInotify(w) ==
  /\ pc[w] = "ino"
  /\ Readers = {}
  /\ \E outs \in OutcomeSeqs(inq, InotifyOutcomes) :
       LET res == InotifyEntries(inq, outs, [pairs |-> pairs, mapped |-> mapped,
                                             tried |-> tried])
       IN /\ pairs' = res.pairs
          /\ mapped' = res.mapped
          /\ tried' = res.tried
  /\ inq' = <<>>
  /\ pc' = [pc EXCEPT ![w] = "hi"]
  /\ UNCHANGED <<present, produced, consumed, reserved, hungup, owner, quit,
                 sink, mainv, wlen, rev, idx, high, cur, cookie>>

\* The event each pass serves: POLLPRI in the first, POLLIN in the second.
PassEvent(p) == IF p = "hi" THEN "pri" ELSE "in"

\* Indices the current pass has still to visit with its event.
Pending(w) == {i \in idx[w] .. wlen[w] : rev[w][i] = PassEvent(pc[w])}

InPass(w) == pc[w] \in {"hi", "lo"} /\ Pending(w) # {}

\* The pair the pass visits next, and its ring.
NextPair(w) == Min(Pending(w))
Ring(w)   == pairs[NextPair(w)]

\* pthread_mutex_trylock on the pair mutex.  A pair whose map_channels
\* failed has an uninitialized mutex: it may read as locked or unlocked.
MayLock(r)  == r \notin mapped \/ owner[r] = NoOwner
MayFail(r)  == r \notin mapped \/ owner[r] # NoOwner

\* Visiting a pair: the loop moves past it, and a successful trylock in
\* the first pass sets high_prio.
Visit(w, locked) ==
  /\ idx' = [idx EXCEPT ![w] = NextPair(w) + 1]
  /\ high' = [high EXCEPT ![w] = @ \/ (locked /\ pc[w] = "hi")]

\* trylock fails: another worker drains this ring.
TryLockBusy(w) ==
  /\ InPass(w) /\ MayFail(Ring(w))
  /\ Visit(w, FALSE)
  /\ UNCHANGED <<kernel, reg, sink, mainv, pc, wlen, rev, cur, cookie>>

\* trylock succeeds and RELAY_GET_SB fails (no full sub-buffer, or one
\* already reserved): EAGAIN, the mutex is unlocked.
GetSbAgain(w) ==
  LET r == Ring(w) IN
  /\ InPass(w) /\ MayLock(r)
  /\ reserved[r] \/ Unread(r) = 0
  /\ Visit(w, TRUE)
  /\ UNCHANGED <<kernel, reg, sink, mainv, pc, wlen, rev, cur, cookie>>

\* RELAY_GET_SB succeeds and RELAY_GET_SB_SIZE fails: read_subbuffer
\* returns through get_error without RELAY_PUT_SB; the mutex is unlocked.
GetSbSizeFail(w) ==
  LET r == Ring(w) IN
  /\ InPass(w) /\ MayLock(r) /\ "sb_size" \in Faults
  /\ ~reserved[r] /\ Unread(r) > 0
  /\ reserved' = [reserved EXCEPT ![r] = TRUE]
  /\ Visit(w, TRUE)
  /\ UNCHANGED <<present, produced, consumed, hungup, inq, reg, sink, mainv,
                 pc, wlen, rev, cur, cookie>>

\* trylock, RELAY_GET_SB and RELAY_GET_SB_SIZE succeed: the worker holds
\* the pair mutex, the read lock and the sub-buffer numbered consumed_old.
GetSb(w) ==
  LET r == Ring(w) IN
  /\ InPass(w) /\ MayLock(r)
  /\ ~reserved[r] /\ Unread(r) > 0
  /\ reserved' = [reserved EXCEPT ![r] = TRUE]
  /\ owner' = [owner EXCEPT ![r] = w]
  /\ cookie' = [cookie EXCEPT ![w] = consumed[r]]
  /\ cur' = [cur EXCEPT ![w] = r]
  /\ pc' = [pc EXCEPT ![w] = "sink"]
  /\ Visit(w, TRUE)
  /\ UNCHANGED <<present, produced, consumed, hungup, inq, pairs, mapped,
                 quit, tried, sink, mainv, wlen, rev>>

\* The pass the worker was in when it took the sub-buffer.
PassOf(w) == IF rev[w][idx[w] - 1] = "pri" THEN "hi" ELSE "lo"

\* Mutant: RELAY_PUT_SB releases the reservation without consuming it.
SinkAndPutNoAdvance(w) ==
  LET r == cur[w] IN
  /\ pc[w] = "sink"
  /\ sinkLog' = [sinkLog EXCEPT ![r] = Append(@, cookie[w])]
  /\ reserved' = [reserved EXCEPT ![r] = FALSE]
  /\ owner' = [owner EXCEPT ![r] = NoOwner]
  /\ pc' = [pc EXCEPT ![w] = PassOf(w)]
  /\ cur' = [cur EXCEPT ![w] = NoRing] /\ cookie' = [cookie EXCEPT ![w] = 0]
  /\ UNCHANGED <<present, produced, consumed, hungup, inq, pairs, mapped,
                 quit, tried, closed, traceEnded, mainv, wlen, rev, idx, high>>

\* on_read_subbuffer(pair, len), then RELAY_PUT_SB with the cookie, which
\* advances the ring; then the mutex and the read lock are released.
SinkAndPut(w) ==
  LET r == cur[w] IN
  /\ pc[w] = "sink"
  /\ sinkLog' = [sinkLog EXCEPT ![r] = Append(@, cookie[w])]
  /\ consumed' = [consumed EXCEPT ![r] = @ + 1]
  /\ reserved' = [reserved EXCEPT ![r] = FALSE]
  /\ owner' = [owner EXCEPT ![r] = NoOwner]
  /\ pc' = [pc EXCEPT ![w] = PassOf(w)]
  /\ cur' = [cur EXCEPT ![w] = NoRing] /\ cookie' = [cookie EXCEPT ![w] = 0]
  /\ UNCHANGED <<present, produced, hungup, inq, pairs, mapped, quit, tried,
                 closed, traceEnded, mainv, wlen, rev, idx, high>>

\* Mutant: the hang-up count is compared with num_pollfd, which includes
\* the inotify fd, so all-hangup is never recognised.
PassEndHupOffByOne(w) ==
  /\ pc[w] \in {"hi", "lo"} /\ Pending(w) = {}
  /\ LET allHup == Cardinality({i \in 1 .. wlen[w] : rev[w][i] = "hup"})
                     = wlen[w] + 1
         next   == IF pc[w] = "lo" THEN "recon"
                   ELSE IF allHup THEN "done"
                   ELSE IF high[w] THEN "recon" ELSE "lo"
     IN /\ pc' = [pc EXCEPT ![w] = next]
        /\ rev' = IF next = "lo" THEN rev ELSE [rev EXCEPT ![w] = <<>>]
  /\ idx' = [idx EXCEPT ![w] = 1]
  /\ high' = [high EXCEPT ![w] = FALSE]
  /\ UNCHANGED <<kernel, reg, sink, mainv, wlen, cur, cookie>>

\* End of a pass.  After the first: if every pair of the pollfd array hung
\* up, the loop ends; otherwise the second pass runs unless high_prio.
\* (Locals that are dead until the next poll are cleared here and after a
\* drain, so that states differing only in them coincide.)
PassEnd(w) ==
  /\ pc[w] \in {"hi", "lo"} /\ Pending(w) = {}
  /\ LET allHup == \A i \in 1 .. wlen[w] : rev[w][i] = "hup"
         next   == IF pc[w] = "lo" THEN "recon"
                   ELSE IF allHup THEN "done"
                   ELSE IF high[w] THEN "recon" ELSE "lo"
     IN /\ pc' = [pc EXCEPT ![w] = next]
        /\ rev' = IF next = "lo" THEN rev ELSE [rev EXCEPT ![w] = <<>>]
  /\ idx' = [idx EXCEPT ![w] = 1]
  /\ high' = [high EXCEPT ![w] = FALSE]
  /\ UNCHANGED <<kernel, reg, sink, mainv, wlen, cur, cookie>>

\* Mutant: num_pollfd is grown by one entry too many.
ReconcileOffByOne(w) ==
  /\ pc[w] = "recon"
  /\ wlen' = [wlen EXCEPT ![w] = Len(pairs) + 1]
  /\ pc' = [pc EXCEPT ![w] = "top"]
  /\ UNCHANGED <<kernel, reg, sink, mainv, rev, idx, high, cur, cookie>>

\* Mutant: the pollfd array is not grown to pairs appended since.
ReconcileStale(w) ==
  /\ pc[w] = "recon"
  /\ pc' = [pc EXCEPT ![w] = "top"]
  /\ UNCHANGED <<kernel, reg, sink, mainv, wlen, rev, idx, high, cur, cookie>>

\* Under the read lock the pollfd array grows to the current num_pairs.
Reconcile(w) ==
  /\ pc[w] = "recon"
  /\ wlen' = [wlen EXCEPT ![w] = Len(pairs)]
  /\ pc' = [pc EXCEPT ![w] = "top"]
  /\ UNCHANGED <<kernel, reg, sink, mainv, rev, idx, high, cur, cookie>>

Worker(w) ==
  \/ ThreadStart(w) \/ LoopTop(w) \/ Poll(w) \/ ReadInotify(w)
  \/ TryLockBusy(w) \/ GetSbAgain(w) \/ GetSbSizeFail(w) \/ GetSb(w)
  \/ SinkAndPut(w) \/ PassEnd(w) \/ Reconcile(w)

-----------------------------------------------------------------------------

Init ==
  /\ present = InitRings
  /\ produced = [r \in Rings |-> 0]
  /\ consumed = [r \in Rings |-> 0]
  /\ reserved = [r \in Rings |-> FALSE]
  /\ hungup = [r \in Rings |-> FALSE]
  /\ inq = <<>>
  /\ pairs = <<>>
  /\ mapped = {}
  /\ owner = [r \in Rings |-> NoOwner]
  /\ quit = FALSE
  /\ tried = {}
  /\ sinkLog = [r \in Rings |-> <<>>]
  /\ closed = {}
  /\ traceEnded = FALSE
  /\ mpc = "init"
  /\ mi = 0
  /\ spawned = {}
  /\ pc = [w \in Workers |-> "new"]
  /\ wlen = [w \in Workers |-> 0]
  /\ rev = [w \in Workers |-> <<>>]
  /\ idx = [w \in Workers |-> 1]
  /\ high = [w \in Workers |-> FALSE]
  /\ cur = [w \in Workers |-> NoRing]
  /\ cookie = [w \in Workers |-> 0]

Next ==
  \/ Main
  \/ \E w \in Workers : Worker(w)
  \/ \E t \in {MainThread} \cup Workers : SignalStop(t)
  \/ Environment
  \/ Terminated

Fairness ==
  /\ WF_vars(Main)
  /\ \A w \in Workers : WF_vars(Worker(w))

Spec == Init /\ [][Next]_vars /\ Fairness

-----------------------------------------------------------------------------
(* Properties.                                                              *)

Ended == {"end", "failed", "crashed"}
PCs   == {"new", "top", "poll", "ino", "hi", "sink", "lo", "recon", "done"}

TypeOK ==
  /\ present \subseteq Rings /\ inq \in Seq(Rings)
  /\ produced \in [Rings -> 0 .. MaxSB] /\ consumed \in [Rings -> 0 .. MaxSB]
  /\ reserved \in [Rings -> BOOLEAN] /\ hungup \in [Rings -> BOOLEAN]
  /\ pairs \in Seq(Rings) /\ mapped \subseteq Rings /\ tried \subseteq Rings
  /\ owner \in [Rings -> Workers \cup {NoOwner}] /\ quit \in BOOLEAN
  /\ sinkLog \in [Rings -> Seq(0 .. MaxSB)] /\ closed \subseteq Rings
  /\ traceEnded \in BOOLEAN
  /\ mpc \in {"init", "spawn", "join", "teardown"} \cup Ended
  /\ mi \in 0 .. NumThreads /\ spawned \subseteq Workers
  /\ pc \in [Workers -> PCs] /\ wlen \in [Workers -> 0 .. Len(pairs)]
  /\ idx \in [Workers -> Nat] /\ high \in [Workers -> BOOLEAN]
  /\ cur \in [Workers -> Rings] /\ cookie \in [Workers -> 0 .. MaxSB]

\* liblttd_start_instance: on_trace_end comes after every worker was
\* joined, and no sink callback (on_read_subbuffer, on_close_channel,
\* on_trace_end) happens after it.
NoCallbackAfterTraceEnd == [][traceEnded => sink' = sink]_vars

\* read_channels: once every ring file has appeared and been finalized by
\* the producer, all workers reach all-hangup, are joined, and the instance
\* is torn down.
TraceStopEnds ==
  (\A r \in Rings : r \in present /\ hungup[r]) ~> mpc \in Ended

\* read_channels with CPU hot-plug: a sub-buffer the producer completed on
\* a hot-plugged ring is eventually handed to the sink, unless the
\* instance has ended or was asked to stop.  This needs its IN_CREATE
\* event read by one worker (another may lose the read with EAGAIN), the
\* pair appended under the write lock, and some worker's pollfd array
\* grown to it by the reconcile of read_channels, while the workers that
\* did not read the event keep polling their old arrays.
DataDrained ==
  \A r \in Rings \ InitRings : (r \in present /\ Unread(r) > 0) ~> (Unread(r) = 0 \/ quit \/ mpc \in Ended)

\* lttd's signal handler sets quit_program; the instance then stops
\* (spec 4.G: on stop, every worker returns and is joined).
StopTerminates == quit ~> mpc \in Ended

\* The engine implements the abstract ring-drain service: per ring, the
\* sink receives the oldest unread sub-buffer each time, in ring order.
RD == INSTANCE RingDrain WITH delivered <- sinkLog
RingDrainSpec == RD!Spec

=============================================================================
