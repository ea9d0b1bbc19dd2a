# Kahi in TLA+

Models, model-checking runs and proofs for the Kahi process supervisor. Kahi
starts programs as child processes, restarts them when they fail, stops them
with a signal that escalates to SIGKILL, and takes them all down when the
daemon exits. What is hard about it is concurrency: every process has up to four
kinds of goroutines with timers, requests arrive from HTTP handlers, exits from
the kernel, and reload and shutdown run beside all of them.

## The system

| Component | State | Operations | Interacts with |
| --- | --- | --- | --- |
| State machine (`process/state.go`) | state, retry counter, time of STARTING, manualStop | RequestStart, RequestStop, ProcessStarted, ProcessExitedEarly, ProcessExited, RetryFromBackoff, SetLimits | owned by a Process, has a lock of its own |
| Process (`process/process.go`) | config, child, stop channel, kill channel, retired | Start, Stop, Kill, Signal, HandleExitStatus, Retire, UpdateConfig; goroutines watchStart, watchStop, retryAfterBackoff, restartAfterExit | publishes events with its lock held, reads the manager's shutdown channel |
| Manager (`process/manager.go`, `group.go`) | processes, groups, captures, shutdown channel | LoadConfig, AutostartAll, StopAll, Start, Stop, Restart, group operations, ProcessByPid | called by the API and the main loop |
| Bulk actions (`process/bulk.go`) | none | start, stop and restart all, in priority order | re-resolves each process, checks shutdown before and after a start |
| Reload (`process/reload.go`, `supervisor/runloop.go`) | the current config | ApplyReload: update in place, or retire, stop, remove, create, start | runs beside the main loop, which reaps what it stops |
| Main loop (`supervisor/runloop.go`, `supervisor.go`) | shutting flag, 16-slot signal queue | signals, reaping, shutdown with time limit and SIGKILL | the only goroutine that reaps |
| API (`api/api.go`) | bulk lock | one handler per request, each a goroutine | manager and supervisor |
| Events (`events/`) | subscriptions, listener pools, webhook queues and breakers | Subscribe, Publish, dispatch, deliver | synchronous callbacks under the publisher's locks |
| Logging (`logging/`) | open files, sizes, ring buffers | capture, rotation, reopen, line splitting, ANSI stripping | fed by the pipe readers of a process |
| Configuration (`config/`) | none | load, include, default, expand, validate, diff | feeds manager and reload |
| Daemon command (`cmd/kahi/daemon.go`, `daemonize.go`, `supervisor/daemon.go`) | PID file, control socket, TCP address, report pipe | start in the foreground or background, stop | other daemons with the same files |

The rest (control client, web UI, metrics, migration, spawner and child set-up)
formats text or makes system calls and keeps no state that other parts depend on.
`PROJECT.json` lists every part with its status, and the hazards of each with the line
where it bites.

What makes the parts correct:

* Process: one child at a time and never a forgotten one; a stop always ends; a
  failed start is retried at most `startretries` times and never forgotten;
  RUNNING means the child has survived `startsecs`; nothing restarts a process
  that was removed or whose daemon is going down; events tell the truth.
* Shutdown: it ends although children ignore signals, and no child outlives the daemon.
* Bulk actions and requests: none of them starts something behind shutdown's back.
* Reload: programs it does not concern keep running, nothing is removed that is
  still alive, what is recorded is what is in force, and programs that did not
  stop can be taken up again.
* Main loop: every exit reaches its process, every zombie is reaped, and nothing
  the loop waits for needs the loop.
* Events: order and completeness for a stream that is open, one event at a time
  for a listener, a breaker that trips at the right failure, and no publisher that waits.
* Logging: nothing lost, repeated or reordered but what the limits take; files
  within their limits.
* Configuration: one result for one set of files, whatever order files and maps
  are read in; one process for every instance; one order of starts and stops.
* Daemon command: a running daemon stays reachable, a killed one does not keep the
  next from starting.

## Modules

| Module | What it is |
| --- | --- |
| `Process` | one Process with its state machine, its children and its goroutines |
| `Lifecycle` | the abstract specification: seven states and who may move between them |
| `MCProcess` | configurations of `Process` for TLC |
| `ProcessProofs` | theorems about `Process`, for all constants |
| `Shutdown` | main loop, StopAll and API requests over any number of processes |
| `ShutdownProofs` | theorems about `Shutdown`, for all processes and clients |
| `Reload` | a configuration reload over any number of programs and instances |
| `MCReload` | programs and configurations of `Reload` for TLC |
| `ReloadProofs` | theorems about `Reload`, for all programs and configurations |
| `Signals` | the main loop as the reader of signals and the reaper of children, with pids and locks |
| `SignalsProofs` | theorem about `Signals`, for any processes, children and queue |
| `Capture` | the output of one stream: chunks, escapes, lines, ring buffer, log file and rotation |
| `MCCapture` | configurations of `Capture` for TLC |
| `CaptureProofs` | theorems about ring buffer, log files, stripper and line splitter, for all sizes, limits and streams |
| `Events` | event bus, ticker, event streams, listener pool, webhook |
| `MCEvents` | the sets of subscribers for TLC |
| `EventsProofs` | theorems about `Events`, for any publishers, streams and listeners |
| `Loading` | from configuration files to processes, groups and the order of starts and stops |
| `MCLoading` | 8065 configurations for TLC |
| `LoadingProofs` | theorems about `Loading`, for all configurations and requests |
| `Startup` | daemons with one PID file, one socket and one TCP address |
| `StartupProofs` | theorems about `Startup`, for any number of daemons |

### Process

A method of Process holds `p.mu` from beginning to end, so it is one action,
with two exceptions. `watchStart` calls `sm.ProcessStarted()` under the state
machine's lock only, and the manager closes `shutdownCh` under none. Where one of
these can act in the middle of a method, the method is two actions and the
variable `mu` says which half is due: `"spawn"` (STARTING has been published,
the command is being executed), `"exit"` (HandleExitStatus has read STARTING),
`"restart"` and `"retry"` (restartAfterExit or retryAfterBackoff has checked for
shutdown) and `"update"` (UpdateConfig has set `p.config`, but not yet the limits of
the state machine, `limits`). A sixth section, `"write"`, is WriteStdin, which keeps the
lock until the child reads; nothing in the code limits that.

Attempts are numbered, and an attempt has at most one child and one goroutine of
each kind, so `child`, `watcher`, `retrier`, `restarter` and `killer` are functions of
the attempt. A goroutine that waits on a channel carries in `ch` what became of
that channel: still the one in the Process (`open`), `closed`, or replaced without
being closed (`orphan`), in which case nobody can reach the goroutine any more.
A timer is armed with its delay when the goroutine first runs, as in the code;
`Tick` counts it down and the goroutine may act any time after it is due. The
fields that `watchStart` and `watchStop` read without a lock are read in a step of
their own.

The actions follow the code: `Start`, `StartRefused`, `SpawnOK`, `SpawnFail`, the
`Watch*` steps of watchStart, `Stop`, `StopBackoff`, the `StopWait*` steps of
watchStop, `Kill`, `HandleExitStarting`, `HandleExitEarly`, `HandleExit`, the `Retry*`
steps of retryAfterBackoff, the `Restart*` steps of restartAfterExit, `Retire`,
`UpdateConfig`, `SetLimits`, `WriteStdin`, `WriteEnd`, `Shutdown`. `ChildExit` and
`Tick` are the kernel and the clock. `lastEvent` is the last PROCESS_STATE event and
`tries` the number of attempts since the last one that was not a retry; both are
history. The exit code is reduced to whether it is an unexpected one, the reason of a
failed spawn to the fact, and signals other than SIGKILL do nothing: a child may exit
whenever it likes, and may also ignore them.

### Lifecycle

The documented life cycle as four variables: the state, whether the process was
removed, whether shutdown has begun and whether a retry or an automatic restart has
been decided (`Decided`, only before shutdown) and not yet carried out (`Resumed`,
also after it has begun). `Process` implements it with `st <- state, barred <-
retired, halted <- shutdown, committed <- (mu \in {"restart", "retry"})`. The passage
through BACKOFF to FATAL is one step, as in the code.

### Shutdown

Many processes, each seen as a caller sees it (state, child, pending restart), the
phases of `Supervisor.Run` from serving to exit, and API requests as clients that
check, act and wait in separate steps. What Process shows about itself is used here: a
child belongs to an active state, a stop of BACKOFF needs no signal, a retry after
shutdown began ends STOPPED, a retry or restart that has passed its check goes on.
`mu` has, for each process, who keeps its lock across steps: such a retry or restart,
or a write to stdin. StopAll reads the configuration of each process for its order
(`SortNext`) and then stops it (`StopNext`), killRemaining kills it: each waits for
that lock, as do requests and exits. The unfortunate outcome of HandleExitStatus
(RUNNING with no child, see below) is included, since shutdown must cope with it. Time
limits may expire at any moment. A bulk action is followed for one process: `startOne`
consults nothing that an earlier process of the same pass has changed. `late` and
`bulkStart` record of a child that it was spawned after `shutdownCh` was closed, and
by a bulk action.

### Reload

`applyReload` and `ApplyReload`, one action per process that a loop visits and one per
loop boundary (`phase`: update, survey, retire, stop, wait, remove, start), so that
requests, exits, restarts, retries and shutdown come in between at every point where
the code holds no lock. `todo` is what the present loop has not visited yet; the order
within a loop is left open. A process is seen from outside: RUNNING stands for
STARTING and RUNNING, STOPPED for STOPPED and FATAL, and `Spawned` for the outcomes of
a start. A program's settings are those its children are spawned with, which include
`numprocs` and `process_name` and hence decide its instances, and `autostart` for all
the others. `resuming` and `writing` are the processes whose lock is kept across
steps, by a retry or restart that has passed its checks and by WriteStdin; updating,
retiring, stopping and starting wait for it. `Shutdown` is the moment StopAll closes
the channel: the supervisor's own flag is set earlier and only keeps further reloads
from beginning, which a behaviour may leave out anyway. `detached` records what was
removed while it could still have a child. A file that does not load changes nothing
and is no step. Groups, their priorities and the log writers, which follow the
processes, are left out.

### Signals

`Shutdown` and `Process` let the main loop reap whenever it reaps at all. Here the
loop is one goroutine with a place (`phase`, `reaping`, `hand`), and what reaches it
goes through the kernel, where signals of one kind are one signal, and a queue of
`QueueSize` slots, where what does not fit is dropped. `wait4`, ProcessByPid and
HandleExitStatus are separate steps (`Wait4`, `Found`, `HandleExitStatus`, with `found` in
between); ProcessByPid needs the lock of each process,
which a spawn holds from before the fork until the pid is stored, and which
WriteStdin holds while the pipe is full. A process is its pid and its lock. The
reload is one goroutine that stops and waits. `State()` needs no `p.mu`, so
`allStopped` and `waitForStopped` answer whoever holds it; Stop and Kill need it.

### Capture

One stream of one process: `Read` is one turn of readPipe's loop with the whole of
`CaptureWriter.Capture` (under `cw.mu`): strip, ring buffer, log file, rotation, and
the line splitter and passthroughHandler if the stream has no log file. A byte is its
index in the stream, so a lost, repeated or moved byte is visible; its kind is what
stripper and splitter distinguish. Files are sequences of bytes; an open handle
follows a file that logrotate renames. Any stat, write, truncate, remove, rename or
open may fail, each by itself: rotateFile goes on after a failed rename, so that a
backup may be replaced or a gap stay. `failed` records which kinds of failure have
happened, of the log file or of a backup. A log request is answered or refused by its
length (`ReadLog`, `MaxReadAlloc`, `DefaultLength`), and the carriage return before a
newline is dropped (`TrimCR`). The stripper holds back at most `MaxPending` bytes (64
in the code, and at least the two of an opened sequence). With `redirect_stderr` two
readers share a writer; only one is modelled.

### Events

`Publish` copies the handlers of a type and calls them one by one; each call is a
step, so that streams subscribe type by type, leave and read, and other publishers run
in between. The publishers are a process, which publishes with its lock held, and the
ticker. A listener says READY by itself; the pool's view of it (`lstate`) and what it
does (`lproc`) are kept apart. A delivery of the webhook is a goroutine with its
number of attempts; `results` records how deliveries ended, in order. `Stop` of the
pool and of the webhook leaves the bus type by type. Each behaviour has one kind of
subscriber (`scenario`): they share nothing but the bus.

### Loading

A file is read with its defaults, its settings are checked and its strings expanded
(`Loaded`), its includes are read before it is merged into the file above, and the
whole is checked; LoadConfig then takes programs and groups in any order.
resolveIncludes calls itself: `stack` has its calls, each with its file, the
configuration so far, the pattern it has come to (`Pattern`) and what is still to be
read of the files that matched. What it should yield is stated without an order of
reading: `Below` is the least set closed under inclusion, and `Precedes` the order
that the patterns and the names in them give. A string is a sequence of atoms, and
`Rewrite` is the one way in which escapes and variables are replaced; expandString's
three passes and the later replacement in each instance are kept apart, as in the
code. The programs of a table are a set, with those listed more than once in `again`,
since that is an error. After autostart come requests: StartAllOrdered,
StopAllOrdered, RestartAllOrdered and the same for a group, then StopAll. A pass
visits the processes in the order of sortByPriority; what an action does to a process
is in `Process` and `Shutdown`. A restart leaves out what did not stop in time. Passes
do not overlap here: each has a snapshot of its own.

### Startup

daemonRun of several daemons, one action per access to a file they share: read the PID
file, stat, connect to, remove, bind and listen on the socket, chmod, bind the TCP
address, write the PID file, report, and at the end remove and close. stat, connect,
remove, bind and listen are separate steps, since that is where two daemons meet:
between bind and listen the file is there and nobody answers. The connection may also
fail for other reasons. There may be no PID file (`flag`, --pidfile), in which case
the socket is all that keeps a second daemon out. The system may refuse each step
(`SystemError`). With -d there is a parent that reads a pipe until nobody has it open.
A daemon may be killed at any point; an earlier one may have left its files.

## Runs

| Run | Shows |
| --- | --- |
| `process` | the safety properties and the refinement of `Lifecycle`, with a reload between two configurations (`startsecs` 1 or 0, one retry or none, `autorestart` unexpected or true) |
| `process_live` | under fairness, starts are decided and stops complete; `StartArmed` for a fixed `startsecs` |
| `shutdown` | two processes and one client: nothing is left behind, bulk starts are undone, shutdown ends if writes end |
| `reload` | reloads between four configurations of two programs with up to two instances |
| `signals` | two processes, two children or orphans, a queue of one slot, two signals or writes: no exit lost, no zombie left, shutdown ends |
| `capture` | five bytes in every division into chunks, up to three backups, a stream with and one without a log file, with and without stripping |
| `events` | a process and the ticker with two events each, and a stream, a pool of two listeners or a webhook |
| `loading` | programs, groups and includes of up to three files, then one request and shutdown |
| `startup` | two daemons that meet at their files and those of an earlier one, in the foreground or background |
| `running_has_child` | finding 1: RUNNING without a child |
| `in_service` | finding 2: a program that did not stop stays out of service |
| `shutdown_blocked` | finding 3: shutdown waits for ever for a write to a stdin |

Properties of a process:

* `ChildTracked`: only the child in `p.spawned` exists, it is the last attempt's,
  and the state is one from which it will be stopped or its exit handled.
* `EscalationArmed`: while STOPPING, a live child has a SIGKILL timer of its own
  that no earlier exit has cancelled.
* `RetryArmed`, `StartArmed`: BACKOFF has its retry, STARTING has its watcher, on a
  channel that is not closed.
* `AttemptsBounded`: BACKOFF is entered only while at most `startretries` attempts
  have been made since the last requested one, by the limit then in force.
* `RunningEarned`: RUNNING is entered only `startsecs` after the last STARTING and
  with a child there or being spawned, although watchers of earlier attempts may
  still be about.
* `RetiredNeverStarts`, `NoAutoStartAfterShutdown`: what was queued before a removal
  or before shutdown does not start the process afterwards, and no process leaves BACKOFF
  in shutdown otherwise. The exception is a retry or restart that had passed its check
  when shutdown began; the abstract `committed` says so.
* `StopCompletes`, `StartDecided`: STOPPING with a child ends in STOPPED, and STARTING
  and BACKOFF end in another state, through every retry. A write to stdin that never
  ends keeps the SIGKILL timer and the exit of a child waiting, so both assume that
  children read their stdin (`DrainSpec`).

Properties of a shutdown:

* `NoChildLeftBehind`: a child that is alive when the daemon goes away and was not sent
  SIGKILL was started after shutdown had begun.
* `BulkUndone`: a bulk start that loses the race with shutdown is undone.
* `ShutdownEnds`: the daemon exits, if writes to stdin end.

Properties of a reload:

* `NoneDetached`: a process is removed from the manager only when it has no child
  and can never get one; otherwise nobody could stop that child any more.
* `SettingsInForce`: between reloads every recorded instance exists with the
  recorded settings, and every process is one of the recorded instances, except added
  ones of a program that did not stop (`DidNotStop`). The next diff starts from
  this.
* `Untouched`: a program whose spawn settings stay the same is neither stopped,
  retired, started nor replaced.
* `ReloadEnds`: it ends although processes do not stop, if writes to their stdin end.

Properties of the main loop:

* `NoExitLost`: a pid that a process holds is one whose exit is still to come, so no
  exit is taken for an orphan's. The lock around fork and store is what it needs.
* `ZombieReaped`: every dead child is reaped, also one of several whose signals
  became one and one that a reload is waiting for; only a SIGCHLD that found the
  queue full of other signals excuses it.
* `ShutdownEnds`: also with signals, spawns and exits at any point, if children read their
  stdin.

Properties of the output of a process:

* `RingIsTail`: a log request returns the end of what was captured, as much as was asked
  for and is there, and is refused if it asks for more than `MaxReadAlloc`.
* `StreamFaithful`: the capture is the output, however the pipe cuts it; with
  `strip_ansi` it is the output without its escape sequences, and nothing else is
  missing, as long as every sequence has a final byte and is not longer than what can
  be held back (`WellFormed`).
* `LinesFaithful`: what was forwarded and what is in the line buffer are the text of
  the output, in order and complete, each line in one piece, but for the carriage
  return before a newline. That exactly those are missing, and with `strip_ansi`
  exactly those and the escape sequences, is claimed if all lines ended with a
  newline: one that was cut at `maxLineBytes` or by the end of the child may have been
  cut in a sequence, which then is not recognized, or may end in a carriage return.
* `LogIsSuffix`: the log file and its backups have what was written, in order and once,
  and are its last part. The last part only if no backup was replaced because it could not
  be renamed: rotateFile ignores that, and the bytes of that backup are gone.
* `LogBounded`: they are within their limits as long as the log file itself can be
  renamed or truncated; failures of its backups do not matter.

Properties of events:

* `StreamInOrder`, `OpenGetsAll`: a stream gets the events of a publisher in order and
  once, and every one that is published after its client saw it open, unless its
  channel is full.
* `OneAtATime`: a listener gets an event only when it waits for one, and no two get
  the same.
* `BreakerCountsRuns`: however deliveries end side by side, before the breaker trips and
  after, the counter is the length of the last run of failures, and the breaker is open if
  and only if some run was long enough.
* `PublishEnds`: no publisher waits for a client, a listener or a server.

Properties of loading:

* `LoadedAsWritten`: refused exactly if the files do not form a tree, a file is bad,
  names clash or a program is in two tables or twice in one; else one process for
  every instance, with the command its file means, where that is `Clear`: no value has
  the look of a variable or an escape, and the one escape that expansion in two steps
  loses does not occur. The reference (`Acceptable`, `Meaning`) reads all files at
  once and a string once.
* `GroupsAsWritten`: groups have the processes the tables give them, unless a table
  has the name of a program, and every program has a group of its own. Both differ
  from the repository's specification (see the divergences).
* `StartedInOrder`: every pass is in the order of the files' priorities.

Properties of starting a daemon:

* `ControlKept`: a running daemon has its socket and its PID file, unless a daemon removed
  the socket file of one that is alive without having found that file dead (`raced`):
  after a connection that failed for another reason, before listen, or by name in place of
  another file. What it shows is that nothing else, neither a start, an
  error, a stop nor a crash at any point, takes them away.
* `LeftoversHarmless`: files of killed daemons keep no daemon from starting.
* `ParentReturns`: -d returns, and says "started" only if sockets, PID file and processes
  are there, or were.

Bounds. `MaxAttempts` is 2 in the passing runs: one goroutine left over from an
earlier attempt meets the next attempt, which is what every property here is about.
One second for every delay and `Horizon` 1 distinguish "due" from "not due", and no
action compares two delays. The theorems hold for every number of attempts below 35
(where the shift in `BackoffDelay` overflows), every set of configurations and every
horizon. `Shutdown` uses two processes, so that the loops of StopAll and killRemaining
are half-way through one while the other changes, and one client, which may make any
number of requests in turn; the theorems hold for any number of both. Deadlock is not
checked there because the daemon exits. `Reload` uses two programs, one of which comes
and goes while the other changes its settings, its number of instances or both; the
runs do not bound the number of reloads. Once shutdown has begun its processes may all
come to rest, so deadlock is not checked there either. `Signals` has a queue of one
slot, so that a second signal is already too many, and two pids, so that two children
die before one is reaped. `Capture` has five bytes against a ring of three, lines of
at most four, reads of at most two and files of two: every limit is met and passed,
and requests for up to four bytes (`MaxReadAlloc`), for five and without a length
(`DefaultLength`). Four bytes hold an escape sequence and a newline, so that each is
cut at every place. `Events` has channels of one slot, two attempts and a breaker that
trips at two, so that the second event of a publisher meets each limit. `Loading` has
the shapes of include that differ (none, one, a pattern for two, a chain, twice, a
circle, no match, no file), the settings that decide what is loaded one by one, and
one request (`MaxRequests`), since nothing is left of a pass when the next begins.
`Startup` has one daemon that holds the shared files and one that comes upon them,
beside what an earlier one left. In these modules everything may come to rest, so
deadlock is not checked.

Fairness. In `Process`: the Go scheduler runs the goroutines that can run, time passes,
a spawn ends, the daemon reaps, and a child that was sent SIGKILL dies. `p.mu` is
handed over: the exit of a child and the SIGKILL timer, which find it taken again and
again, get it sooner or later (strong fairness; Go's mutex lets a waiter have it after
a millisecond). Each of these is assumed of all such steps together, not one by one:
an attempt has finitely many, and the weaker assumption is the cheaper one to check.
Nothing is assumed of requests, of reload and shutdown, or of a child that was not
killed. `DrainSpec` adds, for both properties, that a write to stdin ends
(`WriteEnd`): the code cannot see to that, it is up to the child. `Shutdown` and
`Reload` state the same as a premise of their properties (`WritesEnd`). The live run keeps `startsecs` fixed; a reload that raises it
while a process is STARTING can leave it there (see the hazards). `StopCompletes` asks
for a child because a process that is RUNNING without one stays STOPPING. In
`Shutdown`: the main loop gets the locks it waits for (strong fairness), its time
limits expire, and a retry or restart that holds `p.mu` finishes. Requests, exits and
the other goroutines need not be served for `ShutdownEnds`, which has the premise
`WritesEnd`. In `Reload`: the goroutine of the reload runs and gets the locks it waits
for, its waits time out, and a retry or restart that holds a lock finishes; nothing
else is assumed of the processes, and `ReloadEnds` has the premise. In `Signals`:
goroutines run, signals arrive, a killed child dies; time limits of shutdown are
strongly fair, since the select that waits for them is again and again busy with
another case. `DrainSpec` assumes besides that children read what is written to their
stdin; without that assumption `ShutdownEnds` fails (finding 3). In `Events`:
publishers and the ticker run; nothing is assumed of clients, listeners and servers.
In `Startup`: a daemon goes on until it runs, and the process that waits for
it reads; nobody has to stop a daemon.

Each property of a passing run has a mutant: a definition marked "Mutant of"
beside the one it stands in for, with a slip someone could make in that code
(`PROJECT.json` pairs them). TLC finds the property violated with it.

## Findings

1. *RUNNING without a child* (`running_has_child`). The child exits just before
   `startsecs` is over. HandleExitStatus reads STARTING, watchStart makes it RUNNING,
   ProcessExitedEarly refuses, and `p.spawned` is cleared: nothing restarts the
   process and a stop never completes.
2. *A reverted edit leaves a program out of service* (`in_service`). A program that
   does not stop in a reload keeps its old settings but stays retired. If the file
   has the old settings again at the next reload, there is no difference to apply,
   and its processes refuse every start from then on.
3. *Shutdown waits for a write* (`shutdown_blocked`). WriteStdin holds `p.mu` while the
   pipe to a child that does not read is full. StopAll needs that lock before the
   wait with its time limit has begun, so the daemon neither kills the child nor
   exits. The reaper, which looks at every process, waits for it too.

Divergences that the models reproduce and no run checks:

* retryAfterBackoff and restartAfterExit look at shutdownCh and then move to STARTING
  (`process.go:645`, `process.go:650`); StopAll closes the channel without `p.mu`
  (`manager.go:333`), also in between, so a process starts although
  `docs/process-lifecycle.md:109` says "nothing is restarted or retried once daemon
  shutdown has begun". StopAll, which then waits for `p.mu`, stops it.
* HandleExitStatus starts the retry with the old stop channel and replaces it without
  closing it (`process.go:590`). A stop in BACKOFF closes the new one, so the retry waits
  on, and after a start that fails again it makes its attempt before the new delay is
  over. `process.go:388` says "cancel pending retry".
* LoadConfig gets the whole new configuration (`reload.go:92`), also for a program that
  did not stop: its added instances are created beside the old ones, while the old
  configuration is recorded. `reload.go:25` says that it "keeps its old processes ... so
  the caller can keep its old config".
* Every failed connection counts as a dead daemon (`api.go:412`), also a time-out or one
  to a socket that is bound and not yet listened to (`listen_unix.go:50`): without a
  PID file a second daemon takes over the socket of a running one, which
  `e2e/daemon_lifecycle_test.go:387` says it must not.
* A tripped breaker stays open: there is no probe every five minutes that could close it
  (`webhook.go:115`; `.specify/specs/spec.md:2532`).
* A [groups] table with the name of a program is accepted (`include.go:189`;
  `.specify/specs/spec.md:879` calls it a config error), and its group takes the place
  of the program's.
* A program in a [groups] table keeps its implicit group (`manager.go:215`), which
  `.specify/specs/spec.md:910` says is suppressed.
* A fresh start inherits the retries used before a stop (`state.go:147`;
  `docs/process-lifecycle.md:68`).
* watchStart publishes a state it read before, without `p.mu` (`process.go:372`):
  RUNNING can follow STOPPING or EXITED and remain the last event.
* A restart request and the requests for a group look at no shutdown flag
  (`api.go:497`, `api.go:674`; `.specify/specs/spec.md:1976`) and start processes during
  shutdown.
* A reload that raises `startsecs` while a process is STARTING leaves it there
  (`process.go:354`).
* A Reopen that cannot open the new log file keeps the closed one, which
  EnsureOpen takes for open (`capture.go:178`): later starts have no log.
* An event is dropped when no listener is ready, though `.specify/specs/spec.md:2472` has
  it wait in the buffer (`listener.go:137`).
* `%%(process_num)d` of a program with several instances is expanded all the same
  (`expand.go:115`; `.specify/specs/spec.md:998`).

## Proofs

`ProcessProofs` proves by induction `IndInv == TypeOK /\ ChildTracked /\ Sections /\
EscalationArmed /\ RetryArmed`. None of the last two is inductive alone: that a
new timer gets a usable channel needs `Sections`, which says that `p.stopCh` is
closed only while STOPPING, that `p.spawned` is the last attempt's child and which
states go with each half-finished method; and that nobody cancels the timer of
the present child needs `ChildTracked`. The action properties and the refinement
(`ImplementsLifecycle`) follow step by step from it, and
`ShutdownEndsAutoStart` from the refinement. `AttemptsAlwaysBounded` has an
invariant of its own: `sm.retries` counts at least the attempts of the present
series. `StartAlwaysArmed` assumes that all configurations have one `startsecs`
(`SameStartsecs`), without which it is false, and proves `Watched == NoneYet /\ InTime
/\ StartArmed`: the timer of the last watcher fires when `startsecs` have passed since
STARTING, so that ProcessStarted does not refuse. The other assumptions are those of
the module on its constants.

`ShutdownProofs` proves `TypeOK /\ Progress /\ BulkUndone`. `Progress` says phase by
phase what has been achieved: what StopAll has visited is STOPPING unless it was
started late, what killRemaining has visited is not alive unless it was. It
holds for all sets of processes and clients.

`ReloadProofs` proves `TypeOK /\ TodoInv /\ RetireInv /\ SettingsInv /\ LockInv /\
NoneDetached`. `TodoInv` says which programs each loop is about; `RetireInv` what the
loops have achieved, first that all are retired, then that all are at rest or their
program is in `stuck`; `SettingsInv` which settings a process has half-way through;
`LockInv` that nobody who has passed the checks of a restart is retired, since Retire
waits for the lock. The heart of it is that retired and at rest is stable under every
step of a process (`ProcessStepKeeps`), which is why retiring has to come first.

`SignalsProofs` proves `IndInv == Types /\ InHand /\ SpawnLocked /\ OwnPids /\
NoExitLost`. The dangerous moment is between the fork, when the child can already be
reaped, and the assignment of its pid: `SpawnLocked` says that the process lock is
held all that time, so ProcessByPid, which needs every lock to conclude that nobody
has the pid, cannot conclude it then; `OwnPids` says that no two processes have one
pid, and `InHand` that the pid in the loop's hand is that of a child already reaped.

`StartupProofs` proves `ControlKept` from `ControlInv == Types /\ Owners /\ (raced \/
Control)`. `Control` says that every daemon past its bind has the socket file, so that
there is only one, that it listens if it is past that too, and that a socket file
found dead belongs to a daemon that has ended: that is what a refused connection shows
unless the file is between bind and listen, and removing the file is safe as long as
it is still that file. Where it is not, `raced` records it, and nothing is claimed.
`LeftoversHarmless` rests on `Owners` and on `Alone`: whatever could stand in the way
of a daemon belongs to one that is alive.

`EventsProofs` proves by induction `TypeOK /\ UnderWay /\ Subscriptions /\ HasStream /\
HasPool /\ NothingDue /\ Handshake /\ InOnePlace`. A publisher's event reaches the
subscribers one by one, so "in order and once" needs `UnderWay`, which says that the
event under way is the publisher's last and that nobody is called twice with it, and
`HasStream`: whoever is still to be called does not have it yet. `Subscriptions` says
for each moment of connecting and leaving which types a stream is subscribed to; without
it nobody could conclude that an open stream is called for every type it asked for.
For listeners, `Handshake` relates the pool's view to the listener's (READY read means
that it waits, and a READY not yet read is its last word), `InOnePlace` says that an event
is in the queue once or with one listener. For the breaker, `AppendResult` and `RunsStep`
follow the runs of failures from one result to the next.

`CaptureProofs` proves `TypeOK /\ HeldBack /\ FilesOK /\ LogIsSuffix /\ RingHas`.
Bytes are their positions in the stream, so order means increasing and completeness is
about sets. `HeldBack` says that what the stripper holds back comes after everything
that was passed on; `FilesOK` that a handle to a moved file is the last one moved and
has none in its place; `RingHas` which part of the capture is where in the ring. Ring,
stripper and rotation compute with recursive functions. Their definitions are unfolded
by one turn, and what they compute is shown by induction over sets of numbers: the
least counterexample (lemmas `Least`, `Induct`), of which the turn before is none.

Stripper and line splitter rest on that. `StreamInv` says that the stripper is at a
place where the stream is cut correctly (`CutsAt`): nothing unfinished begins before
it, and what is behind it is a sequence that may go on. That such a rest fits into
what is held back is what `MaxPending` is for, and what WellFormed says of the stream.
`StripIsPlain` shows for one call that exactly the bytes outside of sequences are
passed on, whatever piece of the stream it is given. `LinesInv` says the same of lines
(`Forwards`): of a part of the stream at least one line for each newline, and if there
are no others, then each line began and ended with one and lost exactly its sequences.
It can be proved since a sequence does not go over a newline, so that stripping a
whole line is stripping a part of the stream.

`LoadingProofs` proves by induction `LoadInv`, which has one part for each stage:
while the files are read, when they are refused, while LoadConfig builds processes and
then groups, and in the passes. `ReadingInv` says that the stack is a path of
inclusions from the main file, and of each frame that its configuration is that of
exactly the files it is done with (`FrameInv`): their programs, none of them in two
files, and of each group the table that the last of them has. `TakenInv` says that
every file read but the main one was included by one pattern of one file. So, when the
main file is done, what was read is what can be reached and the files form a tree
(`AllRead`), and a file that was refused shows that they do not (`IncludeRejected`,
`MergeClash`). "The last of them" makes sense since in a tree no two files precede
each other (`OneWay`), which follows from the files being below one file of each level
only (`Line`, `Apart`). Once the checks have passed, distinct instances have distinct
names, so LoadConfig drops none; a group that has the name of no program has the same
processes whatever was read before it. In a pass `OrderInv` says that what was visited
is sorted and comes before what is to come, and `RankIs` that sortByPriority compares
by what the files say.

That expansion yields what a command means is shown by induction over the length of
what is left of it (`RightClear`): where the string is `Clear`, the three passes of
expandString and that of instanceConfig together do to its first one or two atoms what
one reading does, and no pass makes a variable or an escape of what an earlier one put
in. The assumption is `LoadingConstants`: contents are well typed, and no variable of
the environment has the spelling of a sign of the template language, which its braces
exclude.

Only model-checked: the liveness properties, which need fairness. All other properties of
the passing runs are proved. The findings are counterexamples and stay with TLC.

## Not modelled

The content of events, environment and JSON; the daemon's own log; signals other
than those named; the reuse of pids; authentication; TOML. Control client, web UI,
metrics, migration and test helpers format text, read state or run outside the
daemon. `PROJECT.json` lists them with the reason.

## Plan

1. `Reload` composed with the phases of `Shutdown` (programs loaded and started behind
   StopAll's snapshot).
2. The 64-bit delay of `BackoffDelay`, and size parsing, as operators against reference
   definitions.
