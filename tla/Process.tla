------------------------------ MODULE Process ------------------------------
(***************************************************************************)
(* One managed process of the Kahi supervisor: internal/process/process.go *)
(* (Process) together with the state machine it owns, state.go             *)
(* (StateMachine), its child, and the goroutines that the methods of       *)
(* Process start: watchStart, watchStop, retryAfterBackoff and             *)
(* restartAfterExit.                                                       *)
(*                                                                         *)
(* Every method of Process runs with p.mu held, so it is one atomic step   *)
(* except where another goroutine can act in the middle of it without      *)
(* p.mu.  Only three things can: watchStart calls sm.ProcessStarted()      *)
(* under sm.mu alone, the daemon closes shutdownCh, and a child reads its  *)
(* stdin or not.  The critical sections that these can split are therefore *)
(* two steps, and mu says which section is open:                           *)
(*                                                                         *)
(*   "restart"  restartAfterExit has passed its shuttingDown() check       *)
(*   "retry"    retryAfterBackoff has passed its shuttingDown() check      *)
(*   "spawn"    startLocked or retryAfterBackoff entered STARTING and      *)
(*              spawnLocked is preparing and executing the command         *)
(*   "exit"     HandleExitStatus has read STARTING and has not yet called  *)
(*              ProcessExitedEarly                                         *)
(*   "update"   UpdateConfig has set p.config and not yet the limits of    *)
(*              the state machine                                          *)
(*   "write"    WriteStdin waits in pipe.Write for the child to read       *)
(*                                                                         *)
(* Starts are numbered: attempt n is the n-th time STARTING was entered.   *)
(* An attempt spawns at most one child and at most one goroutine of each   *)
(* kind, so children and goroutines are functions of the attempt.          *)
(*                                                                         *)
(* Time advances in whole seconds (Tick).  A timer that is due may be      *)
(* served late: nothing forces its goroutine to run.                       *)
(***************************************************************************)
EXTENDS Integers

CONSTANTS
  MaxAttempts,  \* bound: how often STARTING is entered
  Configs,      \* the configurations UpdateConfig may install
  Horizon       \* bound: elapsed time since STARTING is counted up to here

Policies == {"true", "false", "unexpected"}

ConfigType == [startsecs    : Nat,
               startretries : Nat,
               stopwaitsecs : Nat,
               autorestart  : Policies]

ASSUME MaxAttemptsAssumption == MaxAttempts \in 1..34
ASSUME HorizonAssumption == Horizon \in Nat
ASSUME ConfigsAssumption ==
  /\ Configs \subseteq ConfigType
  /\ \A c \in Configs : c.startsecs <= Horizon

VARIABLES
  \* StateMachine
  state,       \* sm.state
  retries,     \* sm.retries
  manualStop,  \* sm.manualStop
  age,         \* seconds since sm.startedAt, up to Horizon
  \* Process
  cfg,         \* p.config
  limits,      \* sm.startsecs and sm.startretries, which SetLimits copies from it
  mu,          \* p.mu: the critical section that is open, or "free"
  attempt,     \* attempts made so far
  spawned,     \* p.spawned: the attempt whose child it is, 0 for nil
  stopChOpen,  \* p.stopCh is not closed
  retired,     \* p.retired
  shutdown,    \* p.shutdownCh is closed
  \* the operating system and the goroutines, by attempt
  child,       \* what became of the child
  watcher,     \* go watchStart(p.stopCh)
  retrier,     \* go retryAfterBackoff(p.stopCh)
  restarter,   \* go restartAfterExit()
  killer,      \* go watchStop(killDone)
  \* history
  lastEvent,   \* the state in the last PROCESS_STATE event
  tries        \* attempts since the last start that was not a retry

machine    == <<state, retries, manualStop, age>>
flags      == <<cfg, limits, retired, shutdown>>
goroutines == <<watcher, retrier, restarter, killer>>
vars == <<machine, flags, goroutines, mu, attempt, spawned, stopChOpen, child,
          lastEvent, tries>>

Ids == 1..MaxAttempts

Holders == {"restart", "retry", "spawn", "exit", "update", "write"}

Limits(c) == [startsecs |-> c.startsecs, startretries |-> c.startretries]

States == {"STOPPED", "STARTING", "RUNNING", "BACKOFF", "STOPPING", "EXITED", "FATAL"}

(***************************************************************************)
(* The child of an attempt: there is "none" (not spawned, or its exit has  *)
(* been handled), it is "alive", "killed" (sent SIGKILL), or a "zombie".   *)
(***************************************************************************)
ChildStates == {"none", "alive", "killed", "zombie"}

(***************************************************************************)
(* A goroutine holds the channel it was started with.  That channel is     *)
(* "open" while it is still p.stopCh (or p.killDoneCh) and may be closed,  *)
(* "closed", or "orphan": replaced in the Process without being closed, so *)
(* that nobody can ever close it.                                          *)
(***************************************************************************)
Channels == {"open", "closed", "orphan"}

Timer   == [pc : {"none", "new", "wait"}, left : Nat, ch : Channels]
Watcher == [pc : {"none", "new", "wait", "started", "publish"},
            left : Nat, ch : Channels, st : States]

NoTimer   == [pc |-> "none", left |-> 0, ch |-> "closed"]
NoWatcher == [pc |-> "none", left |-> 0, ch |-> "closed", st |-> "STOPPED"]

NewTimer(ch)   == [NoTimer EXCEPT !.pc = "new", !.ch = ch]
NewWatcher(ch) == [NoWatcher EXCEPT !.pc = "new", !.ch = ch]

\* close(p.stopCh): the goroutines that hold it see it closed.
Closed(g) == [n \in Ids |-> IF g[n].ch = "open" THEN [g[n] EXCEPT !.ch = "closed"] ELSE g[n]]

\* p.stopCh = make(chan struct{}): the goroutines keep the old channel.
Replaced(g) == [n \in Ids |-> IF g[n].ch = "open" THEN [g[n] EXCEPT !.ch = "orphan"] ELSE g[n]]

TheStopCh == IF stopChOpen THEN "open" ELSE "closed"

(***************************************************************************)
(* time.Second << (retries - 1), at most 60 seconds, in seconds.  The      *)
(* 64-bit shift overflows from 35 retries on, which MaxAttempts excludes.  *)
(***************************************************************************)
BackoffDelay(r) ==
  IF r <= 0 THEN 1 ELSE IF r <= 6 THEN <<1, 2, 4, 8, 16, 32>>[r] ELSE 60

TypeOK ==
  /\ state \in States /\ retries \in Nat /\ manualStop \in BOOLEAN /\ age \in 0..Horizon
  /\ cfg \in Configs /\ limits \in {Limits(c) : c \in Configs}
  /\ mu \in Holders \cup {"free"}
  /\ attempt \in 0..MaxAttempts
  /\ spawned \in 0..MaxAttempts
  /\ stopChOpen \in BOOLEAN /\ retired \in BOOLEAN /\ shutdown \in BOOLEAN
  /\ child \in [Ids -> ChildStates]
  /\ watcher \in [Ids -> Watcher]
  /\ retrier \in [Ids -> Timer]
  /\ restarter \in [Ids -> BOOLEAN]
  /\ killer \in [Ids -> Timer]
  /\ lastEvent \in States
  /\ tries \in Nat

Init ==
  /\ state = "STOPPED" /\ retries = 0 /\ manualStop = FALSE /\ age = 0
  /\ cfg \in Configs /\ limits = Limits(cfg)
  /\ mu = "free"
  /\ attempt = 0 /\ spawned = 0 /\ tries = 0
  /\ stopChOpen = TRUE /\ retired = FALSE /\ shutdown = FALSE
  /\ child = [n \in Ids |-> "none"]
  /\ watcher = [n \in Ids |-> NoWatcher]
  /\ retrier = [n \in Ids |-> NoTimer]
  /\ restarter = [n \in Ids |-> FALSE]
  /\ killer = [n \in Ids |-> NoTimer]
  /\ lastEvent = "STOPPED"

-----------------------------------------------------------------------------
(***************************************************************************)
(* Starting.                                                               *)
(***************************************************************************)

\* Enter STARTING, publish it, and go on to spawnLocked with p.mu held.
EnterStarting(n) ==
  /\ attempt < MaxAttempts
  /\ attempt' = attempt + 1
  /\ tries' = n
  /\ state' = "STARTING" /\ age' = 0
  /\ lastEvent' = "STARTING"
  /\ mu' = "spawn"

\* Mutant of Start: STOPPING may be left for STARTING.
StartWhileStopping ==
  /\ mu = "free" /\ ~retired
  /\ state \in {"STOPPED", "EXITED", "FATAL", "STOPPING"}
  /\ EnterStarting(1)
  /\ manualStop' = FALSE
  /\ UNCHANGED <<flags, goroutines, retries, spawned, stopChOpen, child>>

\* Start on a process that is STOPPED, EXITED or FATAL.
Start ==
  /\ mu = "free" /\ ~retired
  /\ state \in {"STOPPED", "EXITED", "FATAL"}
  /\ EnterStarting(1)
  /\ manualStop' = FALSE
  /\ UNCHANGED <<flags, goroutines, retries, spawned, stopChOpen, child>>

\* Start on a STOPPING process: RequestStart clears manualStop, then fails.
StartRefused ==
  /\ mu = "free" /\ ~retired
  /\ state = "STOPPING" /\ manualStop
  /\ manualStop' = FALSE
  /\ UNCHANGED <<flags, goroutines, state, retries, age, mu, attempt, spawned,
                 stopChOpen, child, lastEvent, tries>>

\* Mutant of ProcessStarted: a leftover watchStart promotes the next attempt.
StartedTooSoon ==
  IF state = "STARTING"
    THEN state' = "RUNNING" /\ retries' = 0
    ELSE UNCHANGED <<state, retries>>

\* ProcessStarted: RUNNING only if startsecs have passed since STARTING.
ProcessStarted ==
  IF state = "STARTING" /\ age >= limits.startsecs
    THEN state' = "RUNNING" /\ retries' = 0
    ELSE UNCHANGED <<state, retries>>

\* Mutants of ProcessExitedEarly: one retry too many, and retries counted down.
OneRetryTooMany ==
  IF state = "STARTING"
    THEN /\ retries' = retries + 1
         /\ state' = IF retries > limits.startretries THEN "FATAL" ELSE "BACKOFF"
    ELSE UNCHANGED <<state, retries>>

RetriesCountedDown ==
  IF state = "STARTING"
    THEN retries' = retries - 1 /\ state' = IF retries' <= 0 THEN "FATAL" ELSE "BACKOFF"
    ELSE UNCHANGED <<state, retries>>

\* ProcessExitedEarly: BACKOFF, and on to FATAL when no retry is left.  In any
\* other state than STARTING it returns the state it found.
ProcessExitedEarly ==
  IF state = "STARTING"
    THEN /\ retries' = retries + 1
         /\ state' = IF retries + 1 > limits.startretries THEN "FATAL" ELSE "BACKOFF"
    ELSE UNCHANGED <<state, retries>>

\* The spawn succeeds.  Without startsecs the process is RUNNING at once.
SpawnOK ==
  /\ mu = "spawn"
  /\ mu' = "free"
  /\ spawned' = attempt
  /\ child' = [child EXCEPT ![attempt] = "alive"]
  /\ IF cfg.startsecs = 0
       THEN /\ ProcessStarted
            /\ lastEvent' = state'
            /\ UNCHANGED watcher
       ELSE /\ watcher' = [watcher EXCEPT ![attempt] = NewWatcher(TheStopCh)]
            /\ UNCHANGED <<state, retries, lastEvent>>
  /\ UNCHANGED <<flags, manualStop, age, retrier, restarter, killer, attempt,
                 stopChOpen, tries>>

\* The directory, the log files, the umask, the user or the command fails.
SpawnFail ==
  /\ mu = "spawn"
  /\ mu' = "free"
  /\ ProcessExitedEarly
  /\ lastEvent' = state'
  /\ retrier' = IF state' = "BACKOFF"
                  THEN [retrier EXCEPT ![attempt] = NewTimer(TheStopCh)]
                  ELSE retrier
  /\ UNCHANGED <<flags, manualStop, age, watcher, restarter, killer, attempt,
                 spawned, stopChOpen, child, tries>>

-----------------------------------------------------------------------------
(***************************************************************************)
(* watchStart.  It reads startsecs without p.mu when it begins to run, and *)
(* it moves the state machine without p.mu; only the pid is read under it. *)
(***************************************************************************)
WatchBegin(n) ==
  /\ watcher[n].pc = "new"
  /\ IF cfg.startsecs = 0
       THEN /\ ProcessStarted
            /\ watcher' = [watcher EXCEPT ![n].pc = "started"]
       ELSE /\ watcher' = [watcher EXCEPT ![n].pc = "wait", ![n].left = cfg.startsecs]
            /\ UNCHANGED <<state, retries>>
  /\ UNCHANGED <<flags, manualStop, age, retrier, restarter, killer, mu, attempt,
                 spawned, stopChOpen, child, lastEvent, tries>>

WatchFire(n) ==
  /\ watcher[n].pc = "wait" /\ watcher[n].left = 0
  /\ ProcessStarted
  /\ watcher' = [watcher EXCEPT ![n].pc = "started"]
  /\ UNCHANGED <<flags, manualStop, age, retrier, restarter, killer, mu, attempt,
                 spawned, stopChOpen, child, lastEvent, tries>>

WatchCancel(n) ==
  /\ watcher[n].pc = "wait" /\ watcher[n].ch = "closed"
  /\ watcher' = [watcher EXCEPT ![n] = NoWatcher]
  /\ UNCHANGED <<machine, flags, retrier, restarter, killer, mu, attempt, spawned,
                 stopChOpen, child, lastEvent, tries>>

\* p.publishStateUnlocked(p.sm.State()): the argument is read first, ...
WatchRead(n) ==
  /\ watcher[n].pc = "started"
  /\ watcher' = [watcher EXCEPT ![n].pc = "publish", ![n].st = state]
  /\ UNCHANGED <<machine, flags, retrier, restarter, killer, mu, attempt, spawned,
                 stopChOpen, child, lastEvent, tries>>

\* ... then the pid under p.mu, and the event goes out with both.
WatchPublish(n) ==
  /\ watcher[n].pc = "publish" /\ mu = "free"
  /\ lastEvent' = watcher[n].st
  /\ watcher' = [watcher EXCEPT ![n] = NoWatcher]
  /\ UNCHANGED <<machine, flags, retrier, restarter, killer, mu, attempt, spawned,
                 stopChOpen, child, tries>>

-----------------------------------------------------------------------------
(***************************************************************************)
(* Stopping.                                                               *)
(***************************************************************************)

\* stopLocked in BACKOFF: cancel the retry.  p.stopCh is closed and replaced.
StopInBackoff ==
  /\ state' = "STOPPED"
  /\ lastEvent' = "STOPPED"
  /\ watcher' = Closed(watcher)
  /\ stopChOpen' = TRUE

StopBackoff ==
  /\ mu = "free" /\ state = "BACKOFF"
  /\ StopInBackoff
  /\ retrier' = Closed(retrier)
  /\ UNCHANGED <<flags, retries, manualStop, age, restarter, killer, mu, attempt,
                 spawned, child, tries>>

\* Mutant of Stop: watchStop is not started.
StopWithoutEscalation ==
  /\ mu = "free" /\ state \in {"STARTING", "RUNNING"}
  /\ state' = "STOPPING" /\ manualStop' = TRUE
  /\ lastEvent' = "STOPPING"
  /\ watcher' = Closed(watcher)
  /\ retrier' = Closed(retrier)
  /\ stopChOpen' = FALSE
  /\ UNCHANGED <<flags, retries, age, restarter, killer, mu, attempt, spawned, child, tries>>

\* stopLocked in STARTING or RUNNING: signal the child, close p.stopCh and
\* start the escalation.  A second request while STOPPING does nothing.
Stop ==
  /\ mu = "free" /\ state \in {"STARTING", "RUNNING"}
  /\ state' = "STOPPING" /\ manualStop' = TRUE
  /\ lastEvent' = "STOPPING"
  /\ watcher' = Closed(watcher)
  /\ retrier' = Closed(retrier)
  /\ stopChOpen' = FALSE
  /\ killer' = [killer EXCEPT ![attempt] = NewTimer("open")]
  /\ UNCHANGED <<flags, retries, age, restarter, mu, attempt, spawned, child, tries>>

\* Mutant of KillLocked: the signal goes nowhere.
KillNothing == UNCHANGED child

\* killLocked on the tracked child.  SIGKILL to a zombie has no effect.
KillLocked ==
  child' = [child EXCEPT ![spawned] = IF @ = "alive" THEN "killed" ELSE @]

\* watchStop reads stopwaitsecs without p.mu when it begins to run.
StopWaitBegin(n) ==
  /\ killer[n].pc = "new"
  /\ killer' = [killer EXCEPT ![n].pc = "wait", ![n].left = cfg.stopwaitsecs]
  /\ UNCHANGED <<machine, flags, watcher, retrier, restarter, mu, attempt, spawned,
                 stopChOpen, child, lastEvent, tries>>

StopWaitFire(n) ==
  /\ killer[n].pc = "wait" /\ killer[n].left = 0 /\ mu = "free"
  /\ killer' = [killer EXCEPT ![n] = NoTimer]
  /\ IF state = "STOPPING" /\ spawned # 0 THEN KillLocked ELSE UNCHANGED child
  /\ UNCHANGED <<machine, flags, watcher, retrier, restarter, mu, attempt, spawned,
                 stopChOpen, lastEvent, tries>>

StopWaitCancel(n) ==
  /\ killer[n].pc = "wait" /\ killer[n].ch = "closed"
  /\ killer' = [killer EXCEPT ![n] = NoTimer]
  /\ UNCHANGED <<machine, flags, watcher, retrier, restarter, mu, attempt, spawned,
                 stopChOpen, child, lastEvent, tries>>

\* Kill, which shutdown calls, and Signal("KILL").
Kill ==
  /\ mu = "free" /\ spawned # 0
  /\ KillLocked
  /\ UNCHANGED <<machine, flags, goroutines, mu, attempt, spawned, stopChOpen,
                 lastEvent, tries>>

\* WriteStdin waits for the child to read, with p.mu held, as long as the pipe is full;
\* nothing in the code limits the wait.
WriteStdin ==
  /\ mu = "free" /\ spawned # 0
  /\ mu' = "write"
  /\ UNCHANGED <<machine, flags, goroutines, attempt, spawned, stopChOpen, child,
                 lastEvent, tries>>

WriteEnd ==
  /\ mu = "write"
  /\ mu' = "free"
  /\ UNCHANGED <<machine, flags, goroutines, attempt, spawned, stopChOpen, child,
                 lastEvent, tries>>

-----------------------------------------------------------------------------
(***************************************************************************)
(* The child exits; the daemon reaps it (wait4, ProcessByPid) and calls    *)
(* HandleExitStatus, which takes p.mu.                                     *)
(***************************************************************************)
ChildExit(n) ==
  /\ child[n] \in {"alive", "killed"}
  /\ child' = [child EXCEPT ![n] = "zombie"]
  /\ UNCHANGED <<machine, flags, goroutines, mu, attempt, spawned, stopChOpen,
                 lastEvent, tries>>

ShouldRestart(unexpected) ==
  /\ ~shutdown
  /\ ~manualStop
  /\ cfg.autorestart = "true" \/ (cfg.autorestart = "unexpected" /\ unexpected)

\* Mutant of ForgetChild: the closed stop channel stays.
KeepStopCh ==
  /\ killer' = Closed(killer)
  /\ spawned' = 0
  /\ child' = [child EXCEPT ![spawned] = "none"]
  /\ UNCHANGED stopChOpen
  /\ mu' = "free"

\* The end of HandleExitStatus: cancel the escalation, forget the child, and
\* give the Process a new stop channel.
ForgetChild ==
  /\ killer' = Closed(killer)
  /\ spawned' = 0
  /\ child' = [child EXCEPT ![spawned] = "none"]
  /\ stopChOpen' = TRUE
  /\ mu' = "free"

\* HandleExitStatus, STARTING: the state is read, and p.mu stays held.
HandleExitStarting ==
  /\ mu = "free" /\ spawned # 0 /\ child[spawned] = "zombie"
  /\ state = "STARTING"
  /\ mu' = "exit"
  /\ UNCHANGED <<machine, flags, goroutines, attempt, spawned, stopChOpen, child,
                 lastEvent, tries>>

\* ProcessExitedEarly and what follows it.  The retry gets the channel that
\* ForgetChild is about to replace.  Once shutdown has begun, stopLocked takes
\* the process from BACKOFF to STOPPED instead.
HandleExitEarly ==
  /\ mu = "exit"
  /\ ForgetChild
  /\ LET backoff == state = "STARTING" /\ retries + 1 <= limits.startretries
     IN  IF backoff /\ shutdown
           THEN /\ retries' = retries + 1
                /\ StopInBackoff
                /\ retrier' = Closed(retrier)
           ELSE /\ ProcessExitedEarly
                /\ lastEvent' = state'
                /\ watcher' = Replaced(watcher)
                /\ retrier' = IF backoff
                                THEN Replaced([retrier EXCEPT ![spawned] = NewTimer(TheStopCh)])
                                ELSE Replaced(retrier)
  /\ UNCHANGED <<flags, manualStop, age, restarter, attempt, tries>>

\* HandleExitStatus in RUNNING, STOPPING and, by its default case, any other state.
HandleExit(unexpected) ==
  /\ mu = "free" /\ spawned # 0 /\ child[spawned] = "zombie"
  /\ state # "STARTING"
  /\ state' = CASE state = "RUNNING"  -> "EXITED"
                [] state = "STOPPING" -> "STOPPED"
                [] OTHER -> state
  /\ lastEvent' = IF state \in {"RUNNING", "STOPPING"} THEN state' ELSE lastEvent
  /\ restarter' = [restarter EXCEPT ![spawned] =
                     IF state = "RUNNING" THEN ShouldRestart(unexpected) ELSE @]
  /\ ForgetChild
  /\ watcher' = Replaced(watcher)
  /\ retrier' = Replaced(retrier)
  /\ UNCHANGED <<flags, retries, manualStop, age, attempt, tries>>

-----------------------------------------------------------------------------
(***************************************************************************)
(* Automatic starts.                                                       *)
(***************************************************************************)

\* retryAfterBackoff computes its delay when it begins to run.
RetryBegin(n) ==
  /\ retrier[n].pc = "new"
  /\ retrier' = [retrier EXCEPT ![n].pc = "wait", ![n].left = BackoffDelay(retries)]
  /\ UNCHANGED <<machine, flags, watcher, restarter, killer, mu, attempt, spawned,
                 stopChOpen, child, lastEvent, tries>>

RetryCancel(n) ==
  /\ retrier[n].pc = "wait" /\ retrier[n].ch = "closed"
  /\ retrier' = [retrier EXCEPT ![n] = NoTimer]
  /\ UNCHANGED <<machine, flags, watcher, restarter, killer, mu, attempt, spawned,
                 stopChOpen, child, lastEvent, tries>>

RetryDue(n) == retrier[n].pc = "wait" /\ retrier[n].left = 0 /\ mu = "free"

\* Mutants of RetryPermitted: a retired process is retried, and the test of
\* restartAfterExit is used.
RetryRetired == state = "BACKOFF"

RetryFromExited == state = "EXITED" /\ ~retired

RetryPermitted == state = "BACKOFF" /\ ~retired

RetryDrop(n) ==
  /\ RetryDue(n) /\ ~RetryPermitted
  /\ retrier' = [retrier EXCEPT ![n] = NoTimer]
  /\ UNCHANGED <<machine, flags, watcher, restarter, killer, mu, attempt, spawned,
                 stopChOpen, child, lastEvent, tries>>

RetryShutdown(n) ==
  /\ RetryDue(n) /\ RetryPermitted /\ shutdown
  /\ StopInBackoff
  /\ retrier' = [Closed(retrier) EXCEPT ![n] = NoTimer]
  /\ UNCHANGED <<flags, retries, manualStop, age, restarter, killer, mu, attempt,
                 spawned, child, tries>>

\* Neither retired nor in shutdown; p.mu stays held ...
RetryCheck(n) ==
  /\ RetryDue(n) /\ RetryPermitted /\ ~shutdown /\ attempt < MaxAttempts
  /\ mu' = "retry"
  /\ retrier' = [retrier EXCEPT ![n] = NoTimer]
  /\ UNCHANGED <<machine, flags, watcher, restarter, killer, attempt, spawned,
                 stopChOpen, child, lastEvent, tries>>

\* ... and RetryFromBackoff, which looks at the state only.
RetryStart ==
  /\ mu = "retry"
  /\ EnterStarting(tries + 1)
  /\ UNCHANGED <<flags, goroutines, retries, manualStop, spawned, stopChOpen, child>>

\* Mutants of RestartPermitted: shutdown is not looked at, or a removal is not.
RestartInShutdown == state = "EXITED" /\ ~retired

RestartRetired == state = "EXITED" /\ ~shutdown

RestartPermitted == state = "EXITED" /\ ~shutdown /\ ~retired

RestartDrop(n) ==
  /\ restarter[n] /\ mu = "free" /\ ~RestartPermitted
  /\ restarter' = [restarter EXCEPT ![n] = FALSE]
  /\ UNCHANGED <<machine, flags, watcher, retrier, killer, mu, attempt, spawned,
                 stopChOpen, child, lastEvent, tries>>

\* The checks of restartAfterExit have passed; p.mu stays held ...
RestartCheck(n) ==
  /\ restarter[n] /\ mu = "free" /\ RestartPermitted /\ attempt < MaxAttempts
  /\ mu' = "restart"
  /\ restarter' = [restarter EXCEPT ![n] = FALSE]
  /\ UNCHANGED <<machine, flags, watcher, retrier, killer, attempt, spawned,
                 stopChOpen, child, lastEvent, tries>>

\* ... and startLocked begins.
RestartStart ==
  /\ mu = "restart"
  /\ EnterStarting(1)
  /\ manualStop' = FALSE
  /\ UNCHANGED <<flags, goroutines, retries, spawned, stopChOpen, child>>

-----------------------------------------------------------------------------
(***************************************************************************)
(* The manager and the daemon.                                             *)
(***************************************************************************)
Retire ==
  /\ mu = "free" /\ ~retired
  /\ retired' = TRUE
  /\ UNCHANGED <<machine, goroutines, cfg, limits, shutdown, mu, attempt, spawned, stopChOpen,
                 child, lastEvent, tries>>

\* UpdateConfig sets p.config, which watchStart and watchStop read without p.mu ...
UpdateConfig(c) ==
  /\ mu = "free" /\ c # cfg
  /\ cfg' = c /\ mu' = "update"
  /\ UNCHANGED <<machine, goroutines, limits, retired, shutdown, attempt, spawned,
                 stopChOpen, child, lastEvent, tries>>

\* ... and then the limits of the state machine.
SetLimits ==
  /\ mu = "update"
  /\ limits' = Limits(cfg) /\ mu' = "free"
  /\ UNCHANGED <<machine, goroutines, cfg, retired, shutdown, attempt, spawned,
                 stopChOpen, child, lastEvent, tries>>

\* StopAll closes shutdownCh without p.mu.
Shutdown ==
  /\ ~shutdown
  /\ shutdown' = TRUE
  /\ UNCHANGED <<machine, goroutines, cfg, limits, retired, mu, attempt, spawned, stopChOpen,
                 child, lastEvent, tries>>

\* One second passes.
Ran(g) == [n \in Ids |-> IF g[n].pc = "wait" /\ g[n].left > 0
                           THEN [g[n] EXCEPT !.left = @ - 1] ELSE g[n]]

Tick ==
  /\ age' = IF age < Horizon THEN age + 1 ELSE age
  /\ watcher' = Ran(watcher)
  /\ retrier' = Ran(retrier)
  /\ killer' = Ran(killer)
  /\ UNCHANGED <<flags, state, retries, manualStop, restarter, mu, attempt, spawned,
                 stopChOpen, child, lastEvent, tries>>

-----------------------------------------------------------------------------
Requests == Start \/ StartRefused \/ Stop \/ StopBackoff \/ Kill \/ WriteStdin

Spawning == SpawnOK \/ SpawnFail

Watching(n) == \/ WatchBegin(n) \/ WatchFire(n) \/ WatchCancel(n)
               \/ WatchRead(n) \/ WatchPublish(n)

StopWaiting(n) == StopWaitBegin(n) \/ StopWaitFire(n) \/ StopWaitCancel(n)

Retrying(n) == RetryBegin(n) \/ RetryCancel(n) \/ RetryDrop(n) \/ RetryShutdown(n) \/ RetryCheck(n)

Restarting(n) == RestartDrop(n) \/ RestartCheck(n)

\* What follows a check, whoever made it.
Resuming == RetryStart \/ RestartStart \/ SetLimits

Exiting == HandleExitStarting \/ HandleExitEarly \/ \E unexpected \in BOOLEAN : HandleExit(unexpected)

Daemon == Retire \/ Shutdown \/ \E c \in Configs : UpdateConfig(c)

Next ==
  \/ Requests
  \/ Spawning
  \/ Exiting
  \/ Resuming
  \/ WriteEnd
  \/ Daemon
  \/ Tick
  \/ \E n \in Ids : \/ Watching(n) \/ StopWaiting(n) \/ Retrying(n) \/ Restarting(n)
                    \/ ChildExit(n)

Spec == Init /\ [][Next]_vars

(***************************************************************************)
(* The scheduler runs every goroutine that can run, time passes, the       *)
(* kernel delivers SIGKILL and SIGCHLD, and a spawn ends.  Who waits for   *)
(* p.mu gets it if it is released again and again (sync.Mutex hands it to  *)
(* whoever has waited for a millisecond), hence SF for the reaper and the  *)
(* SIGKILL timer, which meet writes to stdin.  An attempt has finitely     *)
(* many of these steps, so fairness to all of them together is enough.     *)
(* Nothing is assumed of users, of the daemon, of a child that was not     *)
(* killed, or of a write to the stdin of a child: it may last for ever.    *)
(***************************************************************************)
Goroutines == Spawning \/ Resuming \/ \E n \in Ids : Watching(n) \/ Retrying(n) \/ Restarting(n)

Contending == Exiting \/ \E n \in Ids : StopWaiting(n)

Fairness ==
  /\ WF_vars(Goroutines) /\ WF_vars(Tick)
  /\ SF_vars(Contending)
  /\ WF_vars(\E n \in Ids : child[n] = "killed" /\ ChildExit(n))

FairSpec == Spec /\ Fairness

\* Children besides read what WriteStdin writes.  The code cannot see to that.
DrainSpec == FairSpec /\ WF_vars(WriteEnd)

-----------------------------------------------------------------------------
(***************************************************************************)
(* Properties.                                                             *)
(***************************************************************************)

\* The child that p.spawned refers to is the only one whose exit is still to be
\* handled, it belongs to the last attempt, and its state is one from which
\* stopLocked or HandleExitStatus leads on.  A second child, or one that
\* outlives STOPPED, BACKOFF, EXITED or FATAL, could never be stopped.
ChildTracked ==
  \A n \in Ids : child[n] # "none" =>
    /\ spawned = n
    /\ n = attempt
    /\ state \in {"STARTING", "RUNNING", "STOPPING"}

\* A child that is being stopped and may ignore the stop signal has a watchStop
\* goroutine of its own that nobody has cancelled: SIGKILL will follow.
EscalationArmed ==
  state = "STOPPING" /\ spawned # 0 /\ child[spawned] = "alive" =>
    killer[spawned].pc # "none" /\ killer[spawned].ch = "open"

\* A process in BACKOFF is never forgotten: the retryAfterBackoff goroutine of
\* the failed attempt is still there and its channel has not been closed.
RetryArmed ==
  state = "BACKOFF" =>
    retired \/ mu = "retry" \/ (retrier[attempt].pc # "none" /\ retrier[attempt].ch # "closed")

\* A process whose child is up and that is still STARTING has a watchStart
\* goroutine that will look at it (as long as startsecs does not change).
StartArmed ==
  state = "STARTING" /\ mu # "spawn" /\ child[attempt] = "alive" =>
    watcher[attempt].pc \in {"new", "wait"} /\ watcher[attempt].ch # "closed"

\* What makes these facts inductive: who holds p.mu in which state, that p.stopCh
\* is closed only while STOPPING, and that p.spawned is the last attempt's child.
Sections ==
  /\ spawned # 0 => spawned = attempt /\ child[spawned] # "none"
  /\ state # "STOPPED" => attempt # 0
  /\ state = "STARTING" => mu = "spawn" \/ spawned # 0
  /\ mu = "restart" => state = "EXITED" /\ ~retired
  /\ mu = "retry" => state = "BACKOFF" /\ ~retired
  /\ mu = "spawn" => state \in {"STARTING", "RUNNING"} /\ spawned = 0
  /\ mu = "exit" => state \in {"STARTING", "RUNNING"} /\ spawned # 0
  /\ stopChOpen \/ state = "STOPPING"

IndInv == TypeOK /\ ChildTracked /\ Sections /\ EscalationArmed /\ RetryArmed

\* RUNNING is entered only when startsecs have passed since the last STARTING
\* and, unless the spawn is still under way, there is a child.  A watchStart
\* goroutine left over from an earlier attempt must not promote a later one.
RunningEarned ==
  [][state # "RUNNING" /\ state' = "RUNNING" =>
       /\ age >= limits.startsecs
       /\ spawned # 0 \/ mu = "spawn"]_vars

\* startretries bounds the attempts made without a request: a failed start goes to
\* BACKOFF, where a retry awaits it, only if at most startretries attempts, by the
\* configuration in force, have been made since the last one that was no retry.
\* sm.retries may have counted more (a stop in BACKOFF does not reset it), never fewer.
AttemptsBounded ==
  [][state # "BACKOFF" /\ state' = "BACKOFF" => tries <= limits.startretries]_vars

\* A retired process makes no further attempt, whatever was queued before.
RetiredNeverStarts == [][retired => attempt' = attempt]_vars

\* Once shutdown has begun no retry and no restart gets past its check, and no process
\* leaves BACKOFF but by a retry that had passed it before (StopAll closes shutdownCh
\* without p.mu, so such a retry may still start the process).
NoAutoStartAfterShutdown ==
  [][shutdown => /\ mu' \in {"restart", "retry"} => mu' = mu
                 /\ state = "BACKOFF" /\ state' = "STARTING" => mu = "retry"]_vars

\* The process implements the life cycle of the documentation.
Life == INSTANCE Lifecycle WITH
  st <- state, barred <- retired, halted <- shutdown, 
  committed <- (mu \in {"restart", "retry"})
Lifecycle == Life!Spec

-----------------------------------------------------------------------------
(***************************************************************************)
(* Liveness, under Fairness.                                               *)
(***************************************************************************)

\* A stop that has a child to stop ends in STOPPED, even if the child ignores the stop
\* signal, as long as children read their stdin: else WriteStdin keeps p.mu and watchStop
\* cannot take it (the run shutdown_blocked shows what follows).
StopCompletes == (state = "STOPPING" /\ spawned # 0) ~> (state = "STOPPED")

\* A start is decided: through every retry, the process leaves STARTING and BACKOFF for
\* RUNNING, FATAL or a stop (unless it is retired, or MaxAttempts is used up).
StartDecided ==
  (state \in {"STARTING", "BACKOFF"}) ~>
    \/ state \notin {"STARTING", "BACKOFF"}
    \/ state = "BACKOFF" /\ (retired \/ attempt = MaxAttempts)

-----------------------------------------------------------------------------
(***************************************************************************)
(* What the documentation says and the code does not do.                   *)
(***************************************************************************)

\* A RUNNING process has a child.
RunningHasChild == state = "RUNNING" /\ mu = "free" => spawned # 0
=============================================================================
