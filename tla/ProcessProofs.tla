--------------------------- MODULE ProcessProofs ---------------------------
(***************************************************************************)
(* Proofs about Process, for every bound on the attempts, every set of     *)
(* configurations and every horizon that the assumptions of Process allow. *)
(***************************************************************************)
EXTENDS Process, TLAPS

USE MaxAttemptsAssumption, HorizonAssumption, ConfigsAssumption

-----------------------------------------------------------------------------
(***************************************************************************)
(* The operators on goroutines.                                            *)
(***************************************************************************)

\* Closing, replacing and letting time pass yield goroutines again.
LEMMA TimerOps ==
  ASSUME NEW g \in [Ids -> Timer]
  PROVE  /\ Closed(g) \in [Ids -> Timer]
         /\ Replaced(g) \in [Ids -> Timer]
         /\ Ran(g) \in [Ids -> Timer]
  BY DEF Closed, Replaced, Ran, Timer, Channels

LEMMA WatcherOps ==
  ASSUME NEW g \in [Ids -> Watcher]
  PROVE  /\ Closed(g) \in [Ids -> Watcher]
         /\ Replaced(g) \in [Ids -> Watcher]
         /\ Ran(g) \in [Ids -> Watcher]
  BY DEF Closed, Replaced, Ran, Watcher, Channels

\* What NewTimer, NewWatcher and the idle values are.
LEMMA NewTypes ==
  /\ NoTimer \in Timer
  /\ NoWatcher \in Watcher
  /\ \A ch \in Channels : NewTimer(ch) \in Timer /\ NewWatcher(ch) \in Watcher
  BY DEF NoTimer, NoWatcher, NewTimer, NewWatcher, Timer, Watcher, Channels, States

LEMMA DelayType == \A r \in Nat : BackoffDelay(r) \in Nat
  BY DEF BackoffDelay

-----------------------------------------------------------------------------
(***************************************************************************)
(* Type correctness.                                                       *)
(***************************************************************************)
LEMMA TypeInit == Init => TypeOK
<1> SUFFICES ASSUME Init PROVE TypeOK
  OBVIOUS
<1> USE DEF Init
<1>1. state \in States /\ lastEvent \in States /\ child \in [Ids -> ChildStates]
  BY DEF States, ChildStates
<1>6. cfg \in Configs /\ limits \in {Limits(c) : c \in Configs}
  OBVIOUS
<1>2. retries \in Nat /\ tries \in Nat /\ age \in 0..Horizon
  OBVIOUS
<1>3. attempt \in 0..MaxAttempts /\ spawned \in 0..MaxAttempts
  OBVIOUS
<1>4. watcher \in [Ids -> Watcher] /\ retrier \in [Ids -> Timer] /\ killer \in [Ids -> Timer]
  BY NewTypes
<1>5. /\ manualStop \in BOOLEAN /\ stopChOpen \in BOOLEAN /\ retired \in BOOLEAN
      /\ shutdown \in BOOLEAN /\ restarter \in [Ids -> BOOLEAN]
  BY Zenon
<1> QED BY <1>1, <1>2, <1>3, <1>4, <1>5, <1>6 DEF TypeOK

\* EnterStarting, and with it every start, keeps the types.
LEMMA TypeEnterStarting ==
  ASSUME TypeOK, NEW k \in Nat, EnterStarting(k)
  PROVE  /\ attempt' \in 0..MaxAttempts /\ tries' \in Nat /\ age' \in 0..Horizon
         /\ state' \in States /\ lastEvent' \in States
         /\ mu' \in Holders \cup {"free"}
  BY DEF TypeOK, EnterStarting, States, Holders

LEMMA TypeRequests ==
  TypeOK /\ (Requests \/ Resuming) => TypeOK'
<1> SUFFICES ASSUME TypeOK, Requests \/ Resuming PROVE TypeOK'
  OBVIOUS
<1> USE DEF TypeOK, machine, flags, goroutines, States
<1>1. CASE Start
  <2>1. EnterStarting(1) /\ manualStop' \in BOOLEAN
    BY <1>1, Zenon DEF Start
  <2> QED BY <1>1, <2>1, TypeEnterStarting DEF Start
<1>2. CASE StartRefused
  BY <1>2 DEF StartRefused
<1>3. CASE Stop
  <2>1. NewTimer("open") \in Timer
    BY NewTypes DEF Channels
  <2> QED BY <1>3, <2>1, TimerOps, WatcherOps DEF Stop
<1>4. CASE StopBackoff
  BY <1>4, TimerOps, WatcherOps DEF StopBackoff, StopInBackoff
<1>5. CASE Kill
  BY <1>5 DEF Kill, KillLocked, ChildStates
<1>6. CASE RestartStart
  <2>1. EnterStarting(1) /\ manualStop' \in BOOLEAN
    BY <1>6, Zenon DEF RestartStart
  <2> QED BY <1>6, <2>1, TypeEnterStarting DEF RestartStart
<1>7. CASE RetryStart
  <2>1. EnterStarting(tries + 1) /\ tries + 1 \in Nat
    BY <1>7 DEF RetryStart
  <2> QED BY <1>7, <2>1, TypeEnterStarting DEF RetryStart
<1>8. CASE SetLimits \/ WriteStdin
  BY <1>8 DEF SetLimits, WriteStdin, Holders
<1> QED BY <1>1, <1>2, <1>3, <1>4, <1>5, <1>6, <1>7, <1>8 DEF Requests, Resuming

LEMMA TypeSpawning == TypeOK /\ Spawning => TypeOK'
<1> SUFFICES ASSUME TypeOK, Spawning PROVE TypeOK'
  OBVIOUS
<1>0. TheStopCh \in Channels
  BY DEF TheStopCh, Channels
<1>1. NewTimer(TheStopCh) \in Timer /\ NewWatcher(TheStopCh) \in Watcher
  BY <1>0, NewTypes
<1> USE DEF TypeOK, flags, States, Limits
<1>2. CASE SpawnOK
  <2>1. child' \in [Ids -> ChildStates] /\ spawned' \in 0..MaxAttempts
    BY <1>2 DEF SpawnOK, ChildStates
  <2>2. state' \in States /\ retries' \in Nat /\ lastEvent' \in States
    BY <1>2 DEF SpawnOK, ProcessStarted
  <2>3. watcher' \in [Ids -> Watcher]
    BY <1>1, <1>2 DEF SpawnOK
  <2> QED BY <1>2, <2>1, <2>2, <2>3 DEF SpawnOK
<1>3. CASE SpawnFail
  <2>1. state' \in States /\ retries' \in Nat /\ lastEvent' \in States
    BY <1>3 DEF SpawnFail, ProcessExitedEarly
  <2>2. retrier' \in [Ids -> Timer]
    BY <1>1, <1>3 DEF SpawnFail
  <2> QED BY <1>3, <2>1, <2>2 DEF SpawnFail
<1> QED BY <1>2, <1>3 DEF Spawning

LEMMA TypeWatching == ASSUME TypeOK, NEW n \in Ids, Watching(n) PROVE TypeOK'
<1> USE DEF TypeOK, machine, flags
<1>0. watcher[n] \in Watcher
  OBVIOUS
<1>c. cfg.startsecs \in Nat
  BY DEF ConfigType
<1>1. CASE WatchBegin(n)
  <2>1. watcher' \in [Ids -> Watcher]
    BY <1>0, <1>1, <1>c DEF WatchBegin, Watcher
  <2>2. state' \in States /\ retries' \in Nat
    BY <1>1 DEF WatchBegin, ProcessStarted, States
  <2> QED BY <1>1, <2>1, <2>2 DEF WatchBegin
<1>2. CASE WatchFire(n)
  <2>1. watcher' \in [Ids -> Watcher]
    BY <1>0, <1>2 DEF WatchFire, Watcher
  <2>2. state' \in States /\ retries' \in Nat
    BY <1>2 DEF WatchFire, ProcessStarted, States
  <2> QED BY <1>2, <2>1, <2>2 DEF WatchFire
<1>3. CASE WatchCancel(n)
  BY <1>3, NewTypes DEF WatchCancel
<1>4. CASE WatchRead(n)
  <2>1. watcher' \in [Ids -> Watcher]
    BY <1>0, <1>4 DEF WatchRead, Watcher
  <2> QED BY <1>4, <2>1 DEF WatchRead
<1>5. CASE WatchPublish(n)
  BY <1>0, <1>5, NewTypes DEF WatchPublish, Watcher
<1> QED BY <1>1, <1>2, <1>3, <1>4, <1>5 DEF Watching

LEMMA TypeStopWaiting == ASSUME TypeOK, NEW n \in Ids, StopWaiting(n) PROVE TypeOK'
<1> USE DEF TypeOK, machine, flags
<1>c. cfg.stopwaitsecs \in Nat
  BY DEF ConfigType
<1>1. CASE StopWaitBegin(n)
  <2>1. killer' \in [Ids -> Timer]
    BY <1>1, <1>c, ZenonT(60) DEF StopWaitBegin, Timer
  <2> QED BY <1>1, <2>1 DEF StopWaitBegin
<1>2. CASE StopWaitFire(n)
  BY <1>2, NewTypes DEF StopWaitFire, KillLocked, ChildStates
<1>3. CASE StopWaitCancel(n)
  BY <1>3, NewTypes DEF StopWaitCancel
<1> QED BY <1>1, <1>2, <1>3 DEF StopWaiting

LEMMA TypeRetrying == ASSUME TypeOK, NEW n \in Ids, Retrying(n) PROVE TypeOK'
<1> USE DEF TypeOK, machine, flags
<1>1. CASE RetryBegin(n)
  <2>1. retrier' \in [Ids -> Timer]
    BY <1>1, DelayType, ZenonT(60) DEF RetryBegin, Timer
  <2> QED BY <1>1, <2>1 DEF RetryBegin
<1>2. CASE RetryCancel(n)
  BY <1>2, NewTypes DEF RetryCancel
<1>3. CASE RetryDrop(n)
  BY <1>3, NewTypes DEF RetryDrop
<1>4. CASE RetryShutdown(n)
  BY <1>4, NewTypes, TimerOps, WatcherOps DEF RetryShutdown, StopInBackoff, States
<1>5. CASE RetryCheck(n)
  BY <1>5, NewTypes DEF RetryCheck, Holders
<1> QED BY <1>1, <1>2, <1>3, <1>4, <1>5 DEF Retrying

LEMMA TypeForgetChild ==
  ASSUME TypeOK, ForgetChild
  PROVE  /\ killer' \in [Ids -> Timer] /\ child' \in [Ids -> ChildStates]
         /\ spawned' \in 0..MaxAttempts /\ stopChOpen' \in BOOLEAN
         /\ mu' \in Holders \cup {"free"}
<1>1. killer' \in [Ids -> Timer]
  BY TimerOps DEF TypeOK, ForgetChild
<1>2. child' \in [Ids -> ChildStates] /\ spawned' \in 0..MaxAttempts
  <2>1. child' = [child EXCEPT ![spawned] = "none"] /\ spawned' = 0
    BY DEF ForgetChild
  <2>2. spawned' \in 0..MaxAttempts
    BY <2>1
  <2>3. child' \in [Ids -> ChildStates]
    <3>1. child \in [Ids -> ChildStates] /\ "none" \in ChildStates
      BY DEF TypeOK, ChildStates
    <3> QED BY <2>1, <3>1
  <2> QED BY <2>2, <2>3
<1>3. stopChOpen' \in BOOLEAN
  BY Zenon DEF ForgetChild
<1>4. mu' \in Holders \cup {"free"}
  BY DEF ForgetChild
<1> QED BY <1>1, <1>2, <1>3, <1>4

LEMMA TypeExiting == TypeOK /\ Exiting => TypeOK'
<1> SUFFICES ASSUME TypeOK, Exiting PROVE TypeOK'
  OBVIOUS
<1>0. TheStopCh \in Channels
  BY DEF TheStopCh, Channels
<1>1. NewTimer(TheStopCh) \in Timer
  BY <1>0, NewTypes
<1> USE DEF TypeOK, machine, flags, goroutines
<1>2. CASE HandleExitStarting
  BY <1>2 DEF HandleExitStarting, Holders
<1>3. CASE HandleExitEarly
  <2>1. [retrier EXCEPT ![spawned] = NewTimer(TheStopCh)] \in [Ids -> Timer]
    BY <1>1
  <2>2. retrier' \in [Ids -> Timer] /\ watcher' \in [Ids -> Watcher]
    BY <1>3, <2>1, TimerOps, WatcherOps, ZenonT(60) DEF HandleExitEarly, StopInBackoff
  <2>3. state' \in States /\ retries' \in Nat /\ lastEvent' \in States
    BY <1>3 DEF HandleExitEarly, StopInBackoff, ProcessExitedEarly, States
  <2> QED BY <1>3, <2>2, <2>3, TypeForgetChild DEF HandleExitEarly
<1>4. ASSUME NEW unexpected \in BOOLEAN, HandleExit(unexpected) PROVE TypeOK'
  <2>1. retrier' \in [Ids -> Timer] /\ watcher' \in [Ids -> Watcher]
    BY <1>4, TimerOps, WatcherOps DEF HandleExit
  <2>2. state' \in States /\ lastEvent' \in States
    BY <1>4 DEF HandleExit, States
  <2>3. ShouldRestart(unexpected) \in BOOLEAN
    BY DEF ShouldRestart
  <2>4. restarter' \in [Ids -> BOOLEAN]
    BY <1>4, <2>3 DEF HandleExit
  <2> QED BY <1>4, <2>1, <2>2, <2>4, TypeForgetChild DEF HandleExit
<1> QED BY <1>2, <1>3, <1>4 DEF Exiting

LEMMA TypeStep == TypeOK /\ [Next]_vars => TypeOK'
<1> SUFFICES ASSUME TypeOK, [Next]_vars PROVE TypeOK'
  OBVIOUS
<1>1. CASE Requests \/ Resuming
  BY <1>1, TypeRequests
<1>12. CASE WriteEnd
  BY <1>12 DEF WriteEnd, TypeOK, machine, flags, goroutines, Holders
<1>2. CASE Spawning
  BY <1>2, TypeSpawning
<1>3. CASE Exiting
  BY <1>3, TypeExiting
<1>4. CASE Daemon
  BY <1>4 DEF Daemon, Retire, Shutdown, UpdateConfig, TypeOK, machine, goroutines, Holders
<1>5. CASE Tick
  BY <1>5, TimerOps, WatcherOps DEF Tick, TypeOK, flags
<1>6. ASSUME NEW n \in Ids, Watching(n) PROVE TypeOK'
  BY <1>6, TypeWatching
<1>7. ASSUME NEW n \in Ids, StopWaiting(n) PROVE TypeOK'
  BY <1>7, TypeStopWaiting
<1>8. ASSUME NEW n \in Ids, Retrying(n) PROVE TypeOK'
  BY <1>8, TypeRetrying
<1>9. ASSUME NEW n \in Ids, Restarting(n) PROVE TypeOK'
  BY <1>9 DEF Restarting, RestartDrop, RestartCheck, TypeOK, machine, flags, Holders
<1>10. ASSUME NEW n \in Ids, ChildExit(n) PROVE TypeOK'
  BY <1>10 DEF ChildExit, ChildStates, TypeOK, machine, flags, goroutines
<1>11. CASE UNCHANGED vars
  BY <1>11 DEF vars, machine, flags, goroutines, TypeOK
<1> QED BY <1>1, <1>2, <1>3, <1>4, <1>5, <1>6, <1>7, <1>8, <1>9, <1>10, <1>11, <1>12 DEF Next

\* Every variable of a process keeps its type in every behaviour.
THEOREM TypeCorrect == Spec => []TypeOK
  BY TypeInit, TypeStep, PTL DEF Spec

-----------------------------------------------------------------------------
(***************************************************************************)
(* The inductive invariant.                                                *)
(***************************************************************************)

\* Which fields of a goroutine the operators on channels and time change.
LEMMA TimerFields ==
  ASSUME NEW g \in [Ids -> Timer], NEW n \in Ids
  PROVE  /\ Closed(g)[n].pc = g[n].pc
         /\ Replaced(g)[n].pc = g[n].pc
         /\ Replaced(g)[n].ch = (IF g[n].ch = "open" THEN "orphan" ELSE g[n].ch)
         /\ Ran(g)[n].pc = g[n].pc /\ Ran(g)[n].ch = g[n].ch
  BY DEF Closed, Replaced, Ran, Timer

LEMMA NewTimerFields == \A ch : NewTimer(ch).pc = "new" /\ NewTimer(ch).ch = ch
  BY DEF NewTimer, NoTimer

LEMMA IndInit == Init => IndInv
<1> SUFFICES ASSUME Init PROVE IndInv
  OBVIOUS
<1>1. TypeOK
  BY TypeInit
<1> QED BY <1>1 DEF IndInv, ChildTracked, Sections, EscalationArmed, RetryArmed, Init

\* The child is tracked, and the sections of p.mu are where they should be.
Tracking == ChildTracked /\ Sections

\* A process that is at rest or in BACKOFF has no child, and p.stopCh is open.
LEMMA AtRest ==
  ASSUME TypeOK, Tracking, state \notin {"STARTING", "RUNNING", "STOPPING"}
  PROVE  spawned = 0 /\ stopChOpen /\ \A n \in Ids : child[n] = "none"
<1>1. spawned = 0
  <2>1. spawned # 0 => spawned \in Ids
    BY DEF TypeOK, Ids
  <2> QED BY <2>1 DEF Tracking, ChildTracked, Sections
<1> QED BY <1>1 DEF Tracking, ChildTracked, Sections, Ids

\* Entering STARTING from there keeps the child tracked.
LEMMA TrackingEnterStarting ==
  ASSUME TypeOK, Tracking, state \notin {"STARTING", "RUNNING", "STOPPING"},
         NEW k, EnterStarting(k), UNCHANGED <<spawned, stopChOpen, child>>
  PROVE  Tracking'
<1>1. spawned' = 0 /\ stopChOpen' /\ \A n \in Ids : child'[n] = "none"
  BY AtRest
<1>2. attempt' # 0 /\ state' = "STARTING" /\ mu' = "spawn"
  BY DEF EnterStarting, TypeOK
<1> QED BY <1>1, <1>2 DEF Tracking, ChildTracked, Sections

LEMMA TrackingRequests ==
  ASSUME TypeOK, Tracking, Requests \/ Resuming PROVE Tracking'
<1> USE DEF machine, flags, goroutines
<1>1. CASE Start
  BY <1>1, TrackingEnterStarting DEF Start
<1>2. CASE StartRefused
  BY <1>2 DEF StartRefused, TypeOK, Tracking, ChildTracked, Sections
<1>3. CASE Stop
  BY <1>3 DEF Stop, TypeOK, Tracking, ChildTracked, Sections
<1>4. CASE StopBackoff
  BY <1>4 DEF StopBackoff, StopInBackoff, TypeOK, Tracking, ChildTracked, Sections
<1>5. CASE Kill
  BY <1>5 DEF Kill, KillLocked, TypeOK, Tracking, ChildTracked, Sections
<1>6. CASE RestartStart \/ RetryStart
  BY <1>6, TrackingEnterStarting DEF RestartStart, RetryStart, Tracking, Sections
<1>7. CASE SetLimits \/ WriteStdin
  BY <1>7 DEF SetLimits, WriteStdin, TypeOK, Tracking, ChildTracked, Sections
<1> QED BY <1>1, <1>2, <1>3, <1>4, <1>5, <1>6, <1>7 DEF Requests, Resuming

LEMMA TrackingSpawning == ASSUME TypeOK, Tracking, Spawning PROVE Tracking'
<1> USE DEF TypeOK, Tracking, ChildTracked, Sections, flags
<1>1. CASE SpawnOK
  <2>1. attempt \in Ids /\ attempt # 0 /\ \A n \in Ids : child[n] = "none"
    BY <1>1 DEF SpawnOK, Ids
  <2>2. /\ spawned' = attempt /\ attempt' = attempt /\ mu' = "free"
        /\ \A n \in Ids : child'[n] = IF n = attempt THEN "alive" ELSE "none"
    BY <1>1, <2>1 DEF SpawnOK
  <2>3. state' \in {"STARTING", "RUNNING"} /\ stopChOpen'
    BY <1>1 DEF SpawnOK, ProcessStarted
  <2> QED BY <2>1, <2>2, <2>3
<1>2. CASE SpawnFail
  BY <1>2 DEF SpawnFail, ProcessExitedEarly
<1> QED BY <1>1, <1>2 DEF Spawning

LEMMA TrackingExiting == ASSUME TypeOK, Tracking, Exiting PROVE Tracking'
<1> USE DEF TypeOK, Tracking, ChildTracked, Sections, machine, flags, goroutines
<1>1. CASE HandleExitStarting
  BY <1>1 DEF HandleExitStarting
<1>2. CASE HandleExitEarly
  BY <1>2 DEF HandleExitEarly, ForgetChild, StopInBackoff, ProcessExitedEarly
<1>3. ASSUME NEW unexpected \in BOOLEAN, HandleExit(unexpected) PROVE Tracking'
  BY <1>3 DEF HandleExit, ForgetChild
<1> QED BY <1>1, <1>2, <1>3 DEF Exiting

LEMMA TrackingGoroutines ==
  ASSUME TypeOK, Tracking, NEW n \in Ids,
         Watching(n) \/ StopWaiting(n) \/ Retrying(n) \/ Restarting(n) \/ ChildExit(n)
  PROVE  Tracking'
<1> USE DEF TypeOK, Tracking, ChildTracked, Sections, machine, flags, goroutines
<1>1. CASE Watching(n)
  BY <1>1 DEF Watching, WatchBegin, WatchFire, WatchCancel, WatchRead, WatchPublish, ProcessStarted
<1>2. CASE StopWaiting(n)
  BY <1>2 DEF StopWaiting, StopWaitBegin, StopWaitFire, StopWaitCancel, KillLocked
<1>3. CASE Retrying(n)
  <2>1. CASE RetryBegin(n) \/ RetryCancel(n) \/ RetryDrop(n)
    BY <2>1 DEF RetryBegin, RetryCancel, RetryDrop
  <2>2. CASE RetryShutdown(n)
    BY <2>2, AtRest DEF RetryShutdown, RetryDue, RetryPermitted, StopInBackoff
  <2>3. CASE RetryCheck(n)
    BY <2>3 DEF RetryCheck, RetryDue, RetryPermitted
  <2> QED BY <1>3, <2>1, <2>2, <2>3 DEF Retrying
<1>4. CASE Restarting(n)
  BY <1>4 DEF Restarting, RestartDrop, RestartCheck, RestartPermitted
<1>5. CASE ChildExit(n)
  BY <1>5 DEF ChildExit
<1> QED BY <1>1, <1>2, <1>3, <1>4, <1>5

LEMMA TrackingStep == ASSUME TypeOK, Tracking, [Next]_vars PROVE Tracking'
<1>1. CASE Daemon
  BY <1>1 DEF Daemon, Retire, Shutdown, UpdateConfig, Tracking, ChildTracked, Sections,
              machine, goroutines
<1>2. CASE Tick
  BY <1>2 DEF Tick, Tracking, ChildTracked, Sections, flags
<1>3. CASE UNCHANGED vars
  BY <1>3 DEF vars, machine, flags, goroutines, Tracking, ChildTracked, Sections
<1>4. CASE WriteEnd
  BY <1>4 DEF WriteEnd, machine, flags, goroutines, Tracking, ChildTracked, Sections
<1> QED BY <1>1, <1>2, <1>3, <1>4, TrackingRequests, TrackingSpawning, TrackingExiting,
           TrackingGoroutines DEF Next

-----------------------------------------------------------------------------
(***************************************************************************)
(* A stop is always followed up.                                           *)
(***************************************************************************)
LEMMA EscalationStep ==
  ASSUME TypeOK, Tracking, EscalationArmed, [Next]_vars PROVE EscalationArmed'
<1> USE DEF EscalationArmed, TypeOK
<1>0. spawned # 0 => spawned \in Ids /\ spawned = attempt
  BY DEF Tracking, Sections, Ids
<1>1. CASE Requests
  <2>1. CASE Stop
    <3>1. state' = "STOPPING" /\ spawned' = spawned
      BY <2>1 DEF Stop
    <3>2. spawned # 0 => killer'[spawned].pc = "new" /\ killer'[spawned].ch = "open"
      BY <1>0, <2>1, NewTimerFields DEF Stop
    <3> QED BY <3>1, <3>2
  <2>2. CASE Kill
    BY <1>0, <2>2 DEF Kill, KillLocked, machine, flags, goroutines
  <2>3. CASE Start \/ StartRefused \/ StopBackoff \/ WriteStdin
    BY <2>3 DEF Start, EnterStarting, StartRefused, StopBackoff, StopInBackoff, WriteStdin,
                machine, flags, goroutines
  <2> QED BY <1>1, <2>1, <2>2, <2>3 DEF Requests
<1>2. CASE Spawning
  BY <1>2 DEF Spawning, SpawnOK, SpawnFail, ProcessStarted, ProcessExitedEarly,
              Tracking, Sections
<1>3. CASE Exiting
  <2>1. CASE HandleExitStarting
    BY <2>1 DEF HandleExitStarting, machine, goroutines
  <2>2. CASE HandleExitEarly
    BY <2>2 DEF HandleExitEarly, ForgetChild
  <2>3. ASSUME NEW unexpected \in BOOLEAN, HandleExit(unexpected) PROVE EscalationArmed'
    BY <2>3 DEF HandleExit, ForgetChild
  <2> QED BY <1>3, <2>1, <2>2, <2>3 DEF Exiting
<1>4. CASE Resuming \/ WriteEnd
  BY <1>4 DEF Resuming, RetryStart, RestartStart, SetLimits, EnterStarting, WriteEnd,
              machine, flags, goroutines
<1>5. CASE Daemon
  BY <1>5 DEF Daemon, Retire, Shutdown, UpdateConfig, machine, goroutines
<1>6. CASE Tick
  BY <1>0, <1>6, TimerFields DEF Tick
<1>7. ASSUME NEW n \in Ids, StopWaiting(n) PROVE EscalationArmed'
  <2>1. CASE StopWaitBegin(n)
    BY <1>0, <2>1 DEF StopWaitBegin, machine, Timer
  <2>2. CASE StopWaitFire(n)
    BY <1>0, <2>2 DEF StopWaitFire, KillLocked, machine
  <2>3. CASE StopWaitCancel(n)
    BY <1>0, <2>3 DEF StopWaitCancel, machine
  <2> QED BY <1>7, <2>1, <2>2, <2>3 DEF StopWaiting
<1>8. ASSUME NEW n \in Ids, Watching(n) \/ Retrying(n) \/ Restarting(n) \/ ChildExit(n)
      PROVE  EscalationArmed'
  <2>1. CASE Watching(n)
    BY <2>1 DEF Watching, WatchBegin, WatchFire, WatchCancel, WatchRead, WatchPublish,
                ProcessStarted, machine
  <2>2. CASE Retrying(n)
    BY <2>2 DEF Retrying, RetryBegin, RetryCancel, RetryDrop, RetryShutdown, RetryCheck,
                StopInBackoff, machine
  <2>3. CASE Restarting(n)
    BY <2>3 DEF Restarting, RestartDrop, RestartCheck, machine
  <2>4. CASE ChildExit(n)
    BY <1>0, <2>4 DEF ChildExit, machine, goroutines
  <2> QED BY <1>8, <2>1, <2>2, <2>3, <2>4
<1>9. CASE UNCHANGED vars
  BY <1>9 DEF vars, machine, goroutines
<1> QED BY <1>1, <1>2, <1>3, <1>4, <1>5, <1>6, <1>7, <1>8, <1>9 DEF Next

-----------------------------------------------------------------------------
(***************************************************************************)
(* A failed start is always followed up.                                   *)
(***************************************************************************)
LEMMA RetryStep ==
  ASSUME TypeOK, Tracking, RetryArmed, [Next]_vars PROVE RetryArmed'
<1> USE DEF RetryArmed, TypeOK
<1>0. state = "BACKOFF" => attempt \in Ids
  BY DEF Tracking, Sections, Ids
<1>1. CASE Requests
  BY <1>1 DEF Requests, Start, EnterStarting, StartRefused, Stop, StopBackoff, StopInBackoff,
              Kill, WriteStdin, machine, flags, goroutines
<1>2. CASE Spawning
  <2>1. CASE SpawnOK
    BY <2>1 DEF SpawnOK, ProcessStarted, Tracking, Sections
  <2>2. CASE SpawnFail
    <3>1. attempt \in Ids /\ TheStopCh # "closed"
      BY <2>2 DEF SpawnFail, Tracking, Sections, Ids, TheStopCh
    <3>2. state' = "BACKOFF" =>
            retrier'[attempt].pc = "new" /\ retrier'[attempt].ch = TheStopCh
      BY <2>2, <3>1, NewTimerFields DEF SpawnFail
    <3> QED BY <2>2, <3>1, <3>2 DEF SpawnFail
  <2> QED BY <1>2, <2>1, <2>2 DEF Spawning
<1>3. CASE Exiting
  <2>1. CASE HandleExitStarting
    BY <2>1 DEF HandleExitStarting, machine, flags, goroutines
  <2>2. CASE HandleExitEarly
    <3>1. attempt \in Ids /\ spawned = attempt /\ TheStopCh = "open"
      BY <2>2 DEF HandleExitEarly, Tracking, Sections, Ids, TheStopCh
    <3> DEFINE r == [retrier EXCEPT ![attempt] = NewTimer(TheStopCh)]
    <3>2. r \in [Ids -> Timer] /\ r[attempt].pc = "new" /\ r[attempt].ch = "open"
      BY <3>1, NewTimerFields, NewTypes DEF Channels
    <3>3. Replaced(r)[attempt].pc = "new" /\ Replaced(r)[attempt].ch = "orphan"
      BY <3>1, <3>2, TimerFields
    <3> HIDE DEF r
    <3>4. state' = "BACKOFF" => retrier' = Replaced(r)
      BY <2>2, <3>1 DEF HandleExitEarly, StopInBackoff, ProcessExitedEarly, Tracking, Sections,
                        r, ConfigType, Limits
    <3> QED BY <2>2, <3>3, <3>4 DEF HandleExitEarly
  <2>3. ASSUME NEW unexpected \in BOOLEAN, HandleExit(unexpected) PROVE RetryArmed'
    BY <2>3 DEF HandleExit, ForgetChild, Tracking, ChildTracked, Sections, Ids
  <2> QED BY <1>3, <2>1, <2>2, <2>3 DEF Exiting
<1>4. CASE Resuming \/ WriteEnd
  BY <1>4 DEF Resuming, RetryStart, RestartStart, SetLimits, EnterStarting, WriteEnd,
              machine, flags, goroutines
<1>5. CASE Daemon
  BY <1>5 DEF Daemon, Retire, Shutdown, UpdateConfig, machine, goroutines
<1>6. CASE Tick
  BY <1>0, <1>6, TimerFields DEF Tick, flags
<1>7. ASSUME NEW n \in Ids, Retrying(n) PROVE RetryArmed'
  <2>1. CASE RetryBegin(n)
    BY <1>0, <2>1 DEF RetryBegin, machine, flags, Timer
  <2>2. CASE RetryCancel(n)
    BY <1>0, <2>2 DEF RetryCancel, machine, flags
  <2>3. CASE RetryDrop(n)
    BY <1>0, <2>3 DEF RetryDrop, RetryPermitted, machine, flags
  <2>4. CASE RetryShutdown(n) \/ RetryCheck(n)
    BY <2>4 DEF RetryShutdown, RetryCheck, StopInBackoff
  <2> QED BY <1>7, <2>1, <2>2, <2>3, <2>4 DEF Retrying
<1>8. ASSUME NEW n \in Ids, Watching(n) \/ StopWaiting(n) \/ Restarting(n) \/ ChildExit(n)
      PROVE  RetryArmed'
  <2>1. CASE Watching(n)
    BY <2>1 DEF Watching, WatchBegin, WatchFire, WatchCancel, WatchRead, WatchPublish,
                ProcessStarted, machine, flags
  <2>2. CASE StopWaiting(n)
    BY <2>2 DEF StopWaiting, StopWaitBegin, StopWaitFire, StopWaitCancel, machine, flags
  <2>3. CASE Restarting(n)
    BY <2>3 DEF Restarting, RestartDrop, RestartCheck, machine, flags
  <2>4. CASE ChildExit(n)
    BY <2>4 DEF ChildExit, machine, flags, goroutines
  <2> QED BY <1>8, <2>1, <2>2, <2>3, <2>4
<1>9. CASE UNCHANGED vars
  BY <1>9 DEF vars, machine, flags, goroutines
<1> QED BY <1>1, <1>2, <1>3, <1>4, <1>5, <1>6, <1>7, <1>8, <1>9 DEF Next

-----------------------------------------------------------------------------
(***************************************************************************)
(* The safety theorems.                                                    *)
(***************************************************************************)
LEMMA IndStep == IndInv /\ [Next]_vars => IndInv'
  BY TypeStep, TrackingStep, EscalationStep, RetryStep DEF IndInv, Tracking

LEMMA Inductive == Spec => []IndInv
  BY IndInit, IndStep, PTL DEF Spec

\* No interleaving of requests, timers, exits and reloads ever leaves a child
\* that p.spawned does not refer to: Kahi can always stop what it started.
THEOREM ChildAlwaysTracked == Spec => []ChildTracked
<1>1. IndInv => ChildTracked
  BY DEF IndInv
<1> QED BY <1>1, Inductive, PTL

\* A child that is being stopped always has its own pending SIGKILL escalation.
THEOREM EscalationAlwaysArmed == Spec => []EscalationArmed
<1>1. IndInv => EscalationArmed
  BY DEF IndInv
<1> QED BY <1>1, Inductive, PTL

\* A process in BACKOFF always has a pending retry that nobody has cancelled.
THEOREM RetryAlwaysArmed == Spec => []RetryArmed
<1>1. IndInv => RetryArmed
  BY DEF IndInv
<1> QED BY <1>1, Inductive, PTL

-----------------------------------------------------------------------------
(***************************************************************************)
(* What a step may never do.                                               *)
(***************************************************************************)

\* The steps that enter RUNNING are those that call ProcessStarted.
LEMMA RunningStep ==
  ASSUME IndInv, [Next]_vars, state # "RUNNING", state' = "RUNNING"
  PROVE  age >= limits.startsecs /\ (spawned # 0 \/ mu = "spawn")
<1>0. state = "STARTING" => mu = "spawn" \/ spawned # 0
  BY DEF IndInv, Sections
<1>1. CASE Spawning
  BY <1>0, <1>1 DEF Spawning, SpawnOK, SpawnFail, ProcessStarted, ProcessExitedEarly
<1>2. ASSUME NEW n \in Ids, Watching(n)
      PROVE  age >= limits.startsecs /\ (spawned # 0 \/ mu = "spawn")
  BY <1>0, <1>2 DEF Watching, WatchBegin, WatchFire, WatchCancel, WatchRead, WatchPublish,
                    ProcessStarted, machine
<1>3. ~(Requests \/ Resuming \/ WriteEnd \/ Daemon \/ Tick \/ UNCHANGED vars)
  BY DEF Requests, Start, StartRefused, Stop, StopBackoff, StopInBackoff, Kill, WriteStdin,
         Resuming, RetryStart, RestartStart, SetLimits, WriteEnd, EnterStarting, Daemon, Retire, Shutdown, UpdateConfig, Tick, vars, machine
<1>4. ~Exiting
  BY DEF Exiting, HandleExitStarting, HandleExitEarly, HandleExit, StopInBackoff,
         ProcessExitedEarly, machine
<1>5. ASSUME NEW n \in Ids
      PROVE  ~(StopWaiting(n) \/ Retrying(n) \/ Restarting(n) \/ ChildExit(n))
  BY DEF StopWaiting, StopWaitBegin, StopWaitFire, StopWaitCancel, Retrying, RetryBegin,
         RetryCancel, RetryDrop, RetryShutdown, RetryCheck, StopInBackoff,
         Restarting, RestartDrop, RestartCheck, ChildExit, machine
<1> QED BY <1>1, <1>2, <1>3, <1>4, <1>5 DEF Next

\* No watchStart goroutine, however late, makes a process RUNNING before its
\* startsecs are over or when it has no child.
THEOREM RunningIsEarned == Spec => RunningEarned
<1>1. IndInv /\ [Next]_vars =>
        [state # "RUNNING" /\ state' = "RUNNING" =>
           /\ age >= limits.startsecs
           /\ spawned # 0 \/ mu = "spawn"]_vars
  BY RunningStep
<1> QED BY <1>1, Inductive, PTL DEF Spec, RunningEarned

\* Attempts are made by Start, RetryStart and RestartStart only.
LEMMA AttemptStep ==
  ASSUME [Next]_vars, attempt' # attempt
  PROVE  Start \/ RetryStart \/ RestartStart
<1>1. ~(Daemon \/ Tick \/ Spawning \/ Exiting \/ SetLimits \/ WriteEnd \/ UNCHANGED vars)
  BY DEF Daemon, Retire, Shutdown, UpdateConfig, Tick, Spawning, SpawnOK, SpawnFail, vars,
         Exiting, HandleExitStarting, HandleExitEarly, HandleExit, SetLimits, WriteEnd
<1>2. ~(StartRefused \/ Stop \/ StopBackoff \/ Kill \/ WriteStdin)
  BY DEF StartRefused, Stop, StopBackoff, Kill, WriteStdin
<1>3. ASSUME NEW n \in Ids
      PROVE  ~(Watching(n) \/ StopWaiting(n) \/ Retrying(n) \/ Restarting(n) \/ ChildExit(n))
  BY DEF Watching, WatchBegin, WatchFire, WatchCancel, WatchRead, WatchPublish,
         StopWaiting, StopWaitBegin, StopWaitFire, StopWaitCancel, Restarting, RestartDrop,
         RestartCheck, ChildExit, Retrying, RetryBegin, RetryCancel, RetryDrop, RetryShutdown,
         RetryCheck
<1> QED BY <1>1, <1>2, <1>3 DEF Next, Requests, Resuming

\* After Retire, no queued retry, restart or request starts the process again.
THEOREM RetiredStaysDown == Spec => RetiredNeverStarts
<1>1. IndInv /\ [Next]_vars => [retired => attempt' = attempt]_vars
  <2> SUFFICES ASSUME IndInv, [Next]_vars, retired, attempt' # attempt PROVE FALSE
    OBVIOUS
  <2>1. ~Start /\ ~RetryStart /\ ~RestartStart
    BY DEF Start, RetryStart, RestartStart, IndInv, Sections
  <2> QED BY <2>1, AttemptStep
<1> QED BY <1>1, Inductive, PTL DEF Spec, RetiredNeverStarts

-----------------------------------------------------------------------------
(***************************************************************************)
(* A process implements its life cycle.                                    *)
(***************************************************************************)
LEMMA LifeInit == Init => Life!Init
  BY DEF Init, Life!Init

\* A step that changes neither the state nor what the life cycle sees.
LEMMA LifeStutter ==
  ASSUME UNCHANGED <<state, retired, shutdown>>,
         mu' = mu \/ (mu \notin {"restart", "retry"} /\ mu' \notin {"restart", "retry"})
  PROVE  [Life!Next]_(Life!vars)
  BY DEF Life!vars

LEMMA LifeRequests ==
  ASSUME IndInv, Requests \/ Resuming PROVE [Life!Next]_(Life!vars)
<1> USE DEF flags, Life!Move
<1>1. CASE Start
  <2>1. Life!StartRequested
    BY <1>1 DEF Start, EnterStarting, Life!StartRequested
  <2> QED BY <2>1 DEF Life!Next
<1>2. CASE Stop \/ StopBackoff
  <2>1. Life!StopRequested
    BY <1>2 DEF Stop, StopBackoff, StopInBackoff, Life!StopRequested
  <2> QED BY <2>1 DEF Life!Next
<1>3. CASE StartRefused \/ Kill \/ WriteStdin \/ SetLimits
  BY <1>3, LifeStutter DEF StartRefused, Kill, WriteStdin, SetLimits, machine
<1>4. CASE RetryStart \/ RestartStart
  <2>1. Life!Resumed
    BY <1>4 DEF RetryStart, RestartStart, EnterStarting, IndInv, Sections, Life!Resumed
  <2> QED BY <2>1 DEF Life!Next
<1> QED BY <1>1, <1>2, <1>3, <1>4 DEF Requests, Resuming

LEMMA LifeSpawning == ASSUME IndInv, Spawning PROVE [Life!Next]_(Life!vars)
<1> USE DEF flags, Life!Move
<1>1. UNCHANGED <<retired, shutdown>> /\ mu = "spawn" /\ mu' = "free"
  BY DEF Spawning, SpawnOK, SpawnFail
<1>2. CASE state' = state
  BY <1>1, <1>2, LifeStutter
<1>3. CASE state' # state /\ SpawnOK
  <2>1. Life!Started
    BY <1>1, <1>3 DEF SpawnOK, ProcessStarted, Life!Started
  <2> QED BY <2>1 DEF Life!Next
<1>4. CASE state' # state /\ SpawnFail
  <2>1. Life!StartFailed
    BY <1>1, <1>4 DEF SpawnFail, ProcessExitedEarly, Life!StartFailed
  <2> QED BY <2>1 DEF Life!Next
<1> QED BY <1>2, <1>3, <1>4 DEF Spawning

LEMMA LifeExiting == ASSUME IndInv, Exiting PROVE [Life!Next]_(Life!vars)
<1> USE DEF flags, Life!Move
<1>1. /\ UNCHANGED <<retired, shutdown>>
      /\ mu \notin {"restart", "retry"} /\ mu' \notin {"restart", "retry"}
  BY DEF Exiting, HandleExitStarting, HandleExitEarly, HandleExit, ForgetChild
<1>2. CASE state' = state
  BY <1>1, <1>2, LifeStutter
<1>3. CASE state' # state /\ HandleExitEarly
  <2>1. Life!StartFailed
    BY <1>1, <1>3 DEF HandleExitEarly, StopInBackoff, ProcessExitedEarly, Life!StartFailed
  <2> QED BY <2>1 DEF Life!Next
<1>4. ASSUME NEW unexpected \in BOOLEAN, HandleExit(unexpected), state' # state
      PROVE  [Life!Next]_(Life!vars)
  <2>1. Life!Gone
    BY <1>1, <1>4 DEF HandleExit, Life!Gone
  <2> QED BY <2>1 DEF Life!Next
<1>5. CASE HandleExitStarting
  BY <1>2, <1>5 DEF HandleExitStarting, machine
<1> QED BY <1>2, <1>3, <1>4, <1>5 DEF Exiting

LEMMA LifeGoroutines ==
  ASSUME IndInv, NEW n \in Ids,
         Watching(n) \/ StopWaiting(n) \/ Retrying(n) \/ Restarting(n) \/ ChildExit(n)
  PROVE  [Life!Next]_(Life!vars)
<1> USE DEF flags, Life!Move
<1>1. CASE Watching(n)
  <2>1. UNCHANGED <<retired, shutdown, mu>>
    BY <1>1 DEF Watching, WatchBegin, WatchFire, WatchCancel, WatchRead, WatchPublish
  <2>2. state' # state => state = "STARTING" /\ state' = "RUNNING"
    BY <1>1 DEF Watching, WatchBegin, WatchFire, WatchCancel, WatchRead, WatchPublish,
                ProcessStarted, machine
  <2>3. state' # state => Life!Started
    BY <2>1, <2>2 DEF Life!Started
  <2> QED BY <2>1, <2>3, LifeStutter DEF Life!Next
<1>2. CASE StopWaiting(n)
  BY <1>2, LifeStutter DEF StopWaiting, StopWaitBegin, StopWaitFire, StopWaitCancel, machine
<1>3. CASE RetryBegin(n) \/ RetryCancel(n) \/ RetryDrop(n)
  BY <1>3, LifeStutter DEF RetryBegin, RetryCancel, RetryDrop, machine
<1>4. CASE RetryShutdown(n)
  <2>1. Life!StopRequested
    BY <1>4 DEF RetryShutdown, RetryDue, RetryPermitted, StopInBackoff, Life!StopRequested
  <2> QED BY <2>1 DEF Life!Next
<1>5. CASE RetryCheck(n)
  <2>1. Life!Decided
    BY <1>5 DEF RetryCheck, RetryDue, RetryPermitted, machine, Life!Decided
  <2> QED BY <2>1 DEF Life!Next
<1>6. CASE RestartDrop(n) \/ ChildExit(n)
  BY <1>6, LifeStutter DEF RestartDrop, ChildExit, machine
<1>7. CASE RestartCheck(n)
  <2>1. Life!Decided
    BY <1>7 DEF RestartCheck, RestartPermitted, machine, Life!Decided
  <2> QED BY <2>1 DEF Life!Next
<1> QED BY <1>1, <1>2, <1>3, <1>4, <1>5, <1>6, <1>7 DEF Retrying, Restarting

LEMMA LifeStep == IndInv /\ [Next]_vars => [Life!Next]_(Life!vars)
<1> SUFFICES ASSUME IndInv, [Next]_vars PROVE [Life!Next]_(Life!vars)
  OBVIOUS
<1>1. CASE Retire
  <2>1. Life!Barred
    BY <1>1 DEF Retire, machine, Life!Barred
  <2> QED BY <2>1 DEF Life!Next
<1>2. CASE Shutdown
  <2>1. Life!Halted
    BY <1>2 DEF Shutdown, machine, Life!Halted
  <2> QED BY <2>1 DEF Life!Next
<1>3. ASSUME NEW c \in Configs, UpdateConfig(c) PROVE [Life!Next]_(Life!vars)
  BY <1>3, LifeStutter DEF UpdateConfig, machine
<1>4. CASE Tick \/ WriteEnd
  BY <1>4, LifeStutter DEF Tick, WriteEnd, machine, flags
<1>5. CASE UNCHANGED vars
  BY <1>5, LifeStutter DEF vars, machine, flags
<1> QED BY <1>1, <1>2, <1>3, <1>4, <1>5, LifeRequests, LifeSpawning, LifeExiting,
           LifeGoroutines DEF Next, Daemon

\* Every behaviour of a process, with all its goroutines, timers and races, is a
\* behaviour of the documented life cycle.
THEOREM ImplementsLifecycle == Spec => Lifecycle
  BY LifeInit, LifeStep, Inductive, PTL DEF Spec, Lifecycle, Life!Spec

\* Who has passed a check has p.mu until the start.
LEMMA MuHeld ==
  ASSUME [Next]_vars, mu \in {"restart", "retry"}, mu' \in {"restart", "retry"}
  PROVE  mu' = mu
<1>1. CASE Requests \/ Resuming \/ WriteEnd
  BY <1>1 DEF Requests, Start, EnterStarting, StartRefused, Stop, StopBackoff, Kill, WriteStdin,
              Resuming, RetryStart, RestartStart, SetLimits, WriteEnd
<1>2. CASE Spawning \/ Exiting \/ Daemon \/ Tick \/ UNCHANGED vars
  BY <1>2 DEF Spawning, SpawnOK, SpawnFail, Exiting, HandleExitStarting, HandleExitEarly,
              HandleExit, ForgetChild, Daemon, Retire, Shutdown, UpdateConfig, Tick, vars
<1>3. ASSUME NEW n \in Ids, Watching(n) \/ StopWaiting(n) \/ ChildExit(n) PROVE mu' = mu
  BY <1>3 DEF Watching, WatchBegin, WatchFire, WatchCancel, WatchRead, WatchPublish,
              StopWaiting, StopWaitBegin, StopWaitFire, StopWaitCancel, ChildExit
<1>4. ASSUME NEW n \in Ids, Retrying(n) \/ Restarting(n) PROVE mu' = mu
  BY <1>4 DEF Retrying, RetryBegin, RetryCancel, RetryDrop, RetryShutdown, RetryCheck, RetryDue,
              Restarting, RestartDrop, RestartCheck
<1> QED BY <1>1, <1>2, <1>3, <1>4 DEF Next

\* Shutdown ends retries and autorestarts: only one that had already passed its check
\* may still happen.
THEOREM ShutdownEndsAutoStart == Spec => NoAutoStartAfterShutdown
<1>1. IndInv /\ [Next]_vars =>
        [shutdown => /\ mu' \in {"restart", "retry"} => mu' = mu
                     /\ state = "BACKOFF" /\ state' = "STARTING" => mu = "retry"]_vars
  <2> SUFFICES ASSUME IndInv, [Next]_vars, shutdown
               PROVE  /\ mu' \in {"restart", "retry"} => mu' = mu
                      /\ state = "BACKOFF" /\ state' = "STARTING" => mu = "retry"
    OBVIOUS
  <2>1. /\ mu' \in {"restart", "retry"} => mu \in {"restart", "retry"}
        /\ state \in {"BACKOFF", "EXITED"} /\ state' = "STARTING" =>
             \/ mu \in {"restart", "retry"}
             \/ state = "EXITED"
    <3>1. [Life!Next]_(Life!vars)
      BY LifeStep
    <3> QED BY <3>1 DEF Life!Next, Life!vars, Life!Move, Life!StartRequested, Life!StopRequested,
                      Life!Started, Life!StartFailed, Life!Gone, Life!Decided, Life!Resumed,
                      Life!Barred, Life!Halted
  <2>2. mu \in {"restart", "retry"} /\ mu' \in {"restart", "retry"} => mu' = mu
    BY MuHeld
  <2> QED BY <2>1, <2>2 DEF IndInv, Sections
<1> QED BY <1>1, Inductive, PTL DEF Spec, NoAutoStartAfterShutdown

-----------------------------------------------------------------------------
(***************************************************************************)
(* The retry budget.                                                       *)
(***************************************************************************)

\* sm.retries counts at least the attempts made since the last fresh start.
Budget ==
  /\ state = "STARTING" => tries <= retries + 1
  /\ state = "BACKOFF" => tries <= retries

LEMMA BudgetStep ==
  ASSUME TypeOK, TypeOK', Tracking, Budget, [Next]_vars PROVE Budget'
<1>0. retries \in Nat /\ tries \in Nat
  BY DEF TypeOK
<1> USE DEF Budget, machine, flags
<1>10. Sections
  BY DEF Tracking
<1>1. CASE Requests \/ Resuming \/ WriteEnd
  BY <1>0, <1>1, <1>10 DEF Requests, Start, EnterStarting, StartRefused, Stop, StopBackoff,
       StopInBackoff, Kill, WriteStdin, Resuming, RetryStart, RestartStart, SetLimits, WriteEnd,
       Sections
<1>2. CASE Spawning
  BY <1>0, <1>2 DEF Spawning, SpawnOK, SpawnFail, ProcessStarted, ProcessExitedEarly
<1>3. CASE HandleExitStarting
  BY <1>0, <1>3 DEF HandleExitStarting
<1>4. CASE HandleExitEarly
  BY <1>0, <1>4 DEF HandleExitEarly, ForgetChild, StopInBackoff, ProcessExitedEarly
<1>5. ASSUME NEW unexpected \in BOOLEAN, HandleExit(unexpected) PROVE Budget'
  <2>1. state' \in {"EXITED", "STOPPED"} \/ state' = state
    BY <1>5 DEF HandleExit
  <2>2. UNCHANGED <<retries, tries>>
    BY <1>5 DEF HandleExit
  <2> QED BY <1>0, <2>1, <2>2
<1>6. CASE Daemon \/ Tick \/ UNCHANGED vars
  BY <1>0, <1>6 DEF Daemon, Retire, Shutdown, UpdateConfig, Tick, vars
<1>7. ASSUME NEW n \in Ids, Retrying(n) PROVE Budget'
  BY <1>0, <1>7 DEF Retrying, RetryBegin, RetryCancel, RetryDrop, RetryShutdown, RetryCheck,
                    RetryPermitted, StopInBackoff
<1>8. ASSUME NEW n \in Ids, Watching(n) PROVE Budget'
  BY <1>0, <1>8 DEF Watching, WatchBegin, WatchFire, WatchCancel, WatchRead, WatchPublish,
                    ProcessStarted
<1>9. ASSUME NEW n \in Ids, StopWaiting(n) \/ Restarting(n) \/ ChildExit(n) PROVE Budget'
  BY <1>0, <1>9 DEF StopWaiting, StopWaitBegin, StopWaitFire, StopWaitCancel, Restarting,
                    RestartDrop, RestartCheck, ChildExit
<1> QED BY <1>1, <1>2, <1>3, <1>4, <1>5, <1>6, <1>7, <1>8, <1>9 DEF Next, Exiting

\* BACKOFF is entered by ProcessExitedEarly only, which compares sm.retries.
LEMMA BackoffStep ==
  ASSUME TypeOK, Budget, Next, state # "BACKOFF", state' = "BACKOFF"
  PROVE  tries <= limits.startretries
<1>0. retries \in Nat /\ tries \in Nat /\ limits.startretries \in Nat
  BY DEF TypeOK, ConfigType, Limits
<1>1. CASE SpawnFail \/ HandleExitEarly
  BY <1>0, <1>1 DEF SpawnFail, HandleExitEarly, ProcessExitedEarly, StopInBackoff, Budget
<1>2. CASE Requests \/ Resuming \/ WriteEnd
  BY <1>2 DEF Requests, Start, EnterStarting, StartRefused, Stop, StopBackoff, StopInBackoff,
              Kill, WriteStdin, Resuming, RetryStart, RestartStart, SetLimits, WriteEnd, machine
<1>3. CASE SpawnOK \/ HandleExitStarting
  BY <1>3 DEF SpawnOK, HandleExitStarting, ProcessStarted, machine
<1>4. ASSUME NEW unexpected \in BOOLEAN, HandleExit(unexpected) PROVE FALSE
  BY <1>4 DEF HandleExit
<1>5. CASE Daemon \/ Tick
  BY <1>5 DEF Daemon, Retire, Shutdown, UpdateConfig, Tick, machine
<1>6. ASSUME NEW n \in Ids, Retrying(n) \/ Watching(n) PROVE FALSE
  BY <1>6 DEF Retrying, RetryBegin, RetryCancel, RetryDrop, RetryShutdown, RetryCheck,
              StopInBackoff, Watching, WatchBegin, WatchFire, WatchCancel,
              WatchRead, WatchPublish, ProcessStarted, machine
<1>7. ASSUME NEW n \in Ids, StopWaiting(n) \/ Restarting(n) \/ ChildExit(n) PROVE FALSE
  BY <1>7 DEF StopWaiting, StopWaitBegin, StopWaitFire, StopWaitCancel, Restarting,
              RestartDrop, RestartCheck, ChildExit, machine
<1> QED BY <1>1, <1>2, <1>3, <1>4, <1>5, <1>6, <1>7 DEF Next, Spawning, Exiting

\* Without a request, a process is never attempted more than startretries + 1
\* times in a row: ProcessExitedEarly grants no retry beyond that, whatever
\* configurations a reload installs in between.
THEOREM AttemptsAlwaysBounded == Spec => AttemptsBounded
<1>1. Init => Budget
  BY DEF Init, Budget
<1>2. IndInv /\ TypeOK' /\ Budget /\ [Next]_vars => Budget'
  BY BudgetStep DEF IndInv, Tracking
<1>3. TypeOK /\ Budget /\ [Next]_vars =>
        [state # "BACKOFF" /\ state' = "BACKOFF" => tries <= limits.startretries]_vars
  BY BackoffStep
<1> QED BY <1>1, <1>2, <1>3, TypeCorrect, Inductive, PTL DEF Spec, AttemptsBounded

-----------------------------------------------------------------------------
(***************************************************************************)
(* A start that succeeded is looked at, as long as startsecs stays the     *)
(* same: the timer of watchStart and the time since STARTING, which        *)
(* ProcessStarted compares with startsecs, then agree.                     *)
(***************************************************************************)
SameStartsecs == \A c, d \in Configs : c.startsecs = d.startsecs

\* So the state machine, whose limits may not be updated yet, has the same one.
LEMMA SameLimits == ASSUME SameStartsecs, TypeOK PROVE limits.startsecs = cfg.startsecs
BY DEF SameStartsecs, TypeOK, Limits

\* An attempt that was not made has no watchStart goroutine.
NoneYet == \A n \in Ids : n > attempt => watcher[n].pc = "none"

\* When the timer of the last attempt fires, startsecs will have passed.
InTime ==
  state = "STARTING" /\ attempt # 0 /\ watcher[attempt].pc = "wait" =>
    watcher[attempt].left + age >= cfg.startsecs

Watched == NoneYet /\ InTime /\ StartArmed

\* What the operators on goroutines leave alone.
LEMMA WatcherFields ==
  ASSUME NEW g \in [Ids -> Watcher], NEW n \in Ids
  PROVE  /\ Closed(g)[n].pc = g[n].pc /\ Replaced(g)[n].pc = g[n].pc
         /\ Ran(g)[n].pc = g[n].pc /\ Ran(g)[n].ch = g[n].ch
         /\ Ran(g)[n].left = (IF g[n].pc = "wait" /\ g[n].left > 0 THEN g[n].left - 1 ELSE g[n].left)
  BY DEF Closed, Replaced, Ran, Watcher

\* Steps that leave the watchers alone and do not put a process in STARTING.
LEMMA WatchedQuiet ==
  ASSUME TypeOK, Tracking, Watched, UNCHANGED <<watcher, attempt, age, cfg>>,
         state' = "STARTING" => state = "STARTING",
         mu' # "spawn" => mu # "spawn",
         \A n \in Ids : child'[n] = "alive" => child[n] = "alive"
  PROVE  Watched'
<1>1. NoneYet'
  BY DEF Watched, NoneYet
<1>2. InTime'
  BY DEF Watched, InTime
<1>3. StartArmed'
  <2>1. state = "STARTING" => attempt \in Ids
    BY DEF TypeOK, Ids, Tracking, Sections
  <2> QED BY <2>1 DEF Watched, StartArmed, Ids
<1> QED BY <1>1, <1>2, <1>3 DEF Watched

\* A step that leaves no process in STARTING but in the spawn, and wakes no watcher of a
\* later attempt.
LEMMA WatchedElsewhere ==
  ASSUME TypeOK, Watched, state' # "STARTING" \/ (mu' = "spawn" /\ watcher' = watcher),
         \A n \in Ids : watcher'[n].pc = watcher[n].pc,
         \/ attempt' = attempt /\ state' # "STARTING"
         \/ attempt' = attempt /\ UNCHANGED <<state, age, cfg>>
         \/ attempt' = attempt + 1 /\ attempt' \in Ids
  PROVE  Watched'
<1>1. NoneYet'
  BY DEF Watched, NoneYet, TypeOK, Ids
<1>2. InTime'
  BY DEF Watched, InTime, NoneYet, TypeOK, Ids
<1>3. StartArmed'
  BY DEF StartArmed
<1> QED BY <1>1, <1>2, <1>3 DEF Watched

\* A spawn forks watchStart for the child it brings up.
LEMMA WatchedSpawning ==
  ASSUME SameStartsecs, TypeOK, Tracking, Watched, Spawning PROVE Watched'
<1>1. CASE SpawnOK
  <2>1. attempt \in Ids /\ TheStopCh = "open"
    BY <1>1 DEF SpawnOK, Tracking, Sections, TypeOK, Ids, TheStopCh
  <2>2. CASE cfg.startsecs = 0
    <3>1. state' # "STARTING"
      BY <1>1, <2>2, SameLimits DEF SpawnOK, ProcessStarted, TypeOK
    <3> QED BY <1>1, <2>2, <3>1, WatchedElsewhere DEF SpawnOK
  <2>3. CASE cfg.startsecs # 0
    <3>1. watcher' = [watcher EXCEPT ![attempt] = NewWatcher("open")]
      BY <1>1, <2>1, <2>3 DEF SpawnOK
    <3>2. watcher'[attempt].pc = "new" /\ watcher'[attempt].ch = "open"
      BY <2>1, <3>1 DEF NewWatcher, NoWatcher, TypeOK
    <3>3. \A n \in Ids : n # attempt => watcher'[n] = watcher[n]
      BY <2>1, <3>1 DEF TypeOK
    <3>4. attempt' = attempt
      BY <1>1 DEF SpawnOK
    <3>5. NoneYet' /\ InTime' /\ StartArmed'
      BY <3>2, <3>3, <3>4 DEF Watched, NoneYet, InTime, StartArmed, TypeOK, Ids
    <3> QED BY <3>5 DEF Watched
  <2> QED BY <2>2, <2>3
<1>2. CASE SpawnFail
  <2>1. state' # "STARTING"
    BY <1>2 DEF SpawnFail, ProcessExitedEarly, TypeOK
  <2> QED BY <1>2, <2>1, WatchedElsewhere DEF SpawnFail
<1> QED BY <1>1, <1>2 DEF Spawning

\* watchStart gives the timer of its attempt startsecs, is cancelled only by the close of
\* its channel, and when it fires in time the process is RUNNING.
LEMMA WatchedWatching ==
  ASSUME SameStartsecs, TypeOK, Tracking, Watched, NEW n \in Ids, Watching(n) PROVE Watched'
<1>0. /\ attempt' = attempt /\ UNCHANGED <<cfg, age, mu, child>>
      /\ \A m \in Ids : m # n => watcher'[m] = watcher[m]
      /\ watcher[n].pc # "none"
  BY DEF Watching, WatchBegin, WatchFire, WatchCancel, WatchRead, WatchPublish, machine, flags, TypeOK
<1>1. NoneYet'
  <2>1. \A m \in Ids : m > attempt => m # n
    BY <1>0 DEF Watched, NoneYet
  <2> QED BY <1>0, <2>1 DEF Watched, NoneYet
<1>2. state' = "STARTING" => state = "STARTING"
  BY DEF Watching, WatchBegin, WatchFire, WatchCancel, WatchRead, WatchPublish, ProcessStarted,
         machine, TypeOK
<1>3. CASE n # attempt
  BY <1>0, <1>1, <1>2, <1>3 DEF Watched, InTime, StartArmed, TypeOK, Ids, Tracking, Sections
<1>4. CASE n = attempt /\ state = "STARTING" /\ state' = "STARTING"
  <2>1. ~WatchFire(n)
    <3>1. SUFFICES ASSUME WatchFire(n) PROVE FALSE
      OBVIOUS
    <3>2. 0 + age >= cfg.startsecs
      BY <1>4, <3>1 DEF Watched, InTime, WatchFire, Ids
    <3>3. age >= cfg.startsecs
      BY <3>2 DEF TypeOK
    <3> QED BY <1>4, <3>1, <3>3, SameLimits DEF WatchFire, ProcessStarted
  <2>2. CASE WatchBegin(n)
    <3>1. cfg.startsecs # 0
      BY <1>4, <2>2, SameLimits DEF WatchBegin, ProcessStarted, TypeOK
    <3>2. watcher'[n].pc = "wait" /\ watcher'[n].left = cfg.startsecs /\ watcher'[n].ch = watcher[n].ch
      BY <2>2, <3>1 DEF WatchBegin, TypeOK, Watcher
    <3>3. cfg.startsecs \in Nat
      BY DEF TypeOK, ConfigType
    <3>4. cfg.startsecs + age >= cfg.startsecs
      BY <3>3 DEF TypeOK
    <3>5. InTime'
      BY <1>0, <1>4, <3>2, <3>4 DEF InTime
    <3>6. StartArmed'
      BY <1>0, <1>4, <3>2 DEF Watched, StartArmed
    <3> QED BY <1>1, <3>5, <3>6 DEF Watched
  <2>3. CASE WatchCancel(n) \/ WatchRead(n) \/ WatchPublish(n)
    <3>1. ~(mu # "spawn" /\ child[attempt] = "alive")
      BY <1>4, <2>3 DEF Watched, StartArmed, WatchCancel, WatchRead, WatchPublish
    <3>2. watcher'[n].pc # "wait"
      BY <2>3 DEF WatchCancel, WatchRead, WatchPublish, TypeOK, Watcher, NoWatcher
    <3> QED BY <1>0, <1>1, <1>4, <3>1, <3>2 DEF Watched, StartArmed, InTime
  <2> QED BY <2>1, <2>2, <2>3 DEF Watching
<1>5. CASE state' # "STARTING"
  BY <1>1, <1>5 DEF Watched, InTime, StartArmed
<1> QED BY <1>2, <1>3, <1>4, <1>5

\* Entering STARTING with the next attempt.
LEMMA WatchedStarting ==
  ASSUME TypeOK, Watched, NEW k, EnterStarting(k), UNCHANGED watcher
  PROVE  Watched'
BY WatchedElsewhere DEF EnterStarting, TypeOK, Ids

\* Requests leave the timer of a start alone.
LEMMA WatchedRequests == ASSUME TypeOK, Tracking, Watched, Requests PROVE Watched'
<1>1. CASE Start
  BY <1>1, WatchedStarting DEF Start, goroutines
<1>2. CASE StartRefused \/ Kill \/ WriteStdin
  <2>1. \A n \in Ids : child'[n] = "alive" => child[n] = "alive"
    BY <1>2 DEF StartRefused, Kill, KillLocked, WriteStdin, TypeOK
  <2> QED BY <1>2, <2>1, WatchedQuiet DEF StartRefused, Kill, WriteStdin, machine, flags, goroutines
<1>3. CASE Stop \/ StopBackoff
  <2>1. state' # "STARTING" /\ attempt' = attempt /\ watcher' = Closed(watcher)
    BY <1>3 DEF Stop, StopBackoff, StopInBackoff
  <2> QED BY <2>1, WatcherFields, WatchedElsewhere DEF TypeOK
<1> QED BY <1>1, <1>2, <1>3 DEF Requests

\* An exit or its handling ends what there is to watch.
LEMMA WatchedExiting == ASSUME TypeOK, Tracking, Watched, Exiting PROVE Watched'
<1>1. CASE HandleExitStarting
  BY <1>1, WatchedQuiet DEF HandleExitStarting, machine, flags, goroutines
<1>2. CASE HandleExitEarly
  <2>1. state' # "STARTING" /\ attempt' = attempt
    BY <1>2 DEF HandleExitEarly, ProcessExitedEarly, StopInBackoff, TypeOK
  <2>2. watcher' = Closed(watcher) \/ watcher' = Replaced(watcher)
    BY <1>2 DEF HandleExitEarly, StopInBackoff
  <2> QED BY <2>1, <2>2, WatcherFields, WatchedElsewhere DEF TypeOK
<1>3. ASSUME NEW unexpected \in BOOLEAN, HandleExit(unexpected) PROVE Watched'
  <2>1. state' # "STARTING" /\ attempt' = attempt /\ watcher' = Replaced(watcher)
    BY <1>3 DEF HandleExit
  <2> QED BY <2>1, WatcherFields, WatchedElsewhere DEF TypeOK
<1> QED BY <1>1, <1>2, <1>3 DEF Exiting

\* What there is of a retry before it starts the process leaves the watchers alone, unless
\* it stops the process.
LEMMA WatchedRetrying ==
  ASSUME TypeOK, Tracking, Watched, NEW n \in Ids, Retrying(n) PROVE Watched'
<1>1. CASE RetryBegin(n) \/ RetryCancel(n) \/ RetryDrop(n) \/ RetryCheck(n)
  BY <1>1, WatchedQuiet DEF RetryBegin, RetryCancel, RetryDrop, RetryCheck, RetryDue, machine,
                            flags
<1>2. CASE RetryShutdown(n)
  <2>1. state' # "STARTING" /\ attempt' = attempt /\ watcher' = Closed(watcher)
    BY <1>2 DEF RetryShutdown, StopInBackoff
  <2> QED BY <2>1, WatcherFields, WatchedElsewhere DEF TypeOK
<1> QED BY <1>1, <1>2 DEF Retrying

\* A second that passes brings the timer and the age forward alike, until age has reached
\* its bound, which is not below startsecs.
LEMMA WatchedTick == ASSUME TypeOK, Tracking, Watched, Tick PROVE Watched'
<1>1. /\ UNCHANGED <<state, attempt, mu, child, cfg>> /\ watcher' = Ran(watcher)
      /\ age' = IF age < Horizon THEN age + 1 ELSE age
  BY DEF Tick, flags
<1>2. \A n \in Ids : watcher'[n].pc = watcher[n].pc /\ watcher'[n].ch = watcher[n].ch
  BY <1>1, WatcherFields DEF TypeOK
<1>3. state = "STARTING" => attempt \in Ids
  BY DEF TypeOK, Ids, Tracking, Sections
<1>4. InTime'
  <2>1. SUFFICES ASSUME state = "STARTING", watcher[attempt].pc = "wait"
                 PROVE  watcher'[attempt].left + age' >= cfg.startsecs
    BY <1>1, <1>2, <1>3 DEF InTime
  <2>2. watcher'[attempt].left =
          IF watcher[attempt].left > 0 THEN watcher[attempt].left - 1 ELSE watcher[attempt].left
    BY <1>1, <1>3, <2>1, WatcherFields DEF TypeOK
  <2>3. watcher[attempt].left + age >= cfg.startsecs
    BY <1>3, <2>1 DEF Watched, InTime, Ids
  <2>4. cfg.startsecs \in Nat /\ cfg.startsecs <= Horizon /\ watcher[attempt].left \in Nat
    <3>1. cfg.startsecs \in Nat /\ cfg.startsecs <= Horizon
      BY DEF TypeOK, ConfigType
    <3>2. watcher[attempt] \in Watcher
      BY <1>3, <2>1 DEF TypeOK
    <3> QED BY <3>1, <3>2 DEF Watcher
  <2>5. age \in 0..Horizon
    BY DEF TypeOK
  <2> QED BY <1>1, <2>2, <2>3, <2>4, <2>5
<1>5. NoneYet' /\ StartArmed'
  BY <1>1, <1>2, <1>3 DEF Watched, NoneYet, StartArmed
<1> QED BY <1>4, <1>5 DEF Watched

\* Every step keeps a start watched.
LEMMA WatchedStep ==
  ASSUME SameStartsecs, TypeOK, Tracking, Watched, [Next]_vars PROVE Watched'
<1>1. CASE RetryStart \/ RestartStart
  BY <1>1, WatchedStarting DEF RetryStart, RestartStart, goroutines
<1>2. CASE Retire \/ Shutdown \/ SetLimits \/ WriteEnd
  BY <1>2, WatchedQuiet DEF Retire, Shutdown, SetLimits, WriteEnd, machine, flags, goroutines
<1>3. ASSUME NEW c \in Configs, UpdateConfig(c) PROVE Watched'
  <2>1. cfg'.startsecs = cfg.startsecs
    BY <1>3 DEF UpdateConfig, SameStartsecs, TypeOK
  <2>2. UNCHANGED <<watcher, attempt, age, state, child>> /\ mu # "spawn"
    BY <1>3 DEF UpdateConfig, machine, goroutines
  <2> QED BY <2>1, <2>2 DEF Watched, NoneYet, InTime, StartArmed
<1>4. ASSUME NEW n \in Ids, StopWaiting(n) \/ Restarting(n) \/ ChildExit(n) PROVE Watched'
  <2>1. \A m \in Ids : child'[m] = "alive" => child[m] = "alive"
    BY <1>4 DEF StopWaiting, StopWaitBegin, StopWaitFire, StopWaitCancel, KillLocked, Restarting,
                RestartDrop, RestartCheck, ChildExit, TypeOK
  <2>2. UNCHANGED <<watcher, attempt, age, cfg, state>> /\ (mu' # "spawn" => mu # "spawn")
    BY <1>4 DEF StopWaiting, StopWaitBegin, StopWaitFire, StopWaitCancel, Restarting,
                RestartDrop, RestartCheck, ChildExit, machine, flags, goroutines
  <2> QED BY <2>1, <2>2, WatchedQuiet
<1>5. CASE UNCHANGED vars
  BY <1>5, WatchedQuiet DEF vars, machine, flags, goroutines
<1> QED BY <1>1, <1>2, <1>3, <1>4, <1>5, WatchedRequests, WatchedSpawning, WatchedExiting,
           WatchedWatching, WatchedRetrying, WatchedTick DEF Next, Daemon, Resuming

\* Unless a reload changes startsecs: a process whose child is up and that is STARTING
\* has a watchStart goroutine that nobody has cancelled and that will look at it, whatever
\* timers and watchers earlier attempts left behind (watchStart, ProcessStarted).
THEOREM StartAlwaysArmed == ASSUME SameStartsecs PROVE Spec => []StartArmed
<1>1. Init => Watched
  BY DEF Init, Watched, NoneYet, InTime, StartArmed, NoWatcher
<1>2. IndInv /\ Watched /\ [Next]_vars => Watched'
  BY WatchedStep DEF IndInv, Tracking
<1>3. Watched => StartArmed
  BY DEF Watched
<1> QED BY <1>1, <1>2, <1>3, Inductive, PTL DEF Spec

=============================================================================
