------------------------------ MODULE Signals ------------------------------
(***************************************************************************)
(* The main loop of the supervisor as the one goroutine that reads signals *)
(* and reaps children (runloop.go, supervisor.go), with what it shares     *)
(* with the others: the pids of the children and the lock of each process. *)
(*                                                                         *)
(* A process either has no child or one that has been spawned, asked to    *)
(* stop or killed; modules Process and Shutdown have the rest.  Signals of *)
(* one kind that are pending at the kernel are one signal; what does not   *)
(* fit into the queue of 16 is dropped.  SIGUSR2, which only reopens logs, *)
(* is in module Capture.  A pid is not used again, and time limits may     *)
(* expire at any moment.                                                   *)
(***************************************************************************)
EXTENDS Naturals, Sequences, SequencesExt, FiniteSets

CONSTANTS
  Procs,       \* managed processes
  QueueSize,   \* the slots of the signal queue
  MaxPids,     \* bound on the children
  MaxRequests  \* bound on the signals from outside and the writes to a stdin

Pids == 1..MaxPids
None == 0

ASSUME SignalsConstants ==
  /\ IsFiniteSet(Procs)
  /\ {QueueSize, MaxPids} \subseteq Nat \ {0} /\ MaxRequests \in Nat

VARIABLES
  kid,      \* what has become of the children, by pid
  forked,   \* the pid that Spawn is about to return, or None
  spawned,  \* p.spawned: the pid that the process knows, or None
  mu,       \* p.mu: free, or held by a spawn or by a write to stdin that waits
  pending,  \* SIGCHLD is pending at the kernel
  queue,    \* SignalQueue.C
  sent,     \* how many signals and writes came from outside
  phase,    \* where Run is: serve, stopAll, wait, kill, exited
  reaping,  \* in the loop of handleSigchld
  hand,     \* the pid that wait4 returned, or None
  found,    \* the process that ProcessByPid returned for it, if it has
  todo,     \* the processes that StopAll or killRemaining have still to visit
  reload,   \* what a reload has still to do for each process; Idle if none runs
  missed    \* history: a SIGCHLD was dropped and none was in the queue

os   == <<kid, forked, pending, sent>>
loop == <<phase, reaping, hand, found, todo>>
vars == <<kid, forked, spawned, mu, pending, queue, sent, phase, reaping, hand, found, todo,
          reload, missed>>

Idle == [p \in Procs |-> "idle"]

\* What State tells: it reads the state machine, which has a lock of its own, so that
\* nobody who holds p.mu keeps allStopped or waitForStopped from an answer.
Active(p) == spawned[p] # None \/ forked[p] # None

Alive(i) == kid[i] \in {"alive", "asked", "killed"}

Init ==
  /\ kid = [i \in Pids |-> "none"]
  /\ forked = [p \in Procs |-> None] /\ spawned = forked /\ mu = [p \in Procs |-> "free"]
  /\ pending = FALSE /\ queue = <<>> /\ sent = 0
  /\ phase = "serve" /\ reaping = FALSE /\ hand = None /\ found = {} /\ todo = {}
  /\ reload = Idle /\ missed = FALSE

-----------------------------------------------------------------------------
(***************************************************************************)
(* Requests and timers of a process, with its lock.                        *)
(***************************************************************************)
Fresh(i) == kid[i] = "none" /\ \A j \in 1..i - 1 : kid[j] # "none"

\* Mutant of Lock: the lock is taken only after the fork, to store the pid.
LockLate(p) == mu[p] = "free" /\ mu' = mu

\* spawnLocked holds the lock from before the fork ...
Lock(p) == mu[p] = "free" /\ mu' = [mu EXCEPT ![p] = "spawn"]

Fork(p, i) ==
  /\ Lock(p)
  /\ forked[p] = None /\ spawned[p] = None
  /\ Fresh(i) /\ kid' = [kid EXCEPT ![i] = "alive"]
  /\ forked' = [forked EXCEPT ![p] = i]
  /\ UNCHANGED <<spawned, pending, queue, sent, loop, reload, missed>>

\* ... until it has stored the pid.
Record(p) ==
  /\ forked[p] # None /\ forked' = [forked EXCEPT ![p] = None]
  /\ spawned' = [spawned EXCEPT ![p] = forked[p]]
  /\ mu' = [mu EXCEPT ![p] = "free"]
  /\ UNCHANGED <<kid, pending, sent, queue, loop, reload, missed>>

\* WriteStdin with the pipe full: the write waits, with the lock held ...
WriteStdin(p) ==
  /\ sent < MaxRequests /\ sent' = sent + 1
  /\ mu[p] = "free" /\ spawned[p] # None
  /\ mu' = [mu EXCEPT ![p] = "stdin"]
  /\ UNCHANGED <<kid, forked, pending, spawned, queue, loop, reload, missed>>

\* ... until the child reads (external) or is gone.
Drain(p) ==
  /\ mu[p] = "stdin" /\ Alive(spawned[p])
  /\ mu' = [mu EXCEPT ![p] = "free"]
  /\ UNCHANGED <<os, spawned, queue, loop, reload, missed>>

StdinBroken(p) ==
  /\ mu[p] = "stdin" /\ ~Alive(spawned[p])
  /\ mu' = [mu EXCEPT ![p] = "free"]
  /\ UNCHANGED <<os, spawned, queue, loop, reload, missed>>

\* Stop and Kill: the signal for the child that the process knows.
Signalled(p, st) ==
  IF spawned[p] # None /\ Alive(spawned[p]) THEN [kid EXCEPT ![spawned[p]] = st] ELSE kid

Asked(p) ==
  IF spawned[p] # None /\ kid[spawned[p]] = "alive" THEN Signalled(p, "asked") ELSE kid

\* watchStop, when stopwaitsecs are over.
Escalate(p) ==
  /\ mu[p] = "free" /\ spawned[p] # None /\ kid[spawned[p]] = "asked"
  /\ kid' = Signalled(p, "killed")
  /\ UNCHANGED <<forked, spawned, mu, pending, queue, sent, loop, reload, missed>>

-----------------------------------------------------------------------------
(***************************************************************************)
(* external: the operating system and the delivery of signals by Go.       *)
(***************************************************************************)
Die(i) ==
  /\ Alive(i)
  /\ kid' = [kid EXCEPT ![i] = "zombie"] /\ pending' = TRUE
  /\ UNCHANGED <<forked, spawned, mu, queue, sent, loop, reload, missed>>

\* A process whose parent is gone ends as a child of PID 1.
OrphanDies(i) ==
  /\ Fresh(i)
  /\ kid' = [kid EXCEPT ![i] = "zombie"] /\ pending' = TRUE
  /\ UNCHANGED <<forked, spawned, mu, queue, sent, loop, reload, missed>>

Notify(sig) == queue' = IF Len(queue) < QueueSize THEN Append(queue, sig) ELSE queue

DeliverChild ==
  /\ pending /\ pending' = FALSE
  /\ Notify("CHLD")
  /\ missed' = (missed \/ (queue' = queue /\ "CHLD" \notin ToSet(queue)))
  /\ UNCHANGED <<kid, forked, spawned, mu, sent, loop, reload>>

Send(sig) ==
  /\ sent < MaxRequests /\ sent' = sent + 1
  /\ Notify(sig)
  /\ UNCHANGED <<kid, forked, spawned, mu, pending, loop, reload, missed>>

-----------------------------------------------------------------------------
(***************************************************************************)
(* The main loop.                                                          *)
(***************************************************************************)
InSelect == ~reaping /\ hand = None

\* handleSigchld
TakeChild ==
  /\ phase \in {"serve", "wait"} /\ InSelect /\ queue # <<>> /\ Head(queue) = "CHLD"
  /\ queue' = Tail(queue) /\ reaping' = TRUE
  /\ UNCHANGED <<os, spawned, mu, phase, hand, found, todo, reload, missed>>

\* waitForShutdown ignores SIGHUP.
IgnoreReload ==
  /\ phase = "wait" /\ InSelect /\ queue # <<>> /\ Head(queue) = "HUP"
  /\ queue' = Tail(queue)
  /\ UNCHANGED <<os, spawned, mu, loop, reload, missed>>

\* Mutant of InBackground: the main loop itself waits for the reload.
InForeground == reload = Idle

\* handleReload starts a goroutine: the main loop goes on.
InBackground == TRUE

\* handleReload, and ConfigDiff: the programs that changed or are gone.
TakeReload ==
  /\ phase = "serve" /\ InSelect /\ queue # <<>> /\ Head(queue) = "HUP"
  /\ queue' = Tail(queue)
  /\ IF reload = Idle THEN reload' \in [Procs -> {"done", "stop"}] ELSE UNCHANGED reload
  /\ UNCHANGED <<os, spawned, mu, loop, missed>>

ReloadStep(p, from, to) == reload[p] = from /\ reload' = [reload EXCEPT ![p] = to]

\* ApplyReload stops each of them ...
ReloadStop(p) ==
  /\ ReloadStep(p, "stop", "wait") /\ (Active(p) => mu[p] = "free")
  /\ kid' = Asked(p)
  /\ UNCHANGED <<forked, spawned, mu, pending, queue, sent, loop, missed>>

\* ... and waitForStopped until it has no child, or the time is over.
ReloadSees(p) ==
  /\ ReloadStep(p, "wait", "done") /\ ~Active(p)
  /\ UNCHANGED <<os, spawned, mu, queue, loop, missed>>

ReloadTimeout(p) ==
  /\ ReloadStep(p, "wait", "done") /\ Active(p)
  /\ UNCHANGED <<os, spawned, mu, queue, loop, missed>>

ReloadDone ==
  /\ reload = [p \in Procs |-> "done"] /\ reload' = Idle
  /\ UNCHANGED <<os, spawned, mu, queue, loop, missed>>

Zombies == {i \in Pids : kid[i] = "zombie"}

\* wait4 returns a zombie; handleSigchld goes on until it has nothing more.
Wait4(i) ==
  /\ reaping /\ hand = None /\ InBackground /\ i \in Zombies
  /\ kid' = [kid EXCEPT ![i] = "reaped"] /\ hand' = i
  /\ UNCHANGED <<forked, spawned, mu, pending, queue, sent, phase, reaping, found, todo, reload,
                 missed>>

\* ProcessByPid finds the process that has the pid, under its lock ...
Found(p) ==
  /\ hand # None /\ found = {} /\ spawned[p] = hand /\ mu[p] = "free"
  /\ found' = {p}
  /\ UNCHANGED <<os, spawned, mu, queue, phase, reaping, hand, todo, reload, missed>>

\* ... and HandleExitStatus takes the lock again ...
HandleExitStatus(p) ==
  /\ p \in found /\ mu[p] = "free"
  /\ spawned' = [spawned EXCEPT ![p] = None]
  /\ hand' = None /\ found' = {}
  /\ UNCHANGED <<os, mu, queue, phase, reaping, todo, reload, missed>>

\* ... or it has looked at every process: an orphan, or an unknown child.
Unknown ==
  /\ hand # None /\ found = {} /\ \A p \in Procs : mu[p] = "free" /\ spawned[p] # hand
  /\ hand' = None
  /\ UNCHANGED <<os, spawned, mu, queue, phase, reaping, found, todo, reload, missed>>

allStopped == \A p \in Procs : ~Active(p)

\* wait4 has no more: back to the loop that called handleSigchld.
Reaped ==
  /\ reaping /\ hand = None /\ InBackground /\ Zombies = {}
  /\ reaping' = FALSE
  /\ \/ (phase = "serve" \/ ~allStopped) /\ UNCHANGED phase
     \/ phase # "serve" /\ allStopped /\ phase' = "exited"
  /\ UNCHANGED <<os, spawned, mu, queue, hand, found, todo, reload, missed>>

\* A signal or a request ends the main loop.
BeginShutdown ==
  /\ phase = "serve" /\ InSelect
  /\ \/ queue # <<>> /\ Head(queue) = "TERM" /\ queue' = Tail(queue)
     \/ UNCHANGED queue
  /\ phase' = "stopAll" /\ todo' = Procs
  /\ UNCHANGED <<os, spawned, mu, reaping, hand, found, reload, missed>>

StopNext(p) ==
  /\ phase = "stopAll" /\ p \in todo /\ (Active(p) => mu[p] = "free")
  /\ kid' = Asked(p)
  /\ todo' = todo \ {p}
  /\ UNCHANGED <<forked, spawned, mu, pending, queue, sent, phase, reaping, hand, found, reload,
                 missed>>

BeginWait ==
  /\ phase = "stopAll" /\ todo = {}
  /\ phase' = "wait"
  /\ UNCHANGED <<os, spawned, mu, queue, reaping, hand, found, todo, reload, missed>>

\* The ticker of waitForShutdown, and the loop of killRemaining.
ReapTick ==
  /\ phase = "wait" \/ (phase = "kill" /\ todo = {})
  /\ InSelect /\ reaping' = TRUE
  /\ UNCHANGED <<os, spawned, mu, queue, phase, hand, found, todo, reload, missed>>

\* Mutant of TimeIsOver: waitForShutdown has no time limit.
TimeIsNotOver == FALSE

\* shutdown_timeout may expire at any moment of the wait.
TimeIsOver == TRUE

\* The time is over, or a second signal: killRemaining.
GiveUp ==
  /\ phase = "wait" /\ InSelect
  /\ \/ queue # <<>> /\ Head(queue) = "TERM" /\ queue' = Tail(queue)
     \/ TimeIsOver /\ UNCHANGED queue
  /\ phase' = "kill" /\ todo' = Procs
  /\ UNCHANGED <<os, spawned, mu, reaping, hand, found, reload, missed>>

KillNext(p) ==
  /\ phase = "kill" /\ p \in todo /\ (Active(p) => mu[p] = "free")
  /\ kid' = Signalled(p, "killed")
  /\ todo' = todo \ {p}
  /\ UNCHANGED <<forked, spawned, mu, pending, queue, sent, phase, reaping, hand, found, reload,
                 missed>>

\* killReapGrace is over.
GraceOver ==
  /\ phase = "kill" /\ todo = {} /\ InSelect
  /\ phase' = "exited"
  /\ UNCHANGED <<os, spawned, mu, queue, reaping, hand, found, todo, reload, missed>>

-----------------------------------------------------------------------------
Request ==
  \/ \E p \in Procs, i \in Pids : Fork(p, i)
  \/ \E p \in Procs : WriteStdin(p)
  \/ \E i \in Pids : OrphanDies(i)
  \/ \E sig \in {"TERM", "HUP"} : Send(sig)

Timer(p) == Record(p) \/ StdinBroken(p) \/ Escalate(p)
Child(i) == Die(i) /\ kid[i] # "killed"
Killed(i) == Die(i) /\ kid[i] = "killed"
Reap ==
  \/ \E i \in Pids : Wait4(i)
  \/ \E p \in Procs : Found(p) \/ HandleExitStatus(p)
  \/ Unknown \/ Reaped
Serve == TakeChild \/ IgnoreReload \/ TakeReload
Reload == (\E p \in Procs : ReloadStop(p) \/ ReloadSees(p)) \/ ReloadDone
Stop == (\E p \in Procs : StopNext(p) \/ KillNext(p)) \/ BeginWait

\* Once the daemon has exited, nothing of it is left to take a step.
Running == phase # "exited"

Next ==
  /\ Running
  /\ \/ Request
     \/ \E p \in Procs : Timer(p) \/ Drain(p) \/ ReloadTimeout(p)
     \/ \E i \in Pids : Child(i) \/ Killed(i)
     \/ DeliverChild
     \/ Reap \/ Serve \/ Reload \/ Stop
     \/ BeginShutdown \/ ReapTick \/ GiveUp \/ GraceOver

Spec == Init /\ [][Next]_vars

\* What the runtime and the kernel see to: goroutines run, signals arrive, a killed
\* child dies and timers expire, which a select notices between its other cases (SF).
\* No child has to end by itself or to read its stdin, and the timeout of a reload is
\* not needed.
FairSpec ==
  /\ Spec
  /\ \A p \in Procs : WF_vars(Running /\ Timer(p))
  /\ \A i \in Pids : WF_vars(Running /\ Killed(i))
  /\ WF_vars(Running /\ DeliverChild) /\ WF_vars(Running /\ Reap)
  /\ WF_vars(Serve) /\ WF_vars(Running /\ Reload) /\ WF_vars(Stop)
  /\ SF_vars(GiveUp) /\ SF_vars(GraceOver)

\* FairSpec, if the children read what is written to their stdin.
DrainSpec == FairSpec /\ \A p \in Procs : WF_vars(Running /\ Drain(p))

-----------------------------------------------------------------------------
\* The pid that a process holds is one whose exit is still to come or in the hand of
\* the main loop: no exit is taken for that of an unknown child, which would leave the
\* process RUNNING without one for good (spawnLocked and ProcessByPid under p.mu).
NoExitLost ==
  \A p \in Procs :
    LET i == spawned[p] IN i # None => Alive(i) \/ kid[i] = "zombie" \/ hand = i

\* Every dead child is reaped while the daemon runs, without help from a timer: also one
\* of several whose SIGCHLDs became one, and one that died while a reload waits for it
\* (handleSigchld's loop, handleReload's goroutine).  Only a SIGCHLD that found the queue
\* full of other signals excuses it.
ZombieReaped == Zombies # {} ~> (Zombies = {} \/ missed \/ ~Running)

\* A shutdown ends, whatever the children do and whatever is started meanwhile
\* (waitForShutdown and killRemaining: "signals all, then waits up to `shutdown_timeout`
\* and KILLs the rest").
ShutdownEnds == phase # "serve" ~> phase = "exited"
=============================================================================
