------------------------------ MODULE Shutdown ------------------------------
(***************************************************************************)
(* How the daemon goes down: the main loop of the supervisor               *)
(* (internal/supervisor/runloop.go), Manager.StopAll, and the API requests *)
(* that start processes while it happens (internal/api/api.go, Manager's   *)
(* Restart, StartGroup and the bulk actions of bulk.go).                   *)
(*                                                                         *)
(* A process is what module Process shows it to be to a caller: its state, *)
(* its one child, and who holds p.mu for longer than a step: a retry or a  *)
(* restart that has passed its check, or a write to the child's stdin.     *)
(* FATAL stands for itself, and time limits may expire at any moment.      *)
(***************************************************************************)
EXTENDS Naturals, FiniteSets

CONSTANTS Procs, Clients

ASSUME ShutdownConstants == IsFiniteSet(Procs) /\ IsFiniteSet(Clients)

VARIABLES
  state,      \* Process.State() of each process
  child,      \* its child: "none", "alive", "killed" or "zombie"
  restart,    \* a restartAfterExit goroutine waits
  mu,         \* p.mu: "free", or who holds it: "retry", "restart" or "write"
  late,       \* history: the child was spawned after shutdownCh was closed
  bulkStart,  \* history: ... by a bulk start
  phase,      \* where Supervisor.Run is
  todo,       \* the processes that the loop of this phase has still to visit
  shutting,   \* s.shutting, which the API checks
  shutdownCh, \* m.shutdownCh is closed
  client      \* what each API request does next, and to which process

procs == <<state, child, restart, mu, late, bulkStart>>
vars  == <<procs, phase, todo, shutting, shutdownCh, client>>

States == {"STOPPED", "STARTING", "RUNNING", "BACKOFF", "STOPPING", "EXITED", "FATAL"}
Phases == {"serve", "sort", "stopAll", "wait", "kill", "grace", "done", "exited"}
Steps  == {"idle", "start", "await", "go", "bulk", "bulkStart", "bulkCheck"}

TypeOK ==
  /\ state \in [Procs -> States]
  /\ child \in [Procs -> {"none", "alive", "killed", "zombie"}]
  /\ restart \in [Procs -> BOOLEAN]
  /\ mu \in [Procs -> {"free", "retry", "restart", "write"}]
  /\ late \in [Procs -> BOOLEAN] /\ bulkStart \in [Procs -> BOOLEAN]
  /\ phase \in Phases /\ todo \subseteq Procs
  /\ shutting \in BOOLEAN /\ shutdownCh \in BOOLEAN
  /\ client \in [Clients -> [do : Steps, to : Procs]]

Init ==
  /\ state = [p \in Procs |-> "STOPPED"]
  /\ child = [p \in Procs |-> "none"]
  /\ restart = [p \in Procs |-> FALSE]
  /\ mu = [p \in Procs |-> "free"]
  /\ late = [p \in Procs |-> FALSE] /\ bulkStart = [p \in Procs |-> FALSE]
  /\ phase = "serve" /\ todo = {}
  /\ shutting = FALSE /\ shutdownCh = FALSE
  /\ client \in [Clients -> [do : {"idle"}, to : Procs]]

AtRest(s) == s \in {"STOPPED", "EXITED", "FATAL"}

\* What a bulk stop must stop.
stoppable(s) == s \in {"RUNNING", "STARTING", "BACKOFF"}

\* Mutant of active: a process that is being stopped is not waited for.
activeUnlessStopping(s) == s \in {"RUNNING", "STARTING"}

\* What shutdown waits for and kills.
active(s) == s \in {"RUNNING", "STARTING", "STOPPING"}

allStopped == \A p \in Procs : ~active(state[p])

Free(p) == mu[p] = "free"

-----------------------------------------------------------------------------
(***************************************************************************)
(* The methods of a process.                                               *)
(***************************************************************************)

\* startLocked and spawnLocked, from rest or from BACKOFF.  The spawn may fail.
Spawn(p, bulk) ==
  \/ /\ state' = [state EXCEPT ![p] = "STARTING"]
     /\ child' = [child EXCEPT ![p] = "alive"]
     /\ late' = [late EXCEPT ![p] = shutdownCh]
     /\ bulkStart' = [bulkStart EXCEPT ![p] = bulk /\ shutdownCh]
  \/ /\ state' \in {[state EXCEPT ![p] = s] : s \in {"BACKOFF", "FATAL"}}
     /\ UNCHANGED <<child, late, bulkStart>>

\* Process.Start: an error unless the process is at rest.
Start(p, bulk) ==
  /\ Free(p)
  /\ IF AtRest(state[p]) THEN Spawn(p, bulk) ELSE UNCHANGED <<state, child, late, bulkStart>>
  /\ UNCHANGED <<restart, mu>>

\* Process.Stop: an error or no effect unless the process is stoppable.
Stop(p) ==
  /\ Free(p)
  /\ state' = [state EXCEPT ![p] = CASE @ \in {"RUNNING", "STARTING"} -> "STOPPING"
                                     [] @ = "BACKOFF" -> "STOPPED"
                                     [] OTHER -> @]
  /\ UNCHANGED <<child, restart, mu, late, bulkStart>>

\* Process.Kill, and the SIGKILL of watchStop.
SendKill(p) == child' = [child EXCEPT ![p] = IF @ = "alive" THEN "killed" ELSE @]

-----------------------------------------------------------------------------
(***************************************************************************)
(* What happens to a process by itself, until the daemon is gone.          *)
(***************************************************************************)
Rest == UNCHANGED <<phase, todo, shutting, shutdownCh, client>>

\* watchStart
ProcessStarted(p) ==
  /\ state[p] = "STARTING"
  /\ state' = [state EXCEPT ![p] = "RUNNING"]
  /\ UNCHANGED <<child, restart, mu, late, bulkStart>> /\ Rest

\* The child may exit at any time, and does exit when it is killed.
ChildExit(p) ==
  /\ child[p] \in {"alive", "killed"}
  /\ child' = [child EXCEPT ![p] = "zombie"]
  /\ UNCHANGED <<state, restart, mu, late, bulkStart>> /\ Rest

\* watchStop
Escalate(p) ==
  /\ Free(p) /\ state[p] = "STOPPING" /\ child[p] = "alive"
  /\ SendKill(p)
  /\ UNCHANGED <<state, restart, mu, late, bulkStart>> /\ Rest

\* retryAfterBackoff and restartAfterExit check, then start the process; p.mu is held
\* in between, and shutdownCh may be closed.
RetryStop(p) ==
  /\ Free(p) /\ state[p] = "BACKOFF" /\ shutdownCh
  /\ state' = [state EXCEPT ![p] = "STOPPED"]
  /\ UNCHANGED <<child, restart, mu, late, bulkStart>> /\ Rest

RetryCheck(p) ==
  /\ Free(p) /\ state[p] = "BACKOFF" /\ ~shutdownCh
  /\ mu' = [mu EXCEPT ![p] = "retry"]
  /\ UNCHANGED <<state, child, restart, late, bulkStart>> /\ Rest

RestartDrop(p) ==
  /\ Free(p) /\ restart[p] /\ (state[p] # "EXITED" \/ shutdownCh)
  /\ restart' = [restart EXCEPT ![p] = FALSE]
  /\ UNCHANGED <<state, child, mu, late, bulkStart>> /\ Rest

RestartCheck(p) ==
  /\ Free(p) /\ restart[p] /\ state[p] = "EXITED" /\ ~shutdownCh
  /\ restart' = [restart EXCEPT ![p] = FALSE]
  /\ mu' = [mu EXCEPT ![p] = "restart"]
  /\ UNCHANGED <<state, child, late, bulkStart>> /\ Rest

Resume(p) ==
  /\ mu[p] \in {"retry", "restart"}
  /\ mu' = [mu EXCEPT ![p] = "free"]
  /\ Spawn(p, FALSE)
  /\ UNCHANGED restart /\ Rest

\* WriteStdin waits, with p.mu held, for the child to read; nothing limits the wait.
WriteStdin(p) ==
  /\ Free(p) /\ child[p] # "none"
  /\ mu' = [mu EXCEPT ![p] = "write"]
  /\ UNCHANGED <<state, child, restart, late, bulkStart>> /\ Rest

WriteEnd(p) ==
  /\ mu[p] = "write"
  /\ mu' = [mu EXCEPT ![p] = "free"]
  /\ UNCHANGED <<state, child, restart, late, bulkStart>> /\ Rest

ByItself(p) ==
  /\ phase # "exited"
  /\ \/ ProcessStarted(p) \/ Escalate(p) \/ RetryStop(p) \/ RetryCheck(p)
     \/ RestartDrop(p) \/ RestartCheck(p) \/ Resume(p) \/ WriteStdin(p) \/ WriteEnd(p)

(***************************************************************************)
(* handleSigchld reaps a child and calls HandleExitStatus.  Only the main  *)
(* loop does, so nothing is reaped while it is inside StopAll or is        *)
(* sending SIGKILL.  A watchStart that fires in the middle of              *)
(* HandleExitStatus leaves the process RUNNING (see RunningHasChild of     *)
(* module Process).                                                        *)
(***************************************************************************)
Reaping == phase \in {"serve", "wait", "grace"}

Reap(p) ==
  /\ Reaping /\ child[p] = "zombie" /\ Free(p)
  /\ child' = [child EXCEPT ![p] = "none"]
  /\ \/ /\ state[p] = "STARTING"
        /\ \E s \in {IF shutdownCh THEN "STOPPED" ELSE "BACKOFF", "FATAL", "RUNNING"} :
             state' = [state EXCEPT ![p] = s]
        /\ UNCHANGED restart
     \/ /\ state[p] = "RUNNING"
        /\ state' = [state EXCEPT ![p] = "EXITED"]
        /\ \E r \in IF shutdownCh THEN {FALSE} ELSE BOOLEAN : restart' = [restart EXCEPT ![p] = r]
     \/ /\ state[p] = "STOPPING"
        /\ state' = [state EXCEPT ![p] = "STOPPED"]
        /\ UNCHANGED restart
  /\ late' = [late EXCEPT ![p] = FALSE] /\ bulkStart' = [bulkStart EXCEPT ![p] = FALSE]
  /\ UNCHANGED mu /\ Rest

-----------------------------------------------------------------------------
(***************************************************************************)
(* API requests.  The server serves them until the daemon has exited.      *)
(***************************************************************************)
Become(c, step, p) == client' = [client EXCEPT ![c] = [do |-> step, to |-> p]]

Daemon == UNCHANGED <<phase, todo, shutting, shutdownCh>>

\* handleStartProcess: the check, and then Manager.Start.
RequestStart(c, p) ==
  /\ client[c].do = "idle" /\ ~shutting
  /\ Become(c, "start", p)
  /\ UNCHANGED procs /\ Daemon

DoStart(c) ==
  /\ client[c].do \in {"start", "go"}
  /\ Start(client[c].to, FALSE)
  /\ Become(c, "idle", client[c].to) /\ Daemon

\* handleStopProcess, and StopGroup for one of its processes.
RequestStop(c, p) ==
  /\ client[c].do = "idle"
  /\ Stop(p)
  /\ UNCHANGED client /\ Daemon

\* handleRestartProcess: Stop, wait up to 30 seconds, Start.  No check.
RequestRestart(c, p) ==
  /\ client[c].do = "idle"
  /\ IF state[p] \in {"RUNNING", "STARTING"}
       THEN Stop(p) /\ Become(c, "await", p)
       ELSE UNCHANGED procs /\ Become(c, "go", p)
  /\ Daemon

Await(c) ==
  /\ client[c].do = "await"
  /\ Become(c, "go", client[c].to)
  /\ UNCHANGED procs /\ Daemon

\* handleBulk, then startOne: check, start, check again.  bulkMu admits one.
RequestBulk(c, p) ==
  /\ client[c].do = "idle" /\ ~shutting /\ ~shutdownCh
  /\ \A d \in Clients : client[d].do \notin {"bulk", "bulkStart", "bulkCheck"}
  /\ Become(c, "bulk", p)
  /\ UNCHANGED procs /\ Daemon

startOne(c) ==
  /\ client[c].do = "bulk"
  /\ Become(c, IF ~shutdownCh /\ AtRest(state[client[c].to]) THEN "bulkStart" ELSE "idle",
            client[c].to)
  /\ UNCHANGED procs /\ Daemon

BulkStart(c) ==
  /\ client[c].do = "bulkStart"
  /\ Start(client[c].to, TRUE)
  /\ Become(c, "bulkCheck", client[c].to) /\ Daemon

\* Mutant of BulkCheck: shutdown is not looked at again.
BulkNoCheck(c) ==
  /\ client[c].do = "bulkCheck"
  /\ Become(c, "idle", client[c].to)
  /\ UNCHANGED procs /\ Daemon

BulkCheck(c) ==
  /\ client[c].do = "bulkCheck"
  /\ IF shutdownCh THEN Stop(client[c].to) ELSE UNCHANGED procs
  /\ Become(c, "idle", client[c].to) /\ Daemon

Serve(c) ==
  /\ phase # "exited"
  /\ \/ DoStart(c) \/ Await(c) \/ startOne(c) \/ BulkStart(c) \/ BulkCheck(c)
     \/ \E p \in Procs : \/ RequestStart(c, p) \/ RequestStop(c, p)
                         \/ RequestRestart(c, p) \/ RequestBulk(c, p)

-----------------------------------------------------------------------------
(***************************************************************************)
(* The main loop.                                                          *)
(***************************************************************************)

\* Shutdown(), or the flag that Run sets itself after a signal.
BeginShutdown ==
  /\ phase = "serve" /\ ~shutting
  /\ shutting' = TRUE
  /\ UNCHANGED <<procs, phase, todo, shutdownCh, client>>

\* StopAll closes shutdownCh, ...
BeginStopAll ==
  /\ phase = "serve" /\ shutting
  /\ phase' = "sort" /\ todo' = Procs
  /\ shutdownCh' = TRUE
  /\ UNCHANGED <<procs, shutting, client>>

\* ... takes a snapshot that sortByPriority orders, with p.Config() of each process, ...
SortNext(p) ==
  /\ phase = "sort" /\ p \in todo /\ Free(p)
  /\ todo' = todo \ {p}
  /\ UNCHANGED <<procs, phase, shutting, shutdownCh, client>>

\* ... and stops what is stoppable.
StopNext(p) ==
  /\ phase = "stopAll" /\ p \in todo
  /\ todo' = todo \ {p}
  /\ IF stoppable(state[p]) THEN Stop(p) ELSE UNCHANGED procs
  /\ UNCHANGED <<phase, shutting, shutdownCh, client>>

Go(from, to) == phase = from /\ phase' = to /\ UNCHANGED <<procs, shutting, shutdownCh, client>>

SortDone == todo = {} /\ Go("sort", "stopAll") /\ todo' = Procs

StopAllDone == todo = {} /\ Go("stopAll", "wait") /\ UNCHANGED todo

\* waitForShutdown: all stopped, or the time limit or a second signal.
WaitDone == allStopped /\ Go("wait", "done") /\ UNCHANGED todo

\* Mutant of GiveUp: neither the time limit nor a second signal is served while
\* something is still active.
GiveUpWhenStopped == allStopped /\ Go("wait", "kill") /\ todo' = Procs

GiveUp == Go("wait", "kill") /\ todo' = Procs

\* killRemaining
KillNext(p) ==
  /\ phase = "kill" /\ p \in todo
  /\ todo' = todo \ {p}
  /\ IF active(state[p]) THEN Free(p) /\ SendKill(p) ELSE UNCHANGED child
  /\ UNCHANGED <<state, restart, mu, late, bulkStart, phase, shutting, shutdownCh, client>>

KillDone  == todo = {} /\ Go("kill", "grace") /\ UNCHANGED todo
GraceDone == Go("grace", "done") /\ UNCHANGED todo

\* Run returns; the API server is stopped and the daemon exits.
Exit == Go("done", "exited") /\ UNCHANGED todo

MainLoop ==
  \/ BeginStopAll \/ SortDone \/ StopAllDone \/ WaitDone \/ GiveUp \/ KillDone \/ GraceDone \/ Exit
  \/ \E p \in Procs : SortNext(p) \/ StopNext(p) \/ KillNext(p)

Next ==
  \/ BeginShutdown
  \/ MainLoop
  \/ \E p \in Procs : ByItself(p) \/ ChildExit(p) \/ Reap(p)
  \/ \E c \in Clients : Serve(c)

Spec == Init /\ [][Next]_vars

(***************************************************************************)
(* The main loop keeps running and its time limits expire; it gets a p.mu  *)
(* that is released again and again (sync.Mutex hands it to whoever has    *)
(* waited for a millisecond).  A retry or a restart that holds p.mu        *)
(* finishes; nothing is assumed of a write.                                *)
(***************************************************************************)
FairSpec ==
  /\ Spec
  /\ SF_vars(MainLoop)
  /\ \A p \in Procs : WF_vars(ByItself(p) /\ mu[p] \in {"retry", "restart"})

-----------------------------------------------------------------------------
\* When the daemon goes away, every child it leaves behind has been sent
\* SIGKILL or is one that was started after shutdown had begun: StopAll, the
\* wait and killRemaining miss nothing else, whatever state it was in.
NoChildLeftBehind ==
  phase \in {"done", "exited"} => \A p \in Procs : child[p] = "alive" => late[p]

\* A bulk start that races with the beginning of shutdown undoes itself: its
\* process does not stay up behind StopAll's back.
BulkUndone ==
  \A p \in Procs :
    late[p] /\ bulkStart[p] /\ child[p] = "alive" =>
      \/ state[p] = "STOPPING"
      \/ \E c \in Clients : client[c] = [do |-> "bulkCheck", to |-> p]

\* The facts that carry these two through the phases: a child belongs to an
\* active process, what StopAll has visited is STOPPING, and what killRemaining
\* has visited is dead or dying.
Visited(p, loop, after) == (phase = loop /\ p \notin todo) \/ phase \in after

Progress ==
  /\ phase # "serve" => shutdownCh
  /\ \A p \in Procs :
       /\ child[p] # "none" => active(state[p])
       /\ mu[p] = "restart" => state[p] = "EXITED"
       /\ mu[p] = "retry" => state[p] = "BACKOFF"
       /\ late[p] => shutdownCh
       /\ Visited(p, "stopAll", {"wait"}) /\ child[p] = "alive" /\ ~late[p] =>
            state[p] = "STOPPING"
       /\ Visited(p, "kill", {"grace", "done", "exited"}) /\ child[p] = "alive" => late[p]

IndInv == TypeOK /\ Progress /\ BulkUndone

\* No write to the stdin of a child waits for ever with p.mu held.  That is up to the
\* child (the run shutdown_blocked shows what follows when it does not read).
WritesEnd == \A p \in Procs : []<>(mu[p] # "write")

\* Every shutdown ends, also if children ignore signals or requests keep coming, unless
\* a write to a child's stdin never ends: StopAll and killRemaining wait for p.mu.
ShutdownEnds == WritesEnd => (shutting ~> phase = "exited")
=============================================================================
