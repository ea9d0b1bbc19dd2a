------------------------------- MODULE Reload -------------------------------
(***************************************************************************)
(* A configuration reload: Supervisor.applyReload and Manager.ApplyReload  *)
(* (internal/supervisor/runloop.go, internal/process/reload.go), beside    *)
(* requests, exits, restarts, retries and shutdown.                        *)
(*                                                                         *)
(* A program has the settings that its children are spawned with and its   *)
(* autostart, which stands for the settings that are only consulted while  *)
(* a process is managed.  The spawn settings, numprocs and process_name    *)
(* among them, say which instances the program has.                        *)
(*                                                                         *)
(* A process is seen as its callers see it: RUNNING is STARTING or         *)
(* RUNNING, and STOPPED is STOPPED or FATAL.  Its lock p.mu may be held    *)
(* for longer than a step, by a retry or restart that has passed its check *)
(* or by a write to the child's stdin that waits.  Groups and log writers  *)
(* follow the processes and are left out.  Reloads exclude each other.     *)
(***************************************************************************)

CONSTANTS
  Progs,        \* names of programs
  Spawns,       \* spawn settings
  Names,        \* names of instances within a program
  InstancesOf,  \* the instances that spawn settings ask for
  Configs       \* the configurations that may be loaded

ProgramConfig == [spawn : Spawns, autostart : BOOLEAN]

ASSUME ReloadConstants ==
  /\ InstancesOf \in [Spawns -> SUBSET Names]
  /\ \A c \in Configs : DOMAIN c \subseteq Progs /\ \A p \in DOMAIN c : c[p] \in ProgramConfig

VARIABLES
  config,     \* s.config.Programs
  proc,       \* m.processes
  resuming,   \* processes whose p.mu a retry or restart holds that has passed its check
  writing,    \* processes whose p.mu WriteStdin holds
  shutdown,   \* m.shutdownCh is closed
  phase,      \* where applyReload is
  new,        \* newCfg.Programs
  todo,       \* the processes that the loop of this phase has still to visit
  checked,    \* the process that startProgram is about to start
  wasActive,  \* programs to be restarted that were active
  stuck,      \* programs of which a process did not stop
  detached    \* history: processes that were removed while they had a child or could get one

reload == <<phase, new, todo, checked, wasActive, stuck>>
locks  == <<resuming, writing>>
vars   == <<config, proc, locks, shutdown, reload, detached>>

Keys   == Progs \X Names
States == {"STOPPED", "RUNNING", "BACKOFF", "STOPPING", "EXITED"}
Phases == {"idle", "update", "survey", "retire", "stop", "wait", "remove", "start"}
Process == [state : States, retired : BOOLEAN, cfg : ProgramConfig]

\* Every variable has its type: a configuration or a process map names known
\* programs only, and the process about to be started is one still to be visited.
TypeOK ==
  /\ DOMAIN config \subseteq Progs /\ \A p \in DOMAIN config : config[p] \in ProgramConfig
  /\ DOMAIN proc \subseteq Keys /\ \A k \in DOMAIN proc : proc[k] \in Process
  /\ DOMAIN new \subseteq Progs /\ \A p \in DOMAIN new : new[p] \in ProgramConfig
  /\ resuming \subseteq Keys /\ writing \subseteq Keys
  /\ shutdown \in BOOLEAN /\ phase \in Phases
  /\ todo \subseteq Keys /\ checked \subseteq todo /\ detached \subseteq Keys
  /\ wasActive \subseteq Progs /\ stuck \subseteq Progs

AtRest(s)    == s \in {"STOPPED", "EXITED"}
stoppable(s) == s \in {"RUNNING", "BACKOFF"}

\* p.mu is free.
Free(k) == k \notin resuming \cup writing

\* ExpandNumprocs: the processes of configuration c.
Instances(c) == {k \in Keys : k[1] \in DOMAIN c /\ k[2] \in InstancesOf[c[k[1]].spawn]}

NewProcess(cfg) == [state |-> "STOPPED", retired |-> FALSE, cfg |-> cfg]

\* LoadConfig creates the processes that do not exist.
LoadConfig(c, procs) ==
  [k \in DOMAIN procs \cup Instances(c) |->
     IF k \in DOMAIN procs THEN procs[k] ELSE NewProcess(c[k[1]])]

Init ==
  /\ config \in Configs
  /\ proc = LoadConfig(config, [k \in {} |-> {}])
  /\ resuming = {} /\ writing = {} /\ shutdown = FALSE
  /\ phase = "idle" /\ new = config /\ todo = {} /\ checked = {}
  /\ wasActive = {} /\ stuck = {} /\ detached = {}

-----------------------------------------------------------------------------
(***************************************************************************)
(* What happens to a process.                                              *)
(***************************************************************************)
Spawned == {"RUNNING", "BACKOFF", "STOPPED"}

Become(k, S) == \E s \in S : proc' = [proc EXCEPT ![k].state = s]

\* Mutant of Stop: the transition leads to a state that the table does not have.
StopToUnknown(k) == proc' = [proc EXCEPT ![k].state = "UNKNOWN"]

Stop(k) ==
  proc' = [proc EXCEPT ![k].state = CASE @ = "RUNNING" -> "STOPPING"
                                      [] @ = "BACKOFF" -> "STOPPED"
                                      [] OTHER -> @]

RequestStart(k) ==
  Free(k) /\ ~proc[k].retired /\ AtRest(proc[k].state) /\ Become(k, Spawned) /\ UNCHANGED locks

RequestStop(k) == Free(k) /\ stoppable(proc[k].state) /\ Stop(k) /\ UNCHANGED locks

\* HandleExitStatus.  A stop may take arbitrarily long, or never end.
ChildExit(k) ==
  /\ Free(k)
  /\ \/ proc[k].state = "RUNNING"
          /\ Become(k, {"EXITED", "STOPPED"} \cup IF shutdown THEN {} ELSE {"BACKOFF"})
     \/ proc[k].state = "STOPPING" /\ Become(k, {"STOPPED"})
  /\ UNCHANGED locks

\* retryAfterBackoff, and restartAfterExit, which an exit may have left behind, check ...
RetryStop(k) ==
  /\ Free(k) /\ proc[k].state = "BACKOFF" /\ ~proc[k].retired /\ shutdown
  /\ Become(k, {"STOPPED"})
  /\ UNCHANGED locks

AutoCheck(k) ==
  /\ Free(k) /\ proc[k].state \in {"EXITED", "BACKOFF"} /\ ~proc[k].retired /\ ~shutdown
  /\ resuming' = resuming \cup {k}
  /\ UNCHANGED <<proc, writing>>

\* ... and start the process, with p.mu held in between.
Resume(k) ==
  /\ k \in resuming /\ resuming' = resuming \ {k}
  /\ Become(k, Spawned)
  /\ UNCHANGED writing

\* WriteStdin waits for the child to read; nothing limits the wait.
WriteStdin(k) ==
  /\ Free(k) /\ proc[k].state \in {"RUNNING", "STOPPING"}
  /\ writing' = writing \cup {k}
  /\ UNCHANGED <<proc, resuming>>

WriteEnd(k) ==
  /\ k \in writing /\ writing' = writing \ {k}
  /\ UNCHANGED <<proc, resuming>>

ProcessStep ==
  /\ \E k \in DOMAIN proc :
       \/ RequestStart(k) \/ RequestStop(k) \/ ChildExit(k) \/ RetryStop(k) \/ AutoCheck(k)
       \/ Resume(k) \/ WriteStdin(k) \/ WriteEnd(k)
  /\ UNCHANGED <<config, shutdown, reload, detached>>

\* StopAll closes the channel.  Supervisor.shutting was set some time before: no
\* reload has begun since.
Shutdown ==
  /\ ~shutdown
  /\ shutdown' = TRUE
  /\ UNCHANGED <<config, proc, locks, reload, detached>>

-----------------------------------------------------------------------------
(***************************************************************************)
(* applyReload.                                                            *)
(***************************************************************************)
\* Mutant of needsRestart: every change restarts the program.
needsRestartOnAnyChange(old, cfg) == old # cfg

needsRestart(old, cfg) == old.spawn # cfg.spawn

\* ConfigDiff, and the changed programs that ApplyReload restarts.
Added      == DOMAIN new \ DOMAIN config
Removed    == DOMAIN config \ DOMAIN new
Changed    == {p \in DOMAIN new \cap DOMAIN config : new[p] # config[p]}
Restarting == {p \in Changed : needsRestart(config[p], new[p])}
Retiring   == Removed \cup Restarting

KeysOf(P) == {k \in DOMAIN proc : k[1] \in P}

\* Refused once Supervisor.shutting is set, or if the file cannot be loaded.
BeginReload(c) ==
  /\ phase = "idle" /\ ~shutdown
  /\ new' = c
  /\ UNCHANGED <<config, proc, locks, shutdown, checked, detached>>
  /\ phase' = "update" /\ todo' = KeysOf(Changed \ Restarting)'
  /\ wasActive' = {} /\ stuck' = {}

\* One process of a loop.
Visit(k, loop) ==
  /\ phase = loop /\ k \in todo
  /\ todo' = todo \ {k}
  /\ UNCHANGED <<config, locks, shutdown, phase, new, checked, detached>>

\* updateInPlace
UpdateNext(k) ==
  /\ Visit(k, "update")
  /\ k \in Instances(new) => Free(k)
  /\ proc' = IF k \in Instances(new) THEN [proc EXCEPT ![k].cfg = new[k[1]]] ELSE proc
  /\ UNCHANGED <<wasActive, stuck>>

SurveyNext(k) ==
  /\ Visit(k, "survey")
  /\ wasActive' = IF stoppable(proc[k].state) THEN wasActive \cup {k[1]} ELSE wasActive
  /\ UNCHANGED <<proc, stuck>>

\* Mutant of RetireNext: processes are not retired before they are stopped.
RetireNextNot(k) ==
  /\ Visit(k, "retire")
  /\ UNCHANGED <<proc, wasActive, stuck>>

RetireNext(k) ==
  /\ Visit(k, "retire") /\ Free(k)
  /\ proc' = [proc EXCEPT ![k].retired = TRUE]
  /\ UNCHANGED <<wasActive, stuck>>

StopNext(k) ==
  /\ Visit(k, "stop")
  /\ IF stoppable(proc[k].state) THEN Free(k) /\ Stop(k) ELSE UNCHANGED proc
  /\ UNCHANGED <<wasActive, stuck>>

\* Mutant of WaitNext: the wait has no deadline.
WaitNextForEver(k) ==
  /\ AtRest(proc[k].state)
  /\ Visit(k, "wait")
  /\ UNCHANGED <<proc, wasActive, stuck>>

\* p.Config() and waitForStopped: it has stopped, or the time is over.
WaitNext(k) ==
  /\ Visit(k, "wait") /\ Free(k)
  /\ stuck' = IF AtRest(proc[k].state) THEN stuck ELSE stuck \cup {k[1]}
  /\ UNCHANGED <<proc, wasActive>>

\* The next loop.
Enter(from, to, P) ==
  /\ phase = from /\ todo = {}
  /\ phase' = to /\ todo' = KeysOf(P)
  /\ UNCHANGED <<config, proc, locks, shutdown, new, checked, wasActive, stuck, detached>>

EnterLoop ==
  \/ Enter("update", "survey", Restarting)
  \/ Enter("survey", "retire", Retiring)
  \/ Enter("retire", "stop", Retiring)
  \/ Enter("stop", "wait", Retiring)
  \/ Enter("wait", "remove", {})

\* removeProgram
RemoveNext(p) ==
  /\ phase = "remove" /\ p \in Retiring \ stuck /\ KeysOf({p}) # {}
  /\ proc' = [k \in DOMAIN proc \ KeysOf({p}) |-> proc[k]]
  /\ detached' = detached \cup
       {k \in KeysOf({p}) : ~(proc[k].retired /\ AtRest(proc[k].state))}
  /\ UNCHANGED <<config, locks, shutdown, reload>>

\* LoadConfig, and what is to be started then.
Load ==
  /\ phase = "remove" /\ KeysOf(Retiring \ stuck) = {}
  /\ proc' = LoadConfig(new, proc)
  /\ phase' = "start"
  /\ todo' = {k \in DOMAIN proc' : \/ k[1] \in (Restarting \cap wasActive) \ stuck
                                   \/ k[1] \in Added /\ proc'[k].cfg.autostart}
  /\ UNCHANGED <<config, locks, shutdown, new, checked, wasActive, stuck, detached>>

\* startProgram looks whether shutdown has begun, then starts the process.
StartCheck(k) ==
  /\ phase = "start" /\ k \in todo /\ checked = {}
  /\ IF shutdown THEN todo' = todo \ {k} /\ UNCHANGED checked
                 ELSE checked' = {k} /\ UNCHANGED todo
  /\ UNCHANGED <<config, proc, locks, shutdown, phase, new, wasActive, stuck, detached>>

StartNext(k) ==
  /\ phase = "start" /\ k \in checked /\ Free(k)
  /\ checked' = {} /\ todo' = todo \ {k}
  /\ IF ~proc[k].retired /\ AtRest(proc[k].state) THEN Become(k, Spawned) ELSE UNCHANGED proc
  /\ UNCHANGED <<config, locks, shutdown, phase, new, wasActive, stuck, detached>>

\* Mutant of Recorded: the new configuration is recorded for every program.
RecordedNew == new

\* Programs that did not stop keep their old configuration.
Recorded == [p \in DOMAIN new \cup (stuck \cap DOMAIN config) |->
               IF p \in stuck \cap DOMAIN config THEN config[p] ELSE new[p]]

Commit ==
  /\ phase = "start" /\ todo = {}
  /\ config' = Recorded /\ new' = Recorded
  /\ phase' = "idle" /\ wasActive' = {}
  /\ UNCHANGED <<proc, locks, shutdown, todo, checked, stuck, detached>>

Apply ==
  \/ EnterLoop \/ Load \/ Commit
  \/ \E k \in todo : \/ UpdateNext(k) \/ SurveyNext(k) \/ RetireNext(k) \/ StopNext(k)
                     \/ WaitNext(k) \/ StartCheck(k) \/ StartNext(k)
  \/ \E p \in Progs : RemoveNext(p)

Next == ProcessStep \/ Shutdown \/ Apply \/ \E c \in Configs : BeginReload(c)

Spec == Init /\ [][Next]_vars

\* The goroutine of the reload runs, its waits time out, and it gets a p.mu that is
\* released again and again; who has passed a check goes on.  Nothing is assumed of a write.
FairSpec ==
  /\ Spec /\ SF_vars(Apply)
  /\ \A k \in Keys : WF_vars(ProcessStep /\ k \in resuming \ resuming')

-----------------------------------------------------------------------------
\* A process that removeProgram has taken out of the manager has no child and can
\* never get one: nobody could stop it, and a new process of the same name would
\* run beside it.
NoneDetached == detached = {}

\* A process of program p has been retired and not been removed: it did not stop in time.
DidNotStop(p) == \E k \in DOMAIN proc : k[1] = p /\ proc[k].retired

\* The processes that configuration c asks for exist and have the settings of c.  Every
\* process is of a program of c, and is one of those that c asks for unless the program
\* did not stop: LoadConfig has then given it the further instances of its new settings.
InForce(c) ==
  /\ Instances(c) \subseteq DOMAIN proc
  /\ \A k \in Instances(c) : proc[k].cfg = c[k[1]]
  /\ \A k \in DOMAIN proc : k[1] \in DOMAIN c /\ (k \in Instances(c) \/ DidNotStop(k[1]))

\* Between reloads the recorded configuration is in force: the next reload's diff starts
\* from what is there, except for the added instances of a program that did not stop.
SettingsInForce == phase = "idle" => InForce(config)

\* A reload does not touch the processes of a program whose spawn settings stay
\* the same: it neither stops, retires, starts nor replaces them.
Untouched ==
  [][Apply => \A k \in DOMAIN proc :
       k[1] \in DOMAIN config \cap DOMAIN new /\ config[k[1]].spawn = new[k[1]].spawn =>
         /\ k \in DOMAIN proc'
         /\ proc'[k].state = proc[k].state /\ proc'[k].retired = proc[k].retired]_vars

\* No write to the stdin of a child waits for ever with p.mu held: that is up to the child.
WritesEnd == \A k \in Keys : []<>(k \notin writing)

\* Every reload ends, also if processes do not stop, unless a write to a child's stdin never
\* ends: Retire, Stop, UpdateConfig and Config wait for p.mu.
ReloadEnds == WritesEnd => (phase # "idle" ~> phase = "idle")

\* A program that did not stop is seen as changed or removed again by the next
\* reload (applyReload): once a reload has ended in which every program stopped,
\* no process is left retired, which could never be started again.
InService ==
  phase = "idle" /\ stuck = {} => \A k \in DOMAIN proc : ~proc[k].retired
=============================================================================
