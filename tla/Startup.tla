------------------------------ MODULE Startup ------------------------------
(***************************************************************************)
(* Daemons that are started, stopped and killed with one configuration:    *)
(* one PID file, one control socket, one TCP address (cmd/kahi/daemon.go,  *)
(* cmd/kahi/daemonize.go, internal/supervisor/daemon.go, and StartUnix,    *)
(* StartTCP and Stop of internal/api/api.go).                              *)
(*                                                                         *)
(* A daemon stands for one process and its PID, which is not used again.   *)
(* What it does before CheckPIDFile (the configuration, the log, the       *)
(* directory of the socket) concerns itself only and is one fault.         *)
(***************************************************************************)
EXTENDS Naturals

CONSTANTS
  Daemons,  \* the processes that run daemonRun
  Earlier,  \* a daemon that has ended before, perhaps without removing its files
  None

ASSUME StartupConstants == Earlier # None /\ {Earlier, None} \cap Daemons = {}

VARIABLES
  http,     \* [server.http] enabled
  flag,     \* --pidfile is given
  pc,       \* where a daemon is; failed, down and dead have ended
  pidfile,  \* the daemon that the PID file names
  sock,     \* the daemon that made the socket file
  open,     \* the daemons whose Unix listener is open
  tcp,      \* the daemon that has the TCP address
  looked,   \* the socket file that a daemon found dead: nobody listens to it any more
  parent,   \* the foreground process of -d: none, waiting, or its answer
  told,     \* what was written into its pipe
  holders,  \* who has the pipe open for writing
  fault,    \* history: daemons that met an error of the system
  alone,    \* history: the last daemon started, if no other one has been alive since
  raced     \* history: a daemon removed the socket file, not found dead, of one that is alive

files   == <<pidfile, sock, open, tcp>>
report  == <<parent, told, holders>>
history == <<fault, alone, raced>>
vars    == <<http, flag, pc, files, looked, report, history>>

Ended == {"off", "failed", "down", "dead"}
alive(d) == d \in Daemons /\ pc[d] \notin Ended

Init ==
  /\ pc = [d \in Daemons |-> "off"]
  /\ http \in BOOLEAN /\ flag \in BOOLEAN
  /\ pidfile \in (IF flag THEN {Earlier, None} ELSE {None}) /\ sock \in {Earlier, None}
  /\ open = {} /\ tcp = None
  /\ looked = [d \in Daemons |-> None]
  /\ parent = [d \in Daemons |-> "none"] /\ told = [d \in Daemons |-> ""]
  /\ holders = [d \in Daemons |-> {}]
  /\ fault = {} /\ alone = None /\ raced = FALSE

Go(d, from, to) == pc[d] = from /\ pc' = [pc EXCEPT ![d] = to] /\ UNCHANGED <<http, flag>>

\* daemonRun returns an error: it is reported, and the process ends.
Fail(d) ==
  /\ pc' = [pc EXCEPT ![d] = "failed"]
  /\ told' = [told EXCEPT ![d] = IF "daemon" \in holders[d] THEN "error" ELSE @]
  /\ holders' = [holders EXCEPT ![d] = @ \ {"daemon"}]
  /\ UNCHANGED <<http, flag, parent>>

-----------------------------------------------------------------------------
(***************************************************************************)
(* daemonRun.                                                              *)
(***************************************************************************)
\* Mutant of Refused: a PID file is taken for a running daemon.
RefusedAlways(d) == pidfile \notin {None, d}

\* CheckPIDFile: the file, if one is configured, names another process that is alive.
Refused(d) == pidfile \notin {None, d} /\ alive(pidfile)

Begin(d) ==
  /\ Go(d, "off", "pid")
  /\ alone' = IF \E e \in Daemons : alive(e) THEN None ELSE d
  /\ UNCHANGED <<files, looked, told, fault, raced>>

Start(d) == Begin(d) /\ UNCHANGED <<parent, holders>>

\* daemonize, after the same checks: the child is d, this process waits at the pipe.
StartInBackground(d) ==
  /\ ~Refused(d) /\ Begin(d)
  /\ parent' = [parent EXCEPT ![d] = "waiting"]
  /\ holders' = [holders EXCEPT ![d] = {"daemon"}]

CheckPIDFile(d) ==
  /\ pc[d] = "pid"
  /\ \/ Refused(d) /\ Fail(d)
     \/ ~Refused(d) /\ Go(d, "pid", "stat") /\ UNCHANGED report
  /\ UNCHANGED <<files, looked, history>>

\* removeStaleSocket: stat ...
StatSocket(d) ==
  /\ Go(d, "stat", IF sock = None THEN "bind" ELSE "dial")
  /\ UNCHANGED <<files, looked, report, history>>

\* Mutant of Answers: the socket file is removed without a connection.
NeverAnswers == FALSE

Answers == sock \in open

\* The file is bound, and not yet listened to.
Unheard == sock \in Daemons /\ pc[sock] = "listen"

\* ... connect, where any error, also no answer in time, counts as a file left behind ...
DialSocket(d) ==
  /\ pc[d] = "dial"
  /\ \/ Answers /\ Fail(d) /\ UNCHANGED looked
     \/ ~Answers /\ Go(d, "dial", "remove") /\ UNCHANGED report
          /\ looked' = [looked EXCEPT ![d] = IF Unheard THEN None ELSE sock]
     \/ Go(d, "dial", "remove") /\ UNCHANGED report /\ looked' = [looked EXCEPT ![d] = None]
  /\ UNCHANGED <<files, history>>

\* ... and remove whatever file has the name by now.
RemoveSocket(d) ==
  /\ pc[d] = "remove"
  /\ IF sock = None THEN Fail(d) ELSE Go(d, "remove", "bind") /\ UNCHANGED report
  /\ sock' = None /\ raced' = (raced \/ (alive(sock) /\ sock # looked[d]))
  /\ UNCHANGED <<pidfile, open, tcp, looked, fault, alone>>

\* ListenUnix makes the file or finds that there is one, ...
BindUnix(d) ==
  /\ pc[d] = "bind"
  /\ \/ sock # None /\ Fail(d) /\ UNCHANGED sock
     \/ sock = None /\ Go(d, "bind", "listen") /\ sock' = d /\ UNCHANGED report
  /\ UNCHANGED <<pidfile, open, tcp, looked, history>>

\* ... and then listens, whether or not the file still has its name.
ListenUnix(d) ==
  /\ Go(d, "listen", "chmod") /\ open' = open \cup {d}
  /\ UNCHANGED <<pidfile, sock, tcp, looked, report, history>>

\* Closing a Unix listener unlinks the file with its name.
CloseUnix(d) == sock' = None /\ open' = open \ {d}

ChmodSocket(d) ==
  /\ pc[d] = "chmod"
  /\ \/ sock # None /\ Go(d, "chmod", "tcp") /\ UNCHANGED <<sock, open, report>>
     \/ sock = None /\ Fail(d) /\ CloseUnix(d)
  /\ UNCHANGED <<pidfile, tcp, looked, history>>

\* StartTCP.  Stop is deferred only after it: if it fails, the socket file stays.
StartTCP(d) ==
  /\ pc[d] = "tcp"
  /\ \/ ~http /\ Go(d, "tcp", "drop") /\ UNCHANGED <<tcp, open, report>>
     \/ http /\ tcp = None /\ Go(d, "tcp", "drop") /\ tcp' = d /\ UNCHANGED <<open, report>>
     \/ http /\ tcp # None /\ Fail(d) /\ open' = open \ {d} /\ UNCHANGED tcp
  /\ UNCHANGED <<pidfile, sock, looked, history>>

\* Stop closes both listeners.
StopServer(d) == CloseUnix(d) /\ tcp' = IF tcp = d THEN None ELSE tcp

\* DropPrivileges, and then WritePIDFile in Run.
DropPrivileges(d) ==
  /\ Go(d, "drop", "write")
  /\ UNCHANGED <<files, looked, report, history>>

WritePIDFile(d) ==
  /\ Go(d, "write", "autostart") /\ pidfile' = IF flag THEN d ELSE None
  /\ UNCHANGED <<sock, open, tcp, looked, report, history>>

\* What the system may refuse: the log or the PID file; stat, or a file that is no socket;
\* remove; bind; listen; chmod, after which the listener is closed; the TCP address, which
\* a stranger has; the user; the PID file.  Only an error after StartTCP runs Stop.
SystemError(d) ==
  /\ Fail(d)
  /\ \/ pc[d] \in {"pid", "stat", "remove", "bind", "listen"} /\ UNCHANGED <<sock, open, tcp>>
     \/ pc[d] = "chmod" /\ CloseUnix(d) /\ UNCHANGED tcp
     \/ pc[d] = "tcp" /\ http /\ open' = open \ {d} /\ UNCHANGED <<sock, tcp>>
     \/ pc[d] \in {"drop", "write"} /\ StopServer(d)
  /\ fault' = fault \cup {d}
  /\ UNCHANGED <<pidfile, looked, alone, raced>>

\* Mutant of Inherited: the pipe has no close-on-exec flag.
InheritedByAll == {"process"}

\* daemonChildReport sets close-on-exec: no process that is started keeps the pipe.
Inherited == {}

\* AutostartAll, the first processes.
Autostart(d) ==
  /\ Go(d, "autostart", "report")
  /\ holders' = [holders EXCEPT ![d] = @ \cup IF parent[d] = "none" THEN {} ELSE Inherited]
  /\ UNCHANGED <<files, looked, parent, told, history>>

OnRunning(d) ==
  /\ Go(d, "report", "running")
  /\ told' = [told EXCEPT ![d] = IF "daemon" \in holders[d] THEN "ok" ELSE @]
  /\ holders' = [holders EXCEPT ![d] = @ \ {"daemon"}]
  /\ UNCHANGED <<files, looked, parent, history>>

\* The end of Run removes the PID file, whatever it says, and then Stop follows.
RemovePIDFile(d) ==
  /\ Go(d, "running", "stop") /\ pidfile' = None
  /\ UNCHANGED <<sock, open, tcp, looked, report, history>>

Stop(d) ==
  /\ Go(d, "stop", "down") /\ StopServer(d)
  /\ UNCHANGED <<pidfile, looked, report, history>>

\* external: the daemon is killed; its files stay.
Crash(d) ==
  /\ alive(d) /\ pc' = [pc EXCEPT ![d] = "dead"]
  /\ open' = open \ {d} /\ tcp' = IF tcp = d THEN None ELSE tcp
  /\ holders' = [holders EXCEPT ![d] = @ \ {"daemon"}]
  /\ fault' = fault \cup {d}
  /\ UNCHANGED <<http, flag, pidfile, sock, looked, parent, told, alone, raced>>

\* The foreground process of -d reads until nobody has the pipe open.
ParentAnswers(d) ==
  /\ parent[d] = "waiting" /\ holders[d] = {}
  /\ parent' = [parent EXCEPT ![d] = IF told[d] = "ok" THEN "started" ELSE "failed"]
  /\ UNCHANGED <<http, flag, pc, files, looked, told, holders, history>>

Step(d) ==
  \/ CheckPIDFile(d) \/ StatSocket(d) \/ DialSocket(d) \/ RemoveSocket(d)
  \/ BindUnix(d) \/ ListenUnix(d) \/ ChmodSocket(d) \/ StartTCP(d) \/ DropPrivileges(d)
  \/ WritePIDFile(d) \/ Autostart(d) \/ OnRunning(d) \/ Stop(d)

Next ==
  \E d \in Daemons :
    \/ Start(d) \/ StartInBackground(d) \/ Step(d) \/ SystemError(d) \/ RemovePIDFile(d)
    \/ Crash(d) \/ ParentAnswers(d)

Spec == Init /\ [][Next]_vars

\* A daemon goes on until it runs, and the process that waits for it reads the pipe.
FairSpec == Spec /\ \A d \in Daemons : WF_vars(Step(d)) /\ WF_vars(ParentAnswers(d))

-----------------------------------------------------------------------------
\* A daemon that runs can be reached at its socket and is named by the PID file, whatever
\* other daemons are started, fail, stop or are killed (removeStaleSocket, CheckPIDFile).
\* What it does not survive is a removal by a daemon that did not find this very file
\* dead, of which there are three: the connection failed though somebody listens; the file
\* was bound and not yet listened to; another file was found dead, and this one has been
\* put in its place before the removal by name.
ControlKept ==
  \A d \in Daemons :
    pc[d] = "running" => raced \/ (sock = d /\ d \in open /\ (flag => pidfile = d))

\* What killed daemons leave behind, a PID file or a socket file, keeps no daemon from
\* starting: one that no other daemon was alive beside fails only if the system refuses
\* something (CheckPIDFile, removeStaleSocket).
LeftoversHarmless == \A d \in Daemons : pc[d] = "failed" /\ alone = d => d \in fault

\* `kahi daemon -d` returns, and says that the daemon started only if it did, its sockets
\* bound, the PID file written and the processes started: the pipe is closed by every way
\* in which the daemon can go on or end (daemonRun's defer, OnRunning, close-on-exec), and
\* "ok" is not written before.
ParentReturns ==
  \A d \in Daemons :
    parent[d] = "waiting" ~>
      \/ parent[d] = "failed" /\ pc[d] \in {"failed", "dead"}
      \/ parent[d] = "started" /\ pc[d] \in {"running", "stop", "down", "dead"}
=============================================================================
