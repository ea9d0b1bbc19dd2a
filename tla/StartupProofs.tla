--------------------------- MODULE StartupProofs ---------------------------
(***************************************************************************)
(* Theorems about Startup, for any number of daemons.                      *)
(***************************************************************************)
EXTENDS Startup, TLAPS

Before  == {"off", "pid", "stat", "dial", "remove", "bind"}
Serving == {"chmod", "tcp", "drop", "write", "autostart", "report", "running", "stop"}
Gone    == {"failed", "down", "dead"}

Types ==
  /\ pc \in [Daemons -> Before \cup {"listen"} \cup Serving \cup Gone]
  /\ open \subseteq Daemons
  /\ looked \in [Daemons -> Daemons \cup {Earlier, None}]
  /\ sock \in Daemons \cup {Earlier, None}
  /\ tcp \in Daemons \cup {None}

\* A listener is open only while its daemon serves; a socket file was made by binding; the
\* TCP address belongs to a daemon that is past binding it.
Owners ==
  /\ \A d \in open : pc[d] \in Serving
  /\ sock \in Daemons => pc[sock] \notin Before
  /\ tcp \in Daemons => pc[tcp] \in Serving \ {"chmod", "tcp"}

\* Without the race: who has bound the socket has it, hence only one has, and who serves
\* listens; the PID file, if there is to be one, is that daemon's from writing it to
\* removing it; and a socket file that was found dead stays so.
Control ==
  /\ \A d \in Daemons : pc[d] = "listen" => sock = d
  /\ \A d \in Daemons : pc[d] \in Serving => sock = d /\ d \in open
  /\ flag => \A d \in Daemons : pc[d] \in {"autostart", "report", "running"} => pidfile = d
  /\ \A d \in Daemons :
       pc[d] = "remove" /\ looked[d] \in Daemons => pc[looked[d]] \in Gone

ControlInv == Types /\ Owners /\ (raced \/ Control)

\* At first no daemon has been started.
LEMMA ControlInit == Init => ControlInv
BY StartupConstants, ZenonT(60) DEF Init, ControlInv, Types, Owners, Control, Before, Serving, Gone

\* The daemon d goes on without a change of the files.
LEMMA GoOn ==
  ASSUME ControlInv, NEW d \in Daemons, NEW to, pc' = [pc EXCEPT ![d] = to],
         UNCHANGED <<flag, files, looked, raced>>,
         \/ pc[d] \in Before /\ to \in {"pid", "stat", "dial", "bind", "failed"}
         \/ <<pc[d], to>> \in {<<"drop", "write">>, <<"autostart", "report">>, <<"report", "running">>}
  PROVE  ControlInv'
<1> USE DEF files
<1>1. Types'
  BY DEF ControlInv, Types, Before, Serving, Gone
<1>2. Owners'
  BY DEF ControlInv, Types, Owners, Before, Serving, Gone
<1>3. raced \/ Control'
  BY DEF ControlInv, Types, Owners, Control, Before, Serving, Gone
<1> QED BY <1>1, <1>2, <1>3 DEF ControlInv

\* Who serves answers, so a file without an answer was made by a daemon that is gone or
\* that is about to listen; after an error of its own the daemon has found nothing dead.
LEMMA DialKeeps ==
  ASSUME ControlInv, NEW d \in Daemons, DialSocket(d)
  PROVE  ControlInv'
<1> USE StartupConstants DEF DialSocket, Answers, Unheard, Go, Fail, files, report, history
<1>1. Types'
  BY DEF ControlInv, Types, Before, Serving, Gone
<1>2. Owners'
  BY DEF ControlInv, Types, Owners, Before, Serving, Gone
<1>3. raced' \/ Control'
  BY DEF ControlInv, Types, Owners, Control, Before, Serving, Gone
<1> QED BY <1>1, <1>2, <1>3 DEF ControlInv

\* Without the race the file that goes is the one found dead or belongs to nobody alive,
\* hence nobody has bound the socket.
LEMMA RemoveKeeps ==
  ASSUME ControlInv, NEW d \in Daemons, RemoveSocket(d)
  PROVE  ControlInv'
<1> USE StartupConstants DEF RemoveSocket, Go, Fail, files, report, history
<1>1. Types'
  BY DEF ControlInv, Types, Before, Serving, Gone
<1>2. Owners'
  BY DEF ControlInv, Types, Owners, Before, Serving, Gone
<1>3. ASSUME ~raced, ~(alive(sock) /\ sock # looked[d])
      PROVE  Control'
  <2>1. \A e \in Daemons : pc[e] \notin Serving \cup {"listen"}
    BY <1>3 DEF ControlInv, Types, Control, Serving, Gone, alive, Ended
  <2> QED
    BY <1>3, <2>1 DEF ControlInv, Types, Control, Before, Serving, Gone
<1>4. raced' = (raced \/ (alive(sock) /\ sock # looked[d]))
  BY DEF RemoveSocket
<1>5. raced' \/ Control'
  BY <1>3, <1>4, Zenon
<1> QED BY <1>1, <1>2, <1>5 DEF ControlInv

\* Where there is no socket file nobody has bound it.
LEMMA BindKeeps ==
  ASSUME ControlInv, NEW d \in Daemons, BindUnix(d)
  PROVE  ControlInv'
<1> USE StartupConstants DEF BindUnix, Go, Fail, files, report, history
<1>1. Types'
  BY DEF ControlInv, Types, Before, Serving, Gone
<1>2. Owners'
  BY DEF ControlInv, Types, Owners, Before, Serving, Gone
<1>3. raced' \/ Control'
  BY DEF ControlInv, Types, Owners, Control, Before, Serving, Gone
<1> QED BY <1>1, <1>2, <1>3 DEF ControlInv

\* Who listens has its file, unless there was a race.
LEMMA ListenKeeps ==
  ASSUME ControlInv, NEW d \in Daemons, ListenUnix(d)
  PROVE  ControlInv'
<1> USE StartupConstants DEF ListenUnix, Go, files, report, history
<1>1. Types'
  BY DEF ControlInv, Types, Before, Serving, Gone
<1>2. Owners'
  BY DEF ControlInv, Types, Owners, Before, Serving, Gone
<1>3. raced' \/ Control'
  BY DEF ControlInv, Types, Owners, Control, Before, Serving, Gone
<1> QED BY <1>1, <1>2, <1>3 DEF ControlInv

\* Without the race the new socket file is still there.
LEMMA ChmodKeeps ==
  ASSUME ControlInv, NEW d \in Daemons, ChmodSocket(d)
  PROVE  ControlInv'
<1> USE StartupConstants DEF ChmodSocket, CloseUnix, Go, Fail, files, report, history
<1>1. Types'
  BY DEF ControlInv, Types, Before, Serving, Gone
<1>2. Owners'
  BY DEF ControlInv, Types, Owners, Before, Serving, Gone
<1>3. raced' \/ Control'
  BY DEF ControlInv, Types, Owners, Control, Before, Serving, Gone
<1> QED BY <1>1, <1>2, <1>3 DEF ControlInv

\* A daemon that fails here leaves its file without a listener.
LEMMA TCPKeeps ==
  ASSUME ControlInv, NEW d \in Daemons, StartTCP(d)
  PROVE  ControlInv'
<1> USE StartupConstants DEF StartTCP, Go, Fail, files, report, history
<1>1. Types'
  BY DEF ControlInv, Types, Before, Serving, Gone
<1>2. Owners'
  BY DEF ControlInv, Types, Owners, Before, Serving, Gone
<1>3. raced' \/ Control'
  BY DEF ControlInv, Types, Owners, Control, Before, Serving, Gone
<1> QED BY <1>1, <1>2, <1>3 DEF ControlInv

\* No other daemon serves, so no other one has the PID file.
LEMMA WriteKeeps ==
  ASSUME ControlInv, NEW d \in Daemons, WritePIDFile(d)
  PROVE  ControlInv'
<1> USE StartupConstants DEF WritePIDFile, Go, files, report, history
<1>1. Types'
  BY DEF ControlInv, Types, Before, Serving, Gone
<1>2. Owners'
  BY DEF ControlInv, Types, Owners, Before, Serving, Gone
<1>3. raced' \/ Control'
  BY DEF ControlInv, Types, Owners, Control, Before, Serving, Gone
<1> QED BY <1>1, <1>2, <1>3 DEF ControlInv

\* A daemon that fails before Stop is deferred leaves its file; later it takes its own away.
LEMMA ErrorKeeps ==
  ASSUME ControlInv, NEW d \in Daemons, SystemError(d)
  PROVE  ControlInv'
<1> USE StartupConstants DEF SystemError, StopServer, CloseUnix, Fail, files, report, history
<1>1. Types'
  BY DEF ControlInv, Types, Before, Serving, Gone
<1>2. Owners'
  BY DEF ControlInv, Types, Owners, Before, Serving, Gone
<1>3. raced' \/ Control'
  BY DEF ControlInv, Types, Owners, Control, Before, Serving, Gone
<1> QED BY <1>1, <1>2, <1>3 DEF ControlInv

\* The PID file that Run removes is its own.
LEMMA RemovePIDFileKeeps ==
  ASSUME ControlInv, NEW d \in Daemons, RemovePIDFile(d)
  PROVE  ControlInv'
<1> USE StartupConstants DEF RemovePIDFile, Go, files, report, history
<1>1. Types'
  BY DEF ControlInv, Types, Before, Serving, Gone
<1>2. Owners'
  BY DEF ControlInv, Types, Owners, Before, Serving, Gone
<1>3. raced' \/ Control'
  BY DEF ControlInv, Types, Owners, Control, Before, Serving, Gone
<1> QED BY <1>1, <1>2, <1>3 DEF ControlInv

\* The socket file that Stop unlinks is its own.
LEMMA StopKeeps ==
  ASSUME ControlInv, NEW d \in Daemons, Stop(d)
  PROVE  ControlInv'
<1> USE StartupConstants DEF Stop, StopServer, CloseUnix, Go, files, report, history
<1>1. Types'
  BY DEF ControlInv, Types, Before, Serving, Gone
<1>2. Owners'
  BY DEF ControlInv, Types, Owners, Before, Serving, Gone
<1>3. raced' \/ Control'
  BY DEF ControlInv, Types, Owners, Control, Before, Serving, Gone
<1> QED BY <1>1, <1>2, <1>3 DEF ControlInv

\* A daemon that is killed takes only its own listeners along.
LEMMA CrashKeeps ==
  ASSUME ControlInv, NEW d \in Daemons, Crash(d)
  PROVE  ControlInv'
<1> USE StartupConstants DEF Crash, alive, Ended, files, report, history
<1>1. Types'
  BY DEF ControlInv, Types, Before, Serving, Gone
<1>2. Owners'
  BY DEF ControlInv, Types, Owners, Before, Serving, Gone
<1>3. raced' \/ Control'
  BY DEF ControlInv, Types, Owners, Control, Before, Serving, Gone
<1> QED BY <1>1, <1>2, <1>3 DEF ControlInv

\* One case per action of a daemon and of the process that waits for it.
LEMMA ControlStep == ControlInv /\ [Next]_vars => ControlInv'
<1> SUFFICES ASSUME ControlInv, [Next]_vars PROVE ControlInv'
  OBVIOUS
<1>1. CASE UNCHANGED vars
  BY <1>1 DEF ControlInv, Types, Owners, Control, vars, files, history
<1>2. CASE Next
  <2> PICK d \in Daemons :
        \/ Start(d) \/ StartInBackground(d) \/ Step(d) \/ SystemError(d)
        \/ RemovePIDFile(d) \/ Crash(d) \/ ParentAnswers(d)
    BY <1>2 DEF Next
  <2> USE DEF files, report, history
  <2>1. CASE Start(d) \/ StartInBackground(d)
    BY <2>1, GoOn DEF Start, StartInBackground, Begin, Go, Before
  <2>2. CASE CheckPIDFile(d)
    BY <2>2, GoOn DEF CheckPIDFile, Go, Fail, Before
  <2>3. CASE StatSocket(d)
    BY <2>3, GoOn DEF StatSocket, Go, Before
  <2>4. CASE DialSocket(d) \/ RemoveSocket(d) \/ BindUnix(d) \/ ListenUnix(d) \/ ChmodSocket(d)
    BY <2>4, DialKeeps, RemoveKeeps, BindKeeps, ListenKeeps, ChmodKeeps
  <2>5. CASE StartTCP(d) \/ WritePIDFile(d) \/ SystemError(d)
    BY <2>5, TCPKeeps, WriteKeeps, ErrorKeeps
  <2>6. CASE RemovePIDFile(d) \/ Stop(d) \/ Crash(d)
    BY <2>6, RemovePIDFileKeeps, StopKeeps, CrashKeeps
  <2>7. CASE DropPrivileges(d)
    BY <2>7, GoOn DEF DropPrivileges, Go
  <2>8. CASE Autostart(d)
    BY <2>8, GoOn DEF Autostart, Go
  <2>9. CASE OnRunning(d)
    BY <2>9, GoOn DEF OnRunning, Go
  <2>10. CASE ParentAnswers(d)
    BY <2>10 DEF ParentAnswers, ControlInv, Types, Owners, Control
  <2> QED
    BY <2>1, <2>2, <2>3, <2>4, <2>5, <2>6, <2>7, <2>8, <2>9, <2>10 DEF Step
<1> QED BY <1>1, <1>2

\* Whatever number of daemons are started, fail, stop or are killed with one configuration:
\* the one that runs keeps its control socket and its PID file, unless the socket file of a
\* daemon that is alive was removed by one that had not found that file dead: after a
\* failed connection, before listen, or by name in place of another (removeStaleSocket).
THEOREM ControlAlwaysKept == Spec => []ControlKept
<1>1. ControlInv => ControlKept
  BY DEF ControlInv, Control, Serving, ControlKept
<1> QED BY <1>1, ControlInit, ControlStep, PTL DEF Spec

-----------------------------------------------------------------------------
\* Beside the last daemon started no other one is alive, unless one was since; then the
\* socket file is what its own steps have made of it.
Alone ==
  alone \in Daemons =>
    /\ pc[alone] # "off"
    /\ \A e \in Daemons \ {alone} : pc[e] \in Ended
    /\ pc[alone] \in {"dial", "remove"} => sock # None
    /\ pc[alone] = "bind" => sock = None
    /\ pc[alone] \in {"listen", "chmod"} => sock = alone
    /\ pc[alone] = "failed" => alone \in fault

\* Nobody but a daemon that is alive can be in its way.
LEMMA NobodyElse ==
  ASSUME ControlInv, Alone, alone \in Daemons
  PROVE  /\ \A e \in Daemons : alive(e) => e = alone
         /\ \A e \in open : e = alone /\ pc[e] \in Serving
         /\ tcp # None => tcp = alone /\ pc[alone] \in Serving \ {"chmod", "tcp"}
BY DEF ControlInv, Types, Owners, Alone, alive, Ended, Before, Serving, Gone

\* The next daemon is alone if all the others have ended.
LEMMA BeginAlone ==
  ASSUME ControlInv, Alone, NEW d \in Daemons, Begin(d)
  PROVE  Alone'
BY StartupConstants DEF Begin, Go, Alone, alive, Ended, ControlInv, Types

\* A daemon that has not ended is the one that is alone, and nothing makes it fail.
LEMMA StepAlone ==
  ASSUME ControlInv, Alone, NEW d \in Daemons,
         Step(d) \/ SystemError(d) \/ RemovePIDFile(d) \/ Crash(d)
  PROVE  Alone'
<1> SUFFICES ASSUME alone' \in Daemons PROVE Alone'
  BY DEF Alone
<1> USE StartupConstants DEF files, report, history
<1>1. alone' = alone
  BY DEF Step, CheckPIDFile, StatSocket, DialSocket, RemoveSocket, BindUnix, ListenUnix, ChmodSocket,
    StartTCP, DropPrivileges, WritePIDFile, Autostart, OnRunning, Stop, SystemError,
    RemovePIDFile, Crash
<1>2. pc[d] \notin Ended
  BY DEF Step, CheckPIDFile, StatSocket, DialSocket, RemoveSocket, BindUnix, ListenUnix, ChmodSocket,
    StartTCP, DropPrivileges, WritePIDFile, Autostart, OnRunning, Stop, SystemError,
    RemovePIDFile, Crash, Go, Ended, alive
<1>3. d = alone
  BY <1>1, <1>2 DEF Alone
<1> USE <1>1, <1>3, NobodyElse DEF ControlInv, Types, Alone, Ended
<1>4. CASE CheckPIDFile(d)
  BY <1>4 DEF CheckPIDFile, Refused, alive, Go, Fail
<1>5. CASE StatSocket(d)
  BY <1>5 DEF StatSocket, Go
<1>6. CASE DialSocket(d)
  BY <1>6 DEF DialSocket, Answers, Go, Fail, Serving
<1>7. CASE RemoveSocket(d)
  BY <1>7 DEF RemoveSocket, Go, Fail
<1>8. CASE BindUnix(d) \/ ListenUnix(d)
  BY <1>8 DEF BindUnix, ListenUnix, Go, Fail
<1>9. CASE ChmodSocket(d)
  BY <1>9 DEF ChmodSocket, CloseUnix, Go, Fail
<1>10. CASE StartTCP(d)
  BY <1>10 DEF StartTCP, Go, Fail
<1>11. CASE DropPrivileges(d) \/ WritePIDFile(d) \/ Autostart(d) \/ OnRunning(d)
  BY <1>11 DEF DropPrivileges, WritePIDFile, Autostart, OnRunning, Go
<1>12. CASE Stop(d) \/ RemovePIDFile(d)
  BY <1>12 DEF Stop, StopServer, CloseUnix, RemovePIDFile, Go
<1>13. CASE SystemError(d)
  BY <1>13 DEF SystemError, Fail
<1>14. CASE Crash(d)
  BY <1>14 DEF Crash
<1> QED
  BY <1>4, <1>5, <1>6, <1>7, <1>8, <1>9, <1>10, <1>11, <1>12, <1>13, <1>14 DEF Step

\* However many daemons were killed before and whatever they left behind: a daemon that no
\* other one is alive beside starts, unless the system refuses it something (CheckPIDFile,
\* removeStaleSocket, StartUnix, StartTCP).
THEOREM LeftoversAlwaysHarmless == Spec => []LeftoversHarmless
<1>1. Init => Alone
  BY StartupConstants DEF Init, Alone
<1>2. ControlInv /\ Alone /\ [Next]_vars => Alone'
  <2> SUFFICES ASSUME ControlInv, Alone, [Next]_vars PROVE Alone'
    OBVIOUS
  <2>1. CASE UNCHANGED vars
    BY <2>1 DEF Alone, vars, files, history
  <2>2. ASSUME NEW d \in Daemons, Start(d) \/ StartInBackground(d)
        PROVE  Alone'
    BY <2>2, BeginAlone DEF Start, StartInBackground
  <2>3. ASSUME NEW d \in Daemons, ParentAnswers(d)
        PROVE  Alone'
    BY <2>3 DEF ParentAnswers, Alone, files, history
  <2> QED BY <2>1, <2>2, <2>3, StepAlone DEF Next
<1>3. Alone => LeftoversHarmless
  BY DEF Alone, LeftoversHarmless
<1> QED BY <1>1, <1>2, <1>3, ControlInit, ControlStep, PTL DEF Spec
=============================================================================
