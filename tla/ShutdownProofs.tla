--------------------------- MODULE ShutdownProofs ---------------------------
(***************************************************************************)
(* Proofs about Shutdown, for any number of processes and requests.        *)
(***************************************************************************)
EXTENDS Shutdown, TLAPS

\* Type correctness is kept step by step with the rest of the invariant.
LEMMA InitInv == Init => IndInv
<1> SUFFICES ASSUME Init PROVE IndInv
  OBVIOUS
<1>1. TypeOK
  BY DEF Init, TypeOK, States, Phases, Steps
<1>2. Progress
  BY DEF Init, Progress, Visited, active
<1>3. BulkUndone
  BY DEF Init, BulkUndone
<1> QED BY <1>1, <1>2, <1>3 DEF IndInv

-----------------------------------------------------------------------------
(***************************************************************************)
(* Types.                                                                  *)
(***************************************************************************)
LEMMA SpawnType ==
  ASSUME TypeOK, NEW p \in Procs, NEW bulk \in BOOLEAN, Spawn(p, bulk)
  PROVE  /\ state' \in [Procs -> States]
         /\ child' \in [Procs -> {"none", "alive", "killed", "zombie"}]
         /\ late' \in [Procs -> BOOLEAN] /\ bulkStart' \in [Procs -> BOOLEAN]
  BY DEF TypeOK, Spawn, States

LEMMA StartType ==
  ASSUME TypeOK, NEW p \in Procs, NEW bulk \in BOOLEAN, Start(p, bulk)
  PROVE  /\ state' \in [Procs -> States]
         /\ child' \in [Procs -> {"none", "alive", "killed", "zombie"}]
         /\ late' \in [Procs -> BOOLEAN] /\ bulkStart' \in [Procs -> BOOLEAN]
  BY SpawnType DEF TypeOK, Start

LEMMA StopType ==
  ASSUME TypeOK, NEW p \in Procs, Stop(p)
  PROVE  state' \in [Procs -> States]
  BY DEF TypeOK, Stop, States

LEMMA BecomeType ==
  ASSUME TypeOK, NEW c \in Clients, NEW p \in Procs, NEW step \in Steps, Become(c, step, p)
  PROVE  client' \in [Clients -> [do : Steps, to : Procs]]
  BY DEF TypeOK, Become

\* Reaping forgets the child of one process, and may move it and queue its restart.
LEMMA ReapEffect ==
  ASSUME TypeOK, NEW p \in Procs, Reap(p)
  PROVE  /\ \E s \in States : state' = [state EXCEPT ![p] = s]
         /\ child' = [child EXCEPT ![p] = "none"]
         /\ restart' \in [Procs -> BOOLEAN]
         /\ late' = [late EXCEPT ![p] = FALSE] /\ bulkStart' = [bulkStart EXCEPT ![p] = FALSE]
         /\ UNCHANGED <<mu, phase, todo, shutting, shutdownCh, client>>
<1>1. /\ child' = [child EXCEPT ![p] = "none"]
      /\ late' = [late EXCEPT ![p] = FALSE] /\ bulkStart' = [bulkStart EXCEPT ![p] = FALSE]
      /\ UNCHANGED <<mu, phase, todo, shutting, shutdownCh, client>>
  BY DEF Reap, Rest
<1>2. restart' \in [Procs -> BOOLEAN]
  <2>1. CASE UNCHANGED restart
    BY <2>1 DEF TypeOK
  <2>2. ASSUME NEW r \in BOOLEAN, restart' = [restart EXCEPT ![p] = r]
        PROVE  restart' \in [Procs -> BOOLEAN]
    BY <2>2 DEF TypeOK
  <2>3. UNCHANGED restart \/ \E r \in BOOLEAN : restart' = [restart EXCEPT ![p] = r]
    BY DEF Reap
  <2> QED BY <2>1, <2>2, <2>3
<1>3. \E s \in States : state' = [state EXCEPT ![p] = s]
  BY DEF Reap, States
<1> QED BY <1>1, <1>2, <1>3

LEMMA TypeByItself ==
  ASSUME TypeOK, NEW p \in Procs, ByItself(p) \/ ChildExit(p) \/ Reap(p) PROVE TypeOK'
<1> USE DEF TypeOK, Rest
<1>1. CASE ProcessStarted(p)
  BY <1>1 DEF ProcessStarted, States
<1>2. CASE ChildExit(p)
  BY <1>2 DEF ChildExit
<1>3. CASE Escalate(p)
  BY <1>3 DEF Escalate, SendKill
<1>4. CASE RetryStop(p) \/ RetryCheck(p)
  BY <1>4 DEF RetryStop, RetryCheck, States
<1>5. CASE RestartDrop(p) \/ RestartCheck(p) \/ WriteStdin(p) \/ WriteEnd(p)
  BY <1>5 DEF RestartDrop, RestartCheck, WriteStdin, WriteEnd
<1>6. CASE Resume(p)
  BY <1>6, SpawnType DEF Resume
<1>7. CASE Reap(p)
  <2>1. PICK s \in States : state' = [state EXCEPT ![p] = s]
    BY <1>7, ReapEffect
  <2>2. state' \in [Procs -> States]
    BY <2>1
  <2>3. child' \in [Procs -> {"none", "alive", "killed", "zombie"}]
    BY <1>7, ReapEffect
  <2>4. late' \in [Procs -> BOOLEAN] /\ bulkStart' \in [Procs -> BOOLEAN]
    BY <1>7, ReapEffect
  <2> QED BY <1>7, <2>2, <2>3, <2>4, ReapEffect
<1> QED BY <1>1, <1>2, <1>3, <1>4, <1>5, <1>6, <1>7 DEF ByItself

LEMMA TypeServe == ASSUME TypeOK, NEW c \in Clients, Serve(c) PROVE TypeOK'
<1> USE DEF Daemon, procs
<1>0. client[c].to \in Procs /\ {"idle", "start", "await", "go", "bulk", "bulkStart", "bulkCheck"} \subseteq Steps
  BY DEF TypeOK, Steps
<1>1. CASE DoStart(c)
  BY <1>0, <1>1, StartType, BecomeType DEF TypeOK, DoStart, Start
<1>2. CASE Await(c)
  BY <1>0, <1>2, BecomeType DEF TypeOK, Await
<1>3. CASE startOne(c)
  BY <1>0, <1>3, BecomeType DEF TypeOK, startOne
<1>4. CASE BulkStart(c)
  BY <1>0, <1>4, StartType, BecomeType DEF TypeOK, BulkStart, Start
<1>5. CASE BulkCheck(c)
  BY <1>0, <1>5, StopType, BecomeType DEF TypeOK, BulkCheck, Stop
<1>6. ASSUME NEW p \in Procs, RequestStart(c, p) PROVE TypeOK'
  BY <1>0, <1>6, BecomeType DEF TypeOK, RequestStart
<1>7. ASSUME NEW p \in Procs, RequestStop(c, p) PROVE TypeOK'
  BY <1>7, StopType DEF TypeOK, RequestStop, Stop
<1>8. ASSUME NEW p \in Procs, RequestRestart(c, p) PROVE TypeOK'
  BY <1>0, <1>8, StopType, BecomeType DEF TypeOK, RequestRestart, Stop
<1>9. ASSUME NEW p \in Procs, RequestBulk(c, p) PROVE TypeOK'
  BY <1>0, <1>9, BecomeType DEF TypeOK, RequestBulk
<1> QED BY <1>1, <1>2, <1>3, <1>4, <1>5, <1>6, <1>7, <1>8, <1>9 DEF Serve

LEMMA TypeMainLoop == ASSUME TypeOK, BeginShutdown \/ MainLoop PROVE TypeOK'
<1> USE DEF TypeOK, procs, Phases
<1>1. CASE BeginShutdown \/ BeginStopAll
  BY <1>1 DEF BeginShutdown, BeginStopAll
<1>2. CASE SortDone \/ StopAllDone \/ WaitDone \/ GiveUp \/ KillDone \/ GraceDone \/ Exit
  BY <1>2 DEF SortDone, StopAllDone, WaitDone, GiveUp, KillDone, GraceDone, Exit, Go
<1>3. ASSUME NEW p \in Procs, SortNext(p) \/ StopNext(p) PROVE TypeOK'
  BY <1>3, StopType DEF SortNext, StopNext, Stop
<1>4. ASSUME NEW p \in Procs, KillNext(p) PROVE TypeOK'
  BY <1>4 DEF KillNext, SendKill
<1> QED BY <1>1, <1>2, <1>3, <1>4 DEF MainLoop

LEMMA TypeStep == ASSUME TypeOK, [Next]_vars PROVE TypeOK'
<1>1. CASE UNCHANGED vars
  BY <1>1 DEF vars, procs, TypeOK
<1> QED BY <1>1, TypeByItself, TypeServe, TypeMainLoop DEF Next

-----------------------------------------------------------------------------
(***************************************************************************)
(* The invariant.                                                          *)
(***************************************************************************)
Inv == Progress /\ BulkUndone

\* A spawn from rest or BACKOFF marks the child as late once shutdown has begun.
LEMMA SpawnInv ==
  ASSUME TypeOK, Inv, NEW p \in Procs, child[p] = "none", NEW bulk \in BOOLEAN,
         Spawn(p, bulk), UNCHANGED <<phase, todo, shutdownCh>>,
         \A q \in Procs : mu'[q] \in {"retry", "restart"} => mu'[q] = mu[q] /\ q # p,
         \A c \in Clients : client'[c] = client[c] \/ client[c].do # "bulkCheck",
         bulk => \E c \in Clients : client'[c] = [do |-> "bulkCheck", to |-> p]
  PROVE  Inv'
<1> USE DEF TypeOK, Spawn, active
<1>1. ASSUME NEW q \in Procs, q # p
      PROVE  /\ state'[q] = state[q] /\ child'[q] = child[q]
             /\ late'[q] = late[q] /\ bulkStart'[q] = bulkStart[q]
  BY <1>1
<1>2. \/ child'[p] = "none"
      \/ /\ child'[p] = "alive" /\ state'[p] = "STARTING"
         /\ late'[p] = shutdownCh /\ (bulkStart'[p] => bulk)
  OBVIOUS
<1>3. late'[p] => shutdownCh
  BY DEF Inv, Progress
<1>4. Progress'
  BY <1>1, <1>2, <1>3 DEF Inv, Progress, Visited
<1>5. BulkUndone'
  <2> SUFFICES ASSUME NEW q \in Procs, late'[q], bulkStart'[q], child'[q] = "alive"
               PROVE  \/ state'[q] = "STOPPING"
                      \/ \E c \in Clients : client'[c] = [do |-> "bulkCheck", to |-> q]
    BY DEF BulkUndone
  <2>1. CASE q = p
    BY <1>2, <2>1
  <2>2. CASE q # p
    BY <1>1, <2>2 DEF Inv, BulkUndone
  <2> QED BY <2>1, <2>2
<1> QED BY <1>4, <1>5 DEF Inv

\* A stop leaves STOPPING what was up, and frees the others.
LEMMA StopInv ==
  ASSUME TypeOK, Inv, NEW p \in Procs, Stop(p), UNCHANGED <<phase, todo, shutdownCh>>,
         \A c \in Clients : \/ client'[c] = client[c]
                             \/ client[c].do # "bulkCheck" \/ client[c].to = p
  PROVE  Inv'
<1> USE DEF TypeOK, Stop, active
<1>1. ASSUME NEW q \in Procs, q # p PROVE state'[q] = state[q]
  BY <1>1
<1>2. child[p] # "none" => state'[p] = "STOPPING"
  BY DEF Inv, Progress
<1>3. \A q \in Procs : mu[q] \in {"retry", "restart"} => q # p
  BY DEF Free
<1>4. Progress'
  BY <1>1, <1>2, <1>3 DEF Inv, Progress, Visited
<1>5. BulkUndone'
  BY <1>1, <1>2 DEF Inv, BulkUndone
<1> QED BY <1>4, <1>5 DEF Inv

LEMMA InvByItself ==
  ASSUME TypeOK, Inv, NEW p \in Procs, ByItself(p) \/ ChildExit(p) \/ Reap(p) PROVE Inv'
<1> USE DEF Rest
<1>1. CASE ProcessStarted(p)
  BY <1>1 DEF ProcessStarted, TypeOK, Inv, Progress, BulkUndone, Visited, active
<1>2. CASE ChildExit(p)
  BY <1>2 DEF ChildExit, TypeOK, Inv, Progress, BulkUndone, Visited, active
<1>3. CASE Escalate(p)
  BY <1>3 DEF Escalate, SendKill, TypeOK, Inv, Progress, BulkUndone, Visited, active
<1>4. CASE RetryStop(p)
  <2>0. child[p] = "none" /\ mu[p] = "free"
    BY <1>4 DEF RetryStop, Free, Inv, Progress, active
  <2>1. /\ state' = [state EXCEPT ![p] = "STOPPED"]
        /\ UNCHANGED <<child, late, bulkStart, restart, mu, phase, todo, shutdownCh, client>>
    BY <1>4 DEF RetryStop
  <2>2. Progress'
    BY <2>0, <2>1 DEF TypeOK, Inv, Progress, Visited, active
  <2>3. BulkUndone'
    BY <2>0, <2>1 DEF TypeOK, Inv, BulkUndone
  <2> QED BY <2>2, <2>3 DEF Inv
<1>5. CASE RetryCheck(p) \/ RestartDrop(p) \/ RestartCheck(p) \/ WriteStdin(p) \/ WriteEnd(p)
  <2>1. /\ UNCHANGED <<state, child, late, bulkStart, phase, todo, shutdownCh, client>>
        /\ \A q \in Procs : q # p => mu'[q] = mu[q]
    BY <1>5 DEF RetryCheck, RestartDrop, RestartCheck, WriteStdin, WriteEnd, TypeOK
  <2>2. /\ mu'[p] = "restart" => state[p] = "EXITED"
        /\ mu'[p] = "retry" => state[p] = "BACKOFF"
    BY <1>5 DEF RetryCheck, RestartDrop, RestartCheck, WriteStdin, WriteEnd, TypeOK, Free
  <2>3. Progress'
    BY <2>1, <2>2 DEF Inv, Progress, Visited, active
  <2>4. BulkUndone'
    BY <2>1 DEF Inv, BulkUndone
  <2> QED BY <2>3, <2>4 DEF Inv
<1>6. CASE Resume(p)
  <2>1. child[p] = "none"
    BY <1>6 DEF Resume, Inv, Progress, active
  <2>2. \A q \in Procs : mu'[q] \in {"retry", "restart"} => mu'[q] = mu[q] /\ q # p
    BY <1>6 DEF Resume, TypeOK
  <2> QED BY <1>6, <2>1, <2>2, SpawnInv DEF Resume
<1>7. CASE Reap(p)
  <2>1. /\ \A q \in Procs : q # p => /\ state'[q] = state[q] /\ child'[q] = child[q]
                                      /\ late'[q] = late[q] /\ bulkStart'[q] = bulkStart[q]
        /\ child'[p] = "none" /\ ~late'[p] /\ mu[p] = "free"
        /\ UNCHANGED <<mu, phase, todo, shutdownCh, client>>
    <3>1. PICK s \in States : state' = [state EXCEPT ![p] = s]
      BY <1>7, ReapEffect
    <3>2. mu[p] = "free"
      BY <1>7 DEF Reap, Free
    <3>3. UNCHANGED <<mu, phase, todo, shutdownCh, client>>
      BY <1>7, ReapEffect
    <3>4. /\ child' = [child EXCEPT ![p] = "none"] /\ late' = [late EXCEPT ![p] = FALSE]
          /\ bulkStart' = [bulkStart EXCEPT ![p] = FALSE]
      BY <1>7, ReapEffect
    <3> QED BY <3>1, <3>2, <3>3, <3>4 DEF TypeOK
  <2>2. Progress'
    BY <2>1 DEF Inv, Progress, Visited, active
  <2>3. BulkUndone'
    BY <2>1 DEF Inv, BulkUndone
  <2> QED BY <2>2, <2>3 DEF Inv
<1> QED BY <1>1, <1>2, <1>3, <1>4, <1>5, <1>6, <1>7 DEF ByItself

\* Start at rest spawns, otherwise nothing happens.
LEMMA StartInv ==
  ASSUME TypeOK, Inv, NEW p \in Procs, NEW bulk \in BOOLEAN, Start(p, bulk),
         UNCHANGED <<phase, todo, shutdownCh>>,
         \A c \in Clients : client'[c] = client[c] \/ client[c].do # "bulkCheck",
         bulk => \E c \in Clients : client'[c] = [do |-> "bulkCheck", to |-> p]
  PROVE  Inv'
<1>1. CASE AtRest(state[p])
  <2>1. child[p] = "none"
    BY <1>1 DEF AtRest, Inv, Progress, active
  <2>2. Spawn(p, bulk)
    BY <1>1 DEF Start
  <2>3. \A q \in Procs : mu'[q] \in {"retry", "restart"} => mu'[q] = mu[q] /\ q # p
    BY DEF Start, Free
  <2> QED BY <2>1, <2>2, <2>3, SpawnInv
<1>2. CASE ~AtRest(state[p])
  BY <1>2 DEF Start, TypeOK, Inv, Progress, BulkUndone, Visited, active
<1> QED BY <1>1, <1>2

LEMMA InvServe == ASSUME TypeOK, Inv, NEW c \in Clients, Serve(c) PROVE Inv'
<1> USE DEF Daemon, procs
<1>0. client[c].to \in Procs
  BY DEF TypeOK
<1>1. ASSUME NEW step, NEW p, Become(c, step, p), client[c].do # "bulkCheck"
      PROVE  \A d \in Clients : client'[d] = client[d] \/ client[d].do # "bulkCheck"
  BY <1>1 DEF Become, TypeOK
<1>2. CASE DoStart(c)
  BY <1>0, <1>1, <1>2, StartInv DEF DoStart
<1>3. CASE BulkStart(c)
  <2>1. client'[c] = [do |-> "bulkCheck", to |-> client[c].to]
    BY <1>3 DEF BulkStart, Become, TypeOK
  <2> QED BY <1>0, <1>1, <1>3, <2>1, StartInv DEF BulkStart
<1>4. CASE BulkCheck(c)
  <2>0. \A d \in Clients : client'[d] = client[d] \/ d = c
    BY <1>4 DEF BulkCheck, Become, TypeOK
  <2>1. CASE shutdownCh
    BY <1>0, <1>4, <2>0, <2>1, StopInv DEF BulkCheck
  <2>2. CASE ~shutdownCh
    BY <1>4, <2>2 DEF BulkCheck, TypeOK, Inv, Progress, BulkUndone, Visited, active
  <2> QED BY <2>1, <2>2
<1>5. ASSUME NEW p \in Procs, RequestStop(c, p) PROVE Inv'
  BY <1>5, StopInv DEF RequestStop
<1>6. ASSUME NEW p \in Procs, RequestRestart(c, p) PROVE Inv'
  <2>1. \A d \in Clients : client'[d] = client[d] \/ client[d].do # "bulkCheck"
    BY <1>6 DEF RequestRestart, Become, TypeOK
  <2>2. CASE state[p] \in {"RUNNING", "STARTING"}
    BY <1>6, <2>1, <2>2, StopInv DEF RequestRestart
  <2>3. CASE state[p] \notin {"RUNNING", "STARTING"}
    BY <1>6, <2>1, <2>3 DEF RequestRestart, Inv, Progress, BulkUndone, Visited, active
  <2> QED BY <2>2, <2>3
<1>7. ASSUME UNCHANGED procs, Daemon,
             \A d \in Clients : client'[d] = client[d] \/ client[d].do # "bulkCheck"
      PROVE  Inv'
  BY <1>7 DEF Inv, Progress, BulkUndone, Visited, active
<1>8. CASE Await(c)
  BY <1>1, <1>7, <1>8 DEF Await
<1>9. CASE startOne(c)
  BY <1>1, <1>7, <1>9 DEF startOne
<1>10. ASSUME NEW p \in Procs, RequestStart(c, p) \/ RequestBulk(c, p) PROVE Inv'
  BY <1>1, <1>7, <1>10 DEF RequestStart, RequestBulk
<1> QED BY <1>2, <1>3, <1>4, <1>5, <1>6, <1>8, <1>9, <1>10 DEF Serve

LEMMA InvMainLoop == ASSUME TypeOK, Inv, BeginShutdown \/ MainLoop PROVE Inv'
<1> USE DEF procs, Inv, Progress, BulkUndone, Visited
<1>1. CASE BeginShutdown \/ BeginStopAll
  BY <1>1 DEF BeginShutdown, BeginStopAll, active
<1>2. CASE SortDone \/ StopAllDone \/ GiveUp \/ KillDone \/ GraceDone \/ Exit
  BY <1>2 DEF SortDone, StopAllDone, GiveUp, KillDone, GraceDone, Exit, Go, active
<1>3. CASE WaitDone
  BY <1>3 DEF WaitDone, Go, allStopped
<1>4. ASSUME NEW p \in Procs, StopNext(p) PROVE Inv'
  <2>0. \A q \in Procs : q # p => state'[q] = state[q]
    BY <1>4 DEF StopNext, Stop, TypeOK
  <2>1. /\ phase = "stopAll" /\ todo' = todo \ {p}
        /\ UNCHANGED <<child, restart, mu, late, bulkStart, phase, shutdownCh, client>>
    BY <1>4 DEF StopNext, Stop
  <2>2. /\ child[p] # "none" => state'[p] = "STOPPING"
        /\ mu[p] = "restart" => state'[p] = "EXITED"
        /\ mu[p] # "retry"
    BY <1>4 DEF StopNext, Stop, Free, stoppable, active, TypeOK
  <2>3. Progress'
    BY <2>0, <2>1, <2>2 DEF active
  <2>4. BulkUndone'
    BY <2>0, <2>1, <2>2
  <2> QED BY <2>3, <2>4
<1>5. ASSUME NEW p \in Procs, KillNext(p) PROVE Inv'
  <2>1. /\ phase = "kill" /\ todo' = todo \ {p}
        /\ UNCHANGED <<state, restart, mu, late, bulkStart, phase, shutdownCh, client>>
    BY <1>5 DEF KillNext
  <2>2. \A q \in Procs : q # p => child'[q] = child[q]
    BY <1>5 DEF KillNext, SendKill, TypeOK
  <2>3. child'[p] # "alive" /\ (child'[p] # "none" => child[p] # "none")
    BY <1>5 DEF KillNext, SendKill, TypeOK, active
  <2>4. Progress'
    BY <2>1, <2>2, <2>3 DEF active
  <2>5. BulkUndone'
    BY <2>1, <2>2, <2>3
  <2> QED BY <2>4, <2>5
<1>6. ASSUME NEW p \in Procs, SortNext(p) PROVE Inv'
  BY <1>6 DEF SortNext, active
<1> QED BY <1>1, <1>2, <1>3, <1>4, <1>5, <1>6 DEF MainLoop

LEMMA InvStep == IndInv /\ [Next]_vars => IndInv'
<1> SUFFICES ASSUME IndInv, [Next]_vars PROVE IndInv'
  OBVIOUS
<1>0. TypeOK /\ Inv
  BY DEF IndInv, Inv
<1>1. TypeOK'
  BY <1>0, TypeStep
<1>2. ASSUME UNCHANGED vars PROVE Inv'
  <2>1. UNCHANGED <<state, child, restart, mu, late, bulkStart, phase, todo, shutdownCh, client>>
    BY <1>2 DEF vars, procs
  <2>2. Progress'
    BY <1>0, <2>1 DEF Inv, Progress, Visited, active
  <2>3. BulkUndone'
    BY <1>0, <2>1 DEF Inv, BulkUndone
  <2> QED BY <2>2, <2>3 DEF Inv
<1>3. ASSUME BeginShutdown \/ MainLoop PROVE Inv'
  BY <1>0, <1>3, InvMainLoop
<1>4. ASSUME NEW p \in Procs, ByItself(p) \/ ChildExit(p) \/ Reap(p) PROVE Inv'
  BY <1>0, <1>4, InvByItself
<1>5. ASSUME NEW c \in Clients, Serve(c) PROVE Inv'
  BY <1>0, <1>5, InvServe
<1>6. Inv'
  BY <1>2, <1>3, <1>4, <1>5 DEF Next
<1> QED BY <1>1, <1>6 DEF IndInv, Inv

LEMMA Inductive == Spec => []IndInv
  BY InitInv, InvStep, PTL DEF Spec

\* For any number of processes and requests: every process, its child, the loop of the
\* shutdown and the requests are in one of the states the code has for them.
THEOREM TypeCorrect == Spec => []TypeOK
<1>1. IndInv => TypeOK
  BY DEF IndInv
<1> QED BY <1>1, Inductive, PTL

\* For any number of processes and requests: StopAll, the wait and killRemaining
\* together leave no child alive that was started before shutdown began.
THEOREM NothingLeftBehind == Spec => []NoChildLeftBehind
<1>1. IndInv => NoChildLeftBehind
  BY DEF IndInv, Progress, NoChildLeftBehind, Visited
<1> QED BY <1>1, Inductive, PTL

\* For any number of concurrent requests: a bulk start that loses the race with
\* shutdown is stopped again by the request that made it.
THEOREM BulkAlwaysUndone == Spec => []BulkUndone
<1>1. IndInv => BulkUndone
  BY DEF IndInv
<1> QED BY <1>1, Inductive, PTL
=============================================================================
