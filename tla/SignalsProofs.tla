--------------------------- MODULE SignalsProofs ---------------------------
(***************************************************************************)
(* Theorems about Signals, for every set of processes, any number of       *)
(* children and requests and every size of the signal queue.               *)
(***************************************************************************)
EXTENDS Signals, TLAPS

Kids == {"none", "alive", "asked", "killed", "zombie", "reaped"}

Types ==
  /\ kid \in [Pids -> Kids]
  /\ forked \in [Procs -> Pids \cup {None}]
  /\ spawned \in [Procs -> Pids \cup {None}]
  /\ mu \in [Procs -> {"free", "spawn", "stdin"}]
  /\ hand \in Pids \cup {None}

\* The exit of child i is still to come, or in the hand of the main loop.
ToCome(i) == Alive(i) \/ kid[i] = "zombie" \/ hand = i

\* A spawn that has not stored its pid holds the lock, so that nobody who has wait4's
\* pid in hand finishes the search for its process meanwhile.
SpawnLocked ==
  \A p \in Procs :
    forked[p] # None => mu[p] = "spawn" /\ spawned[p] = None /\ ToCome(forked[p])

\* No two processes have one pid.
OwnPids ==
  \A p, q \in Procs : p # q =>
    /\ spawned[p] # None => spawned[p] # spawned[q] /\ spawned[p] # forked[q]
    /\ forked[p] # None => forked[p] # forked[q]

\* The pid in hand is of a child that was reaped, and the process found for it has it.
InHand ==
  /\ hand # None => kid[hand] = "reaped"
  /\ found \subseteq Procs /\ \A p \in found : hand # None /\ spawned[p] = hand

IndInv == Types /\ InHand /\ SpawnLocked /\ OwnPids /\ NoExitLost

\* None stands for the absence of a pid.
LEMMA NoneIsNoPid == None \notin Pids
BY DEF None, Pids

\* Initially there is no child, and no pid is in hand.
LEMMA InitHolds == Init => IndInv
BY NoneIsNoPid DEF Init, IndInv, Types, InHand, SpawnLocked, OwnPids, NoExitLost, Kids, Alive, ToCome

\* A step that touches no child, pid or lock.
LEMMA Elsewhere == IndInv /\ UNCHANGED <<kid, forked, spawned, mu, hand, found>> => IndInv'
BY DEF IndInv, Types, InHand, SpawnLocked, OwnPids, NoExitLost, Alive, ToCome

\* A step in which children change, but none that may still exit becomes reaped, and
\* none that was reaped changes.
LEMMA ChildrenMove ==
  ASSUME IndInv, UNCHANGED <<forked, spawned, mu, hand, found>>, kid' \in [Pids -> Kids],
         \A i \in Pids : ToCome(i) => ToCome(i)',
         \A i \in Pids : kid[i] = "reaped" => kid'[i] = "reaped"
  PROVE  IndInv'
BY NoneIsNoPid DEF IndInv, Types, InHand, SpawnLocked, OwnPids, NoExitLost, ToCome

\* Signals reach or miss the queue; at most a child takes note of its own.
LEMMA SignalMoves ==
  ASSUME IndInv, NEW p \in Procs, NEW st \in {"asked", "killed"},
         UNCHANGED <<forked, spawned, mu, hand, found>>, kid' \in {Signalled(p, st), Asked(p), kid}
  PROVE  IndInv'
<1>1. spawned[p] \in Pids \cup {None}
  BY DEF IndInv, Types
<1>2. kid' \in [Pids -> Kids]
  BY <1>1 DEF IndInv, Types, Signalled, Asked, Kids
<1>3. ASSUME NEW i \in Pids, ToCome(i) PROVE ToCome(i)'
  BY <1>1, <1>3 DEF IndInv, Types, Signalled, Asked, Kids, ToCome, Alive
<1>4. ASSUME NEW i \in Pids, kid[i] = "reaped" PROVE kid'[i] = "reaped"
  BY <1>1, <1>4 DEF IndInv, Types, Signalled, Asked, Kids, Alive
<1> QED BY <1>2, <1>3, <1>4, ChildrenMove

\* A child that dies becomes a zombie and keeps its pid.
LEMMA DeathMoves ==
  ASSUME IndInv, NEW i \in Pids, kid' = [kid EXCEPT ![i] = "zombie"],
         kid[i] # "reaped", UNCHANGED <<forked, spawned, mu, hand, found>>
  PROVE  IndInv'
<1>1. kid' \in [Pids -> Kids]
  BY DEF IndInv, Types, Kids
<1>2. \A j \in Pids : ToCome(j) => ToCome(j)'
  BY DEF IndInv, Types, ToCome, Alive
<1>3. \A j \in Pids : kid[j] = "reaped" => kid'[j] = "reaped"
  BY DEF IndInv, Types
<1> QED BY <1>1, <1>2, <1>3, ChildrenMove

\* A new child has a pid that nobody has.
LEMMA ForkHolds ==
  ASSUME IndInv, NEW p \in Procs, NEW i \in Pids, Fork(p, i)
  PROVE  IndInv'
<1>1. /\ kid[i] = "none" /\ kid' = [kid EXCEPT ![i] = "alive"]
      /\ forked' = [forked EXCEPT ![p] = i] /\ spawned' = spawned /\ hand' = hand
      /\ found' = found
      /\ mu[p] = "free" /\ mu' = [mu EXCEPT ![p] = "spawn"]
      /\ forked[p] = None /\ spawned[p] = None /\ i # None
  BY NoneIsNoPid DEF Fork, Lock, Fresh, loop
<1>2. Types'
  BY <1>1 DEF IndInv, Types, Kids
<1>3. \A j \in Pids : ToCome(j) => ToCome(j)'
  BY <1>1 DEF IndInv, Types, ToCome, Alive
<1>4. SpawnLocked'
  BY <1>1, <1>3 DEF IndInv, Types, SpawnLocked, ToCome, Alive
<1>5. NoExitLost'
  BY <1>1, <1>3 DEF IndInv, Types, NoExitLost, ToCome
<1>6. ASSUME NEW q \in Procs PROVE hand # i => spawned[q] # i /\ forked[q] # i
  BY <1>1, <1>6 DEF IndInv, NoExitLost, SpawnLocked, ToCome, Alive
<1>7. hand # i
  BY <1>1 DEF IndInv, InHand
<1>8. OwnPids'
  BY <1>1, <1>6, <1>7 DEF IndInv, Types, OwnPids
<1>9. InHand'
  BY <1>1 DEF IndInv, Types, InHand
<1> QED BY <1>2, <1>4, <1>5, <1>8, <1>9 DEF IndInv

\* doSpawn stores the pid of its own child under the lock taken before the fork.
LEMMA RecordHolds ==
  ASSUME IndInv, NEW p \in Procs, Record(p)
  PROVE  IndInv'
<1>1. /\ kid' = kid /\ hand' = hand /\ found' = found /\ forked[p] # None /\ spawned[p] = None
      /\ forked' = [forked EXCEPT ![p] = None]
      /\ spawned' = [spawned EXCEPT ![p] = forked[p]]
      /\ mu' = [mu EXCEPT ![p] = "free"]
      /\ ToCome(forked[p])
  BY DEF Record, loop, IndInv, SpawnLocked
<1>2. Types' /\ InHand'
  BY <1>1 DEF IndInv, Types, InHand
<1>3. \A i : ToCome(i)' = ToCome(i)
  BY <1>1 DEF ToCome, Alive
<1>4. SpawnLocked'
  BY <1>1, <1>3 DEF IndInv, Types, SpawnLocked
<1>5. NoExitLost'
  BY <1>1 DEF IndInv, Types, NoExitLost, ToCome, Alive
<1>6. OwnPids'
  BY <1>1 DEF IndInv, Types, OwnPids
<1> QED BY <1>2, <1>4, <1>5, <1>6 DEF IndInv

\* The lock that a write holds is not that of a spawn.
LEMMA WriteHolds ==
  ASSUME IndInv, NEW p \in Procs, WriteStdin(p) \/ Drain(p) \/ StdinBroken(p)
  PROVE  IndInv'
<1>1. /\ UNCHANGED <<kid, forked, spawned, hand, found>> /\ mu[p] \in {"free", "stdin"}
      /\ mu' \in {[mu EXCEPT ![p] = "free"], [mu EXCEPT ![p] = "stdin"]}
  BY DEF WriteStdin, Drain, StdinBroken, loop, os
<1>2. Types' /\ InHand' /\ OwnPids' /\ NoExitLost'
  BY <1>1 DEF IndInv, Types, InHand, OwnPids, NoExitLost, Alive
<1>3. SpawnLocked'
  BY <1>1 DEF IndInv, Types, SpawnLocked, ToCome, Alive
<1> QED BY <1>2, <1>3 DEF IndInv

\* wait4 hands the loop the pid of one zombie, which is nobody else's.
LEMMA Wait4Holds ==
  ASSUME IndInv, NEW i \in Pids, Wait4(i)
  PROVE  IndInv'
<1>1. /\ UNCHANGED <<forked, spawned, mu, found>> /\ hand = None /\ hand' = i
      /\ kid' = [kid EXCEPT ![i] = "reaped"]
  BY DEF Wait4
<1>2. Types' /\ InHand' /\ OwnPids'
  BY <1>1 DEF IndInv, Types, InHand, OwnPids, Kids
<1>3. \A j \in Pids : ToCome(j) => ToCome(j)'
  BY <1>1, NoneIsNoPid DEF IndInv, Types, ToCome, Alive
<1>4. SpawnLocked'
  BY <1>1, <1>3 DEF IndInv, Types, SpawnLocked
<1>5. NoExitLost'
  BY <1>1, <1>3 DEF IndInv, Types, NoExitLost, ToCome
<1> QED BY <1>2, <1>4, <1>5 DEF IndInv

\* ProcessByPid looks only.
LEMMA FoundHolds ==
  ASSUME IndInv, NEW p \in Procs, Found(p)
  PROVE  IndInv'
<1>1. /\ UNCHANGED <<kid, forked, spawned, mu, hand>> /\ hand # None /\ spawned[p] = hand
      /\ found' = {p}
  BY DEF Found, os
<1> QED BY <1>1 DEF IndInv, Types, InHand, SpawnLocked, OwnPids, NoExitLost, Alive, ToCome

\* The pid in hand was that of p only.
LEMMA ExitHolds ==
  ASSUME IndInv, NEW p \in Procs, HandleExitStatus(p)
  PROVE  IndInv'
<1>1. /\ UNCHANGED <<kid, forked, mu>> /\ hand # None /\ spawned[p] = hand
      /\ hand' = None /\ found' = {} /\ spawned' = [spawned EXCEPT ![p] = None]
  BY DEF HandleExitStatus, os, IndInv, InHand
<1>2. Types' /\ InHand'
  BY <1>1 DEF IndInv, Types, InHand
<1>3. OwnPids'
  BY <1>1 DEF IndInv, Types, OwnPids
<1>4. \A q \in Procs : q # p => spawned[q] # hand /\ forked[q] # hand
  BY <1>1 DEF IndInv, OwnPids
<1>5. forked[p] = None
  BY <1>1 DEF IndInv, SpawnLocked
<1>6. SpawnLocked'
  BY <1>1, <1>4, <1>5 DEF IndInv, Types, SpawnLocked, ToCome, Alive
<1>7. NoExitLost'
  BY <1>1, <1>4 DEF IndInv, Types, NoExitLost, Alive
<1> QED BY <1>2, <1>3, <1>6, <1>7 DEF IndInv

\* Every lock was free, so no spawn was under way that could own the pid in hand.
LEMMA UnknownHolds == IndInv /\ Unknown => IndInv'
<1> SUFFICES ASSUME IndInv, Unknown PROVE IndInv'
  OBVIOUS
<1>1. /\ UNCHANGED <<kid, forked, spawned, mu>> /\ hand' = None /\ found' = {}
      /\ \A p \in Procs : mu[p] = "free" /\ spawned[p] # hand
  BY DEF Unknown, os
<1>2. \A p \in Procs : forked[p] = None
  BY <1>1 DEF IndInv, SpawnLocked
<1>3. Types' /\ InHand' /\ OwnPids'
  BY <1>1 DEF IndInv, Types, InHand, OwnPids
<1>4. SpawnLocked' /\ NoExitLost'
  BY <1>1, <1>2 DEF IndInv, Types, SpawnLocked, NoExitLost, Alive
<1> QED BY <1>3, <1>4 DEF IndInv

\* One case per action of the loop, the processes and the children.
LEMMA NextHolds == IndInv /\ [Next]_vars => IndInv'
<1> SUFFICES ASSUME IndInv, [Next]_vars PROVE IndInv'
  OBVIOUS
<1> USE DEF os, loop
<1>1. CASE Request
  <2>1. ASSUME NEW p \in Procs, NEW i \in Pids, Fork(p, i) PROVE IndInv'
    BY <2>1, ForkHolds
  <2>2. ASSUME NEW p \in Procs, WriteStdin(p) PROVE IndInv'
    BY <2>2, WriteHolds
  <2>3. ASSUME NEW i \in Pids, OrphanDies(i) PROVE IndInv'
    BY <2>3, DeathMoves DEF OrphanDies, Fresh
  <2>4. ASSUME NEW sig \in {"TERM", "HUP"}, Send(sig) PROVE IndInv'
    BY <2>4, Elsewhere DEF Send
  <2> QED BY <1>1, <2>1, <2>2, <2>3, <2>4 DEF Request
<1>2. ASSUME NEW p \in Procs, Timer(p) \/ Drain(p) \/ ReloadTimeout(p) PROVE IndInv'
  <2>1. CASE Record(p)
    BY <2>1, RecordHolds
  <2>2. CASE StdinBroken(p) \/ Drain(p)
    BY <2>2, WriteHolds
  <2>3. CASE Escalate(p)
    BY <2>3, SignalMoves DEF Escalate
  <2>4. CASE ReloadTimeout(p)
    BY <2>4, Elsewhere DEF ReloadTimeout
  <2> QED BY <1>2, <2>1, <2>2, <2>3, <2>4 DEF Timer
<1>3. ASSUME NEW i \in Pids, Child(i) \/ Killed(i) PROVE IndInv'
  BY <1>3, DeathMoves DEF Child, Killed, Die, Alive
<1>4. CASE DeliverChild
  BY <1>4, Elsewhere DEF DeliverChild
<1>5. CASE Reap
  <2>1. CASE Reaped
    BY <2>1, Elsewhere DEF Reaped
  <2> QED BY <1>5, <2>1, Wait4Holds, FoundHolds, ExitHolds, UnknownHolds DEF Reap
<1>6. CASE Serve
  BY <1>6, Elsewhere DEF Serve, TakeChild, IgnoreReload, TakeReload
<1>7. CASE Reload
  <2>1. ASSUME NEW p \in Procs, ReloadStop(p) PROVE IndInv'
    BY <2>1, SignalMoves DEF ReloadStop
  <2>2. ASSUME NEW p \in Procs, ReloadSees(p) PROVE IndInv'
    BY <2>2, Elsewhere DEF ReloadSees
  <2>3. CASE ReloadDone
    BY <2>3, Elsewhere DEF ReloadDone
  <2> QED BY <1>7, <2>1, <2>2, <2>3 DEF Reload
<1>8. CASE Stop
  <2>1. ASSUME NEW p \in Procs, StopNext(p) \/ KillNext(p) PROVE IndInv'
    BY <2>1, SignalMoves DEF StopNext, KillNext
  <2>2. CASE BeginWait
    BY <2>2, Elsewhere DEF BeginWait
  <2> QED BY <1>8, <2>1, <2>2 DEF Stop
<1>9. CASE BeginShutdown \/ ReapTick \/ GiveUp \/ GraceOver
  BY <1>9, Elsewhere DEF BeginShutdown, ReapTick, GiveUp, GraceOver
<1>10. CASE UNCHANGED vars
  BY <1>10, Elsewhere DEF vars
<1> QED BY <1>1, <1>2, <1>3, <1>4, <1>5, <1>6, <1>7, <1>8, <1>9, <1>10 DEF Next

\* However spawns, deaths, the loop of handleSigchld and the locks interleave, a process
\* never keeps a pid whose exit has been handed to nobody.
THEOREM ExitNeverLost == Spec => []NoExitLost
<1>1. IndInv => NoExitLost
  BY DEF IndInv
<1> QED BY <1>1, InitHolds, NextHolds, PTL DEF Spec
=============================================================================
