---------------------------- MODULE ReloadProofs ----------------------------
(***************************************************************************)
(* Theorems about Reload, for every set of programs, settings, instances   *)
(* and configurations.                                                     *)
(***************************************************************************)
EXTENDS Reload, TLAPS

Retirement == {"stop", "wait", "remove"}

\* What the loops of a reload have still to visit.
TodoInv ==
  /\ phase = "update" => todo \subseteq KeysOf(Changed \ Restarting)
  /\ phase = "survey" => todo \subseteq KeysOf(Restarting)
  /\ phase \in {"retire", "stop", "wait"} => todo \subseteq KeysOf(Retiring)
  /\ phase = "start" => todo \subseteq KeysOf(Restarting \cup Added)
  /\ phase \in {"idle", "remove"} => todo = {}
  /\ phase # "start" => checked = {}
  /\ phase # "idle" => stuck \subseteq Retiring
  /\ phase \notin {"idle", "start"} => \A p \in stuck : KeysOf({p}) # {}

\* What the loops have achieved: retired, then at rest.
RetireInv ==
  /\ phase = "retire" => \A k \in KeysOf(Retiring) \ todo : proc[k].retired
  /\ phase \in Retirement => \A k \in KeysOf(Retiring) : proc[k].retired
  /\ phase = "wait" => \A k \in KeysOf(Retiring \ stuck) \ todo : AtRest(proc[k].state)
  /\ phase = "remove" => \A k \in KeysOf(Retiring \ stuck) : AtRest(proc[k].state)

\* The settings of the processes while a reload is under way.
Updated(k)  == k[1] \in Changed \ Restarting /\ ~(phase = "update" /\ k \in todo)
Expected(k) == IF Updated(k) THEN new[k[1]] ELSE config[k[1]]
UnderWay    == phase \notin {"idle", "start"}

SettingsInv ==
  /\ SettingsInForce
  /\ UnderWay => /\ \A k \in DOMAIN proc :
                      k[1] \in DOMAIN config /\ (k \in Instances(config) \/ DidNotStop(k[1]))
                 /\ \A k \in Instances(config) \ DOMAIN proc :
                      phase = "remove" /\ k[1] \in Retiring \ stuck
                 /\ \A k \in Instances(config) \cap DOMAIN proc : proc[k].cfg = Expected(k)
  /\ phase = "start" => InForce(Recorded)

\* Who has passed the check of a retry or restart keeps p.mu, which Retire needs.
LockInv == \A k \in DOMAIN proc : k \in resuming => ~proc[k].retired

IInv == TypeOK /\ TodoInv /\ RetireInv /\ SettingsInv /\ LockInv /\ NoneDetached

-----------------------------------------------------------------------------
USE ReloadConstants

\* What a step of one process may do to the processes: the map's keys, the settings
\* and the retired marks stay, and a retired process at rest stays at rest.
ProcsKept ==
  /\ DOMAIN proc' = DOMAIN proc
  /\ \A k \in DOMAIN proc :
       /\ proc'[k] \in Process
       /\ proc'[k].cfg = proc[k].cfg /\ proc'[k].retired = proc[k].retired
       /\ proc[k].retired /\ AtRest(proc[k].state) => AtRest(proc'[k].state)

\* Stop and Become change the state of one process.
LEMMA BecomeKeeps ==
  ASSUME TypeOK, NEW k \in DOMAIN proc, NEW S \in SUBSET States, Become(k, S),
         proc[k].retired /\ AtRest(proc[k].state) => \A s \in S : AtRest(s)
  PROVE  ProcsKept
<1>1. PICK s \in S : proc' = [proc EXCEPT ![k].state = s]
  BY DEF Become
<1>2. proc[k] \in Process /\ s \in States
  BY DEF TypeOK
<1>3. proc'[k] = [proc[k] EXCEPT !.state = s]
  BY <1>1
<1>4. proc'[k] \in Process /\ proc'[k].cfg = proc[k].cfg /\ proc'[k].retired = proc[k].retired
      /\ proc'[k].state = s
  BY <1>2, <1>3 DEF Process
<1>5. \A j \in DOMAIN proc : j # k => proc'[j] = proc[j]
  BY <1>1
<1>6. QED
  BY <1>1, <1>4, <1>5 DEF ProcsKept, TypeOK

\* stopLocked moves a process along the table and touches nothing else.
LEMMA StopKeeps ==
  ASSUME TypeOK, NEW k \in DOMAIN proc, Stop(k)
  PROVE  ProcsKept
<1> DEFINE s == CASE proc[k].state = "RUNNING" -> "STOPPING"
                  [] proc[k].state = "BACKOFF" -> "STOPPED"
                  [] OTHER -> proc[k].state
<1>1. proc' = [proc EXCEPT ![k].state = s]
  BY DEF Stop
<1>2. proc[k] \in Process
  BY DEF TypeOK
<1>3. s \in States
  BY <1>2 DEF Process, States
<1>4. AtRest(proc[k].state) => AtRest(s)
  BY <1>2 DEF AtRest, Process, States
<1> HIDE DEF s
<1>5. Become(k, {s})
  BY <1>1 DEF Become
<1>6. QED
  BY <1>3, <1>4, <1>5, BecomeKeeps

\* Requests, exits, restarts and retries respect the retired mark.
LEMMA ProcessStepKeeps ==
  ASSUME TypeOK, LockInv, ProcessStep
  PROVE  ProcsKept /\ resuming' \subseteq Keys /\ writing' \subseteq Keys /\ LockInv'
<1>1. PICK k \in DOMAIN proc :
        \/ RequestStart(k) \/ RequestStop(k) \/ ChildExit(k) \/ RetryStop(k) \/ AutoCheck(k)
        \/ Resume(k) \/ WriteStdin(k) \/ WriteEnd(k)
  BY DEF ProcessStep
<1>2. Spawned \subseteq States
  BY DEF Spawned, States
<1>3. ProcsKept
  <2>1. CASE RequestStart(k)
    BY <1>2, <2>1, BecomeKeeps DEF RequestStart
  <2>2. CASE RequestStop(k)
    BY <2>2, StopKeeps DEF RequestStop
  <2>3. CASE ChildExit(k)
    <3>1. ~AtRest(proc[k].state)
      BY <2>3 DEF ChildExit, AtRest
    <3>2. PICK S \in SUBSET States : Become(k, S)
      BY <2>3 DEF ChildExit, States
    <3>3. QED
      BY <3>1, <3>2, BecomeKeeps
  <2>4. CASE RetryStop(k)
    BY <2>4, BecomeKeeps DEF RetryStop, States
  <2>5. CASE Resume(k)
    BY <1>2, <2>5, BecomeKeeps DEF Resume, LockInv
  <2>6. CASE AutoCheck(k) \/ WriteStdin(k) \/ WriteEnd(k)
    BY <2>6 DEF AutoCheck, WriteStdin, WriteEnd, ProcsKept, TypeOK
  <2>7. QED
    BY <1>1, <2>1, <2>2, <2>3, <2>4, <2>5, <2>6
<1>4. /\ resuming' \subseteq Keys /\ writing' \subseteq Keys
      /\ \A j \in DOMAIN proc : j \in resuming' => j \in resuming \/ ~proc[j].retired
  BY <1>1 DEF RequestStart, RequestStop, ChildExit, RetryStop, AutoCheck, Resume, WriteStdin,
              WriteEnd, locks, TypeOK
<1>5. LockInv'
  BY <1>3, <1>4 DEF LockInv, ProcsKept
<1>6. QED
  BY <1>3, <1>4, <1>5

-----------------------------------------------------------------------------
\* The daemon starts with its configuration in force.
LEMMA InitInv == Init => IInv
<1> SUFFICES ASSUME Init PROVE IInv
  OBVIOUS
<1>1. config \in Configs /\ DOMAIN config \subseteq Progs
      /\ \A p \in DOMAIN config : config[p] \in ProgramConfig
  BY DEF Init
<1>2. DOMAIN proc = Instances(config)
      /\ \A k \in DOMAIN proc :
           proc[k] = NewProcess(config[k[1]])
  BY DEF Init, LoadConfig
<1>3. Instances(config) \subseteq Keys /\ \A k \in Instances(config) : k[1] \in DOMAIN config
  BY DEF Instances
<1>4. TypeOK
  <2>1. \A cfg \in ProgramConfig : NewProcess(cfg) \in Process
    BY DEF NewProcess, Process, States
  <2>2. QED
    BY <1>1, <1>2, <1>3, <2>1 DEF Init, TypeOK, Phases
<1>5. TodoInv /\ RetireInv /\ LockInv /\ NoneDetached
  BY DEF Init, TodoInv, RetireInv, LockInv, NoneDetached, Retirement
<1>6. SettingsInv
  BY <1>2, <1>3 DEF Init, SettingsInv, SettingsInForce, InForce, DidNotStop, UnderWay, NewProcess
<1>7. QED
  BY <1>4, <1>5, <1>6 DEF IInv

\* Steps that leave the reload where it is.
LEMMA FrameStep ==
  ASSUME IInv, ProcsKept, shutdown' \in BOOLEAN, UNCHANGED <<config, reload, detached>>,
         resuming' \subseteq Keys, writing' \subseteq Keys, LockInv'
  PROVE  IInv'
<1> USE DEF IInv, ProcsKept, reload
<1>1. TypeOK'
  BY DEF TypeOK
<1>2. TodoInv'
  BY DEF TodoInv, KeysOf, Changed, Restarting, Retiring, Removed, Added
<1>3. RetireInv'
  BY DEF RetireInv, Retirement, KeysOf, Changed, Restarting, Retiring, Removed, Added, TodoInv
<1>4. SettingsInv'
  <2>1. \A p : DidNotStop(p)' = DidNotStop(p)
    BY DEF DidNotStop
  <2>2. /\ \A k : Expected(k)' = Expected(k)
        /\ Instances(config)' = Instances(config) /\ Instances(Recorded)' = Instances(Recorded)
        /\ Recorded' = Recorded /\ Retiring' = Retiring
    BY DEF Updated, Expected, Recorded, Instances, Changed, Restarting, Retiring, Removed
  <2>3. InForce(config) => InForce(config)'
    BY <2>1, <2>2 DEF InForce
  <2>4. InForce(Recorded) => InForce(Recorded)'
    BY <2>1, <2>2 DEF InForce
  <2>5. UnderWay' = UnderWay
    BY DEF UnderWay
  <2> QED BY <2>1, <2>2, <2>3, <2>4, <2>5 DEF SettingsInv, SettingsInForce
<1>5. QED
  BY <1>1, <1>2, <1>3, <1>4 DEF NoneDetached

\* applyReload begins: nothing has been visited and nothing has changed.
LEMMA BeginStep == ASSUME IInv, NEW c \in Configs, BeginReload(c) PROVE IInv'
<1> USE DEF IInv, BeginReload, KeysOf
<1>1. TypeOK' /\ UNCHANGED locks
  BY DEF TypeOK, locks, TodoInv, Phases
<1>2. TodoInv'
  BY DEF TodoInv, Retiring
<1>3. RetireInv'
  BY DEF RetireInv, Retirement
<1>4. SettingsInv'
  <2>1. InForce(config)
    BY DEF SettingsInv, SettingsInForce
  <2>2. \A k \in Instances(config) : Expected(k)' = config[k[1]]
    BY <2>1 DEF Expected, Updated, InForce
  <2>3. Instances(config)' = Instances(config)
    BY DEF Instances
  <2>4. QED
    BY <2>1, <2>2, <2>3 DEF InForce, SettingsInv, SettingsInForce, DidNotStop, UnderWay
<1>5. QED
  BY <1>1, <1>2, <1>3, <1>4 DEF NoneDetached, LockInv, locks

\* The loops: one process is visited.
LEMMA UpdateStep == ASSUME IInv, NEW k \in todo, UpdateNext(k) PROVE IInv'
<1> USE DEF IInv, UpdateNext, Visit, KeysOf
<1>1. /\ phase = "update" /\ k \in DOMAIN proc /\ k[1] \in Changed \ Restarting
      /\ k[1] \in DOMAIN new /\ new[k[1]] \in ProgramConfig
  BY DEF TodoInv, TypeOK, Changed
<1>2. /\ DOMAIN proc' = DOMAIN proc
      /\ \A j \in DOMAIN proc : j # k => proc'[j] = proc[j]
      /\ proc'[k] = IF k \in Instances(new) THEN [proc[k] EXCEPT !.cfg = new[k[1]]] ELSE proc[k]
  BY <1>1
<1>3. proc[k] \in Process
  BY <1>1 DEF TypeOK
<1>4. proc'[k] \in Process /\ (k \in Instances(new) => proc'[k].cfg = new[k[1]])
  BY <1>1, <1>2, <1>3 DEF Process
<1>5. TypeOK' /\ UNCHANGED locks
  BY <1>2, <1>4 DEF TypeOK, locks, TodoInv
<1>6. Changed' = Changed /\ Restarting' = Restarting /\ Retiring' = Retiring
  BY DEF Changed, Restarting, Retiring, Removed
<1>7. TodoInv' /\ RetireInv'
  BY <1>1, <1>2, <1>6 DEF TodoInv, RetireInv, Retirement
<1>8. SettingsInv'
  <2>1. k \in Instances(config) => k \in Instances(new)
    BY <1>1 DEF Instances, Changed, Restarting, needsRestart
  <2>2. Instances(config)' = Instances(config)
    BY DEF Instances
  <2>3. Expected(k)' = new[k[1]]
    BY <1>1, <1>6 DEF Expected, Updated
  <2>4. \A j \in Instances(config) : j # k => Expected(j)' = Expected(j)
    BY <1>1, <1>6 DEF Expected, Updated
  <2>5. QED
    BY <1>1, <1>2, <1>4, <2>1, <2>2, <2>3, <2>4
       DEF SettingsInv, SettingsInForce, DidNotStop, UnderWay
<1>9. QED
  BY <1>5, <1>7, <1>8 DEF NoneDetached, LockInv, locks

\* ApplyReload notes which of the programs were active.
LEMMA SurveyStep == ASSUME IInv, NEW k \in todo, SurveyNext(k) PROVE IInv'
<1> USE DEF IInv, SurveyNext, Visit, KeysOf
<1>1. phase = "survey" /\ k \in DOMAIN proc /\ k[1] \in Progs
  BY DEF TodoInv, TypeOK, Keys
<1>2. TypeOK' /\ UNCHANGED locks
  BY <1>1 DEF TypeOK, locks, TodoInv
<1>3. TodoInv' /\ RetireInv'
  BY <1>1 DEF TodoInv, RetireInv, Retirement, Changed, Restarting, Retiring, Removed
<1>4. SettingsInv'
  BY <1>1 DEF SettingsInv, SettingsInForce, DidNotStop, UnderWay, Expected, Updated, Instances,
              Changed, Restarting
<1>5. QED
  BY <1>2, <1>3, <1>4 DEF NoneDetached, LockInv, locks

\* What setting the retired mark of one process does.
LEMMA RetiredRecord ==
  ASSUME NEW r \in Process, NEW b \in BOOLEAN
  PROVE  LET q == [r EXCEPT !.retired = b] IN q \in Process /\ q.cfg = r.cfg /\ q.retired = b
BY DEF Process

\* Process.Retire, for each process to be stopped.
LEMMA RetireStep == ASSUME IInv, NEW k \in todo, RetireNext(k) PROVE IInv'
<1> USE DEF IInv, RetireNext, Visit, KeysOf
<1>1. phase = "retire" /\ k \in DOMAIN proc
  BY DEF TodoInv
<1>2. proc[k] \in Process
  BY <1>1 DEF TypeOK
<1>3. /\ DOMAIN proc' = DOMAIN proc
      /\ \A j \in DOMAIN proc : j # k => proc'[j] = proc[j]
      /\ proc'[k] = [proc[k] EXCEPT !.retired = TRUE]
  BY <1>1
<1>4. proc'[k] \in Process /\ proc'[k].cfg = proc[k].cfg /\ proc'[k].retired = TRUE
  BY <1>2, <1>3, RetiredRecord
<1>5. TypeOK' /\ UNCHANGED locks
  BY <1>3, <1>4 DEF TypeOK, locks, TodoInv
<1>6. TodoInv' /\ RetireInv'
  BY <1>1, <1>3, <1>4 DEF TodoInv, RetireInv, Retirement, Changed, Restarting, Retiring, Removed
<1>7. SettingsInv'
  BY <1>1, <1>3, <1>4
     DEF SettingsInv, SettingsInForce, DidNotStop, UnderWay, Expected, Updated, Instances, Changed, Restarting
<1>8. LockInv'
  BY <1>3 DEF LockInv, Free, locks
<1>9. QED
  BY <1>5, <1>6, <1>7, <1>8 DEF NoneDetached

\* Process.Stop, for each retired process.
LEMMA StopStep == ASSUME IInv, NEW k \in todo, StopNext(k) PROVE IInv'
<1> USE DEF IInv, StopNext, Visit, KeysOf
<1>1. phase = "stop" /\ k \in DOMAIN proc
  BY DEF TodoInv
<1>2. ProcsKept
  <2>1. CASE stoppable(proc[k].state)
    BY <1>1, <2>1, StopKeeps
  <2>2. CASE ~stoppable(proc[k].state)
    BY <2>2 DEF ProcsKept, TypeOK
  <2>3. QED
    BY <2>1, <2>2
<1>3. TypeOK' /\ UNCHANGED locks
  BY <1>2 DEF ProcsKept, TypeOK, TodoInv, locks
<1>4. TodoInv' /\ RetireInv'
  BY <1>1, <1>2 DEF ProcsKept, TodoInv, RetireInv, Retirement, Changed, Restarting, Retiring, Removed
<1>5. SettingsInv'
  BY <1>1, <1>2
     DEF ProcsKept, SettingsInv, SettingsInForce, DidNotStop, UnderWay, Expected, Updated,
         Instances, Changed, Restarting
<1>6. LockInv'
  BY <1>2, <1>3 DEF LockInv, ProcsKept, locks
<1>7. QED
  BY <1>3, <1>4, <1>5, <1>6 DEF NoneDetached

\* waitForStopped: a process at rest, or its program in stuck.
LEMMA WaitStep == ASSUME IInv, NEW k \in todo, WaitNext(k) PROVE IInv'
<1> USE DEF IInv, WaitNext, Visit, KeysOf
<1>1. phase = "wait" /\ k \in DOMAIN proc /\ k[1] \in Retiring /\ k[1] \in Progs
  BY DEF TodoInv, TypeOK, Keys
<1>2. TypeOK' /\ UNCHANGED locks
  BY <1>1 DEF TypeOK, locks, TodoInv
<1>3. Retiring' = Retiring /\ Changed' = Changed /\ Restarting' = Restarting
  BY DEF Changed, Restarting, Retiring, Removed
<1>4. TodoInv' /\ RetireInv'
  BY <1>1, <1>3 DEF TodoInv, RetireInv, Retirement
<1>5. SettingsInv'
  BY <1>1, <1>3 DEF SettingsInv, SettingsInForce, DidNotStop, UnderWay, Expected, Updated, Instances
<1>6. QED
  BY <1>2, <1>4, <1>5 DEF NoneDetached, LockInv, locks

\* From one loop to the next.
LEMMA EnterStep == ASSUME IInv, EnterLoop PROVE IInv'
<1> USE DEF IInv, EnterLoop, Enter, KeysOf
<1>1. TypeOK' /\ UNCHANGED locks
  BY DEF TypeOK, locks, TodoInv, Phases
<1>2. Retiring' = Retiring /\ Changed' = Changed /\ Restarting' = Restarting
  BY DEF Changed, Restarting, Retiring, Removed
<1>3. TodoInv' /\ RetireInv'
  BY <1>2 DEF TodoInv, RetireInv, Retirement, Retiring
<1>4. SettingsInv'
  BY <1>2 DEF SettingsInv, SettingsInForce, DidNotStop, UnderWay, Expected, Updated, Instances
<1>5. QED
  BY <1>1, <1>3, <1>4 DEF NoneDetached, LockInv, locks

\* removeProgram: what it takes out has been retired and is at rest.
LEMMA RemoveStep == ASSUME IInv, NEW p \in Progs, RemoveNext(p) PROVE IInv'
<1> USE DEF IInv, RemoveNext, KeysOf, reload
<1>1. DOMAIN proc' = DOMAIN proc \ KeysOf({p}) /\ \A k \in DOMAIN proc' : proc'[k] = proc[k]
  OBVIOUS
<1>2. Retiring' = Retiring /\ Changed' = Changed /\ Restarting' = Restarting
  BY DEF Changed, Restarting, Retiring, Removed
<1>3. \A k \in KeysOf({p}) : proc[k].retired /\ AtRest(proc[k].state)
  BY DEF RetireInv, Retirement
<1>4. NoneDetached'
  BY <1>3 DEF NoneDetached
<1>5. TypeOK' /\ LockInv'
  BY <1>1, <1>4 DEF TypeOK, NoneDetached, LockInv, locks
<1>6. TodoInv' /\ RetireInv'
  BY <1>1, <1>2 DEF TodoInv, RetireInv, Retirement
<1>7. SettingsInv'
  BY <1>1, <1>2 DEF SettingsInv, SettingsInForce, DidNotStop, UnderWay, Expected, Updated, Instances
<1>8. QED
  BY <1>4, <1>5, <1>6, <1>7

\* LoadConfig: what has survived is either stuck, and keeps its old settings, or
\* not concerned, and has its new ones; the rest is created with its new ones.
LEMMA LoadStep == ASSUME IInv, Load PROVE IInv'
<1> USE DEF IInv, Load, KeysOf
<1>1. /\ DOMAIN proc' = DOMAIN proc \cup Instances(new)
      /\ \A k \in DOMAIN proc : proc'[k] = proc[k]
      /\ \A k \in Instances(new) \ DOMAIN proc : proc'[k] = NewProcess(new[k[1]])
  BY DEF LoadConfig
<1>2. \A k \in Instances(new) : k \in Keys /\ k[1] \in DOMAIN new
  BY DEF Instances
<1>3. \A k \in DOMAIN proc' : k \in Keys /\ proc'[k] \in Process
  <2>1. \A cfg \in ProgramConfig : NewProcess(cfg) \in Process
    BY DEF NewProcess, Process, States
  <2>2. QED
    BY <1>1, <1>2, <2>1 DEF TypeOK
<1>4. TypeOK' /\ UNCHANGED locks
  BY <1>3 DEF TypeOK, locks, TodoInv, Phases
<1>5. Retiring' = Retiring /\ Restarting' = Restarting /\ Added' = Added
  BY DEF Changed, Restarting, Retiring, Removed, Added
<1>6. TodoInv' /\ RetireInv'
  BY <1>5 DEF TodoInv, RetireInv, Retirement
<1>7. SettingsInv'
  <2>1. /\ \A k \in DOMAIN proc : k[1] \in DOMAIN config /\ k[1] \notin Retiring \ stuck
        /\ \A k \in Instances(config) \ DOMAIN proc : k[1] \in Retiring \ stuck
        /\ \A k \in Instances(config) \cap DOMAIN proc : proc[k].cfg = Expected(k)
    BY DEF SettingsInv, UnderWay
  <2>2. stuck \subseteq Retiring
    BY DEF TodoInv
  <2>3. Recorded' = Recorded /\ Instances(Recorded)' = Instances(Recorded)
    BY DEF Recorded, Instances
  <2>4. /\ DOMAIN Recorded = DOMAIN new \cup (stuck \cap DOMAIN config)
        /\ \A p \in DOMAIN Recorded :
             Recorded[p] = IF p \in stuck \cap DOMAIN config THEN config[p] ELSE new[p]
    BY DEF Recorded
  <2>5. ASSUME NEW k \in DOMAIN proc PROVE k[1] \in DOMAIN Recorded
    BY <2>1, <2>4 DEF Retiring, Removed
  <2>6. ASSUME NEW p \in stuck PROVE DidNotStop(p)'
    <3>1. p \in Retiring /\ KeysOf({p}) # {}
      BY <2>2 DEF TodoInv
    <3>2. PICK k \in DOMAIN proc : k[1] = p
      BY <3>1
    <3>3. proc[k].retired
      BY <3>1, <3>2 DEF RetireInv, Retirement
    <3>4. QED
      BY <1>1, <3>2, <3>3 DEF DidNotStop
  <2>7. \A p : DidNotStop(p) => DidNotStop(p)'
    BY <1>1 DEF DidNotStop
  <2>8. ASSUME NEW k \in DOMAIN proc' PROVE k \in Instances(Recorded) \/ DidNotStop(k[1])'
    <3>1. CASE k[1] \in stuck
      BY <2>6, <3>1
    <3>2. CASE k \in Instances(new) /\ k[1] \notin stuck
      BY <1>2, <2>4, <3>2 DEF Instances
    <3>3. CASE k \in DOMAIN proc /\ k \notin Instances(new) /\ k[1] \notin stuck
      <4>1. /\ k[1] \in DOMAIN config /\ k[1] \notin Retiring
            /\ k \in Instances(config) \/ DidNotStop(k[1])
        BY <2>1, <3>3 DEF SettingsInv, UnderWay
      <4>2. k \notin Instances(config)
        BY <3>3, <4>1 DEF Instances, Retiring, Removed, Restarting, Changed, needsRestart
      <4>3. QED
        BY <2>7, <4>1, <4>2
    <3>4. QED
      BY <1>1, <3>1, <3>2, <3>3
  <2>9. ASSUME NEW k \in Instances(Recorded)
        PROVE  k \in DOMAIN proc' /\ proc'[k].cfg = Recorded[k[1]]
    <3>1. k \in Keys /\ k[1] \in DOMAIN Recorded /\ k[2] \in InstancesOf[Recorded[k[1]].spawn]
      BY DEF Instances
    <3>2. CASE k[1] \in stuck \cap DOMAIN config
      <4>1. k \in Instances(config) /\ Recorded[k[1]] = config[k[1]]
        BY <2>4, <3>1, <3>2 DEF Instances
      <4>2. k \in DOMAIN proc /\ proc[k].cfg = Expected(k)
        BY <2>1, <3>2, <4>1
      <4>3. Expected(k) = config[k[1]]
        BY <2>2, <3>2 DEF Expected, Updated, Retiring, Removed, Changed
      <4>4. QED
        BY <1>1, <4>1, <4>2, <4>3
    <3>3. CASE k[1] \notin stuck \cap DOMAIN config
      <4>1. k \in Instances(new) /\ k[1] \in DOMAIN new /\ Recorded[k[1]] = new[k[1]]
        BY <2>4, <3>1, <3>3 DEF Instances
      <4>2. CASE k \in DOMAIN proc
        <5>1. k[1] \in DOMAIN config /\ k[1] \notin Retiring
          BY <2>1, <3>3, <4>2
        <5>2. ~needsRestart(config[k[1]], new[k[1]]) \/ config[k[1]] = new[k[1]]
          BY <4>1, <5>1 DEF Retiring, Restarting, Changed
        <5>3. k \in Instances(config)
          BY <4>1, <5>1, <5>2 DEF Instances, needsRestart
        <5>4. proc[k].cfg = Expected(k)
          BY <2>1, <4>2, <5>3
        <5>5. Expected(k) = new[k[1]]
          BY <4>1, <5>1 DEF Expected, Updated, Retiring, Changed
        <5>6. QED
          BY <1>1, <4>1, <4>2, <5>4, <5>5
      <4>3. CASE k \notin DOMAIN proc
        BY <1>1, <4>1, <4>3 DEF NewProcess
      <4>4. QED
        BY <4>2, <4>3
    <3>4. QED
      BY <3>2, <3>3
  <2>10. InForce(Recorded)'
    BY <1>1, <1>2, <2>3, <2>4, <2>5, <2>9, <2>8 DEF InForce
  <2>11. QED
    BY <2>10 DEF SettingsInv, SettingsInForce, DidNotStop, UnderWay
<1>8. LockInv'
  BY <1>1, <1>4 DEF LockInv, NewProcess, locks
<1>9. QED
  BY <1>4, <1>6, <1>7, <1>8 DEF NoneDetached

\* startProgram changes the state of a process at most.
LEMMA StartStep == ASSUME IInv, NEW k \in todo, StartCheck(k) \/ StartNext(k) PROVE IInv'
<1> USE DEF IInv, StartCheck, StartNext, KeysOf
<1>1. phase = "start" /\ phase' = "start" /\ todo' \subseteq todo /\ checked' \subseteq todo'
      /\ k \in DOMAIN proc
  BY DEF TypeOK, TodoInv
<1>2. ProcsKept
  <2>1. CASE StartNext(k) /\ ~proc[k].retired /\ AtRest(proc[k].state)
    <3>1. Spawned \subseteq States
      BY DEF Spawned, States
    <3>2. QED
      BY <1>1, <2>1, <3>1, BecomeKeeps
  <2>2. CASE UNCHANGED proc
    BY <2>2 DEF ProcsKept, TypeOK
  <2>3. QED
    BY <2>1, <2>2
<1>3. UNCHANGED <<config, new, stuck, wasActive, shutdown, detached>>
  OBVIOUS
<1> USE DEF ProcsKept
<1>4. TypeOK' /\ UNCHANGED locks
  BY <1>1, <1>2, <1>3 DEF TypeOK, locks
<1>5. TodoInv' /\ RetireInv'
  BY <1>1, <1>2, <1>3
     DEF TodoInv, RetireInv, Retirement, Changed, Restarting, Retiring, Removed, Added
<1>6. SettingsInv'
  BY <1>1, <1>2, <1>3
     DEF SettingsInv, SettingsInForce, InForce, DidNotStop, UnderWay, Recorded, Instances
<1>7. LockInv'
  BY <1>2, <1>4 DEF LockInv, locks
<1>8. QED
  BY <1>3, <1>4, <1>5, <1>6, <1>7 DEF NoneDetached

\* The supervisor records the configuration that is in force.
LEMMA CommitStep == ASSUME IInv, Commit PROVE IInv'
<1> USE DEF IInv, Commit
<1>1. DOMAIN Recorded \subseteq Progs /\ \A p \in DOMAIN Recorded : Recorded[p] \in ProgramConfig
  BY DEF Recorded, TypeOK
<1>2. TypeOK' /\ UNCHANGED locks
  BY <1>1 DEF TypeOK, locks, Phases
<1>3. TodoInv' /\ RetireInv'
  BY DEF TodoInv, RetireInv, Retirement, TypeOK
<1>4. SettingsInv'
  <2>1. InForce(Recorded)
    BY DEF SettingsInv
  <2>2. Instances(config)' = Instances(Recorded)
    BY DEF Instances
  <2>3. QED
    BY <2>1, <2>2 DEF SettingsInv, SettingsInForce, InForce, DidNotStop, UnderWay
<1>5. QED
  BY <1>2, <1>3, <1>4 DEF NoneDetached, LockInv, locks

-----------------------------------------------------------------------------
\* Every step preserves the invariant.
LEMMA NextInv == ASSUME IInv, [Next]_vars PROVE IInv'
<1>1. CASE ProcessStep
  BY <1>1, ProcessStepKeeps, FrameStep DEF ProcessStep, IInv, TypeOK
<1>2. CASE Shutdown
  BY <1>2, FrameStep DEF Shutdown, IInv, TypeOK, ProcsKept, LockInv, locks
<1>3. CASE Apply
  <2>1. CASE EnterLoop \/ Load \/ Commit
    BY <2>1, EnterStep, LoadStep, CommitStep
  <2>2. CASE \E k \in todo : \/ UpdateNext(k) \/ SurveyNext(k) \/ RetireNext(k) \/ StopNext(k)
                             \/ WaitNext(k) \/ StartCheck(k) \/ StartNext(k)
    BY <2>2, UpdateStep, SurveyStep, RetireStep, StopStep, WaitStep, StartStep
  <2>3. CASE \E p \in Progs : RemoveNext(p)
    BY <2>3, RemoveStep
  <2>4. QED
    BY <1>3, <2>1, <2>2, <2>3 DEF Apply
<1>4. CASE \E c \in Configs : BeginReload(c)
  BY <1>4, BeginStep
<1>5. CASE UNCHANGED vars
  BY <1>5, FrameStep DEF vars, IInv, TypeOK, ProcsKept, LockInv, locks
<1>6. QED
  BY <1>1, <1>2, <1>3, <1>4, <1>5 DEF Next

\* The inductive invariant holds in every reachable state.
LEMMA Invariance == Spec => []IInv
<1>1. IInv /\ [Next]_vars => IInv'
  BY NextInv
<1>2. QED
  BY InitInv, <1>1, PTL DEF Spec

\* The variables keep their types.
THEOREM TypeCorrect == Spec => []TypeOK
BY Invariance, PTL DEF IInv

\* removeProgram never takes a process out of the manager that has a child or
\* could get one, whatever requests, exits, restarts and retries interleave with
\* the reload: processes are retired before they are stopped.
THEOREM NeverDetached == Spec => []NoneDetached
BY Invariance, PTL DEF IInv

\* Between reloads the processes that the recorded configuration asks for exist with its
\* settings, also when programs did not stop (applyReload restores their old settings), and
\* there are no others, except in a program that did not stop.
THEOREM ConfigurationInForce == Spec => []SettingsInForce
<1>1. IInv => SettingsInForce
  BY DEF IInv, SettingsInv
<1>2. QED
  BY <1>1, Invariance, PTL

\* A reload leaves alone the processes of a program whose spawn settings it does
\* not change.
THEOREM UntouchedHolds == Spec => Untouched
<1> DEFINE Same(k)  == k[1] \in DOMAIN config \cap DOMAIN new /\ config[k[1]].spawn = new[k[1]].spawn
           Kept(k)  == /\ k \in DOMAIN proc'
                       /\ proc'[k].state = proc[k].state /\ proc'[k].retired = proc[k].retired
           Spares   == Apply => \A k \in DOMAIN proc : Same(k) => Kept(k)
<1>1. ASSUME IInv, Apply, NEW k \in DOMAIN proc, Same(k) PROVE Kept(k)
  <2>1. k[1] \notin Retiring \cup Added
    BY <1>1 DEF Retiring, Removed, Restarting, Added, needsRestart
  <2> USE DEF IInv, KeysOf
  <2>2. CASE EnterLoop \/ Commit
    BY <2>2 DEF EnterLoop, Enter, Commit
  <2>3. CASE Load
    BY <2>3 DEF Load, LoadConfig
  <2>4. CASE \E p \in Progs : RemoveNext(p)
    BY <2>1, <2>4 DEF RemoveNext
  <2>5. CASE \E j \in todo : UpdateNext(j)
    <3>1. PICK j \in todo : UpdateNext(j)
      BY <2>5
    <3>2. CASE j = k /\ k \in Instances(new)
      <4>1. proc[k] \in Process /\ proc'[k] = [proc[k] EXCEPT !.cfg = new[k[1]]]
            /\ k \in DOMAIN proc'
        BY <1>1, <3>1, <3>2 DEF UpdateNext, TypeOK
      <4>2. QED
        BY <4>1 DEF Process
    <3>3. CASE ~(j = k /\ k \in Instances(new))
      BY <3>1, <3>3 DEF UpdateNext
    <3>4. QED
      BY <3>2, <3>3
  <2>6. CASE \E j \in todo : SurveyNext(j) \/ WaitNext(j) \/ StartCheck(j)
    BY <2>6 DEF SurveyNext, WaitNext, StartCheck
  <2>7. CASE \E j \in todo : RetireNext(j) \/ StopNext(j) \/ StartNext(j)
    <3>1. PICK j \in todo : RetireNext(j) \/ StopNext(j) \/ StartNext(j)
      BY <2>7
    <3>2. j # k
      BY <1>1, <2>1, <3>1 DEF RetireNext, StopNext, StartNext, Visit, TodoInv, Retiring
    <3>3. QED
      BY <3>1, <3>2 DEF RetireNext, StopNext, StartNext, Become, Stop
  <2>8. QED
    BY <1>1, <2>2, <2>3, <2>4, <2>5, <2>6, <2>7 DEF Apply
<1>2. IInv => [Spares]_vars
  BY <1>1
<1>3. QED
  BY <1>2, Invariance, PTL DEF Untouched
=============================================================================
