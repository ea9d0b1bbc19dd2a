----------------------------- MODULE Lifecycle -----------------------------
(***************************************************************************)
(* What a managed process promises: the seven states, the transitions      *)
(* between them, and when a start that nobody asked for is allowed.  There *)
(* is no child, no lock, no timer and no goroutine here.                   *)
(***************************************************************************)
VARIABLES
  st,         \* the state of the process
  barred,     \* the process was removed by a reload
  halted,     \* daemon shutdown has begun
  committed   \* a retry or an automatic restart has been decided and is under way

vars == <<st, barred, halted, committed>>

TypeOK ==
  /\ st \in {"STOPPED", "STARTING", "RUNNING", "BACKOFF", "STOPPING", "EXITED", "FATAL"}
  /\ barred \in BOOLEAN /\ halted \in BOOLEAN /\ committed \in BOOLEAN

Init == st = "STOPPED" /\ ~barred /\ ~halted /\ ~committed

Move(from, to) == st \in from /\ st' = to /\ UNCHANGED <<barred, halted>>

\* A request starts a process that is at rest and was not removed.
StartRequested ==
  /\ ~barred /\ ~committed
  /\ Move({"STOPPED", "EXITED", "FATAL"}, "STARTING") /\ UNCHANGED committed

StopRequested ==
  /\ ~committed /\ UNCHANGED committed
  /\ Move({"STARTING", "RUNNING"}, "STOPPING") \/ Move({"BACKOFF"}, "STOPPED")

Started == Move({"STARTING"}, "RUNNING") /\ UNCHANGED committed

\* A failed start; once shutdown has begun it may end STOPPED at once.
StartFailed ==
  /\ \/ Move({"STARTING"}, "BACKOFF") \/ Move({"STARTING"}, "FATAL")
     \/ halted /\ Move({"STARTING"}, "STOPPED")
  /\ UNCHANGED committed

Gone == UNCHANGED committed /\ (Move({"RUNNING"}, "EXITED") \/ Move({"STOPPING"}, "STOPPED"))

\* A retry or an autorestart is decided before shutdown begins and carried out later.
Decided ==
  /\ st \in {"BACKOFF", "EXITED"} /\ ~barred /\ ~halted /\ ~committed
  /\ committed' = TRUE /\ UNCHANGED <<st, barred, halted>>

Resumed ==
  /\ committed /\ ~barred
  /\ Move({"BACKOFF", "EXITED"}, "STARTING") /\ committed' = FALSE

Barred == ~committed /\ barred' = TRUE /\ UNCHANGED <<st, halted, committed>>

Halted == halted' = TRUE /\ UNCHANGED <<st, barred, committed>>

Next == \/ StartRequested \/ StopRequested \/ Started \/ StartFailed \/ Gone
        \/ Decided \/ Resumed \/ Barred \/ Halted

Spec == Init /\ [][Next]_vars
=============================================================================
