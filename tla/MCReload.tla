------------------------------ MODULE MCReload ------------------------------
(***************************************************************************)
(* Instances of Reload for TLC.                                            *)
(***************************************************************************)
EXTENDS Reload, Naturals, TLC

CONSTANTS web, db, s1, s2

Prog(spawn, autostart) == [spawn |-> spawn, autostart |-> autostart]

\* One instance or two.
MCInstancesOf == s1 :> {1} @@ s2 :> {1, 2}

\* A program is changed in its spawn settings or in the others, and another one
\* is there, gone, or changed.
MCConfigs ==
  {web :> Prog(s1, TRUE), web :> Prog(s1, FALSE), web :> Prog(s2, TRUE),
   web :> Prog(s1, TRUE) @@ db :> Prog(s1, TRUE)}
=============================================================================
