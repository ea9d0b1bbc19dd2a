------------------------------ MODULE MCEvents ------------------------------
(***************************************************************************)
(* Instances of Events for TLC.                                            *)
(***************************************************************************)
EXTENDS Events

CONSTANT s1

\* One kind of subscriber at a time: they share nothing but the bus.
MCScenarios == {{s1}, {Pool}, {Hook}}
=============================================================================
