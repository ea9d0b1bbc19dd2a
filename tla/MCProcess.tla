----------------------------- MODULE MCProcess -----------------------------
(***************************************************************************)
(* Instances of Process for TLC.                                           *)
(***************************************************************************)
EXTENDS Process

MCConfig(startsecs, startretries, autorestart) ==
  [startsecs |-> startsecs, startretries |-> startretries, stopwaitsecs |-> 1,
   autorestart |-> autorestart]

\* One retry, restart on unexpected exits, one second for each timer.
MCDefault == {MCConfig(1, 1, "unexpected")}

\* A reload may also drop startsecs and the retry, and change autorestart.
MCReloaded == MCDefault \cup {MCConfig(0, 0, "true")}
=============================================================================
