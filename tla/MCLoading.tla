----------------------------- MODULE MCLoading -----------------------------
(***************************************************************************)
(* Configurations of up to three files for TLC.                            *)
(***************************************************************************)
EXTENDS Loading

MCDir == <<<<"etc">>, <<"conf">>, <<"conf">>>>
MCEnv == "{E}" :> <<"e">>

A  == <<"a">>
A1 == <<"a", "_", "1">>
B  == <<"b">>
G  == <<"g">>
H  == <<"h">>

Program(keys, numprocs, process_name, command, priority) ==
  [keys |-> keys, numprocs |-> numprocs, start |-> 0, process_name |-> process_name,
   command |-> command, priority |-> priority, autostart |-> TRUE]

Plain == Program({}, 0, <<>>, <<"x">>, 0)
Twice == Program({"numprocs"}, 2, <<>>, <<"x", "%", "(num)">>, 0)

\* The program a of the main file.
MCPrograms ==
  {Plain, Twice,
   [Plain EXCEPT !.process_name = B], [Twice EXCEPT !.process_name = <<"p">>],
   [Twice EXCEPT !.process_name = <<"%", "(prog)", "%", "(num)", "%", "%", "(procs)">>, !.start = 1],
   [Plain EXCEPT !.keys = {"numprocs"}], [Plain EXCEPT !.keys = {"priority"}],
   [Plain EXCEPT !.priority = 1000], [Plain EXCEPT !.priority = 900, !.autostart = FALSE],
   [Plain EXCEPT !.command = <<>>], [Plain EXCEPT !.command = <<"$", "{U}">>],
   [Plain EXCEPT !.command = <<"%", "(bad)">>],
   [Plain EXCEPT !.command = <<"%", "%", "(num)", "%", "(num)", "$", "$", "{E}", "$", "{E}">>],
   [Twice EXCEPT !.command = <<"%", "%", "(num)">>],
   [Twice EXCEPT !.command = <<"%", "(here)", "%", "%", "$", "{E}", "%", "(num)">>],
   [Twice EXCEPT !.command = <<"%", "(group)", "%", "(procs)", "%", "%", "(group)">>]}

Group(programs, priority) ==
  [keys |-> {}, programs |-> programs, again |-> {}, priority |-> priority]

MCGroups ==
  {Nothing, G :> Group({A}, 5), G :> Group({A, B}, 5), G :> Group({}, 5), G :> [Group({A}, 5) EXCEPT !.again = {A}],
   (G :> Group({A}, 5)) @@ (H :> Group({A}, 0)),
   (G :> Group({A}, 1)) @@ (H :> Group({B}, 0))}

\* Who includes whom: nobody, one, a pattern for two, a chain, a file twice, a cycle, and a
\* pattern without a match or a file that is not there.
MCIncludes ==
  {<<<<>>, <<>>, <<>>>>, <<<<{2}>>, <<>>, <<>>>>, <<<<{2, 3}>>, <<>>, <<>>>>,
   <<<<{3}, {2}>>, <<>>, <<>>>>, <<<<{2}>>, <<{3}>>, <<>>>>, <<<<{2}, {3}>>, <<{3}>>, <<>>>>,
   <<<<{2}>>, <<{1}>>, <<>>>>, <<<<{}, {2}>>, <<>>, <<>>>>, <<<<{4}>>, <<>>, <<>>>>}

File(programs, grps, include) == [programs |-> programs, groups |-> grps, include |-> include]

MCDisks ==
  {<<File(A :> p, g, i[1]), File(second, Nothing, i[2]), File(Nothing, third, i[3])>> :
     p \in MCPrograms, g \in MCGroups, i \in MCIncludes,
     second \in {Nothing, A :> Plain, A1 :> Plain, B :> [Plain EXCEPT !.priority = 7]},
     third \in {Nothing, G :> Group({A}, 8)}}
  \cup
  {<<File((A :> Plain) @@ (G :> Plain) @@ (B :> Plain), g, <<>>)>> :
     g \in {(G :> Group({A}, 3)) @@ (H :> Group({G}, 4))}}
=============================================================================
