------------------------------ MODULE Loading ------------------------------
(***************************************************************************)
(* From the configuration files to the processes: LoadWithIncludes         *)
(* (internal/config), then Manager.LoadConfig, AutostartAll, the requests  *)
(* for all processes (bulk.go) or for a group, and StopAll (manager.go).   *)
(*                                                                         *)
(* A file name is a number, in the order in which a glob pattern lists it. *)
(* A string is a sequence of atoms: %(process_num)d is <<"%", "(num)">>,   *)
(* ${E} is <<"$", "{E}">>, and any other atom is text.  Of a program only *)
(* the settings are kept that decide whether and as what it is loaded; the *)
(* command stands for every string that is expanded.  Go's maps are read   *)
(* in any order.  Processes with the same priorities, which the code puts  *)
(* in the order of their names, are taken in any order.                    *)
(***************************************************************************)
EXTENDS Integers, Sequences, SequencesExt, FiniteSetsExt, TLC

CONSTANTS
  Disks,   \* the configurations: functions from files to their contents
  Dir,     \* the directory of a file, as a string
  Env,     \* the environment: from atoms such as "{E}" to strings
  MaxRequests  \* bound: how many requests for all processes or a group are made

Main == 1
Strings == Seq(STRING)

\* What variables and escapes are made of, but for the names of the environment.
Signs == {"%", "$", "(here)", "(prog)", "(group)", "(procs)", "(num)", "(bad)"}

\* The keys that a table sets itself, and its settings.
ProgramType ==
  [keys : SUBSET STRING, numprocs : Int, start : Int, process_name : Strings,
   command : Strings, priority : Int, autostart : BOOLEAN]

\* A table's programs, and those of them that it lists more than once.
GroupType ==
  [keys : SUBSET STRING, programs : SUBSET Strings, again : SUBSET Strings, priority : Int]

\* A file has tables, and patterns that each match a set of files.
IsContent(c) ==
  /\ c = [programs |-> c.programs, groups |-> c.groups, include |-> c.include]
  /\ \A name \in DOMAIN c.programs : name \in Strings /\ c.programs[name] \in ProgramType
  /\ \A g \in DOMAIN c.groups : g \in Strings /\ c.groups[g] \in GroupType
  /\ c.include \in Seq(SUBSET Nat)

ASSUME LoadingConstants ==
  /\ \A d \in Disks : /\ Main \in DOMAIN d /\ DOMAIN d \subseteq Nat
                      /\ \A f \in DOMAIN d : IsContent(d[f]) /\ Dir[f] \in Strings
  /\ \A a \in DOMAIN Env : a \in STRING \ Signs /\ Env[a] \in Strings
  /\ MaxRequests \in Nat

VARIABLES
  disk,     \* the files, which do not change
  phase,    \* files, programs, groups, start, stop, down, or rejected
  stack,    \* the files being read, each with its configuration so far, the number of its
            \* patterns that were taken, and what the last one matched and is still to be read
  seen,     \* the files that were loaded
  todo,     \* the programs, groups or processes that a loop has still to visit
  procs,    \* m.processes
  groups,   \* m.groups: the processes of a group
  prio,     \* m.groupPriority
  order,    \* the processes in the order in which the last pass visited them
  then,     \* the processes that a restart is to start when its stops are over
  asked     \* the number of requests

loaded == <<disk, stack, seen, procs, groups, prio>>
later == <<order, then, asked>>
vars == <<loaded, phase, todo, later>>

\* Two functions, the first where both have a value.
f ++ g == [x \in DOMAIN f \cup DOMAIN g |-> IF x \in DOMAIN f THEN f[x] ELSE g[x]]
Only(x, v) == [y \in {x} |-> v]
Nothing == [x \in {} |-> {}]
cfg == stack[1].cfg

-----------------------------------------------------------------------------
(***************************************************************************)
(* Expansion of variables.                                                 *)
(***************************************************************************)
\* One reading of a string from the left, which replaces pairs of atoms.
Rewrite(s, by) ==
  LET rest[i \in 1..Len(s) + 1] ==
        CASE i > Len(s) -> <<>>
          [] i < Len(s) /\ <<s[i], s[i + 1]>> \in DOMAIN by ->
               by[<<s[i], s[i + 1]>>] \o rest[i + 2]
          [] OTHER -> <<s[i]>> \o rest[i + 1]
  IN rest[1]

Keep(a) == Only(<<a, a>>, <<a, a>>)
Unescape(a) == Only(<<a, a>>, <<a>>)
Error == <<"error">>

Numeral(n) == <<ToString(n)>>

\* resolveTemplateVar.  With several instances each puts in its own number later.
resolveTemplateVar(file, name, p) ==
  Only(<<"%", "(here)">>, Dir[file])
  ++ Only(<<"%", "(prog)">>, name) ++ Only(<<"%", "(group)">>, name)
  ++ Only(<<"%", "(procs)">>, Numeral(p.numprocs))
  ++ Only(<<"%", "(num)">>, IF p.numprocs > 1 THEN <<"%", "(num)">> ELSE Numeral(p.start))
  ++ Only(<<"%", "(bad)">>, Error)

LookupEnv == [v \in {<<"$", a>> : a \in DOMAIN Env \cup {"{U}"}} |->
                IF v[2] \in DOMAIN Env THEN Env[v[2]] ELSE Error]

expandString(s, file, name, p) ==
  LET templated == Rewrite(s, Keep("%") ++ resolveTemplateVar(file, name, p))
      both      == Rewrite(templated, Keep("$") ++ LookupEnv)
  IN Rewrite(Rewrite(both, Unescape("%")), Unescape("$"))

\* ExpandVariables
ExpandVariables(file, programs) ==
  [name \in DOMAIN programs |->
     LET p == programs[name] IN
     [p EXCEPT !.command = expandString(@, file, name, p),
               !.process_name = expandString(@, file, name, p)]]

Expanded(programs) ==
  \A name \in DOMAIN programs :
    Error[1] \notin ToSet(programs[name].command) \cup ToSet(programs[name].process_name)

-----------------------------------------------------------------------------
(***************************************************************************)
(* Load: one file.                                                         *)
(***************************************************************************)
\* A zero that the file does not set itself gets the default.
Default(p, key, value) == IF p[key] = 0 /\ key \notin p.keys THEN value ELSE p[key]

ApplyDefaults(p) ==
  [p EXCEPT !.numprocs = Default(p, "numprocs", 1), !.priority = Default(p, "priority", 999)]

DefaultGroup(g) == [g EXCEPT !.priority = Default(g, "priority", 999)]

Validate(p) == p.command # <<>> /\ p.priority \in 0..999 /\ p.numprocs >= 1

Defaulted(f) ==
  [disk[f] EXCEPT !.programs = [n \in DOMAIN @ |-> ApplyDefaults(@[n])],
                  !.groups   = [n \in DOMAIN @ |-> DefaultGroup(@[n])]]

Valid(f) ==
  /\ f \in DOMAIN disk
  /\ \A n \in DOMAIN disk[f].programs : Validate(Defaulted(f).programs[n])
  /\ \A n \in DOMAIN disk[f].groups : Defaulted(f).groups[n].priority \in 0..999

\* Load and ExpandVariables
Loaded(f) ==
  [programs |-> ExpandVariables(f, Defaulted(f).programs), groups |-> Defaulted(f).groups]

Loads(f) == Valid(f) /\ Expanded(Loaded(f).programs)

-----------------------------------------------------------------------------
(***************************************************************************)
(* LoadWithIncludes.                                                       *)
(***************************************************************************)
Frame(f, c, i, rest) == [file |-> f, cfg |-> c, pattern |-> i, todo |-> rest]

Init ==
  /\ disk \in Disks
  /\ phase = "files" /\ stack = <<>> /\ seen = {} /\ todo = {}
  /\ procs = Nothing /\ groups = Nothing /\ prio = Nothing
  /\ order = <<>> /\ then = {} /\ asked = 0

Reject == phase' = "rejected" /\ UNCHANGED <<stack, todo>>

\* Load, for the main file or for one that is included.
Open(f) ==
  /\ seen' = seen \cup {f}
  /\ IF f \notin seen /\ Loads(f)
     THEN stack' = Append(stack, Frame(f, Loaded(f), 0, {})) /\ UNCHANGED <<phase, todo>>
     ELSE Reject
  /\ UNCHANGED <<disk, procs, groups, prio, later>>

Top == Last(stack)

OpenMain == phase = "files" /\ stack = <<>> /\ Open(Main)

Patterns(f) == disk[f].include

\* The next pattern of a file; it may match nothing.
Pattern ==
  /\ phase = "files" /\ stack # <<>> /\ Top.todo = {} /\ Top.pattern < Len(Patterns(Top.file))
  /\ stack' = Append(Front(stack), Frame(Top.file, Top.cfg, Top.pattern + 1,
                                         Patterns(Top.file)[Top.pattern + 1]))
  /\ UNCHANGED <<disk, phase, seen, todo, procs, groups, prio, later>>

\* What it matches is read in order.
Include == phase = "files" /\ stack # <<>> /\ Top.todo # {} /\ Open(Min(Top.todo))

IsRead(frame) == frame.todo = {} /\ frame.pattern = Len(Patterns(frame.file))

\* mergePrograms and mergeGroups: of two groups with one name the later one wins.
Merged(dst, src) ==
  [programs |-> dst.programs ++ src.programs, groups |-> src.groups ++ dst.groups]

\* An included file and all that it includes has been read.
Merge ==
  /\ phase = "files" /\ Len(stack) > 1 /\ IsRead(Top)
  /\ LET dst == stack[Len(stack) - 1] IN
     IF DOMAIN dst.cfg.programs \cap DOMAIN Top.cfg.programs = {}
     THEN /\ stack' = Append(Front(Front(stack)), Frame(dst.file, Merged(dst.cfg, Top.cfg),
                                                        dst.pattern, dst.todo \ {Top.file}))
          /\ UNCHANGED <<phase, todo>>
     ELSE Reject
  /\ UNCHANGED <<disk, seen, procs, groups, prio, later>>

\* InstanceNames: instance k of a program, from 0.
instanceName(name, p, k) ==
  LET n == p.start + k IN
  CASE p.numprocs > 1 /\ p.process_name = <<>> -> name \o <<"_">> \o Numeral(n)
    [] p.numprocs > 1 ->
         Rewrite(p.process_name, Only(<<"%", "(num)">>, Numeral(n))
                                 ++ Only(<<"%", "(prog)">>, name) ++ Only(<<"%", "(group)">>, name)
                                 ++ Only(<<"%", "(procs)">>, Numeral(p.numprocs)))
    [] p.process_name # <<>> -> p.process_name
    [] OTHER -> name

Instances(programs) ==
  UNION {{<<name, k>> : k \in 0..programs[name].numprocs - 1} : name \in DOMAIN programs}

NameOf(programs, i) == instanceName(i[1], programs[i[1]], i[2])

\* Mutant of UniqueNames: only the instances of one program are compared.
UniqueNamesPerProgram(programs) ==
  \A i, j \in Instances(programs) :
    i # j /\ i[1] = j[1] => NameOf(programs, i) # NameOf(programs, j)

UniqueNames(programs) ==
  \A i, j \in Instances(programs) : i # j => NameOf(programs, i) # NameOf(programs, j)

\* validateProcessNames
validateProcessNames(c) ==
  /\ \A name \in DOMAIN c.programs :
       LET p == c.programs[name] IN
       p.numprocs > 1 /\ p.process_name # <<>> =>
         \E i \in 1..Len(p.process_name) - 1 : SubSeq(p.process_name, i, i + 1) = <<"%", "(num)">>
  /\ UniqueNames(c.programs)

\* A program has one place in all tables: in a second one of the same table too it is "in
\* multiple groups".
validateGroupReferences(c) ==
  /\ \A g \in DOMAIN c.groups :
       /\ c.groups[g].programs # {} /\ c.groups[g].programs \subseteq DOMAIN c.programs
       /\ c.groups[g].again = {}
  /\ \A g, h \in DOMAIN c.groups :
       g # h => c.groups[g].programs \cap c.groups[h].programs = {}

Check ==
  /\ phase = "files" /\ Len(stack) = 1 /\ IsRead(Top)
  /\ IF validateGroupReferences(cfg) /\ validateProcessNames(cfg)
     THEN phase' = "programs" /\ todo' = DOMAIN cfg.programs /\ UNCHANGED stack
     ELSE Reject
  /\ UNCHANGED <<disk, seen, procs, groups, prio, later>>

-----------------------------------------------------------------------------
(***************************************************************************)
(* LoadConfig, AutostartAll and StopAll.                                   *)
(***************************************************************************)
\* ExpandNumprocs and instanceConfig
NewProcess(name, k) ==
  LET p == cfg.programs[name] IN
  [program |-> name, k |-> k, priority |-> p.priority, autostart |-> p.autostart,
   command |-> IF p.numprocs > 1
               THEN Rewrite(p.command, Only(<<"%", "(num)">>, Numeral(p.start + k)))
               ELSE p.command]

LoadProgram(name) ==
  /\ phase = "programs" /\ name \in todo /\ todo' = todo \ {name}
  /\ LET new == {i \in Instances(cfg.programs) :
                   i[1] = name /\ NameOf(cfg.programs, i) \notin DOMAIN procs}
         added == {NameOf(cfg.programs, i) : i \in new}
     IN /\ procs' = procs ++ [n \in added |->
                       LET i == CHOOSE j \in new : NameOf(cfg.programs, j) = n
                       IN NewProcess(i[1], i[2])]
        /\ groups' = groups ++ Only(name, added)
  /\ UNCHANGED <<disk, phase, stack, seen, prio, later>>

\* Mutant of ProgramsDone: the groups are built along with the programs.
ProgramsNotDone == TRUE

ProgramsDone == todo = {}

BeginGroups ==
  /\ phase = "programs" /\ ProgramsDone
  /\ phase' = "groups" /\ todo' = DOMAIN cfg.groups
  /\ UNCHANGED <<disk, stack, seen, procs, groups, prio, later>>

\* The processes of its programs are those of the groups with their names.
LoadGroup(g) ==
  /\ phase = "groups" /\ g \in todo /\ todo' = todo \ {g}
  /\ LET members == cfg.groups[g].programs IN
     /\ prio' = [p \in members |-> cfg.groups[g].priority] ++ prio
     /\ groups' = Only(g, UNION {groups[p] : p \in members \cap DOMAIN groups}) ++ groups
  /\ UNCHANGED <<disk, phase, stack, seen, procs, later>>

BeginStart ==
  /\ phase = "groups" /\ todo = {}
  /\ phase' = "start" /\ todo' = {n \in DOMAIN procs : procs[n].autostart}
  /\ UNCHANGED <<loaded, later>>

\* Mutant of GroupKey: the priority of a group is not looked at.
GroupKeyOwn(n) == procs[n].priority

\* sortByPriority
GroupKey(n) ==
  IF procs[n].program \in DOMAIN prio THEN prio[procs[n].program] ELSE procs[n].priority

Less(m, n) ==
  \/ GroupKey(m) < GroupKey(n)
  \/ GroupKey(m) = GroupKey(n) /\ procs[m].priority < procs[n].priority

\* AutostartAll, and startPass for a request, take the processes in ascending order ...
StartNext(n) ==
  /\ phase = "start" /\ n \in todo /\ \A m \in todo : ~Less(m, n)
  /\ todo' = todo \ {n} /\ order' = Append(order, n)
  /\ UNCHANGED <<loaded, phase, then, asked>>

\* ... and StopAll and stopPass in descending order.  A process that has not stopped in
\* time is not started again: RestartAllOrdered skips it, and Start refuses it if it is
\* still STOPPING when RestartGroup comes to it.
StopNext(n) ==
  /\ phase \in {"stop", "down"} /\ n \in todo /\ \A m \in todo : ~Less(n, m)
  /\ todo' = todo \ {n} /\ order' = Append(order, n)
  /\ then' \in {then, then \ {n}}
  /\ UNCHANGED <<loaded, phase, asked>>

Idle == phase \in {"start", "stop"} /\ todo = {} /\ then = {}

\* A request makes one pass over the processes S, and then one to start those of next.
Request(pass, S, next) ==
  /\ Idle /\ asked < MaxRequests /\ asked' = asked + 1
  /\ phase' = pass /\ todo' = S /\ then' = next /\ order' = <<>>
  /\ UNCHANGED loaded

\* orderedNames: a snapshot.
orderedNames == DOMAIN procs

StartAllOrdered   == Request("start", orderedNames, {})
StopAllOrdered    == Request("stop", orderedNames, {})
RestartAllOrdered == Request("stop", orderedNames, orderedNames)

groupProcesses(g) == groups[g] \cap DOMAIN procs

StartGroup(g)   == Request("start", groupProcesses(g), {})
StopGroup(g)    == Request("stop", groupProcesses(g), {})
RestartGroup(g) == Request("stop", groupProcesses(g), groupProcesses(g))

\* The second pass of a restart.
RestartStarts ==
  /\ phase = "stop" /\ todo = {} /\ then # {}
  /\ phase' = "start" /\ todo' = then /\ then' = {} /\ order' = <<>>
  /\ UNCHANGED <<loaded, asked>>

StopAll ==
  /\ Idle /\ phase' = "down" /\ todo' = DOMAIN procs /\ order' = <<>>
  /\ UNCHANGED <<loaded, then, asked>>

Next ==
  \/ OpenMain \/ Pattern \/ Include \/ Merge \/ Check
  \/ \E x \in todo : LoadProgram(x) \/ LoadGroup(x) \/ StartNext(x) \/ StopNext(x)
  \/ BeginGroups \/ BeginStart
  \/ StartAllOrdered \/ StopAllOrdered \/ RestartAllOrdered \/ RestartStarts
  \/ \E g \in DOMAIN groups : StartGroup(g) \/ StopGroup(g) \/ RestartGroup(g)
  \/ StopAll

Spec == Init /\ [][Next]_vars

-----------------------------------------------------------------------------
(***************************************************************************)
(* What the files say, without an order of reading them.                   *)
(***************************************************************************)
\* The files that f includes, and f with all that are included below it.
Links(f) == IF f \in DOMAIN disk THEN UNION ToSet(Patterns(f)) ELSE {}

Files == DOMAIN disk \cup UNION {Links(f) : f \in DOMAIN disk}

Below(f) ==
  {g \in Files : \A S \in SUBSET Files : f \in S /\ (\A h \in S : Links(h) \subseteq S) => g \in S}

Reachable == Below(Main)

\* The files form a tree, every one of them loads, and no program is in two.
Tree ==
  /\ \A f \in Reachable : Loads(f)
  /\ \A f, g \in Reachable : \A i \in DOMAIN Patterns(f), j \in DOMAIN Patterns(g) :
       Patterns(f)[i] \cap Patterns(g)[j] # {} => f = g /\ i = j
  /\ \A f \in Reachable : Main \notin Links(f)
  /\ \A f, g \in Reachable :
       f # g => DOMAIN disk[f].programs \cap DOMAIN disk[g].programs = {}

\* In the tree f comes before g: g is below f, or they are below two files that
\* one file includes in this order.
Precedes(f, g) ==
  \/ g # f /\ g \in Below(f)
  \/ \E h \in Reachable : \E i, j \in DOMAIN Patterns(h) :
       \E x \in Patterns(h)[i], y \in Patterns(h)[j] :
         /\ f \in Below(x) /\ g \in Below(y)
         /\ i < j \/ (i = j /\ x < y)

TreeOrder == {pair \in Reachable \X Reachable : Precedes(pair[1], pair[2])}

WithProgram(name) == {f \in Reachable : name \in DOMAIN disk[f].programs}
WithGroup(g)      == {f \in Reachable : g \in DOMAIN disk[f].groups}

AnyOf(S) == CHOOSE x \in S : TRUE
LastOf(S, before) == CHOOSE f \in S : \A h \in S : h = f \/ <<h, f>> \in before

ProgramsWritten ==
  [name \in UNION {DOMAIN disk[f].programs : f \in Reachable} |->
     Loaded(AnyOf(WithProgram(name))).programs[name]]

\* Of several groups with one name the last one counts.
GroupsWritten ==
  [g \in UNION {DOMAIN disk[f].groups : f \in Reachable} |->
     Loaded(LastOf(WithGroup(g), TreeOrder)).groups[g]]

Acceptable ==
  /\ Tree
  /\ LET c == [programs |-> ProgramsWritten, groups |-> GroupsWritten]
     IN validateGroupReferences(c) /\ validateProcessNames(c)

\* A string as its escapes mean it: one reading replaces all of them.
Meanings(file, name, p, k) ==
  Unescape("%") ++ Unescape("$") ++ LookupEnv
  ++ Only(<<"%", "(num)">>, Numeral(p.start + k))
  ++ resolveTemplateVar(file, name, p)

Meaning(s, file, name, p, k) == Rewrite(s, Meanings(file, name, p, k))

\* A value that no later reading can take for a variable or an escape, also not together
\* with what comes before or after it.
Plainly(v) ==
  v # <<>> /\ ToSet(v) \cap (Signs \cup {"{U}"} \cup DOMAIN Env) = {}

\* "%%(process_num)d" of a program with several instances: the escape is undone when the
\* file is read, and the instance puts in its number all the same.
EscapeLost(s, p) ==
  p.numprocs > 1 /\ \E i \in 1..Len(s) - 2 : SubSeq(s, i, i + 2) = <<"%", "%", "(num)">>

\* s can be read several times over: its escapes survive, and all its values are plain.
Clear(s, file, name, p, k) ==
  /\ ~EscapeLost(s, p)
  /\ \A i \in 1..Len(s) - 1 :
       LET pair == <<s[i], s[i + 1]>> IN
       pair \in DOMAIN Meanings(file, name, p, k) /\ pair \notin {<<"%", "%">>, <<"$", "$">>} =>
         Plainly(Meanings(file, name, p, k)[pair])

CommandKept(n) ==
  \E f \in Reachable :
    LET name == procs[n].program IN
    /\ name \in DOMAIN disk[f].programs
    /\ LET p == ApplyDefaults(disk[f].programs[name]) IN
       Clear(p.command, f, name, p, procs[n].k) =>
         procs[n].command = Meaning(p.command, f, name, p, procs[n].k)

-----------------------------------------------------------------------------
\* A configuration is refused exactly if its files do not form a tree, one of them is
\* bad, or the names of processes or the references of groups clash, whatever the order in
\* which files and maps are read; else every instance of every program is one process,
\* with the command that the file means.  LoadConfig drops an instance whose name is
\* taken (manager.go:117), so one that validateProcessNames let through would never run.
\* A table with the name of a program clashes by spec.md; the code lets it through.
LoadedAsWritten ==
  /\ phase = "rejected" => ~Acceptable
  /\ phase \in {"programs", "groups", "start", "stop", "down"} => Acceptable
  /\ phase \in {"groups", "start", "stop", "down"} =>
       /\ Instances(ProgramsWritten) = {<<procs[n].program, procs[n].k>> : n \in DOMAIN procs}
       /\ \A m, n \in DOMAIN procs :
            procs[m].program = procs[n].program /\ procs[m].k = procs[n].k => m = n
       /\ \A n \in DOMAIN procs : CommandKept(n)

Of(programs) == {n \in DOMAIN procs : procs[n].program \in programs}

\* The group of a program has its instances and a [groups] table those of its programs,
\* whichever of two files had the last word and in whatever order LoadConfig reads its
\* maps, if no table has the name of a program.  (Nothing refuses such a table: then a
\* group may get the processes of another one.)  That a program in a table keeps a group of
\* its own is what the code does; spec.md has it suppressed.
GroupsAsWritten ==
  phase \in {"start", "stop", "down"} /\ DOMAIN GroupsWritten \cap DOMAIN ProgramsWritten = {} =>
    groups = [g \in DOMAIN GroupsWritten |-> Of(GroupsWritten[g].programs)]
             ++ [p \in DOMAIN ProgramsWritten |-> Of({p})]

\* The rank of a process, from the files: its table's priority or its own, then its own.
Rank(n) ==
  LET own == ProgramsWritten[procs[n].program].priority
      of  == {g \in DOMAIN GroupsWritten : procs[n].program \in GroupsWritten[g].programs}
  IN IF of = {} THEN own * 1000 + own
     ELSE GroupsWritten[AnyOf(of)].priority * 1000 + own

\* Every pass, of the daemon or of a request, starts processes by rank and stops them in
\* the reverse order: a group stays a block, also if an included file redefines it ("So a
\* group orders its members as a block"), and a restart turns the order round.
StartedInOrder ==
  \A i, j \in DOMAIN order :
    i < j => /\ phase = "start" => Rank(order[i]) <= Rank(order[j])
             /\ phase \in {"stop", "down"} => Rank(order[i]) >= Rank(order[j])
=============================================================================
