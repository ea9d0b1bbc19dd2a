--------------------------- MODULE LoadingProofs ---------------------------
(***************************************************************************)
(* Theorems about Loading, for every set of configuration files, of any    *)
(* number and with any includes, programs and groups, and every sequence   *)
(* of requests.                                                            *)
(***************************************************************************)
EXTENDS Loading, FiniteSetTheorems, SequenceTheorems, WellFoundedInduction, TLAPS

-----------------------------------------------------------------------------
(***************************************************************************)
(* Files and what is below them.                                           *)
(***************************************************************************)
\* The patterns of a file are a sequence of sets of files.
LEMMA FileHas ==
  ASSUME disk \in Disks, NEW f \in DOMAIN disk
  PROVE  /\ IsContent(disk[f]) /\ Dir[f] \in Strings /\ f \in Nat
         /\ Patterns(f) \in Seq(SUBSET Nat) /\ Len(Patterns(f)) \in Nat
         /\ DOMAIN Patterns(f) = 1..Len(Patterns(f))
         /\ \A i \in DOMAIN Patterns(f) : Patterns(f)[i] \subseteq Nat
<1>1. IsContent(disk[f]) /\ Dir[f] \in Strings /\ f \in Nat
  BY LoadingConstants
<1>2. Patterns(f) \in Seq(SUBSET Nat)
  BY <1>1 DEF IsContent, Patterns
<1>3. Len(Patterns(f)) \in Nat /\ DOMAIN Patterns(f) = 1..Len(Patterns(f))
  BY <1>2, LenProperties
<1>4. \A i \in DOMAIN Patterns(f) : Patterns(f)[i] \subseteq Nat
  BY <1>2, <1>3, ElementOfSeq
<1> QED BY <1>1, <1>2, <1>3, <1>4

\* A file links to what its patterns match.
LEMMA LinksAre ==
  ASSUME disk \in Disks
  PROVE  /\ \A f \in DOMAIN disk : \A x : x \in Links(f) <=> \E i \in DOMAIN Patterns(f) : x \in Patterns(f)[i]
         /\ \A f : Links(f) \subseteq Files
         /\ Files \subseteq Nat /\ Main \in Files /\ DOMAIN disk \subseteq Files
<1>1. \A f \in DOMAIN disk : \A x : x \in Links(f) <=> \E i \in DOMAIN Patterns(f) : x \in Patterns(f)[i]
  BY FileHas DEF Links, ToSet
<1>2. \A f : Links(f) \subseteq Files
  BY DEF Files, Links
<1>3. Main \in Files /\ DOMAIN disk \subseteq Files
  BY LoadingConstants DEF Files
<1>4. Files \subseteq Nat
  <2>1. ASSUME NEW f \in DOMAIN disk, NEW x \in Links(f) PROVE x \in Nat
    BY <1>1, FileHas
  <2>2. DOMAIN disk \subseteq Nat
    BY LoadingConstants
  <2> QED BY <2>1, <2>2 DEF Files
<1> QED BY <1>1, <1>2, <1>3, <1>4

\* What is below f is the least set that has f and what its members include.
LEMMA BelowIs ==
  ASSUME disk \in Disks, NEW f \in Files
  PROVE  /\ f \in Below(f) /\ Below(f) \subseteq Files
         /\ \A g \in Below(f) : Links(g) \subseteq Below(f)
<1>1. f \in Below(f) /\ Below(f) \subseteq Files
  BY DEF Below
<1>2. ASSUME NEW g \in Below(f), NEW x \in Links(g) PROVE x \in Below(f)
  <2>1. x \in Files
    BY LinksAre
  <2>2. ASSUME NEW S \in SUBSET Files, f \in S, \A h \in S : Links(h) \subseteq S PROVE x \in S
    BY <1>2, <2>2 DEF Below
  <2> QED BY <2>1, <2>2 DEF Below
<1> QED BY <1>1, <1>2

LEMMA BelowLeast ==
  ASSUME NEW f, NEW S \in SUBSET Files, f \in S, \A h \in S : Links(h) \subseteq S
  PROVE  Below(f) \subseteq S
BY DEF Below

\* What is below something below f is below f.
LEMMA BelowBelow ==
  ASSUME disk \in Disks, NEW f \in Files, NEW g \in Below(f)
  PROVE  Below(g) \subseteq Below(f)
<1>1. Below(f) \in SUBSET Files /\ \A h \in Below(f) : Links(h) \subseteq Below(f)
  BY BelowIs
<1> QED BY <1>1, BelowLeast

\* Below f are f and what is below the files that it includes.
LEMMA BelowSplit ==
  ASSUME disk \in Disks, NEW f \in Files
  PROVE  Below(f) = {f} \cup UNION {Below(x) : x \in Links(f)}
<1> DEFINE S == {f} \cup UNION {Below(x) : x \in Links(f)}
<1>0. Links(f) \subseteq Files /\ f \in Below(f) /\ Links(f) \subseteq Below(f)
  BY BelowIs, LinksAre
<1>1. S \subseteq Below(f)
  BY <1>0, BelowBelow
<1>2. S \in SUBSET Files /\ f \in S
  BY <1>1, BelowIs
<1>3. ASSUME NEW h \in S PROVE Links(h) \subseteq S
  <2>1. CASE h = f
    BY <1>0, <2>1, BelowIs
  <2>2. ASSUME NEW x \in Links(f), h \in Below(x) PROVE Links(h) \subseteq S
    BY <1>0, <2>2, BelowIs
  <2> QED BY <2>1, <2>2
<1>4. Below(f) \subseteq S
  <2> HIDE DEF S
  <2> QED BY <1>2, <1>3, BelowLeast
<1> QED BY <1>1, <1>4

\* Whatever else is below f is included by something below f.
LEMMA Parent ==
  ASSUME disk \in Disks, NEW f \in Files, NEW g \in Below(f), g # f
  PROVE  \E h \in Below(f) : g \in Links(h)
<1> DEFINE S == {x \in Below(f) : x = f \/ \E h \in Below(f) : x \in Links(h)}
<1>1. S \in SUBSET Files /\ f \in S
  BY BelowIs
<1>2. \A h \in S : Links(h) \subseteq S
  BY BelowIs
<1>3. Below(f) \subseteq S
  <2> HIDE DEF S
  <2> QED BY <1>1, <1>2, BelowLeast
<1> QED BY <1>3

-----------------------------------------------------------------------------
(***************************************************************************)
(* A tree of files.                                                        *)
(***************************************************************************)
\* In a tree every file loads, and is included once and not if it is the main one.
LEMMA TreeHas ==
  ASSUME disk \in Disks, Tree
  PROVE  /\ Main \in Reachable /\ Reachable \subseteq DOMAIN disk /\ Reachable \subseteq Files
         /\ \A f \in Reachable : Links(f) \subseteq Reachable /\ Main \notin Links(f)
         /\ \A f, g \in Reachable : Links(f) \cap Links(g) # {} => f = g
<1>1. Main \in Reachable /\ Reachable \subseteq Files /\ \A f \in Reachable : Links(f) \subseteq Reachable
  BY LinksAre, BelowIs DEF Reachable
<1>2. Reachable \subseteq DOMAIN disk
  BY DEF Tree, Loads, Valid
<1>3. \A f, g \in Reachable : Links(f) \cap Links(g) # {} => f = g
  <2> SUFFICES ASSUME NEW f \in Reachable, NEW g \in Reachable, NEW x \in Links(f), x \in Links(g)
      PROVE  f = g
    OBVIOUS
  <2>1. PICK i \in DOMAIN Patterns(f) : x \in Patterns(f)[i]
    BY <1>2, LinksAre
  <2>2. PICK j \in DOMAIN Patterns(g) : x \in Patterns(g)[j]
    BY <1>2, LinksAre
  <2> QED BY <2>1, <2>2 DEF Tree
<1> QED BY <1>1, <1>2, <1>3 DEF Tree

\* The one file that includes x is below whatever x is below.
LEMMA ParentBelow ==
  ASSUME disk \in Disks, Tree, NEW f \in Reachable, NEW x \in Below(f), x # f,
         NEW h \in Reachable, x \in Links(h)
  PROVE  h \in Below(f)
<1>1. PICK g \in Below(f) : x \in Links(g)
  BY Parent, TreeHas
<1>2. g \in Reachable
  BY BelowBelow, LinksAre DEF Reachable
<1> QED BY <1>1, <1>2, TreeHas

\* No file includes one that it is below.
LEMMA NoCircle ==
  ASSUME disk \in Disks, Tree, NEW f \in Reachable, NEW x \in Links(f)
  PROVE  f \notin Below(x)
<1> SUFFICES ASSUME f \in Below(x) PROVE FALSE
  OBVIOUS
<1> DEFINE C == Below(x)
           S == Reachable \ C
<1>0. x \in Reachable /\ x \in C /\ C \subseteq Reachable
  BY TreeHas, BelowIs, BelowBelow, LinksAre DEF Reachable
<1>1. \A w \in C : \E h \in C : w \in Links(h)
  BY <1>0, Parent, TreeHas
<1>2. Main \in S
  BY <1>0, <1>1, TreeHas
<1>3. \A h \in S : Links(h) \subseteq S
  BY <1>0, <1>1, TreeHas
<1>4. S \in SUBSET Files
  BY TreeHas
<1>5. Reachable \subseteq S
  <2> HIDE DEF S
  <2> QED BY <1>2, <1>3, <1>4, BelowLeast DEF Reachable
<1> QED BY <1>0, <1>5

\* Nothing is below two files that one file includes.
LEMMA Apart ==
  ASSUME disk \in Disks, Tree, NEW f \in Reachable, NEW x \in Links(f), NEW y \in Links(f), x # y
  PROVE  Below(x) \cap Below(y) = {}
<1> DEFINE S == {z \in Below(x) : z \notin Below(y)}
<1>0. x \in Reachable /\ y \in Reachable /\ x \in Files /\ y \in Files
  BY TreeHas
<1>1. x \notin Below(y)
  BY <1>0, ParentBelow, NoCircle
<1>2. x \in S /\ S \in SUBSET Files
  BY <1>0, <1>1, BelowIs
<1>3. ASSUME NEW z \in S, NEW w \in Links(z) PROVE w \in S
  <2>1. z \in Reachable /\ w \in Below(x)
    BY <1>0, BelowIs, BelowBelow, LinksAre DEF Reachable
  <2>2. CASE w = y
    <3>1. z = f
      BY <2>1, <2>2, TreeHas
    <3> QED BY <1>3, <3>1, NoCircle
  <2>3. CASE w # y
    BY <1>0, <1>3, <2>1, <2>3, ParentBelow
  <2> QED BY <2>2, <2>3
<1>4. Below(x) \subseteq S
  <2> HIDE DEF S
  <2> QED BY <1>2, <1>3, BelowLeast
<1> QED BY <1>4

\* Of two files that a third is below, one is below the other.
LEMMA Line ==
  ASSUME disk \in Disks, Tree, NEW a \in Reachable, NEW b \in Reachable,
         NEW f \in Below(a), f \in Below(b)
  PROVE  a \in Below(b) \/ b \in Below(a)
<1> DEFINE S == {z \in Below(a) : z \in Below(b) => a \in Below(b) \/ b \in Below(a)}
<1>0. a \in Files /\ b \in Files
  BY TreeHas
<1>1. a \in S /\ S \in SUBSET Files
  BY <1>0, BelowIs
<1>2. ASSUME NEW z \in S, NEW w \in Links(z) PROVE w \in S
  <2>1. z \in Reachable /\ w \in Below(a)
    BY <1>0, BelowIs, BelowBelow, LinksAre DEF Reachable
  <2>2. CASE w = b
    BY <2>1, <2>2
  <2>3. CASE w # b /\ w \in Below(b)
    <3>1. z \in Below(b)
      BY <2>1, <2>3, ParentBelow
    <3> QED BY <2>1, <3>1
  <2> QED BY <2>1, <2>2, <2>3
<1>3. Below(a) \subseteq S
  <2> HIDE DEF S
  <2> QED BY <1>1, <1>2, BelowLeast
<1> QED BY <1>3

\* Below f but not f itself is what is below one of the files that f includes.
LEMMA BelowOne ==
  ASSUME disk \in Disks, NEW f \in Files, NEW g \in Below(f), g # f
  PROVE  \E x \in Links(f) : g \in Below(x)
BY BelowSplit

\* f and g are below two files that h includes, f below the first one.
Parts(h, f, g) ==
  \E i, j \in DOMAIN Patterns(h) : \E x \in Patterns(h)[i], y \in Patterns(h)[j] :
    f \in Below(x) /\ g \in Below(y) /\ (i < j \/ (i = j /\ x < y))

LEMMA PartsApart ==
  ASSUME disk \in Disks, Tree, NEW h \in Reachable, NEW f, NEW g, Parts(h, f, g)
  PROVE  /\ \E x, y \in Links(h) : x # y /\ f \in Below(x) /\ g \in Below(y)
         /\ f \in Below(h) /\ g \in Below(h) /\ ~Parts(h, g, f)
<1>0. h \in DOMAIN disk /\ h \in Files /\ Links(h) \subseteq Reachable /\ Links(h) \subseteq Files
  BY TreeHas
<1>a. PICK i \in DOMAIN Patterns(h), j \in DOMAIN Patterns(h) :
        \E x \in Patterns(h)[i], y \in Patterns(h)[j] :
          f \in Below(x) /\ g \in Below(y) /\ (i < j \/ (i = j /\ x < y))
  BY DEF Parts
<1>1. PICK x \in Patterns(h)[i], y \in Patterns(h)[j] :
        f \in Below(x) /\ g \in Below(y) /\ (i < j \/ (i = j /\ x < y))
  BY <1>a
<1>2. x \in Links(h) /\ y \in Links(h) /\ x \in Nat /\ y \in Nat /\ i \in Nat /\ j \in Nat
  BY <1>0, LinksAre, FileHas
<1>3. x # y
  BY <1>0, <1>1, <1>2 DEF Tree
<1>4. Below(x) \subseteq Below(h) /\ Below(y) \subseteq Below(h)
  BY <1>0, <1>2, BelowSplit
<1>5. ASSUME NEW k \in DOMAIN Patterns(h), NEW l \in DOMAIN Patterns(h),
             NEW v \in Patterns(h)[k], NEW w \in Patterns(h)[l],
             g \in Below(v), f \in Below(w), k < l \/ (k = l /\ v < w)
      PROVE  FALSE
  <2>1. v \in Links(h) /\ w \in Links(h) /\ v \in Nat /\ w \in Nat /\ k \in Nat /\ l \in Nat
    BY <1>0, LinksAre, FileHas
  <2>2. v = y /\ w = x
    BY <1>1, <1>2, <1>5, <2>1, Apart
  <2>3. k = j /\ l = i
    BY <2>2 DEF Tree
  <2> QED BY <1>1, <1>2, <1>5, <2>1, <2>2, <2>3
<1>6. ~Parts(h, g, f)
  BY <1>5 DEF Parts
<1> QED BY <1>1, <1>2, <1>3, <1>4, <1>6

\* In a tree two files do not precede each other.
LEMMA OneWay ==
  ASSUME disk \in Disks, Tree, NEW f \in Reachable, NEW g \in Reachable, f # g,
         Precedes(f, g), Precedes(g, f)
  PROVE  FALSE
<1>0. Reachable \subseteq Files
  BY TreeHas
<1>1. ASSUME NEW a \in Reachable, NEW b \in Reachable, a # b, b \in Below(a),
             a \in Below(b) \/ \E h \in Reachable : Parts(h, b, a)
      PROVE  FALSE
  <2>1. CASE a \in Below(b)
    <3>1. PICK x \in Links(a) : b \in Below(x)
      BY <1>0, <1>1, BelowOne
    <3>2. a \in Below(x)
      BY <1>0, <2>1, <3>1, BelowBelow, TreeHas
    <3> QED BY <3>2, NoCircle
  <2>2. ASSUME NEW h \in Reachable, Parts(h, b, a) PROVE FALSE
    <3>1. PICK x \in Links(h), y \in Links(h) : x # y /\ b \in Below(x) /\ a \in Below(y)
      BY <2>2, PartsApart
    <3>2. b \in Below(y)
      BY <1>0, <1>1, <3>1, BelowBelow, TreeHas
    <3> QED BY <3>1, <3>2, Apart
  <2> QED BY <1>1, <2>1, <2>2
<1>2. ASSUME NEW h \in Reachable, NEW k \in Reachable, NEW a, NEW b, Parts(h, a, b), Parts(k, b, a),
             k \in Below(h)
      PROVE  FALSE
  <2>1. h # k
    BY <1>2, PartsApart
  <2>2. PICK c \in Links(h) : k \in Below(c)
    BY <1>0, <1>2, <2>1, BelowOne
  <2>3. a \in Below(c) /\ b \in Below(c)
    <3>1. a \in Below(k) /\ b \in Below(k)
      BY <1>2, PartsApart
    <3> QED BY <1>0, <2>2, <3>1, BelowBelow, TreeHas
  <2>4. PICK x \in Links(h), y \in Links(h) : x # y /\ a \in Below(x) /\ b \in Below(y)
    BY <1>2, PartsApart
  <2> QED BY <2>3, <2>4, Apart
<1>3. ASSUME NEW h \in Reachable, NEW k \in Reachable, Parts(h, f, g), Parts(k, g, f)
      PROVE  FALSE
  <2>1. f \in Below(h) /\ f \in Below(k)
    BY <1>3, PartsApart
  <2>2. h \in Below(k) \/ k \in Below(h)
    BY <2>1, Line
  <2> QED BY <1>2, <1>3, <2>2
<1>4. \A a, b : Precedes(a, b) <=> (b # a /\ b \in Below(a)) \/ \E h \in Reachable : Parts(h, a, b)
  BY DEF Precedes, Parts
<1> QED BY <1>1, <1>3, <1>4

\* Hence there is only one last file.
LEMMA LastIs ==
  ASSUME disk \in Disks, Tree, NEW S \in SUBSET Reachable, NEW f \in S,
         \A h \in S : h = f \/ Precedes(h, f)
  PROVE  LastOf(S, TreeOrder) = f
<1> DEFINE IsLast(x) == \A h \in S : h = x \/ <<h, x>> \in TreeOrder
<1>1. IsLast(f)
  BY DEF TreeOrder
<1>2. ASSUME NEW x \in S, IsLast(x) PROVE x = f
  <2>1. x = f \/ (Precedes(f, x) /\ Precedes(x, f))
    BY <1>2 DEF TreeOrder
  <2> QED BY <2>1, OneWay
<1> QED BY <1>1, <1>2 DEF LastOf

-----------------------------------------------------------------------------
(***************************************************************************)
(* Induction, and strings in which pairs of atoms are replaced.  The atoms *)
(* are those of the files and those that expansion puts in.                *)
(***************************************************************************)
\* A set of numbers has a least one.
LEMMA Least ==
  ASSUME NEW T, T \subseteq Nat, T # {}
  PROVE  \E x \in T : \A y \in T : x <= y
<1>1. PICK x \in T : \A y \in T : ~ (<<y, x>> \in OpToRel(<, Nat))
  BY NatLessThanWellFounded, WFMin, Zenon
<1>2. \A y \in T : ~ (y < x)
  BY <1>1 DEF OpToRel
<1> QED BY <1>2

\* A set with zero and the successors of its members has every number.
LEMMA Induct ==
  ASSUME NEW T, 0 \in T, \A n \in Nat : n \in T => n + 1 \in T
  PROVE  \A n \in Nat : n \in T
<1> SUFFICES ASSUME Nat \ T # {} PROVE FALSE
  OBVIOUS
<1>1. PICK x \in Nat \ T : \A y \in Nat \ T : x <= y
  BY Least
<1>2. x # 0 /\ x - 1 \in Nat
  OBVIOUS
<1>3. x - 1 \in T
  BY <1>1, <1>2
<1> QED BY <1>2, <1>3

Atoms == STRING \cup Signs \cup {"{U}", "error"} \cup {ToString(n) : n \in Int}
Texts == Seq(Atoms)

\* One turn of Rewrite, at position i.
RewriteTurn(s, by, f, i) ==
  CASE i > Len(s) -> <<>>
    [] i < Len(s) /\ <<s[i], s[i + 1]>> \in DOMAIN by -> by[<<s[i], s[i + 1]>>] \o f[i + 2]
    [] OTHER -> <<s[i]>> \o f[i + 1]

\* A turn looks at what is behind it.
LEMMA TurnBehind ==
  ASSUME NEW s \in Texts, NEW by, NEW f, NEW g, NEW i \in 1..Len(s) + 1,
         \A j \in i + 1..Len(s) + 1 : f[j] = g[j]
  PROVE  RewriteTurn(s, by, f, i) = RewriteTurn(s, by, g, i)
<1>1. Len(s) \in Nat
  BY LenProperties DEF Texts
<1>2. CASE i > Len(s)
  BY <1>2 DEF RewriteTurn
<1>3. CASE i < Len(s) /\ <<s[i], s[i + 1]>> \in DOMAIN by
  <2>1. i + 2 \in i + 1..Len(s) + 1 /\ ~(i > Len(s))
    BY <1>1, <1>3
  <2>2. f[i + 2] = g[i + 2]
    BY <2>1
  <2> QED BY <1>3, <2>1, <2>2 DEF RewriteTurn
<1>4. CASE i <= Len(s) /\ ~(i < Len(s) /\ <<s[i], s[i + 1]>> \in DOMAIN by)
  <2>1. i + 1 \in i + 1..Len(s) + 1 /\ ~(i > Len(s))
    BY <1>1, <1>4
  <2>2. f[i + 1] = g[i + 1]
    BY <2>1
  <2> QED BY <1>4, <2>1, <2>2 DEF RewriteTurn
<1> QED BY <1>1, <1>2, <1>3, <1>4

\* What Rewrite computes from each position on.
LEMMA RewriteIs ==
  ASSUME NEW s \in Texts, NEW by
  PROVE  \E rest : /\ Rewrite(s, by) = rest[1]
                   /\ \A i \in 1..Len(s) + 1 : rest[i] = RewriteTurn(s, by, rest, i)
<1> DEFINE n == Len(s)
           Body(f, i) ==
             CASE i > Len(s) -> <<>>
               [] i < Len(s) /\ <<s[i], s[i + 1]>> \in DOMAIN by -> by[<<s[i], s[i + 1]>>] \o f[i + 2]
               [] OTHER -> <<s[i]>> \o f[i + 1]
           Rest(f, m) == f = [i \in m..Len(s) + 1 |-> Body(f, i)]
           rest == CHOOSE f : Rest(f, 1)
<1>1. n \in Nat
  BY LenProperties DEF Texts
<1>3. ASSUME NEW f, NEW g, NEW i \in 1..n + 1, \A j \in i + 1..n + 1 : f[j] = g[j]
      PROVE  Body(f, i) = Body(g, i)
  BY <1>3, TurnBehind DEF RewriteTurn
<1>4. \A m \in Nat : m <= n => \E f : Rest(f, n + 1 - m)
  <2> DEFINE T == {m \in Nat : m <= n => \E f : Rest(f, n + 1 - m)}
  <2>1. 0 \in T
    <3>1. Rest([i \in n + 1..n + 1 |-> <<>>], n + 1)
      BY <1>1
    <3> HIDE DEF Rest
    <3> QED BY <1>1, <3>1
  <2>2. ASSUME NEW m \in Nat, m \in T PROVE m + 1 \in T
    <3> HIDE DEF Rest
    <3> SUFFICES ASSUME m + 1 <= n PROVE \E f : Rest(f, n + 1 - (m + 1))
      BY <1>1
    <3>1. PICK f : Rest(f, n + 1 - m)
      <4>1. m <= n
        BY <1>1
      <4> QED BY <2>2, <4>1
    <3> DEFINE g == [i \in n - m..n + 1 |-> IF i = n - m THEN Body(f, i) ELSE f[i]]
    <3> HIDE DEF Body
    <3>2. n - m \in 1..n /\ n + 1 - m = (n - m) + 1
      BY <1>1
    <3>3. \A i \in (n - m) + 1..n + 1 : g[i] = f[i] /\ f[i] = Body(f, i)
      <4>1. \A i \in n + 1 - m..n + 1 : f[i] = Body(f, i)
        BY <3>1 DEF Rest
      <4>2. \A i \in (n - m) + 1..n + 1 : i \in n + 1 - m..n + 1 /\ i \in n - m..n + 1 /\ i # n - m
        BY <1>1, <3>2
      <4> QED BY <4>1, <4>2
    <3>4. g[n - m] = Body(f, n - m)
      BY <1>1, <3>2
    <3>5. DOMAIN g = n - m..n + 1 /\ g = [i \in n - m..n + 1 |-> g[i]]
      OBVIOUS
    <3> HIDE DEF g
    <3>6. \A i \in n - m..n + 1 : g[i] = Body(g, i)
      <4> TAKE i \in n - m..n + 1
      <4>1. i \in 1..n + 1 /\ \A j \in i + 1..n + 1 : j \in (n - m) + 1..n + 1
        BY <1>1, <3>2
      <4>2. \A j \in i + 1..n + 1 : f[j] = g[j]
        BY <3>3, <4>1
      <4>3. Body(f, i) = Body(g, i)
        BY <1>3, <4>1, <4>2
      <4>4. g[i] = Body(f, i)
        <5>1. i = n - m \/ i \in (n - m) + 1..n + 1
          BY <1>1
        <5> QED BY <3>3, <3>4, <5>1
      <4> QED BY <4>3, <4>4
    <3>7. g = [i \in n - m..n + 1 |-> Body(g, i)]
      BY <3>5, <3>6
    <3>8. Rest(g, n + 1 - (m + 1))
      <4>1. n + 1 - (m + 1) = n - m
        BY <1>1
      <4> QED BY <3>7, <4>1 DEF Rest
    <3> QED BY <3>8
  <2> HIDE DEF T
  <2>3. \A m \in Nat : m \in T
    BY <2>1, <2>2, Induct
  <2> QED BY <2>3 DEF T
<1>5. Rest(rest, 1)
  <2>1. n + 1 - n = 1 /\ n <= n
    BY <1>1
  <2>2. \E f : Rest(f, 1)
    BY <1>1, <1>4, <2>1
  <2> HIDE DEF Rest
  <2> QED BY <2>2
<1>6. Rewrite(s, by) = rest[1]
  BY DEF Rewrite
<1> HIDE DEF rest
<1>7. \A i \in 1..n + 1 : rest[i] = Body(rest, i)
  <2> HIDE DEF Body
  <2> QED BY <1>5
<1>8. \A i \in 1..n + 1 : rest[i] = RewriteTurn(s, by, rest, i)
  BY <1>7 DEF RewriteTurn
<1> QED BY <1>6, <1>8

\* From a position on it computes what it makes of the string from there on.
LEMMA RewriteBehind ==
  ASSUME NEW s \in Texts, NEW by, NEW rest, NEW t \in Texts, NEW b, NEW d \in 0..Len(s),
         \A i \in 1..Len(s) + 1 : rest[i] = RewriteTurn(s, by, rest, i),
         Rewrite(t, by) = b[1],
         \A i \in 1..Len(t) + 1 : b[i] = RewriteTurn(t, by, b, i),
         Len(s) = Len(t) + d, \A i \in 1..Len(t) : s[i + d] = t[i]
  PROVE  Rewrite(t, by) = rest[d + 1]
<1>0. Len(s) \in Nat /\ Len(t) \in Nat /\ d \in Nat
  BY LenProperties DEF Texts
<1> DEFINE n == Len(t)
           T == {m \in Nat : m <= n => \A i \in n + 1 - m..n + 1 : b[i] = rest[i + d]}
<1>1. ASSUME NEW i \in 1..n + 1, \A j \in i + 1..n + 1 : b[j] = rest[j + d]
      PROVE  b[i] = rest[i + d]
  <2>1. i + d \in 1..Len(s) + 1 /\ b[i] = RewriteTurn(t, by, b, i)
        /\ rest[i + d] = RewriteTurn(s, by, rest, i + d)
    BY <1>0
  <2>2. CASE i > n
    <3>1. i + d > Len(s)
      BY <1>0, <2>2
    <3> QED BY <2>1, <2>2, <3>1 DEF RewriteTurn
  <2>3. CASE i < n
    <3>1. i + d < Len(s) /\ ~(i > n) /\ ~(i + d > Len(s))
          /\ i + 1 \in i + 1..n + 1 /\ i + 2 \in i + 1..n + 1 /\ i \in 1..n /\ i + 1 \in 1..n
          /\ (i + 1) + d = (i + d) + 1 /\ (i + 2) + d = (i + d) + 2
      BY <1>0, <2>3
    <3>2. t[i] = s[i + d] /\ t[i + 1] = s[(i + d) + 1]
      BY <3>1
    <3>3. b[i + 1] = rest[(i + d) + 1] /\ b[i + 2] = rest[(i + d) + 2]
      BY <1>1, <3>1
    <3> QED BY <2>1, <2>3, <3>1, <3>2, <3>3 DEF RewriteTurn
  <2>4. CASE i = n
    <3>1. ~(i + d < Len(s)) /\ ~(i > n) /\ ~(i + d > Len(s)) /\ ~(i < n)
          /\ i + 1 \in i + 1..n + 1 /\ i \in 1..n /\ (i + 1) + d = (i + d) + 1
      BY <1>0, <2>4
    <3>2. t[i] = s[i + d] /\ b[i + 1] = rest[(i + d) + 1]
      BY <1>1, <3>1
    <3> QED BY <2>1, <3>1, <3>2 DEF RewriteTurn
  <2> QED BY <1>0, <2>2, <2>3, <2>4
<1>2. 0 \in T
  <2>1. n + 1 \in 1..n + 1 /\ \A j \in (n + 1) + 1..n + 1 : FALSE
    BY <1>0
  <2>2. b[n + 1] = rest[(n + 1) + d]
    BY <1>1, <2>1
  <2>3. \A i \in n + 1 - 0..n + 1 : i = n + 1
    BY <1>0
  <2> QED BY <2>2, <2>3
<1>3. ASSUME NEW m \in Nat, m \in T PROVE m + 1 \in T
  <2> SUFFICES ASSUME m + 1 <= n, NEW i \in n + 1 - (m + 1)..n + 1 PROVE b[i] = rest[i + d]
    BY <1>0
  <2>1. \A j \in n + 1 - m..n + 1 : b[j] = rest[j + d]
    BY <1>0, <1>3
  <2>2. i \in 1..n + 1 /\ \A j \in i + 1..n + 1 : j \in n + 1 - m..n + 1
    BY <1>0
  <2> QED BY <1>1, <2>1, <2>2
<1> HIDE DEF T
<1>4. \A m \in Nat : m \in T
  BY <1>2, <1>3, Induct
<1>5. b[1] = rest[1 + d]
  <2>1. n + 1 - n = 1 /\ n <= n /\ 1 \in 1..n + 1 /\ n \in T
    BY <1>0, <1>4
  <2> QED BY <1>0, <2>1 DEF T
<1> QED BY <1>0, <1>5

\* What a pair of atoms becomes.
At(by, a, b) == by[<<a, b>>]
PutsText(by) == \A a, b : <<a, b>> \in DOMAIN by => At(by, a, b) \in Texts

\* Nothing is left of nothing; a pair is replaced; an atom stays that begins no pair.
LEMMA RewriteHas ==
  ASSUME NEW by
  PROVE  /\ Rewrite(<<>>, by) = <<>>
         /\ \A a, b \in Atoms, t \in Texts : <<a, b>> \in DOMAIN by =>
              Rewrite(<<a, b>> \o t, by) = At(by, a, b) \o Rewrite(t, by)
         /\ \A a \in Atoms, t \in Texts :
              (t # <<>> => <<a, t[1]>> \notin DOMAIN by) =>
                Rewrite(<<a>> \o t, by) = <<a>> \o Rewrite(t, by)
<1>1. Rewrite(<<>>, by) = <<>>
  <2>1. <<>> \in Texts /\ Len(<<>>) = 0 /\ 1 \in 1..Len(<<>>) + 1
    BY DEF Texts
  <2>2. PICK rest : /\ Rewrite(<<>>, by) = rest[1]
                    /\ \A i \in 1..Len(<<>>) + 1 : rest[i] = RewriteTurn(<<>>, by, rest, i)
    BY <2>1, RewriteIs
  <2>3. RewriteTurn(<<>>, by, rest, 1) = <<>>
    BY <2>1 DEF RewriteTurn
  <2> QED BY <2>1, <2>2, <2>3
<1>2. ASSUME NEW a \in Atoms, NEW b \in Atoms, NEW t \in Texts, <<a, b>> \in DOMAIN by
      PROVE  Rewrite(<<a, b>> \o t, by) = At(by, a, b) \o Rewrite(t, by)
  <2> DEFINE s == <<a, b>> \o t
  <2>1. s \in Texts /\ Len(s) = Len(t) + 2 /\ s[1] = a /\ s[2] = b /\ Len(t) \in Nat
        /\ \A i \in 1..Len(t) : s[i + 2] = t[i]
    BY ConcatProperties, LenProperties DEF Texts
  <2> HIDE DEF s
  <2>2. PICK rest : /\ Rewrite(s, by) = rest[1]
                    /\ \A i \in 1..Len(s) + 1 : rest[i] = RewriteTurn(s, by, rest, i)
    BY <2>1, RewriteIs
  <2>3. PICK c : /\ Rewrite(t, by) = c[1]
                 /\ \A i \in 1..Len(t) + 1 : c[i] = RewriteTurn(t, by, c, i)
    BY RewriteIs
  <2>4. 2 \in 0..Len(s) /\ 1 \in 1..Len(s) + 1 /\ 1 < Len(s) /\ ~(1 > Len(s)) /\ 2 + 1 = 3 /\ 1 + 1 = 2 /\ 1 + 2 = 3
    BY <2>1
  <2>5. Rewrite(t, by) = rest[2 + 1]
    BY <2>1, <2>2, <2>3, <2>4, RewriteBehind
  <2>6. rest[1] = RewriteTurn(s, by, rest, 1)
    BY <2>2, <2>4
  <2> QED BY <1>2, <2>1, <2>2, <2>4, <2>5, <2>6, ZenonT(60) DEF RewriteTurn, At, s
<1>3. ASSUME NEW a \in Atoms, NEW t \in Texts, t # <<>> => <<a, t[1]>> \notin DOMAIN by
      PROVE  Rewrite(<<a>> \o t, by) = <<a>> \o Rewrite(t, by)
  <2> DEFINE s == <<a>> \o t
  <2>1. s \in Texts /\ Len(s) = Len(t) + 1 /\ s[1] = a /\ Len(t) \in Nat
        /\ \A i \in 1..Len(t) : s[i + 1] = t[i]
    BY ConcatProperties, LenProperties DEF Texts
  <2> HIDE DEF s
  <2>2. PICK rest : /\ Rewrite(s, by) = rest[1]
                    /\ \A i \in 1..Len(s) + 1 : rest[i] = RewriteTurn(s, by, rest, i)
    BY <2>1, RewriteIs
  <2>3. PICK c : /\ Rewrite(t, by) = c[1]
                 /\ \A i \in 1..Len(t) + 1 : c[i] = RewriteTurn(t, by, c, i)
    BY RewriteIs
  <2>4. 1 \in 0..Len(s) /\ 1 \in 1..Len(s) + 1 /\ ~(1 > Len(s)) /\ 1 + 1 = 2
    BY <2>1
  <2>5. Rewrite(t, by) = rest[1 + 1]
    BY <2>1, <2>2, <2>3, <2>4, RewriteBehind
  <2>6. rest[1] = RewriteTurn(s, by, rest, 1)
    BY <2>2, <2>4
  <2>7. ~(1 < Len(s) /\ <<s[1], s[1 + 1]>> \in DOMAIN by)
    <3> SUFFICES ASSUME 1 < Len(s) PROVE <<s[1], s[1 + 1]>> \notin DOMAIN by
      OBVIOUS
    <3>1. 1 \in 1..Len(t) /\ t # <<>>
      BY <2>1, EmptySeq
    <3> QED BY <1>3, <2>1, <3>1
  <2> QED BY <2>1, <2>2, <2>4, <2>5, <2>6, <2>7 DEF RewriteTurn, s
<1> QED BY <1>1, <1>2, <1>3

\* Two atoms before a string, one by one.
LEMMA Ones ==
  \A a, b \in Atoms, t \in Texts : <<a>> \o (<<b>> \o t) = <<a, b>> \o t
<1> SUFFICES ASSUME NEW a \in Atoms, NEW b \in Atoms, NEW t \in Texts
    PROVE  <<a>> \o (<<b>> \o t) = <<a, b>> \o t
  OBVIOUS
<1> DEFINE v == <<a>> \o (<<b>> \o t)
           w == <<a, b>> \o t
<1>1. /\ v \in Texts /\ Len(v) = Len(t) + 2
      /\ \A i \in 1..Len(t) + 2 : v[i] = IF i = 1 THEN a ELSE IF i = 2 THEN b ELSE t[i - 2]
  BY ConcatProperties, LenProperties DEF Texts
<1>2. /\ w \in Texts /\ Len(w) = Len(t) + 2
      /\ \A i \in 1..Len(t) + 2 : w[i] = IF i = 1 THEN a ELSE IF i = 2 THEN b ELSE t[i - 2]
  BY ConcatProperties, LenProperties DEF Texts
<1> HIDE DEF v, w
<1>3. \A i \in 1..Len(v) : v[i] = w[i]
  BY <1>1, <1>2
<1>4. v = w
  BY <1>1, <1>2, <1>3, SeqEqual DEF Texts
<1> QED BY <1>4 DEF v, w

\* A string that is not empty begins with an atom, or with two.
LEMMA Heads ==
  ASSUME NEW s \in Texts, s # <<>>
  PROVE  /\ s[1] \in Atoms /\ Tail(s) \in Texts /\ s = <<s[1]>> \o Tail(s)
         /\ Len(s) \in Nat /\ Len(Tail(s)) = Len(s) - 1
         /\ Tail(s) # <<>> => /\ s[2] \in Atoms /\ s[2] = Tail(s)[1] /\ Tail(Tail(s)) \in Texts
                              /\ s = <<s[1], s[2]>> \o Tail(Tail(s))
                              /\ Len(Tail(Tail(s))) = Len(s) - 2
<1>1. ASSUME NEW u \in Texts, u # <<>>
      PROVE  /\ u[1] \in Atoms /\ Tail(u) \in Texts /\ u = <<u[1]>> \o Tail(u)
             /\ Len(u) \in Nat /\ Len(Tail(u)) = Len(u) - 1 /\ Len(u) >= 1
             /\ \A i \in 1..Len(u) - 1 : Tail(u)[i] = u[i + 1]
  <2>1. Len(u) \in Nat /\ Len(u) >= 1 /\ u[1] \in Atoms
    BY <1>1, EmptySeq, LenProperties, ElementOfSeq DEF Texts
  <2>2. Tail(u) \in Texts /\ Len(Tail(u)) = Len(u) - 1 /\ \A i \in 1..Len(u) - 1 : Tail(u)[i] = u[i + 1]
    BY <1>1, HeadTailProperties DEF Texts
  <2>3. u = <<u[1]>> \o Tail(u)
    <3> DEFINE v == <<u[1]>> \o Tail(u)
    <3>1. v \in Texts /\ Len(v) = Len(u) /\ \A i \in 1..Len(u) : v[i] = u[i]
      BY <2>1, <2>2, ConcatProperties DEF Texts
    <3> HIDE DEF v
    <3>2. u = v
      BY <3>1, SeqEqual DEF Texts
    <3> QED BY <3>2 DEF v
  <2> QED BY <2>1, <2>2, <2>3
<1>2. ASSUME Tail(s) # <<>>
      PROVE  /\ s[2] \in Atoms /\ s[2] = Tail(s)[1] /\ Tail(Tail(s)) \in Texts
             /\ s = <<s[1], s[2]>> \o Tail(Tail(s)) /\ Len(Tail(Tail(s))) = Len(s) - 2
  <2>1. Tail(s) \in Texts /\ s = <<s[1]>> \o Tail(s) /\ s[1] \in Atoms /\ Len(s) \in Nat
        /\ Len(Tail(s)) = Len(s) - 1 /\ \A i \in 1..Len(s) - 1 : Tail(s)[i] = s[i + 1]
    BY <1>1
  <2>2. Tail(s)[1] \in Atoms /\ Tail(Tail(s)) \in Texts /\ Tail(s) = <<Tail(s)[1]>> \o Tail(Tail(s))
        /\ Len(Tail(Tail(s))) = Len(Tail(s)) - 1 /\ Len(Tail(s)) >= 1
    BY <1>1, <1>2, <2>1
  <2>3. 1 \in 1..Len(s) - 1 /\ 1 + 1 = 2
    BY <2>1, <2>2
  <2>4. Tail(s)[1] = s[2]
    BY <2>1, <2>3
  <2> HIDE DEF Texts, Atoms
  <2>6. s = <<s[1], s[2]>> \o Tail(Tail(s))
    <3>1. <<s[1]>> \o (<<s[2]>> \o Tail(Tail(s))) = <<s[1], s[2]>> \o Tail(Tail(s))
      BY <2>1, <2>2, <2>4, Ones
    <3> QED BY <2>1, <2>2, <2>4, <3>1
  <2> QED BY <2>1, <2>2, <2>4, <2>6
<1> QED BY <1>1, <1>2

\* Pieces put together in one way or another.
LEMMA Together ==
  /\ \A a, b \in Texts : a \o b \in Texts
  /\ \A a, b, c \in Texts : (a \o b) \o c = a \o (b \o c)
BY ConcatProperties, ConcatAssociative DEF Texts

\* Strings become strings.
LEMMA RewriteType ==
  ASSUME NEW by, PutsText(by)
  PROVE  \A s \in Texts : Rewrite(s, by) \in Texts
<1> DEFINE T == {n \in Nat : \A s \in Texts : Len(s) <= n => Rewrite(s, by) \in Texts}
<1>0. <<>> \in Texts /\ \A a \in Atoms : <<a>> \in Texts
  BY DEF Texts
<1>1. 0 \in T
  <2> SUFFICES ASSUME NEW s \in Texts, Len(s) <= 0 PROVE Rewrite(s, by) \in Texts
    OBVIOUS
  <2>1. s = <<>>
    BY EmptySeq, LenProperties DEF Texts
  <2> QED BY <1>0, <2>1, RewriteHas
<1>2. ASSUME NEW n \in Nat, n \in T PROVE n + 1 \in T
  <2> SUFFICES ASSUME NEW s \in Texts, Len(s) <= n + 1, s # <<>> PROVE Rewrite(s, by) \in Texts
    <3>1. <<>> \in Texts /\ Rewrite(<<>>, by) \in Texts
      BY <1>0, RewriteHas
    <3> QED BY <3>1
  <2>1. s[1] \in Atoms /\ Tail(s) \in Texts /\ s = <<s[1]>> \o Tail(s) /\ Len(Tail(s)) <= n
    <3>1. s[1] \in Atoms /\ Tail(s) \in Texts /\ s = <<s[1]>> \o Tail(s)
          /\ Len(s) \in Nat /\ Len(Tail(s)) = Len(s) - 1
      BY Heads, Zenon
    <3>2. Len(Tail(s)) <= n
      BY <3>1
    <3> QED BY <3>1, <3>2, Zenon
  <2>2. CASE Tail(s) # <<>> /\ <<s[1], s[2]>> \in DOMAIN by
    <3>1. s[2] \in Atoms /\ Tail(Tail(s)) \in Texts /\ s = <<s[1], s[2]>> \o Tail(Tail(s)) /\ Len(Tail(Tail(s))) <= n
      <4>1. /\ s[2] \in Atoms /\ Tail(Tail(s)) \in Texts /\ s = <<s[1], s[2]>> \o Tail(Tail(s))
            /\ Len(s) \in Nat /\ Len(Tail(Tail(s))) = Len(s) - 2
        BY <2>2, Heads, Zenon
      <4>2. Len(Tail(Tail(s))) <= n
        <5>1. \A m \in Nat : m <= n + 1 => m - 2 <= n
          OBVIOUS
        <5> QED BY <4>1, <5>1, Zenon
      <4> QED BY <4>1, <4>2, Zenon
    <3>2. Rewrite(s, by) = At(by, s[1], s[2]) \o Rewrite(Tail(Tail(s)), by)
      <4>1. Rewrite(<<s[1], s[2]>> \o Tail(Tail(s)), by) = At(by, s[1], s[2]) \o Rewrite(Tail(Tail(s)), by)
        BY <2>1, <2>2, <3>1, RewriteHas, Zenon
      <4> QED BY <3>1, <4>1, Zenon
    <3>3. Rewrite(Tail(Tail(s)), by) \in Texts /\ At(by, s[1], s[2]) \in Texts
      BY <1>2, <2>2, <3>1 DEF PutsText
    <3> QED BY <3>2, <3>3, Together
  <2>3. CASE ~(Tail(s) # <<>> /\ <<s[1], s[2]>> \in DOMAIN by)
    <3>1. Tail(s) # <<>> => <<s[1], Tail(s)[1]>> \notin DOMAIN by
      BY <2>3, Heads
    <3>2. Rewrite(s, by) = <<s[1]>> \o Rewrite(Tail(s), by)
      BY <2>1, <3>1, RewriteHas
    <3>3. Rewrite(Tail(s), by) \in Texts /\ <<s[1]>> \in Texts
      BY <1>0, <1>2, <2>1
    <3> QED BY <3>2, <3>3, Together
  <2> QED BY <2>2, <2>3
<1> HIDE DEF T
<1>3. \A n \in Nat : n \in T
  BY <1>1, <1>2, Induct
<1> QED BY <1>3, LenProperties DEF T, Texts

\* What begins no pair stays.
LEMMA RewritePlain ==
  ASSUME NEW by, PutsText(by), NEW t \in Texts
  PROVE  \A v \in Texts : (\A i \in 1..Len(v), b \in Atoms : <<v[i], b>> \notin DOMAIN by) =>
                            Rewrite(v \o t, by) = v \o Rewrite(t, by)
<1> DEFINE Stays(v) == \A i \in 1..Len(v), b \in Atoms : <<v[i], b>> \notin DOMAIN by
           T == {n \in Nat : \A v \in Texts : Len(v) = n /\ Stays(v) =>
                               Rewrite(v \o t, by) = v \o Rewrite(t, by)}
<1>0. Rewrite(t, by) \in Texts /\ <<>> \in Texts
  BY RewriteType DEF Texts
<1>1. 0 \in T
  <2> SUFFICES ASSUME NEW v \in Texts, Len(v) = 0 PROVE Rewrite(v \o t, by) = v \o Rewrite(t, by)
    OBVIOUS
  <2>1. v = <<>>
    BY EmptySeq DEF Texts
  <2>2. v \o t = t /\ v \o Rewrite(t, by) = Rewrite(t, by)
    BY <1>0, <2>1, ConcatEmptySeq DEF Texts
  <2> QED BY <2>2
<1>2. ASSUME NEW n \in Nat, n \in T PROVE n + 1 \in T
  <2> SUFFICES ASSUME NEW v \in Texts, Len(v) = n + 1, Stays(v)
      PROVE Rewrite(v \o t, by) = v \o Rewrite(t, by)
    OBVIOUS
  <2>0. v # <<>> /\ Len(v) \in Nat
    BY EmptySeq, LenProperties DEF Texts
  <2>1. v[1] \in Atoms /\ Tail(v) \in Texts /\ v = <<v[1]>> \o Tail(v) /\ Len(Tail(v)) = n
    <3>1. v[1] \in Atoms /\ Tail(v) \in Texts /\ v = <<v[1]>> \o Tail(v) /\ Len(Tail(v)) = Len(v) - 1
      BY <2>0, Heads, Zenon
    <3>2. Len(Tail(v)) = n
      BY <3>1
    <3> QED BY <3>1, <3>2, Zenon
  <2>2. Stays(Tail(v))
    <3>1. \A i \in 1..Len(Tail(v)) : i + 1 \in 1..Len(v) /\ Tail(v)[i] = v[i + 1]
      BY <2>0, <2>1, HeadTailProperties DEF Texts
    <3> QED BY <3>1
  <2>3. Rewrite(Tail(v) \o t, by) = Tail(v) \o Rewrite(t, by)
    BY <1>2, <2>1, <2>2
  <2>4. <<v[1]>> \in Texts /\ Tail(v) \o t \in Texts
    <3>1. <<v[1]>> \in Texts
      BY <2>1 DEF Texts
    <3> QED BY <2>1, <3>1, Together
  <2>5. Tail(v) \o t # <<>> => <<v[1], (Tail(v) \o t)[1]>> \notin DOMAIN by
    <3>1. 1 \in 1..Len(v)
      BY <2>0
    <3>2. Tail(v) \o t # <<>> => (Tail(v) \o t)[1] \in Atoms
      BY <2>4, Heads
    <3> QED BY <3>1, <3>2
  <2>6. Rewrite(<<v[1]>> \o (Tail(v) \o t), by) = <<v[1]>> \o Rewrite(Tail(v) \o t, by)
    BY <2>1, <2>4, <2>5, RewriteHas
  <2>7. v \o t = <<v[1]>> \o (Tail(v) \o t)
        /\ v \o Rewrite(t, by) = <<v[1]>> \o (Tail(v) \o Rewrite(t, by))
    <3>1. (<<v[1]>> \o Tail(v)) \o t = <<v[1]>> \o (Tail(v) \o t)
      BY <2>1, <2>4, Together, Zenon
    <3>2. (<<v[1]>> \o Tail(v)) \o Rewrite(t, by) = <<v[1]>> \o (Tail(v) \o Rewrite(t, by))
      BY <1>0, <2>1, <2>4, Together, ZenonT(60)
    <3> QED BY <2>1, <3>1, <3>2
  <2> QED BY <2>3, <2>6, <2>7
<1> HIDE DEF T
<1>3. \A n \in Nat : n \in T
  BY <1>1, <1>2, Induct
<1> QED BY <1>3, LenProperties DEF T, Texts

-----------------------------------------------------------------------------
(***************************************************************************)
(* Expansion: the passes over a command make of it what it means.          *)
(***************************************************************************)
\* The passes of expandString, and that of ExpandNumprocs.
Templates(file, name, p) == Keep("%") ++ resolveTemplateVar(file, name, p)
Variables == Keep("$") ++ LookupEnv
Numbers(p, k) == Only(<<"%", "(num)">>, Numeral(p.start + k))

Numbered(s, p, k) == IF p.numprocs > 1 THEN Rewrite(s, Numbers(p, k)) ELSE s

\* What a later reading could take for a part of a variable or an escape.
Special == Signs \cup {"{U}"} \cup DOMAIN Env

\* What one program, one of its instances and its file are.
IsInstance(file, name, p, k) ==
  /\ Dir[file] \in Texts /\ name \in Texts /\ p.start \in Int /\ p.numprocs \in Int /\ k \in Int
  /\ p.numprocs <= 1 => k = 0

LEMMA StringsAreTexts == Strings \subseteq Texts /\ \A n \in Int : Numeral(n) \in Texts
<1>1. ASSUME NEW s \in Strings PROVE s \in Texts
  <2>1. Len(s) \in Nat /\ s \in [1..Len(s) -> STRING]
    BY LenProperties DEF Strings
  <2>2. s \in [1..Len(s) -> Atoms]
    BY <2>1 DEF Atoms
  <2> HIDE DEF Atoms
  <2> QED BY <2>1, <2>2, SeqDef DEF Texts
<1>2. ASSUME NEW n \in Int PROVE Numeral(n) \in Texts
  <2>1. ToString(n) \in Atoms
    BY DEF Atoms
  <2> HIDE DEF Atoms
  <2> QED BY <2>1 DEF Numeral, Texts
<1> QED BY <1>1, <1>2

\* The pairs of atoms that each pass replaces.
InTemplates(a, b) == a = "%" /\ b \in {"%", "(here)", "(prog)", "(group)", "(procs)", "(num)", "(bad)"}
InVariables(a, b) == a = "$" /\ b \in {"$", "{U}"} \cup DOMAIN Env
InUnescape(a, b, c) == a = c /\ b = c
InNumbers(a, b) == a = "%" /\ b = "(num)"

LEMMA PassKeys ==
  ASSUME NEW file, NEW name, NEW p, NEW k, NEW a, NEW b
  PROVE  /\ <<a, b>> \in DOMAIN Templates(file, name, p) <=> InTemplates(a, b)
         /\ <<a, b>> \in DOMAIN Variables <=> InVariables(a, b)
         /\ \A c : <<a, b>> \in DOMAIN Unescape(c) <=> InUnescape(a, b, c)
         /\ <<a, b>> \in DOMAIN Numbers(p, k) <=> InNumbers(a, b)
         /\ <<a, b>> \in DOMAIN Meanings(file, name, p, k) <=> InTemplates(a, b) \/ InVariables(a, b)
<1>0. \A x : x \in DOMAIN LookupEnv <=> \E c \in DOMAIN Env \cup {"{U}"} : x = <<"$", c>>
  BY DEF LookupEnv
<1>1. <<a, b>> \in DOMAIN LookupEnv <=> a = "$" /\ b \in {"{U}"} \cup DOMAIN Env
  <2>1. \A c : <<a, b>> = <<"$", c>> <=> a = "$" /\ b = c
    OBVIOUS
  <2> QED BY <1>0, <2>1, Zenon
<1>2. <<a, b>> \in DOMAIN resolveTemplateVar(file, name, p) <=>
        a = "%" /\ b \in {"(here)", "(prog)", "(group)", "(procs)", "(num)", "(bad)"}
  BY DEF resolveTemplateVar, ++, Only
<1>3. \A c : /\ <<a, b>> \in DOMAIN Unescape(c) <=> a = c /\ b = c
             /\ <<a, b>> \in DOMAIN Keep(c) <=> a = c /\ b = c
  BY DEF Unescape, Keep, Only
<1>4. <<a, b>> \in DOMAIN Numbers(p, k) <=> a = "%" /\ b = "(num)"
  BY DEF Numbers, Only
<1>5. \A f, g, x : x \in DOMAIN (f ++ g) <=> x \in DOMAIN f \/ x \in DOMAIN g
  BY DEF ++
<1>6. /\ <<a, b>> \in DOMAIN Templates(file, name, p) <=>
             a = "%" /\ b \in {"%", "(here)", "(prog)", "(group)", "(procs)", "(num)", "(bad)"}
      /\ <<a, b>> \in DOMAIN Variables <=> a = "$" /\ b \in {"$", "{U}"} \cup DOMAIN Env
  <2>1. <<a, b>> \in DOMAIN Templates(file, name, p) <=>
          (a = "%" /\ b = "%") \/ (a = "%" /\ b \in {"(here)", "(prog)", "(group)", "(procs)", "(num)", "(bad)"})
    BY <1>2, <1>3, <1>5, ZenonT(60) DEF Templates
  <2>2. <<a, b>> \in DOMAIN Variables <=> (a = "$" /\ b = "$") \/ (a = "$" /\ b \in {"{U}"} \cup DOMAIN Env)
    BY <1>1, <1>3, <1>5, Zenon DEF Variables
  <2> QED BY <2>1, <2>2
<1>7. <<a, b>> \in DOMAIN Meanings(file, name, p, k) <=>
        \/ a = "%" /\ b = "%"
        \/ a = "$" /\ b = "$"
        \/ <<a, b>> \in DOMAIN LookupEnv
        \/ a = "%" /\ b = "(num)"
        \/ <<a, b>> \in DOMAIN resolveTemplateVar(file, name, p)
  <2>1. <<a, b>> \in DOMAIN Only(<<"%", "(num)">>, Numeral(p.start + k)) <=> a = "%" /\ b = "(num)"
    BY DEF Only
  <2> DEFINE U == Unescape("%") ++ Unescape("$")
             V == U ++ LookupEnv
             W == V ++ Only(<<"%", "(num)">>, Numeral(p.start + k))
  <2>2. Meanings(file, name, p, k) = W ++ resolveTemplateVar(file, name, p)
    BY DEF Meanings
  <2>3. <<a, b>> \in DOMAIN U <=> (a = "%" /\ b = "%") \/ (a = "$" /\ b = "$")
    BY <1>3, <1>5, Zenon
  <2> HIDE DEF U
  <2>4. <<a, b>> \in DOMAIN V <=> <<a, b>> \in DOMAIN U \/ <<a, b>> \in DOMAIN LookupEnv
    BY <1>5, Zenon
  <2> HIDE DEF V
  <2>5. <<a, b>> \in DOMAIN W <=> <<a, b>> \in DOMAIN V \/ (a = "%" /\ b = "(num)")
    BY <1>5, <2>1, Zenon
  <2> HIDE DEF W
  <2>6. <<a, b>> \in DOMAIN Meanings(file, name, p, k) <=>
          <<a, b>> \in DOMAIN W \/ <<a, b>> \in DOMAIN resolveTemplateVar(file, name, p)
    BY <1>5, <2>2, Zenon
  <2> QED BY <2>3, <2>4, <2>5, <2>6, Zenon
<1>8. \A c : <<a, b>> \in DOMAIN Unescape(c) <=> a = c /\ b = c
  BY <1>3
<1>9. <<a, b>> \in DOMAIN Meanings(file, name, p, k) <=>
        \/ <<a, b>> \in DOMAIN Templates(file, name, p)
        \/ <<a, b>> \in DOMAIN Variables
  <2> DEFINE inT == <<a, b>> \in DOMAIN Templates(file, name, p)
             inV == <<a, b>> \in DOMAIN Variables
             inM == <<a, b>> \in DOMAIN Meanings(file, name, p, k)
  <2>1. inM <=> \/ a = "%" /\ b = "%"
                \/ a = "$" /\ b = "$"
                \/ a = "$" /\ b \in {"{U}"} \cup DOMAIN Env
                \/ a = "%" /\ b = "(num)"
                \/ a = "%" /\ b \in {"(here)", "(prog)", "(group)", "(procs)", "(num)", "(bad)"}
    BY <1>1, <1>2, <1>7, Zenon
  <2> HIDE DEF inM, inT, inV
  <2>2. inT <=> a = "%" /\ b \in {"%", "(here)", "(prog)", "(group)", "(procs)", "(num)", "(bad)"}
    BY <1>6, Zenon DEF inT
  <2>3. inV <=> a = "$" /\ b \in {"$", "{U}"} \cup DOMAIN Env
    BY <1>6, Zenon DEF inV
  <2>4. inM <=> inT \/ inV
    BY <2>1, <2>2, <2>3
  <2> QED BY <2>4 DEF inM, inT, inV
<1> QED BY <1>4, <1>6, <1>8, <1>9, Zenon DEF InTemplates, InVariables, InUnescape, InNumbers

\* What they put in.
TemplatesPut(file, name, p) ==
  /\ At(Templates(file, name, p), "%", "%") = <<"%", "%">>
  /\ At(Templates(file, name, p), "%", "(here)") = Dir[file]
  /\ At(Templates(file, name, p), "%", "(prog)") = name
  /\ At(Templates(file, name, p), "%", "(group)") = name
  /\ At(Templates(file, name, p), "%", "(procs)") = Numeral(p.numprocs)
  /\ At(Templates(file, name, p), "%", "(bad)") = Error
  /\ p.numprocs > 1 => At(Templates(file, name, p), "%", "(num)") = <<"%", "(num)">>
  /\ ~(p.numprocs > 1) => At(Templates(file, name, p), "%", "(num)") = Numeral(p.start)

MeaningsPut(file, name, p, k) ==
  /\ At(Meanings(file, name, p, k), "%", "%") = <<"%">>
  /\ At(Meanings(file, name, p, k), "$", "$") = <<"$">>
  /\ At(Meanings(file, name, p, k), "%", "(here)") = Dir[file]
  /\ At(Meanings(file, name, p, k), "%", "(prog)") = name
  /\ At(Meanings(file, name, p, k), "%", "(group)") = name
  /\ At(Meanings(file, name, p, k), "%", "(procs)") = Numeral(p.numprocs)
  /\ At(Meanings(file, name, p, k), "%", "(bad)") = Error
  /\ At(Meanings(file, name, p, k), "%", "(num)") = Numeral(p.start + k)

VariablesPut(M) ==
  \A c \in (DOMAIN Env \cup {"{U}"}) \ {"$"} :
    /\ At(Variables, "$", c) = At(M, "$", c)
    /\ c \in DOMAIN Env => At(Variables, "$", c) = Env[c]
    /\ c \notin DOMAIN Env => At(Variables, "$", c) = Error

LEMMA PassValues ==
  ASSUME NEW file, NEW name, NEW p, NEW k
  PROVE  /\ TemplatesPut(file, name, p) /\ MeaningsPut(file, name, p, k)
         /\ VariablesPut(Meanings(file, name, p, k)) /\ At(Variables, "$", "$") = <<"$", "$">>
         /\ At(Numbers(p, k), "%", "(num)") = Numeral(p.start + k)
         /\ \A c : At(Unescape(c), c, c) = <<c>>
<1> DEFINE T == resolveTemplateVar(file, name, p)
           U == Unescape("%") ++ Unescape("$")
           V == U ++ LookupEnv
           N == Only(<<"%", "(num)">>, Numeral(p.start + k))
           W == V ++ N
<1>1. \A a, b, v : At(Only(<<a, b>>, v), a, b) = v
  BY DEF At, Only
<1>2. \A a, b, c, d, v : <<a, b>> \in DOMAIN Only(<<c, d>>, v) <=> a = c /\ b = d
  BY DEF Only
<1>3. \A f, g, a, b : <<a, b>> \in DOMAIN (f ++ g) <=> <<a, b>> \in DOMAIN f \/ <<a, b>> \in DOMAIN g
  BY DEF ++
<1>4. \A f, g, a, b : <<a, b>> \in DOMAIN f => At(f ++ g, a, b) = At(f, a, b)
  BY DEF ++, At
<1>5. \A f, g, a, b : <<a, b>> \notin DOMAIN f /\ <<a, b>> \in DOMAIN g => At(f ++ g, a, b) = At(g, a, b)
  BY DEF ++, At
<1>6. /\ At(T, "%", "(here)") = Dir[file] /\ At(T, "%", "(prog)") = name
      /\ At(T, "%", "(group)") = name /\ At(T, "%", "(procs)") = Numeral(p.numprocs) /\ At(T, "%", "(bad)") = Error
      /\ p.numprocs > 1 => At(T, "%", "(num)") = <<"%", "(num)">>
      /\ ~(p.numprocs > 1) => At(T, "%", "(num)") = Numeral(p.start)
  BY DEF resolveTemplateVar, At, ++, Only
<1>7. \A b \in {"(here)", "(prog)", "(group)", "(procs)", "(num)", "(bad)"} : <<"%", b>> \in DOMAIN T
  BY DEF resolveTemplateVar, ++, Only
<1>8. \A a, b : <<a, b>> \in DOMAIN LookupEnv <=> a = "$" /\ b \in DOMAIN Env \cup {"{U}"}
  <2>1. \A x : x \in DOMAIN LookupEnv <=> \E c \in DOMAIN Env \cup {"{U}"} : x = <<"$", c>>
    BY DEF LookupEnv
  <2>3. ASSUME NEW a, NEW b
        PROVE  <<a, b>> \in DOMAIN LookupEnv <=> a = "$" /\ b \in DOMAIN Env \cup {"{U}"}
    <3>1. \A c : <<a, b>> = <<"$", c>> <=> a = "$" /\ b = c
      OBVIOUS
    <3> QED BY <2>1, <3>1, Zenon
  <2> QED BY <2>3
<1>9. \A c \in DOMAIN Env \cup {"{U}"} :
        /\ c \in DOMAIN Env => At(LookupEnv, "$", c) = Env[c]
        /\ c \notin DOMAIN Env => At(LookupEnv, "$", c) = Error
  BY DEF LookupEnv, At
<1>10. /\ \A a, b, c : <<a, b>> \in DOMAIN Keep(c) <=> a = c /\ b = c
       /\ \A a, b, c : <<a, b>> \in DOMAIN Unescape(c) <=> a = c /\ b = c
  BY <1>2 DEF Keep, Unescape
<1>11. \A c : At(Keep(c), c, c) = <<c, c>> /\ At(Unescape(c), c, c) = <<c>>
  BY <1>1 DEF Keep, Unescape
<1>12. Templates(file, name, p) = Keep("%") ++ T /\ Variables = Keep("$") ++ LookupEnv
       /\ Meanings(file, name, p, k) = W ++ T /\ Numbers(p, k) = N
  BY DEF Templates, Variables, Meanings, Numbers
<1>13. At(N, "%", "(num)") = Numeral(p.start + k) /\ \A a, b : <<a, b>> \in DOMAIN N <=> a = "%" /\ b = "(num)"
  BY <1>1, <1>2
<1> HIDE DEF T, N
<1>14. /\ At(U, "%", "%") = <<"%">> /\ At(U, "$", "$") = <<"$">>
       /\ \A a, b : <<a, b>> \in DOMAIN U <=> (a = "%" /\ b = "%") \/ (a = "$" /\ b = "$")
  <2>1. \A a, b : <<a, b>> \in DOMAIN U <=> (a = "%" /\ b = "%") \/ (a = "$" /\ b = "$")
    <3>1. \A a, b : <<a, b>> \in DOMAIN U <=>
                      <<a, b>> \in DOMAIN Unescape("%") \/ <<a, b>> \in DOMAIN Unescape("$")
      BY <1>3
    <3> HIDE DEF U
    <3>2. ASSUME NEW a, NEW b PROVE <<a, b>> \in DOMAIN U <=> (a = "%" /\ b = "%") \/ (a = "$" /\ b = "$")
      <4>1. /\ <<a, b>> \in DOMAIN Unescape("%") <=> (a = "%" /\ b = "%")
            /\ <<a, b>> \in DOMAIN Unescape("$") <=> (a = "$" /\ b = "$")
        BY <1>10
      <4> QED BY <3>1, <4>1, Zenon
    <3> QED BY <3>2
  <2>2. At(U, "%", "%") = <<"%">>
    BY <1>4, <1>10, <1>11
  <2>3. At(U, "$", "$") = <<"$">>
    <3>1. <<"$", "$">> \notin DOMAIN Unescape("%")
      BY <1>10
    <3> QED BY <1>5, <1>10, <1>11, <3>1
  <2> QED BY <2>1, <2>2, <2>3
<1> HIDE DEF U
<1>15. /\ \A a, b : <<a, b>> \in DOMAIN U => At(V, a, b) = At(U, a, b)
       /\ \A a, b : <<a, b>> \in DOMAIN LookupEnv /\ <<a, b>> \notin DOMAIN U => At(V, a, b) = At(LookupEnv, a, b)
       /\ \A a, b : <<a, b>> \in DOMAIN V <=> <<a, b>> \in DOMAIN U \/ <<a, b>> \in DOMAIN LookupEnv
  BY <1>3, <1>4, <1>5
<1> HIDE DEF V
<1>16. /\ \A a, b : <<a, b>> \in DOMAIN V => At(W, a, b) = At(V, a, b)
       /\ \A a, b : <<a, b>> \in DOMAIN N /\ <<a, b>> \notin DOMAIN V => At(W, a, b) = At(N, a, b)
       /\ \A a, b : <<a, b>> \in DOMAIN W <=> <<a, b>> \in DOMAIN V \/ <<a, b>> \in DOMAIN N
  BY <1>3, <1>4, <1>5
<1> HIDE DEF W
<1>17. /\ \A a, b : <<a, b>> \in DOMAIN W => At(Meanings(file, name, p, k), a, b) = At(W, a, b)
       /\ \A a, b : <<a, b>> \in DOMAIN T /\ <<a, b>> \notin DOMAIN W =>
            At(Meanings(file, name, p, k), a, b) = At(T, a, b)
  BY <1>4, <1>5, <1>12
<1>18. /\ \A b : b # "%" => <<"%", b>> \notin DOMAIN V
       /\ \A b \in {"(here)", "(prog)", "(group)", "(procs)", "(bad)"} : <<"%", b>> \notin DOMAIN W
  <2>1. ASSUME NEW b, b # "%" PROVE <<"%", b>> \notin DOMAIN V
    <3>1. <<"%", b>> \notin DOMAIN U /\ <<"%", b>> \notin DOMAIN LookupEnv
      BY <1>8, <1>14, <2>1
    <3> QED BY <1>15, <3>1
  <2>2. ASSUME NEW b \in {"(here)", "(prog)", "(group)", "(procs)", "(bad)"} PROVE <<"%", b>> \notin DOMAIN W
    <3>1. <<"%", b>> \notin DOMAIN V /\ <<"%", b>> \notin DOMAIN N
      BY <1>13, <2>1
    <3> QED BY <1>16, <3>1
  <2> QED BY <2>1, <2>2
<1>19. /\ At(Meanings(file, name, p, k), "%", "%") = <<"%">>
       /\ At(Meanings(file, name, p, k), "$", "$") = <<"$">>
       /\ At(Meanings(file, name, p, k), "%", "(num)") = Numeral(p.start + k)
  <2>1. \A a \in {"%", "$"} : <<a, a>> \in DOMAIN U /\ <<a, a>> \in DOMAIN V /\ <<a, a>> \in DOMAIN W
    BY <1>14, <1>15, <1>16
  <2>2. \A a \in {"%", "$"} : At(Meanings(file, name, p, k), a, a) = At(U, a, a)
    BY <1>15, <1>16, <1>17, <2>1
  <2>3. <<"%", "(num)">> \in DOMAIN N /\ <<"%", "(num)">> \notin DOMAIN V
    BY <1>13, <1>18
  <2>4. <<"%", "(num)">> \in DOMAIN W /\ At(W, "%", "(num)") = At(N, "%", "(num)")
    BY <1>16, <2>3
  <2>5. At(Meanings(file, name, p, k), "%", "(num)") = Numeral(p.start + k)
    BY <1>13, <1>17, <2>4
  <2> QED BY <1>14, <2>2, <2>5
<1>20. /\ At(Meanings(file, name, p, k), "%", "(here)") = Dir[file]
       /\ At(Meanings(file, name, p, k), "%", "(prog)") = name
       /\ At(Meanings(file, name, p, k), "%", "(group)") = name
       /\ At(Meanings(file, name, p, k), "%", "(procs)") = Numeral(p.numprocs)
       /\ At(Meanings(file, name, p, k), "%", "(bad)") = Error
  BY <1>6, <1>7, <1>17, <1>18
<1>21. ASSUME NEW c \in (DOMAIN Env \cup {"{U}"}) \ {"$"}
       PROVE  /\ At(Variables, "$", c) = At(LookupEnv, "$", c)
              /\ At(Meanings(file, name, p, k), "$", c) = At(LookupEnv, "$", c)
  <2>1. <<"$", c>> \in DOMAIN LookupEnv /\ <<"$", c>> \notin DOMAIN U /\ <<"$", c>> \notin DOMAIN Keep("$")
    BY <1>8, <1>10, <1>14
  <2>2. At(Variables, "$", c) = At(LookupEnv, "$", c)
    <3>1. Variables = Keep("$") ++ LookupEnv
      BY <1>12, Zenon
    <3>2. At(Keep("$") ++ LookupEnv, "$", c) = At(LookupEnv, "$", c)
      <4>1. \A a, b : <<a, b>> \notin DOMAIN Keep("$") /\ <<a, b>> \in DOMAIN LookupEnv =>
                         At(Keep("$") ++ LookupEnv, a, b) = At(LookupEnv, a, b)
        BY <1>5
      <4> QED BY <2>1, <4>1, Zenon
    <3> QED BY <3>1, <3>2, Zenon
  <2>3. <<"$", c>> \in DOMAIN V /\ At(V, "$", c) = At(LookupEnv, "$", c)
    BY <1>15, <2>1
  <2>4. <<"$", c>> \in DOMAIN W /\ At(W, "$", c) = At(V, "$", c)
    BY <1>16, <2>3
  <2>5. At(Meanings(file, name, p, k), "$", c) = At(W, "$", c)
    BY <1>17, <2>4
  <2> QED BY <2>2, <2>3, <2>4, <2>5
<1>22. /\ At(Templates(file, name, p), "%", "%") = <<"%", "%">> /\ At(Variables, "$", "$") = <<"$", "$">>
  BY <1>4, <1>10, <1>11, <1>12
<1>23. \A b \in {"(here)", "(prog)", "(group)", "(procs)", "(num)", "(bad)"} : At(Templates(file, name, p), "%", b) = At(T, "%", b)
  <2>1. \A b \in {"(here)", "(prog)", "(group)", "(procs)", "(num)", "(bad)"} : <<"%", b>> \notin DOMAIN Keep("%")
    BY <1>10
  <2> QED BY <1>5, <1>7, <1>12, <2>1
<1>24. TemplatesPut(file, name, p)
  BY <1>6, <1>22, <1>23 DEF TemplatesPut
<1>25. VariablesPut(Meanings(file, name, p, k))
  BY <1>9, <1>21, Zenon DEF VariablesPut
<1>26. At(Numbers(p, k), "%", "(num)") = Numeral(p.start + k) /\ \A c : At(Unescape(c), c, c) = <<c>>
  BY <1>11, <1>12, <1>13
<1>27. MeaningsPut(file, name, p, k)
  BY <1>19, <1>20 DEF MeaningsPut
<1> QED BY <1>22, <1>24, <1>25, <1>26, <1>27, Zenon

\* A string after each pass of expandString; the last one is expandString itself.
Templated(s, file, name, p) == Rewrite(s, Templates(file, name, p))
Both(s, file, name, p) == Rewrite(Templated(s, file, name, p), Variables)
Percents(s, file, name, p) == Rewrite(Both(s, file, name, p), Unescape("%"))

LEMMA Passes ==
  ASSUME NEW s, NEW file, NEW name, NEW p
  PROVE  expandString(s, file, name, p) = Rewrite(Percents(s, file, name, p), Unescape("$"))
BY DEF expandString, Percents, Both, Templated, Templates, Variables

\* u, which a pass made of s, begins nothing that s did not begin.
Kept(u, s) ==
  /\ s = <<>> => u = <<>>
  /\ u # <<>> /\ u[1] \in Special => s # <<>> /\ s[1] = u[1]

\* The passes make of s what it means, and of what comes before it too.
Right(s, file, name, p, k) ==
  /\ \A u \in {Templated(s, file, name, p), Both(s, file, name, p),
               Percents(s, file, name, p), expandString(s, file, name, p)} :
       u \in Texts /\ Kept(u, s)
  /\ Meaning(s, file, name, p, k) \in Texts
  /\ Numbered(expandString(s, file, name, p), p, k) = Meaning(s, file, name, p, k)

\* Every pass puts in strings.
LEMMA PassTypes ==
  ASSUME NEW file, NEW name, NEW p, NEW k, IsInstance(file, name, p, k)
  PROVE  /\ PutsText(Templates(file, name, p)) /\ PutsText(Variables)
         /\ PutsText(Unescape("%")) /\ PutsText(Unescape("$")) /\ PutsText(Numbers(p, k))
         /\ PutsText(Meanings(file, name, p, k))
<1>1. /\ Dir[file] \in Texts /\ name \in Texts /\ Numeral(p.start) \in Texts /\ Numeral(p.start + k) \in Texts
      /\ Numeral(p.numprocs) \in Texts
      /\ \A c \in DOMAIN Env : Env[c] \in Texts
  <2>1. p.start \in Int /\ p.start + k \in Int /\ p.numprocs \in Int
    BY DEF IsInstance
  <2> QED BY <2>1, StringsAreTexts, LoadingConstants DEF IsInstance
<1>2. /\ <<"%", "%">> \in Texts /\ <<"%", "(num)">> \in Texts /\ <<"$", "$">> \in Texts
      /\ <<"%">> \in Texts /\ <<"$">> \in Texts /\ Error \in Texts
  <2>1. \A c, d \in Atoms : <<c>> \in Texts /\ <<c, d>> \in Texts
    BY DEF Texts
  <2>2. "%" \in Atoms /\ "(num)" \in Atoms /\ "$" \in Atoms /\ "error" \in Atoms
    BY DEF Atoms, Signs
  <2> QED BY <2>1, <2>2 DEF Error
<1>3. ASSUME NEW a, NEW b, <<a, b>> \in DOMAIN Variables PROVE At(Variables, a, b) \in Texts
  <2>1. a = "$" /\ b \in {"$", "{U}"} \cup DOMAIN Env
    BY <1>3, PassKeys, Zenon DEF InVariables
  <2>2. CASE b = "$"
    BY <1>2, <2>1, <2>2, PassValues
  <2>3. CASE b # "$"
    <3>1. b \in (DOMAIN Env \cup {"{U}"}) \ {"$"}
      BY <2>1, <2>3
    <3>2. (b \in DOMAIN Env => At(Variables, "$", b) = Env[b]) /\ (b \notin DOMAIN Env => At(Variables, "$", b) = Error)
      BY <3>1, PassValues, Zenon DEF VariablesPut
    <3> QED BY <1>1, <1>2, <2>1, <3>2
  <2> QED BY <2>2, <2>3
<1>4. ASSUME NEW a, NEW b, <<a, b>> \in DOMAIN Templates(file, name, p)
      PROVE  At(Templates(file, name, p), a, b) \in Texts /\ At(Meanings(file, name, p, k), a, b) \in Texts
  <2>1. a = "%" /\ b \in {"%", "(here)", "(prog)", "(group)", "(procs)", "(num)", "(bad)"}
    BY <1>4, PassKeys, Zenon DEF InTemplates
  <2> DEFINE A(c) == At(Templates(file, name, p), "%", c)
             M(c) == At(Meanings(file, name, p, k), "%", c)
  <2>2. /\ A("%") = <<"%", "%">> /\ A("(here)") = Dir[file] /\ A("(prog)") = name /\ A("(group)") = name
        /\ A("(procs)") = Numeral(p.numprocs) /\ A("(bad)") = Error
        /\ A("(num)") = <<"%", "(num)">> \/ A("(num)") = Numeral(p.start)
    <3>1. TemplatesPut(file, name, p)
      BY PassValues, Zenon
    <3> QED BY <3>1 DEF TemplatesPut
  <2>3. /\ M("%") = <<"%">> /\ M("(here)") = Dir[file] /\ M("(prog)") = name /\ M("(group)") = name
        /\ M("(procs)") = Numeral(p.numprocs) /\ M("(bad)") = Error
        /\ M("(num)") = Numeral(p.start + k)
    <3>1. MeaningsPut(file, name, p, k)
      BY PassValues, Zenon
    <3> QED BY <3>1 DEF MeaningsPut
  <2> HIDE DEF A, M
  <2>4. A(b) \in Texts /\ M(b) \in Texts
    BY <1>1, <1>2, <2>1, <2>2, <2>3
  <2> QED BY <2>1, <2>4 DEF A, M
<1>5. ASSUME NEW a, NEW b, <<a, b>> \in DOMAIN Meanings(file, name, p, k)
      PROVE  At(Meanings(file, name, p, k), a, b) \in Texts
  <2>1. CASE <<a, b>> \in DOMAIN Templates(file, name, p)
    BY <1>4, <2>1
  <2>2. CASE <<a, b>> \in DOMAIN Variables
    <3>1. a = "$" /\ b \in {"$", "{U}"} \cup DOMAIN Env
      BY <2>2, PassKeys, Zenon DEF InVariables
    <3>2. CASE b = "$"
      <4>1. MeaningsPut(file, name, p, k)
        BY PassValues, Zenon
      <4> QED BY <1>2, <3>1, <3>2, <4>1 DEF MeaningsPut
    <3>3. CASE b # "$"
      <4>1. b \in (DOMAIN Env \cup {"{U}"}) \ {"$"}
        BY <3>1, <3>3
      <4>2. At(Variables, "$", b) = At(Meanings(file, name, p, k), "$", b)
        <5>1. VariablesPut(Meanings(file, name, p, k))
          BY PassValues, Zenon
        <5> QED BY <4>1, <5>1, Zenon DEF VariablesPut
      <4> QED BY <1>3, <2>2, <3>1, <4>2
    <3> QED BY <3>2, <3>3
  <2> QED BY <1>5, <2>1, <2>2, PassKeys, Zenon
<1>6. ASSUME NEW a, NEW b, NEW c, c \in {"%", "$"}, <<a, b>> \in DOMAIN Unescape(c)
      PROVE  At(Unescape(c), a, b) \in Texts
  <2>1. a = c /\ b = c
    BY <1>6, PassKeys, Zenon DEF InUnescape
  <2>2. At(Unescape(c), c, c) = <<c>>
    BY PassValues
  <2> QED BY <1>2, <1>6, <2>1, <2>2
<1>7. ASSUME NEW a, NEW b, <<a, b>> \in DOMAIN Numbers(p, k)
      PROVE  At(Numbers(p, k), a, b) \in Texts
  <2>1. a = "%" /\ b = "(num)"
    <3>1. InNumbers(a, b)
      BY <1>7, PassKeys, Zenon
    <3> QED BY <3>1 DEF InNumbers
  <2> QED BY <1>1, <2>1, PassValues
<1> QED BY <1>3, <1>4, <1>5, <1>6, <1>7 DEF PutsText

\* What a string that is not empty begins with, whatever follows it.
LEMMA ConcatHead ==
  ASSUME NEW w \in Texts, w # <<>>, NEW t \in Texts
  PROVE  w \o t \in Texts /\ w \o t # <<>> /\ (w \o t)[1] = w[1]
<1>1. Len(w) \in Nat /\ Len(w) >= 1 /\ Len(t) \in Nat
  BY EmptySeq, LenProperties DEF Texts
<1>2. w \o t \in Texts /\ Len(w \o t) = Len(w) + Len(t) /\ (w \o t)[1] = w[1]
  BY <1>1, ConcatProperties DEF Texts
<1>3. Len(<<>>) = 0
  BY EmptySeq
<1> QED BY <1>1, <1>2, <1>3

\* Of w, before t, the passes make w1, w2, w3 and w4, and ExpandNumprocs makes what w means.
Moved(w, w1, w2, w3, w4, m, t, file, name, p, k) ==
  /\ Templated(w \o t, file, name, p) = w1 \o Templated(t, file, name, p)
  /\ Rewrite(w1 \o Templated(t, file, name, p), Variables) = w2 \o Both(t, file, name, p)
  /\ Rewrite(w2 \o Both(t, file, name, p), Unescape("%")) = w3 \o Percents(t, file, name, p)
  /\ Rewrite(w3 \o Percents(t, file, name, p), Unescape("$")) = w4 \o expandString(t, file, name, p)
  /\ Numbered(w4 \o expandString(t, file, name, p), p, k) = m \o Numbered(expandString(t, file, name, p), p, k)
  /\ Meaning(w \o t, file, name, p, k) = m \o Meaning(t, file, name, p, k)

\* None of vs begins anything that w does not begin.
NoneNew(vs, w) == w # <<>> /\ \A v \in vs : v # <<>> /\ (v[1] \in Special => w[1] = v[1])

\* If none of them does, what is right for t is right for both.
LEMMA Advance ==
  ASSUME NEW file, NEW name, NEW p, NEW k, NEW t \in Texts, Right(t, file, name, p, k),
         NEW w \in Texts, NEW w1 \in Texts, NEW w2 \in Texts, NEW w3 \in Texts, NEW w4 \in Texts, NEW m \in Texts,
         NoneNew({w1, w2, w3, w4}, w),
         Moved(w, w1, w2, w3, w4, m, t, file, name, p, k)
  PROVE  Right(w \o t, file, name, p, k)
<1>1. /\ Both(w \o t, file, name, p) = w2 \o Both(t, file, name, p)
      /\ Percents(w \o t, file, name, p) = w3 \o Percents(t, file, name, p)
      /\ expandString(w \o t, file, name, p) = w4 \o expandString(t, file, name, p)
  <2>1. Both(w \o t, file, name, p) = w2 \o Both(t, file, name, p)
    BY Zenon DEF Both, Moved
  <2>2. Percents(w \o t, file, name, p) = w3 \o Percents(t, file, name, p)
    BY <2>1, Zenon DEF Percents, Moved
  <2>3. expandString(w \o t, file, name, p) = w4 \o expandString(t, file, name, p)
    BY <2>2, Passes, Zenon DEF Moved
  <2> QED BY <2>1, <2>2, <2>3
<1>2. /\ \A u \in {Templated(t, file, name, p), Both(t, file, name, p),
                   Percents(t, file, name, p), expandString(t, file, name, p)} : u \in Texts
      /\ Meaning(t, file, name, p, k) \in Texts
      /\ Numbered(expandString(t, file, name, p), p, k) = Meaning(t, file, name, p, k)
  BY DEF Right
<1>3. ASSUME NEW v \in {w1, w2, w3, w4}, NEW u \in Texts
      PROVE  v \o u \in Texts /\ Kept(v \o u, w \o t)
  <2>1. v \o u \in Texts /\ v \o u # <<>> /\ (v \o u)[1] = v[1]
    BY <1>3, ConcatHead DEF NoneNew
  <2>2. w \o t # <<>> /\ (w \o t)[1] = w[1]
    BY ConcatHead DEF NoneNew
  <2> QED BY <1>3, <2>1, <2>2 DEF Kept, NoneNew
<1>4. Meaning(w \o t, file, name, p, k) \in Texts
  <2>1. m \o Meaning(t, file, name, p, k) \in Texts
    BY <1>2, Together, Zenon
  <2> QED BY <2>1, Zenon DEF Moved
<1>5. Numbered(expandString(w \o t, file, name, p), p, k) = Meaning(w \o t, file, name, p, k)
  BY <1>1, <1>2, Zenon DEF Moved
<1>6. /\ w1 \o Templated(t, file, name, p) \in Texts /\ Kept(w1 \o Templated(t, file, name, p), w \o t)
      /\ w2 \o Both(t, file, name, p) \in Texts /\ Kept(w2 \o Both(t, file, name, p), w \o t)
      /\ w3 \o Percents(t, file, name, p) \in Texts /\ Kept(w3 \o Percents(t, file, name, p), w \o t)
      /\ w4 \o expandString(t, file, name, p) \in Texts /\ Kept(w4 \o expandString(t, file, name, p), w \o t)
  BY <1>2, <1>3
<1>7. \A u \in {Templated(w \o t, file, name, p), Both(w \o t, file, name, p),
               Percents(w \o t, file, name, p), expandString(w \o t, file, name, p)} :
        u \in Texts /\ Kept(u, w \o t)
  BY <1>1, <1>6, Zenon DEF Moved
<1> QED BY <1>4, <1>5, <1>7, Zenon DEF Right

\* The signs are special, and only % and $ begin pairs.
LEMMA Begins ==
  ASSUME NEW by, NEW file, NEW name, NEW p, NEW k,
         by \in {Templates(file, name, p), Variables, Unescape("%"), Unescape("$"), Numbers(p, k),
                 Meanings(file, name, p, k)}
  PROVE  \A a, b : <<a, b>> \in DOMAIN by =>
           a \in {"%", "$"} /\ a \in Special /\ b \in Special /\ <<a, b>> \in DOMAIN Meanings(file, name, p, k)
<1> SUFFICES ASSUME NEW a, NEW b, <<a, b>> \in DOMAIN by
    PROVE  a \in {"%", "$"} /\ a \in Special /\ b \in Special /\ <<a, b>> \in DOMAIN Meanings(file, name, p, k)
  OBVIOUS
<1>1. InTemplates(a, b) \/ InVariables(a, b) \/ InUnescape(a, b, "%") \/ InUnescape(a, b, "$") \/ InNumbers(a, b)
  BY PassKeys, Zenon
<1>2. InTemplates(a, b) \/ InVariables(a, b)
  BY <1>1 DEF InTemplates, InVariables, InUnescape, InNumbers
<1>3. <<a, b>> \in DOMAIN Meanings(file, name, p, k)
  BY <1>2, PassKeys, Zenon
<1> QED BY <1>2, <1>3 DEF InTemplates, InVariables, Special, Signs

\* An atom does not begin a variable or an escape before t.
Alone(a, t, file, name, p, k) == t # <<>> => <<a, t[1]>> \notin DOMAIN Meanings(file, name, p, k)

\* It stays before u.
Stays(a, u, by) == Rewrite(<<a>> \o u, by) = <<a>> \o Rewrite(u, by)

StaysAlways(a, u, file, name, p, k) ==
  /\ Stays(a, u, Templates(file, name, p)) /\ Stays(a, u, Variables)
  /\ Stays(a, u, Unescape("%")) /\ Stays(a, u, Unescape("$")) /\ Stays(a, u, Numbers(p, k))
  /\ Stays(a, u, Meanings(file, name, p, k))

\* Then it stays, before whatever a pass made of t.
LEMMA StaysBefore ==
  ASSUME NEW file, NEW name, NEW p, NEW k,
         NEW a \in Atoms, NEW t, NEW u \in Texts, Kept(u, t), Alone(a, t, file, name, p, k)
  PROVE  StaysAlways(a, u, file, name, p, k)
<1>1. ASSUME NEW by \in {Templates(file, name, p), Variables, Unescape("%"), Unescape("$"), Numbers(p, k),
                         Meanings(file, name, p, k)}
      PROVE  Stays(a, u, by)
  <2>1. ASSUME u # <<>>, <<a, u[1]>> \in DOMAIN by PROVE FALSE
    <3>1. u[1] \in Special /\ <<a, u[1]>> \in DOMAIN Meanings(file, name, p, k)
      BY <2>1, Begins
    <3>2. t # <<>> /\ t[1] = u[1]
      BY <2>1, <3>1 DEF Kept
    <3> QED BY <3>1, <3>2 DEF Alone
  <2> QED BY <2>1, RewriteHas DEF Stays
<1> QED BY <1>1, Zenon DEF StaysAlways

LEMMA KeptItself == \A t : Kept(t, t)
BY DEF Kept

\* An atom that begins no variable and no escape stays through all passes.
LEMMA RightAtom ==
  ASSUME NEW file, NEW name, NEW p, NEW k, IsInstance(file, name, p, k),
         NEW t \in Texts, Right(t, file, name, p, k), NEW a \in Atoms,
         Alone(a, t, file, name, p, k)
  PROVE  Right(<<a>> \o t, file, name, p, k)
<1> DEFINE t1 == Templated(t, file, name, p)
           t2 == Both(t, file, name, p)
           t3 == Percents(t, file, name, p)
           t4 == expandString(t, file, name, p)
<1>1. t1 \in Texts /\ t2 \in Texts /\ t3 \in Texts /\ t4 \in Texts
      /\ Kept(t1, t) /\ Kept(t2, t) /\ Kept(t3, t) /\ Kept(t4, t) /\ Kept(t, t)
  BY KeptItself DEF Right
<1>2. <<a>> \in Texts /\ <<a>> # <<>>
  BY DEF Texts
<1>s. /\ StaysAlways(a, t, file, name, p, k) /\ StaysAlways(a, t1, file, name, p, k)
      /\ StaysAlways(a, t2, file, name, p, k) /\ StaysAlways(a, t3, file, name, p, k)
      /\ StaysAlways(a, t4, file, name, p, k)
  BY <1>1, StaysBefore, Zenon
<1>r. /\ Stays(a, t, Templates(file, name, p)) /\ Stays(a, t1, Variables) /\ Stays(a, t2, Unescape("%"))
      /\ Stays(a, t3, Unescape("$")) /\ Stays(a, t4, Numbers(p, k)) /\ Stays(a, t, Meanings(file, name, p, k))
  BY <1>s, Zenon DEF StaysAlways
<1>3. Templated(<<a>> \o t, file, name, p) = <<a>> \o t1
  BY <1>r, Zenon DEF Templated, Stays
<1>4. Rewrite(<<a>> \o t1, Variables) = <<a>> \o t2
  BY <1>r, Zenon DEF Both, Stays
<1>5. Rewrite(<<a>> \o t2, Unescape("%")) = <<a>> \o t3
  BY <1>r, Zenon DEF Percents, Stays
<1>6. Rewrite(<<a>> \o t3, Unescape("$")) = <<a>> \o t4
  <2>1. Rewrite(<<a>> \o t3, Unescape("$")) = <<a>> \o Rewrite(t3, Unescape("$"))
    BY <1>r, Zenon DEF Stays
  <2> QED BY <2>1, Passes
<1>7. Numbered(<<a>> \o t4, p, k) = <<a>> \o Numbered(t4, p, k)
  BY <1>r, Zenon DEF Numbered, Stays
<1>8. Meaning(<<a>> \o t, file, name, p, k) = <<a>> \o Meaning(t, file, name, p, k)
  BY <1>r, Zenon DEF Meaning, Stays
<1>9. NoneNew({<<a>>, <<a>>, <<a>>, <<a>>}, <<a>>)
  BY <1>2 DEF NoneNew
<1> HIDE DEF t1, t2, t3, t4
<1>10. Moved(<<a>>, <<a>>, <<a>>, <<a>>, <<a>>, <<a>>, t, file, name, p, k)
  BY <1>3, <1>4, <1>5, <1>6, <1>7, <1>8, Zenon DEF Moved, t1, t2, t3, t4
<1> QED BY <1>2, <1>9, <1>10, Advance, Zenon

\* A pass makes w2 of w, whatever comes after it.
Makes(w, w2, by) == \A u \in Texts : Rewrite(w \o u, by) = w2 \o Rewrite(u, by)

\* No atom of v begins a pair.
Begun(v, by) == \E i \in 1..Len(v), b \in Atoms : <<v[i], b>> \in DOMAIN by

LEMMA MakesPair ==
  ASSUME NEW by, NEW a \in Atoms, NEW b \in Atoms, <<a, b>> \in DOMAIN by
  PROVE  Makes(<<a, b>>, At(by, a, b), by)
BY RewriteHas, Zenon DEF Makes

LEMMA MakesPlain ==
  ASSUME NEW by, PutsText(by), NEW v \in Texts, ~Begun(v, by)
  PROVE  Makes(v, v, by)
<1>1. \A i \in 1..Len(v), b \in Atoms : <<v[i], b>> \notin DOMAIN by
  BY DEF Begun
<1>2. ASSUME NEW u \in Texts PROVE Rewrite(v \o u, by) = v \o Rewrite(u, by)
  BY <1>1, RewritePlain
<1> QED BY <1>2 DEF Makes

\* What the pairs of each pass begin with.
LEMMA NotBegun ==
  ASSUME NEW file, NEW name, NEW p, NEW k, NEW v
  PROVE  /\ (\A i \in 1..Len(v) : v[i] # "%") =>
               ~Begun(v, Templates(file, name, p)) /\ ~Begun(v, Unescape("%")) /\ ~Begun(v, Numbers(p, k))
         /\ (\A i \in 1..Len(v) : v[i] # "$") => ~Begun(v, Variables) /\ ~Begun(v, Unescape("$"))
<1>1. \A a, b : /\ <<a, b>> \in DOMAIN Templates(file, name, p) => a = "%"
                /\ <<a, b>> \in DOMAIN Unescape("%") => a = "%"
                /\ <<a, b>> \in DOMAIN Numbers(p, k) => a = "%"
                /\ <<a, b>> \in DOMAIN Variables => a = "$"
                /\ <<a, b>> \in DOMAIN Unescape("$") => a = "$"
  <2> SUFFICES ASSUME NEW a, NEW b
      PROVE  /\ <<a, b>> \in DOMAIN Templates(file, name, p) => a = "%"
             /\ <<a, b>> \in DOMAIN Unescape("%") => a = "%"
             /\ <<a, b>> \in DOMAIN Numbers(p, k) => a = "%"
             /\ <<a, b>> \in DOMAIN Variables => a = "$"
             /\ <<a, b>> \in DOMAIN Unescape("$") => a = "$"
    OBVIOUS
  <2>1. /\ <<a, b>> \in DOMAIN Templates(file, name, p) <=> InTemplates(a, b)
        /\ <<a, b>> \in DOMAIN Variables <=> InVariables(a, b)
        /\ \A c : <<a, b>> \in DOMAIN Unescape(c) <=> InUnescape(a, b, c)
        /\ <<a, b>> \in DOMAIN Numbers(p, k) <=> InNumbers(a, b)
    BY PassKeys, Zenon
  <2> QED BY <2>1 DEF InTemplates, InVariables, InUnescape, InNumbers
<1> QED BY <1>1 DEF Begun

\* ExpandNumprocs makes m of w4, before whatever a pass made of t.
NumberedTo(w4, m, t, p, k) ==
  \A u \in Texts : Kept(u, t) => Numbered(w4 \o u, p, k) = m \o Numbered(u, p, k)

\* Advance, for pieces that the passes change in the same way before anything.
LEMMA Passed ==
  ASSUME NEW file, NEW name, NEW p, NEW k, NEW t \in Texts, Right(t, file, name, p, k),
         NEW w \in Texts, NEW w1 \in Texts, NEW w2 \in Texts, NEW w3 \in Texts, NEW w4 \in Texts, NEW m \in Texts,
         NoneNew({w1, w2, w3, w4}, w),
         Makes(w, w1, Templates(file, name, p)), Makes(w1, w2, Variables),
         Makes(w2, w3, Unescape("%")), Makes(w3, w4, Unescape("$")),
         NumberedTo(w4, m, t, p, k),
         Makes(w, m, Meanings(file, name, p, k))
  PROVE  Right(w \o t, file, name, p, k)
<1> DEFINE t1 == Templated(t, file, name, p)
           t2 == Both(t, file, name, p)
           t3 == Percents(t, file, name, p)
           t4 == expandString(t, file, name, p)
<1>1. t1 \in Texts /\ t2 \in Texts /\ t3 \in Texts /\ t4 \in Texts /\ Kept(t4, t)
  BY DEF Right
<1>3. Templated(w \o t, file, name, p) = w1 \o t1
  BY Zenon DEF Templated, Makes
<1>4. Rewrite(w1 \o t1, Variables) = w2 \o t2
  BY <1>1, Zenon DEF Both, Makes
<1>5. Rewrite(w2 \o t2, Unescape("%")) = w3 \o t3
  BY <1>1, Zenon DEF Percents, Makes
<1>6. Rewrite(w3 \o t3, Unescape("$")) = w4 \o t4
  <2>1. Rewrite(w3 \o t3, Unescape("$")) = w4 \o Rewrite(t3, Unescape("$"))
    BY <1>1, Zenon DEF Makes
  <2> QED BY <2>1, Passes
<1>7. Numbered(w4 \o t4, p, k) = m \o Numbered(t4, p, k)
  BY <1>1, Zenon DEF NumberedTo
<1>8. Meaning(w \o t, file, name, p, k) = m \o Meaning(t, file, name, p, k)
  BY Zenon DEF Meaning, Makes
<1> HIDE DEF t1, t2, t3, t4
<1>9. Moved(w, w1, w2, w3, w4, m, t, file, name, p, k)
  BY <1>3, <1>4, <1>5, <1>6, <1>7, <1>8, Zenon DEF Moved, t1, t2, t3, t4
<1> QED BY <1>9, Advance, Zenon

\* Plain text has nothing that is special.
LEMMA PlainHas ==
  ASSUME NEW v \in Texts, Plainly(v)
  PROVE  v # <<>> /\ v[1] \notin Special /\ \A i \in 1..Len(v) : v[i] \notin Special
<1>1. \A i \in 1..Len(v) : v[i] \in ToSet(v)
  BY LenProperties DEF Texts, ToSet
<1>2. v # <<>> /\ 1 \in 1..Len(v)
  <2>1. v # <<>>
    BY DEF Plainly
  <2> QED BY <2>1, EmptySeq, LenProperties DEF Texts
<1> QED BY <1>1, <1>2 DEF Plainly, Special

\* What can follow a $.
Names == DOMAIN Env \cup {"{U}"}

LEMMA SpecialAre ==
  /\ \A c \in Signs \cup {"{U}"} \cup DOMAIN Env : c \in Special /\ c \in Atoms
  /\ \A c \in Names : c \notin Signs /\ c \in Atoms
<1>1. \A c \in DOMAIN Env : c \in STRING /\ c \notin Signs
  BY LoadingConstants
<1>2. "{U}" \notin Signs
  BY DEF Signs
<1>3. \A c \in Signs \cup {"{U}"} : c \in Atoms
  BY Zenon DEF Atoms
<1>4. \A c \in STRING : c \in Atoms
  BY DEF Atoms
<1> QED BY <1>1, <1>2, <1>3, <1>4 DEF Special, Names

LEMMA PairIsText == \A c, d \in Atoms : <<c>> \in Texts /\ <<c, d>> \in Texts
BY DEF Texts

\* A plain value that a pass puts in goes through the later ones.
LEMMA PlainStays ==
  ASSUME NEW file, NEW name, NEW p, NEW k, IsInstance(file, name, p, k), NEW v \in Texts, Plainly(v)
  PROVE  /\ Makes(v, v, Variables) /\ Makes(v, v, Unescape("%")) /\ Makes(v, v, Unescape("$"))
         /\ \A t : NumberedTo(v, v, t, p, k)
<1>1. \A i \in 1..Len(v) : v[i] # "%" /\ v[i] # "$"
  <2>1. "%" \in Special /\ "$" \in Special
    BY DEF Special, Signs
  <2> QED BY <2>1, PlainHas
<1>2. ~Begun(v, Unescape("%")) /\ ~Begun(v, Numbers(p, k)) /\ ~Begun(v, Variables) /\ ~Begun(v, Unescape("$"))
  BY <1>1, NotBegun
<1>3. PutsText(Unescape("%")) /\ PutsText(Numbers(p, k)) /\ PutsText(Variables) /\ PutsText(Unescape("$"))
  BY PassTypes, Zenon
<1>4. /\ Makes(v, v, Variables) /\ Makes(v, v, Unescape("%")) /\ Makes(v, v, Unescape("$"))
      /\ Makes(v, v, Numbers(p, k))
  BY <1>2, <1>3, MakesPlain, Zenon
<1>5. \A t : NumberedTo(v, v, t, p, k)
  BY <1>4 DEF Makes, Numbered, NumberedTo
<1> QED BY <1>4, <1>5

\* The value of a variable in % that is put in when the file is read.
LEMMA RightTemplate ==
  ASSUME NEW file, NEW name, NEW p, NEW k, IsInstance(file, name, p, k),
         NEW t \in Texts, Right(t, file, name, p, k),
         NEW b \in {"(here)", "(prog)", "(group)", "(procs)", "(num)", "(bad)"}, ~(b = "(num)" /\ p.numprocs > 1),
         Plainly(At(Meanings(file, name, p, k), "%", b))
  PROVE  Right(<<"%", b>> \o t, file, name, p, k)
<1> DEFINE w == <<"%", b>>
           v == At(Meanings(file, name, p, k), "%", b)
<1>1. "%" \in Atoms /\ b \in Atoms /\ <<"%", b>> \in DOMAIN Templates(file, name, p)
      /\ <<"%", b>> \in DOMAIN Meanings(file, name, p, k)
  <2>1. InTemplates("%", b)
    BY DEF InTemplates
  <2>2. "%" \in Atoms /\ b \in Atoms
    BY DEF Atoms, Signs
  <2> QED BY <2>1, <2>2, PassKeys, Zenon
<1>2. At(Templates(file, name, p), "%", b) = v
  <2> DEFINE A(c) == At(Templates(file, name, p), "%", c)
             M(c) == At(Meanings(file, name, p, k), "%", c)
  <2>1. /\ A("(here)") = Dir[file] /\ A("(prog)") = name /\ A("(group)") = name
        /\ A("(procs)") = Numeral(p.numprocs) /\ A("(bad)") = Error
        /\ ~(p.numprocs > 1) => A("(num)") = Numeral(p.start)
    <3>1. TemplatesPut(file, name, p)
      BY PassValues, Zenon
    <3> QED BY <3>1 DEF TemplatesPut
  <2>2. M("(here)") = Dir[file] /\ M("(prog)") = name /\ M("(group)") = name
        /\ M("(procs)") = Numeral(p.numprocs) /\ M("(bad)") = Error /\ M("(num)") = Numeral(p.start + k)
    <3>1. MeaningsPut(file, name, p, k)
      BY PassValues, Zenon
    <3> QED BY <3>1 DEF MeaningsPut
  <2>3. ~(p.numprocs > 1) => Numeral(p.start + k) = Numeral(p.start)
    <3>1. ~(p.numprocs > 1) => p.start + k = p.start
      BY DEF IsInstance
    <3> QED BY <3>1, Zenon
  <2> HIDE DEF A, M
  <2>4. A(b) = M(b)
    BY <2>1, <2>2, <2>3
  <2> QED BY <2>4 DEF A, M
<1>3. v \in Texts /\ w \in Texts
  <2>1. PutsText(Meanings(file, name, p, k))
    BY PassTypes, Zenon
  <2>2. v \in Texts
    BY <1>1, <2>1, Zenon DEF PutsText
  <2>3. w \in Texts
    BY <1>1, PairIsText, Zenon
  <2> QED BY <2>2, <2>3
<1>4. Makes(w, v, Templates(file, name, p)) /\ Makes(w, v, Meanings(file, name, p, k))
  <2>1. /\ Makes(w, At(Templates(file, name, p), "%", b), Templates(file, name, p))
        /\ Makes(w, v, Meanings(file, name, p, k))
    BY <1>1, MakesPair, Zenon
  <2> QED BY <1>2, <2>1, Zenon
<1>5. /\ Makes(v, v, Variables) /\ Makes(v, v, Unescape("%")) /\ Makes(v, v, Unescape("$"))
      /\ NumberedTo(v, v, t, p, k)
  BY <1>3, PlainStays, Zenon
<1>6. NoneNew({v, v, v, v}, w)
  <2>1. v # <<>> /\ v[1] \notin Special
    BY <1>3, PlainHas, Zenon
  <2> QED BY <2>1 DEF NoneNew
<1> HIDE DEF v, w
<1>8. Right(w \o t, file, name, p, k)
  BY <1>3, <1>4, <1>5, <1>6, Passed, Zenon
<1> QED BY <1>8 DEF w

\* The value of a variable of the environment.
LEMMA RightVariable ==
  ASSUME NEW file, NEW name, NEW p, NEW k, IsInstance(file, name, p, k),
         NEW t \in Texts, Right(t, file, name, p, k),
         NEW b \in Names, Plainly(At(Meanings(file, name, p, k), "$", b))
  PROVE  Right(<<"$", b>> \o t, file, name, p, k)
<1> DEFINE w == <<"$", b>>
           v == At(Meanings(file, name, p, k), "$", b)
<1>1. "$" \in Atoms /\ b \in Atoms /\ b # "$" /\ b # "%"
      /\ <<"$", b>> \in DOMAIN Variables /\ <<"$", b>> \in DOMAIN Meanings(file, name, p, k)
  <2>1. InVariables("$", b)
    BY Zenon DEF InVariables, Names
  <2>2. "$" \in Atoms /\ b \in Atoms /\ "$" \in Signs /\ "%" \in Signs /\ b \notin Signs
    BY SpecialAre DEF Signs
  <2>3. <<"$", b>> \in DOMAIN Variables /\ <<"$", b>> \in DOMAIN Meanings(file, name, p, k)
    BY <2>1, PassKeys, Zenon
  <2> QED BY <2>2, <2>3
<1>2. At(Variables, "$", b) = v
  <2>1. VariablesPut(Meanings(file, name, p, k))
    BY PassValues, Zenon
  <2>2. b \in (DOMAIN Env \cup {"{U}"}) \ {"$"}
    BY <1>1, Zenon DEF Names
  <2> QED BY <2>1, <2>2, Zenon DEF VariablesPut
<1>3. v \in Texts /\ w \in Texts
  <2>1. PutsText(Meanings(file, name, p, k))
    BY PassTypes, Zenon
  <2>2. v \in Texts
    BY <1>1, <2>1, Zenon DEF PutsText
  <2>3. w \in Texts
    BY <1>1, PairIsText, Zenon
  <2> QED BY <2>2, <2>3
<1>4. Makes(w, v, Variables) /\ Makes(w, v, Meanings(file, name, p, k))
  <2>1. Makes(w, At(Variables, "$", b), Variables) /\ Makes(w, v, Meanings(file, name, p, k))
    BY <1>1, MakesPair, Zenon
  <2> QED BY <1>2, <2>1, Zenon
<1>5. /\ Makes(v, v, Variables) /\ Makes(v, v, Unescape("%")) /\ Makes(v, v, Unescape("$"))
      /\ NumberedTo(v, v, t, p, k)
  BY <1>3, PlainStays, Zenon
<1>6. NoneNew({w, v, v, v}, w)
  <2>1. v # <<>> /\ v[1] \notin Special
    BY <1>3, PlainHas, Zenon
  <2>2. w # <<>>
    OBVIOUS
  <2> HIDE DEF v, w
  <2> QED BY <2>1, <2>2 DEF NoneNew
<1>8. Makes(w, w, Templates(file, name, p))
  <2>1. \A i \in 1..Len(w) : w[i] # "%"
    BY <1>1
  <2>2. ~Begun(w, Templates(file, name, p)) /\ PutsText(Templates(file, name, p))
    BY <2>1, NotBegun, PassTypes, Zenon
  <2> QED BY <1>3, <2>2, MakesPlain, Zenon
<1> HIDE DEF v, w
<1>9. Right(w \o t, file, name, p, k)
  BY <1>3, <1>4, <1>5, <1>6, <1>8, Passed, Zenon
<1> QED BY <1>9 DEF w

\* The signs are different atoms, and which of them begin a pair in which pass.
LEMMA SignsPass ==
  ASSUME NEW file, NEW name, NEW p, NEW k, IsInstance(file, name, p, k)
  PROVE  /\ \A a \in {"%", "$", "(num)"} : a \in Atoms /\ a \in Special
         /\ Makes(<<"%", "%">>, <<"%", "%">>, Templates(file, name, p))
         /\ Makes(<<"%", "%">>, <<"%", "%">>, Variables)
         /\ Makes(<<"%", "%">>, <<"%">>, Unescape("%"))
         /\ Makes(<<"%">>, <<"%">>, Unescape("$"))
         /\ Makes(<<"%", "%">>, <<"%">>, Meanings(file, name, p, k))
         /\ Makes(<<"$", "$">>, <<"$", "$">>, Templates(file, name, p))
         /\ Makes(<<"$", "$">>, <<"$", "$">>, Variables)
         /\ Makes(<<"$", "$">>, <<"$", "$">>, Unescape("%"))
         /\ Makes(<<"$", "$">>, <<"$">>, Unescape("$"))
         /\ Makes(<<"$">>, <<"$">>, Numbers(p, k))
         /\ Makes(<<"$", "$">>, <<"$">>, Meanings(file, name, p, k))
         /\ p.numprocs > 1 => Makes(<<"%", "(num)">>, <<"%", "(num)">>, Templates(file, name, p))
         /\ Makes(<<"%", "(num)">>, <<"%", "(num)">>, Variables)
         /\ Makes(<<"%", "(num)">>, <<"%", "(num)">>, Unescape("$"))
         /\ Makes(<<"%", "(num)">>, Numeral(p.start + k), Numbers(p, k))
         /\ Makes(<<"%", "(num)">>, Numeral(p.start + k), Meanings(file, name, p, k))
<1>1. \A a \in {"%", "$", "(num)"} : a \in Atoms /\ a \in Special
  BY DEF Atoms, Special, Signs
<1>2. /\ <<"%", "%">> \in Texts /\ <<"$", "$">> \in Texts /\ <<"%", "(num)">> \in Texts
      /\ <<"%">> \in Texts /\ <<"$">> \in Texts
  BY <1>1, PairIsText
<1>3. /\ PutsText(Templates(file, name, p)) /\ PutsText(Variables)
      /\ PutsText(Unescape("%")) /\ PutsText(Unescape("$")) /\ PutsText(Numbers(p, k))
  BY PassTypes, Zenon
<1>4. /\ \A i \in 1..Len(<<"%", "%">>) : <<"%", "%">>[i] # "$"
      /\ \A i \in 1..Len(<<"%", "(num)">>) : <<"%", "(num)">>[i] # "$"
      /\ \A i \in 1..Len(<<"$", "$">>) : <<"$", "$">>[i] # "%"
      /\ \A i \in 1..Len(<<"%">>) : <<"%">>[i] # "$"
      /\ \A i \in 1..Len(<<"$">>) : <<"$">>[i] # "%"
  OBVIOUS
<1>5. /\ ~Begun(<<"%", "%">>, Variables) /\ ~Begun(<<"%">>, Unescape("$"))
      /\ ~Begun(<<"%", "(num)">>, Variables) /\ ~Begun(<<"%", "(num)">>, Unescape("$"))
      /\ ~Begun(<<"$", "$">>, Templates(file, name, p)) /\ ~Begun(<<"$", "$">>, Unescape("%"))
      /\ ~Begun(<<"$">>, Numbers(p, k))
  BY <1>4, NotBegun, Zenon
<1>6. /\ Makes(<<"%", "%">>, <<"%", "%">>, Variables) /\ Makes(<<"%">>, <<"%">>, Unescape("$"))
      /\ Makes(<<"%", "(num)">>, <<"%", "(num)">>, Variables) /\ Makes(<<"%", "(num)">>, <<"%", "(num)">>, Unescape("$"))
      /\ Makes(<<"$", "$">>, <<"$", "$">>, Templates(file, name, p)) /\ Makes(<<"$", "$">>, <<"$", "$">>, Unescape("%"))
      /\ Makes(<<"$">>, <<"$">>, Numbers(p, k))
  BY <1>2, <1>3, <1>5, MakesPlain, Zenon
<1>7. InTemplates("%", "%") /\ InTemplates("%", "(num)") /\ InVariables("$", "$") /\ InNumbers("%", "(num)")
      /\ \A c : InUnescape(c, c, c)
  BY DEF InTemplates, InVariables, InNumbers, InUnescape
<1>8. /\ <<"%", "%">> \in DOMAIN Templates(file, name, p) /\ <<"%", "(num)">> \in DOMAIN Templates(file, name, p)
      /\ <<"$", "$">> \in DOMAIN Variables /\ <<"%", "(num)">> \in DOMAIN Numbers(p, k)
      /\ <<"%", "%">> \in DOMAIN Unescape("%") /\ <<"$", "$">> \in DOMAIN Unescape("$")
      /\ <<"%", "%">> \in DOMAIN Meanings(file, name, p, k) /\ <<"$", "$">> \in DOMAIN Meanings(file, name, p, k)
      /\ <<"%", "(num)">> \in DOMAIN Meanings(file, name, p, k)
  BY <1>7, PassKeys, Zenon
<1>9. /\ At(Templates(file, name, p), "%", "%") = <<"%", "%">>
      /\ p.numprocs > 1 => At(Templates(file, name, p), "%", "(num)") = <<"%", "(num)">>
      /\ At(Variables, "$", "$") = <<"$", "$">> /\ At(Numbers(p, k), "%", "(num)") = Numeral(p.start + k)
      /\ At(Unescape("%"), "%", "%") = <<"%">> /\ At(Unescape("$"), "$", "$") = <<"$">>
      /\ At(Meanings(file, name, p, k), "%", "%") = <<"%">> /\ At(Meanings(file, name, p, k), "$", "$") = <<"$">>
      /\ At(Meanings(file, name, p, k), "%", "(num)") = Numeral(p.start + k)
  <2>1. TemplatesPut(file, name, p) /\ MeaningsPut(file, name, p, k) /\ At(Variables, "$", "$") = <<"$", "$">>
        /\ At(Numbers(p, k), "%", "(num)") = Numeral(p.start + k) /\ \A c : At(Unescape(c), c, c) = <<c>>
    BY PassValues, Zenon
  <2> QED BY <2>1, Zenon DEF TemplatesPut, MeaningsPut
<1>10. /\ Makes(<<"%", "%">>, At(Templates(file, name, p), "%", "%"), Templates(file, name, p))
       /\ Makes(<<"%", "(num)">>, At(Templates(file, name, p), "%", "(num)"), Templates(file, name, p))
       /\ Makes(<<"$", "$">>, At(Variables, "$", "$"), Variables)
       /\ Makes(<<"%", "(num)">>, At(Numbers(p, k), "%", "(num)"), Numbers(p, k))
       /\ Makes(<<"%", "%">>, At(Unescape("%"), "%", "%"), Unescape("%"))
       /\ Makes(<<"$", "$">>, At(Unescape("$"), "$", "$"), Unescape("$"))
       /\ Makes(<<"%", "%">>, At(Meanings(file, name, p, k), "%", "%"), Meanings(file, name, p, k))
       /\ Makes(<<"$", "$">>, At(Meanings(file, name, p, k), "$", "$"), Meanings(file, name, p, k))
       /\ Makes(<<"%", "(num)">>, At(Meanings(file, name, p, k), "%", "(num)"), Meanings(file, name, p, k))
  BY <1>1, <1>8, MakesPair, Zenon
<1> QED BY <1>1, <1>6, <1>9, <1>10, Zenon

\* An escaped percent sign, if its meaning is not lost.
LEMMA RightPercent ==
  ASSUME NEW file, NEW name, NEW p, NEW k, IsInstance(file, name, p, k),
         NEW t \in Texts, Right(t, file, name, p, k),
         p.numprocs > 1 /\ t # <<>> => t[1] # "(num)"
  PROVE  Right(<<"%", "%">> \o t, file, name, p, k)
<1> DEFINE w == <<"%", "%">>
           v == <<"%">>
<1>1. w \in Texts /\ v \in Texts /\ "%" \in Atoms /\ "(num)" \in Special
  BY SignsPass, PairIsText, Zenon
<1>2. NoneNew({w, w, v, v}, w)
  BY DEF NoneNew
<1>3. NumberedTo(v, v, t, p, k)
  <2>1. ASSUME NEW u \in Texts, Kept(u, t), p.numprocs > 1
        PROVE  Rewrite(v \o u, Numbers(p, k)) = v \o Rewrite(u, Numbers(p, k))
    <3>1. ASSUME u # <<>>, <<"%", u[1]>> \in DOMAIN Numbers(p, k) PROVE FALSE
      <4>1. u[1] = "(num)"
        BY <3>1, PassKeys, Zenon DEF InNumbers
      <4> QED BY <1>1, <2>1, <3>1, <4>1 DEF Kept
    <3> QED BY <1>1, <3>1, RewriteHas
  <2> QED BY <2>1 DEF NumberedTo, Numbered
<1>4. /\ Makes(w, w, Templates(file, name, p)) /\ Makes(w, w, Variables) /\ Makes(w, v, Unescape("%"))
      /\ Makes(v, v, Unescape("$")) /\ Makes(w, v, Meanings(file, name, p, k))
  BY SignsPass, Zenon
<1> HIDE DEF w, v
<1>5. Right(w \o t, file, name, p, k)
  BY <1>1, <1>2, <1>3, <1>4, Passed, Zenon
<1> QED BY <1>5 DEF w

\* An escaped dollar sign.
LEMMA RightDollar ==
  ASSUME NEW file, NEW name, NEW p, NEW k, IsInstance(file, name, p, k),
         NEW t \in Texts, Right(t, file, name, p, k)
  PROVE  Right(<<"$", "$">> \o t, file, name, p, k)
<1> DEFINE w == <<"$", "$">>
           v == <<"$">>
<1>1. w \in Texts /\ v \in Texts
  BY SignsPass, PairIsText, Zenon
<1>2. NoneNew({w, w, w, v}, w)
  BY DEF NoneNew
<1>4. /\ Makes(w, w, Templates(file, name, p)) /\ Makes(w, w, Variables) /\ Makes(w, w, Unescape("%"))
      /\ Makes(w, v, Unescape("$")) /\ Makes(v, v, Numbers(p, k)) /\ Makes(w, v, Meanings(file, name, p, k))
  BY SignsPass, Zenon
<1> HIDE DEF w, v
<1>3. NumberedTo(v, v, t, p, k)
  BY <1>4 DEF NumberedTo, Numbered, Makes
<1>5. Right(w \o t, file, name, p, k)
  BY <1>1, <1>2, <1>3, <1>4, Passed, Zenon
<1> QED BY <1>5 DEF w

\* The number of a process, which is put in last if there are several.
LEMMA RightNumber ==
  ASSUME NEW file, NEW name, NEW p, NEW k, IsInstance(file, name, p, k), p.numprocs > 1,
         NEW t \in Texts, Right(t, file, name, p, k)
  PROVE  Right(<<"%", "(num)">> \o t, file, name, p, k)
<1> DEFINE w == <<"%", "(num)">>
           v == Numeral(p.start + k)
<1>1. w \in Texts /\ v \in Texts /\ "%" \in Atoms /\ "(num)" \in Atoms
  <2>1. p.start + k \in Int
    BY DEF IsInstance
  <2> QED BY <2>1, SignsPass, PairIsText, StringsAreTexts, Zenon
<1>2. NoneNew({w, w, w, w}, w)
  BY DEF NoneNew
<1>4. /\ Makes(w, w, Templates(file, name, p)) /\ Makes(w, w, Variables)
      /\ Makes(w, w, Unescape("$")) /\ Makes(w, v, Numbers(p, k)) /\ Makes(w, v, Meanings(file, name, p, k))
  BY SignsPass, Zenon
<1>6. Makes(w, w, Unescape("%"))
  <2> SUFFICES ASSUME NEW u \in Texts PROVE Rewrite(w \o u, Unescape("%")) = w \o Rewrite(u, Unescape("%"))
    BY Zenon DEF Makes
  <2> DEFINE x == <<"(num)">> \o u
  <2>1. \A c : /\ <<"(num)", c>> \notin DOMAIN Unescape("%")
               /\ c # "%" => <<"%", c>> \notin DOMAIN Unescape("%")
    <3>1. \A c : ~InUnescape("(num)", c, "%") /\ (c # "%" => ~InUnescape("%", c, "%"))
      BY DEF InUnescape
    <3> QED BY <3>1, PassKeys, Zenon
  <2>2. Rewrite(x, Unescape("%")) = <<"(num)">> \o Rewrite(u, Unescape("%"))
    BY <1>1, <2>1, RewriteHas, Zenon
  <2>3. x \in Texts /\ x[1] = "(num)"
    <3>1. <<"(num)">> \in Texts
      BY <1>1, PairIsText, Zenon
    <3>2. <<"(num)">> # <<>> /\ <<"(num)">>[1] = "(num)"
      OBVIOUS
    <3> QED BY <3>1, <3>2, ConcatHead
  <2>4. x[1] # "%"
    BY <2>3
  <2> HIDE DEF x
  <2>5. Rewrite(<<"%">> \o x, Unescape("%")) = <<"%">> \o Rewrite(x, Unescape("%"))
    BY <1>1, <2>1, <2>3, <2>4, RewriteHas, Zenon
  <2>6. \A y \in Texts : <<"%">> \o (<<"(num)">> \o y) = w \o y
    BY <1>1, Ones, Zenon
  <2>7. Rewrite(u, Unescape("%")) \in Texts
    <3>1. PutsText(Unescape("%"))
      BY PassTypes, Zenon
    <3> QED BY <3>1, RewriteType
  <2> QED BY <2>2, <2>5, <2>6, <2>7 DEF x
<1> HIDE DEF w, v
<1>3. NumberedTo(w, v, t, p, k)
  BY <1>4 DEF NumberedTo, Numbered, Makes
<1>5. Right(w \o t, file, name, p, k)
  BY <1>1, <1>2, <1>3, <1>4, <1>6, Passed, Zenon
<1> QED BY <1>5 DEF w

\* Clear, one pair of atoms at a time.
PairClear(M, a, b) ==
  <<a, b>> \in DOMAIN M /\ ~(a = "%" /\ b = "%") /\ ~(a = "$" /\ b = "$") => Plainly(At(M, a, b))

Lost(a, b, c) == a = "%" /\ b = "%" /\ c = "(num)"

LEMMA ClearIs ==
  ASSUME NEW s \in Texts, NEW file, NEW name, NEW p, NEW k
  PROVE  Clear(s, file, name, p, k) <=>
           /\ p.numprocs > 1 => \A i \in 1..Len(s) - 2 : ~Lost(s[i], s[i + 1], s[i + 2])
           /\ \A i \in 1..Len(s) - 1 : PairClear(Meanings(file, name, p, k), s[i], s[i + 1])
<1> DEFINE M == Meanings(file, name, p, k)
<1>1. EscapeLost(s, p) <=> p.numprocs > 1 /\ \E i \in 1..Len(s) - 2 : Lost(s[i], s[i + 1], s[i + 2])
  <2>1. Len(s) \in Nat
    BY LenProperties DEF Texts
  <2>2. ASSUME NEW i \in 1..Len(s) - 2
        PROVE  SubSeq(s, i, i + 2) = <<"%", "%", "(num)">> <=> Lost(s[i], s[i + 1], s[i + 2])
    <3> DEFINE q == SubSeq(s, i, i + 2)
    <3>1. /\ i \in 1..Len(s) /\ i + 2 \in 1..Len(s) /\ (i + 2) - i + 1 = 3 /\ i - 1 + 1 = i
          /\ i - 1 + 2 = i + 1 /\ i - 1 + 3 = i + 2
      BY <2>1
    <3>2. \A m, n \in 1..Len(s) : m <= n =>
            /\ SubSeq(s, m, n) \in Texts /\ Len(SubSeq(s, m, n)) = n - m + 1
            /\ \A j \in 1..(n - m + 1) : SubSeq(s, m, n)[j] = s[m + j - 1]
      BY <2>1, SubSeqProperties, SMTT(30) DEF Texts
    <3>3. q \in Texts /\ Len(q) = 3 /\ q[1] = s[i] /\ q[2] = s[i + 1] /\ q[3] = s[i + 2]
      <4>1. q \in Texts /\ Len(q) = 3 /\ \A j \in 1..3 : q[j] = s[i + j - 1]
        BY <3>1, <3>2
      <4> HIDE DEF q
      <4>2. i + 1 - 1 = i /\ i + 2 - 1 = i + 1 /\ i + 3 - 1 = i + 2
        OBVIOUS
      <4> QED BY <4>1, <4>2
    <3> HIDE DEF q
    <3>4. q = <<"%", "%", "(num)">> <=> q[1] = "%" /\ q[2] = "%" /\ q[3] = "(num)"
      BY <3>3 DEF Texts
    <3> QED BY <3>3, <3>4 DEF q, Lost
  <2> QED BY <2>2, Zenon DEF EscapeLost
<1>2. \A a, b : (<<a, b>> \in DOMAIN M /\ <<a, b>> \notin {<<"%", "%">>, <<"$", "$">>} => Plainly(M[<<a, b>>]))
                  <=> PairClear(M, a, b)
  BY DEF PairClear, At
<1>3. Clear(s, file, name, p, k) <=>
        /\ ~EscapeLost(s, p)
        /\ \A i \in 1..Len(s) - 1 : PairClear(M, s[i], s[i + 1])
  <2> HIDE DEF M
  <2>1. Clear(s, file, name, p, k) <=>
          /\ ~EscapeLost(s, p)
          /\ \A i \in 1..Len(s) - 1 :
               <<s[i], s[i + 1]>> \in DOMAIN M /\ <<s[i], s[i + 1]>> \notin {<<"%", "%">>, <<"$", "$">>} =>
                 Plainly(M[<<s[i], s[i + 1]>>])
    BY Zenon DEF Clear, M
  <2> QED BY <1>2, <2>1, Zenon
<1> QED BY <1>1, <1>3, Zenon

\* What is clear is clear from its second atom on.
LEMMA ClearTail ==
  ASSUME NEW s \in Texts, s # <<>>, NEW file, NEW name, NEW p, NEW k, Clear(s, file, name, p, k)
  PROVE  Clear(Tail(s), file, name, p, k)
<1>1. Tail(s) \in Texts /\ Len(Tail(s)) = Len(s) - 1 /\ Len(s) \in Nat /\ \A i \in 1..Len(s) - 1 : Tail(s)[i] = s[i + 1]
  BY Heads, HeadTailProperties DEF Texts
<1>2. ASSUME NEW i \in 1..Len(Tail(s)) - 1
      PROVE  PairClear(Meanings(file, name, p, k), Tail(s)[i], Tail(s)[i + 1])
  <2>1. i + 1 \in 1..Len(s) - 1 /\ Tail(s)[i] = s[i + 1] /\ Tail(s)[i + 1] = s[(i + 1) + 1]
    BY <1>1
  <2>2. PairClear(Meanings(file, name, p, k), s[i + 1], s[(i + 1) + 1])
    BY <2>1, ClearIs, Zenon
  <2> QED BY <2>1, <2>2
<1>3. ASSUME p.numprocs > 1, NEW i \in 1..Len(Tail(s)) - 2
      PROVE  ~Lost(Tail(s)[i], Tail(s)[i + 1], Tail(s)[i + 2])
  <2>1. /\ i + 1 \in 1..Len(s) - 2 /\ Tail(s)[i] = s[i + 1] /\ Tail(s)[i + 1] = s[(i + 1) + 1]
        /\ Tail(s)[i + 2] = s[(i + 1) + 2]
    BY <1>1
  <2>2. ~Lost(s[i + 1], s[(i + 1) + 1], s[(i + 1) + 2])
    BY <1>3, <2>1, ClearIs, Zenon
  <2> QED BY <2>1, <2>2
<1> QED BY <1>1, <1>2, <1>3, ClearIs, Zenon

LEMMA RightEmpty ==
  ASSUME NEW file, NEW name, NEW p, NEW k
  PROVE  Right(<<>>, file, name, p, k)
<1>1. /\ Templated(<<>>, file, name, p) = <<>> /\ Both(<<>>, file, name, p) = <<>>
      /\ Percents(<<>>, file, name, p) = <<>> /\ expandString(<<>>, file, name, p) = <<>>
      /\ Meaning(<<>>, file, name, p, k) = <<>>
  <2>1. \A by : Rewrite(<<>>, by) = <<>>
    BY RewriteHas
  <2>2. Templated(<<>>, file, name, p) = <<>> /\ Meaning(<<>>, file, name, p, k) = <<>>
    BY <2>1, Zenon DEF Templated, Meaning
  <2>3. Both(<<>>, file, name, p) = <<>>
    BY <2>1, <2>2, Zenon DEF Both
  <2>4. Percents(<<>>, file, name, p) = <<>>
    BY <2>1, <2>3, Zenon DEF Percents
  <2>5. expandString(<<>>, file, name, p) = <<>>
    BY <2>1, <2>4, Passes, Zenon
  <2> QED BY <2>2, <2>3, <2>4, <2>5
<1>2. <<>> \in Texts /\ Kept(<<>>, <<>>) /\ Numbered(<<>>, p, k) = <<>>
  BY RewriteHas DEF Texts, Kept, Numbered
<1> QED BY <1>1, <1>2, Zenon DEF Right

\* A pair that begins s is what Clear allows.
LEMMA RightPair ==
  ASSUME NEW file, NEW name, NEW p, NEW k, IsInstance(file, name, p, k),
         NEW a, NEW b, <<a, b>> \in DOMAIN Meanings(file, name, p, k),
         PairClear(Meanings(file, name, p, k), a, b),
         NEW t \in Texts, Right(t, file, name, p, k),
         p.numprocs > 1 /\ t # <<>> => ~Lost(a, b, t[1])
  PROVE  Right(<<a, b>> \o t, file, name, p, k)
<1>1. (a = "%" /\ b \in {"%", "(here)", "(prog)", "(group)", "(procs)", "(num)", "(bad)"}) \/ (a = "$" /\ (b = "$" \/ b \in Names))
  <2>1. InTemplates(a, b) \/ InVariables(a, b)
    BY PassKeys, Zenon
  <2> QED BY <2>1, Zenon DEF InTemplates, InVariables, Names
<1>2. CASE a = "%" /\ b = "%"
  <2>1. p.numprocs > 1 /\ t # <<>> => t[1] # "(num)"
    BY <1>2, Zenon DEF Lost
  <2>2. Right(<<"%", "%">> \o t, file, name, p, k)
    BY <2>1, RightPercent
  <2> QED BY <1>2, <2>2, Zenon
<1>3. CASE a = "$" /\ b = "$"
  <2>1. Right(<<"$", "$">> \o t, file, name, p, k)
    BY RightDollar, Zenon
  <2> QED BY <1>3, <2>1, Zenon
<1>4. CASE a = "%" /\ b = "(num)" /\ p.numprocs > 1
  <2>1. Right(<<"%", "(num)">> \o t, file, name, p, k)
    BY <1>4, RightNumber, Zenon
  <2> QED BY <1>4, <2>1, Zenon
<1>5. CASE a = "%" /\ b \in {"(here)", "(prog)", "(group)", "(procs)", "(num)", "(bad)"} /\ ~(b = "(num)" /\ p.numprocs > 1)
  <2>1. b # "%"
    BY <1>5
  <2>2. Plainly(At(Meanings(file, name, p, k), "%", b))
    <3>1. "%" # "$"
      OBVIOUS
    <3> QED BY <1>5, <2>1, <3>1, Zenon DEF PairClear
  <2>3. Right(<<"%", b>> \o t, file, name, p, k)
    BY <1>5, <2>2, RightTemplate, Zenon
  <2> QED BY <1>5, <2>3, Zenon
<1>6. CASE a = "$" /\ b \in Names /\ b # "$"
  <2>1. Plainly(At(Meanings(file, name, p, k), "$", b))
    <3>1. "$" # "%"
      OBVIOUS
    <3> QED BY <1>6, <3>1, Zenon DEF PairClear
  <2>2. Right(<<"$", b>> \o t, file, name, p, k)
    BY <1>6, <2>1, RightVariable, Zenon
  <2> QED BY <1>6, <2>2, Zenon
<1> QED BY <1>1, <1>2, <1>3, <1>4, <1>5, <1>6

\* What is clear becomes what it means.
LEMMA RightClear ==
  ASSUME NEW file, NEW name, NEW p, NEW k, IsInstance(file, name, p, k)
  PROVE  \A s \in Texts : Clear(s, file, name, p, k) => Right(s, file, name, p, k)
<1> DEFINE T == {n \in Nat : \A s \in Texts : Len(s) <= n /\ Clear(s, file, name, p, k) => Right(s, file, name, p, k)}
<1>1. 0 \in T
  <2> SUFFICES ASSUME NEW s \in Texts, Len(s) <= 0 PROVE Right(s, file, name, p, k)
    OBVIOUS
  <2>1. s = <<>>
    BY EmptySeq, LenProperties DEF Texts
  <2> QED BY <2>1, RightEmpty
<1>2. ASSUME NEW n \in Nat, n \in T PROVE n + 1 \in T
  <2> SUFFICES ASSUME NEW s \in Texts, Len(s) <= n + 1, Clear(s, file, name, p, k), s # <<>>
      PROVE  Right(s, file, name, p, k)
    BY RightEmpty
  <2>1. s[1] \in Atoms /\ Tail(s) \in Texts /\ s = <<s[1]>> \o Tail(s) /\ Len(Tail(s)) = Len(s) - 1 /\ Len(s) \in Nat
    BY Heads, Zenon
  <2>2. Clear(Tail(s), file, name, p, k)
    BY ClearTail, Zenon
  <2>3. Right(Tail(s), file, name, p, k)
    <3>1. Len(Tail(s)) <= n
      BY <2>1
    <3> QED BY <1>2, <2>1, <2>2, <3>1, Zenon
  <2>4. CASE Tail(s) # <<>> /\ <<s[1], s[2]>> \in DOMAIN Meanings(file, name, p, k)
    <3> DEFINE t == Tail(Tail(s))
    <3>1. t \in Texts /\ s = <<s[1], s[2]>> \o t /\ Len(t) = Len(s) - 2
      BY <2>4, Heads, Zenon
    <3>2. Right(t, file, name, p, k)
      <4>1. Clear(t, file, name, p, k)
        BY <2>1, <2>2, <2>4, ClearTail, Zenon
      <4>2. Len(t) <= n
        BY <2>1, <3>1
      <4> QED BY <1>2, <3>1, <4>1, <4>2, Zenon
    <3>3. Len(t) \in Nat
      BY <3>1, LenProperties DEF Texts
    <3>4. PairClear(Meanings(file, name, p, k), s[1], s[2])
      <4>1. 1 \in 1..Len(s) - 1 /\ 1 + 1 = 2
        BY <2>1, <3>1, <3>3
      <4>2. PairClear(Meanings(file, name, p, k), s[1], s[1 + 1])
        BY <4>1, ClearIs, Zenon
      <4> QED BY <4>1, <4>2
    <3>5. ASSUME p.numprocs > 1, t # <<>> PROVE ~Lost(s[1], s[2], t[1])
      <4>1. 1 \in 1..Len(s) - 2 /\ 1 + 1 = 2 /\ 1 + 2 = 3 /\ 1 \in 1..Len(Tail(s)) - 1
        BY <2>1, <3>1, <3>3, <3>5, EmptySeq DEF Texts
      <4>2. ~Lost(s[1], s[1 + 1], s[1 + 2])
        BY <3>5, <4>1, ClearIs, Zenon
      <4>3. t[1] = s[3]
        <5>1. /\ \A i \in 1..Len(s) - 1 : Tail(s)[i] = s[i + 1]
              /\ \A i \in 1..Len(Tail(s)) - 1 : t[i] = Tail(s)[i + 1]
          BY <2>1, <2>4, HeadTailProperties DEF Texts
        <5>2. 2 \in 1..Len(s) - 1
          BY <2>1, <4>1
        <5> HIDE DEF t
        <5> QED BY <4>1, <5>1, <5>2
      <4> QED BY <4>1, <4>2, <4>3
    <3> HIDE DEF t
    <3>6. Right(<<s[1], s[2]>> \o t, file, name, p, k)
      BY <2>4, <3>1, <3>2, <3>4, <3>5, RightPair
    <3> QED BY <3>1, <3>6, Zenon
  <2>5. CASE ~(Tail(s) # <<>> /\ <<s[1], s[2]>> \in DOMAIN Meanings(file, name, p, k))
    <3>1. Tail(s) # <<>> => s[2] = Tail(s)[1]
      BY Heads, Zenon
    <3>2. Alone(s[1], Tail(s), file, name, p, k)
      BY <2>5, <3>1, Zenon DEF Alone
    <3>3. Right(<<s[1]>> \o Tail(s), file, name, p, k)
      BY <2>1, <2>3, <3>2, RightAtom, Zenon
    <3> QED BY <2>1, <3>3, Zenon
  <2> QED BY <2>4, <2>5
<1> HIDE DEF T
<1>3. \A n \in Nat : n \in T
  BY <1>1, <1>2, Induct
<1> QED BY <1>3, LenProperties DEF T, Texts

-----------------------------------------------------------------------------
(***************************************************************************)
(* The files do not change, and so what they say does not.                 *)
(***************************************************************************)
\* The numbers of the priorities have names: Zenon counts up to a number.
Priorities == 0..999
RankOf(a, b) == a * 1000 + b

LEMMA SameFiles ==
  ASSUME disk' = disk
  PROVE  /\ \A f : Patterns(f)' = Patterns(f)
         /\ \A f : Loaded(f)' = Loaded(f)
         /\ \A f : Loads(f)' <=> Loads(f)
         /\ \A f : Links(f)' = Links(f)
         /\ Files' = Files
         /\ \A f : Below(f)' = Below(f) /\ Reachable' = Reachable
<1>1. \A f : Patterns(f)' = Patterns(f)
  BY DEF Patterns
<1>2. \A f : Defaulted(f)' = Defaulted(f)
  BY DEF Defaulted
<1>3. \A f : Loaded(f)' = Loaded(f)
  BY <1>2 DEF Loaded
<1>4. \A f : Valid(f)' <=> Valid(f)
  <2> SUFFICES ASSUME NEW f PROVE Valid(f)' <=> Valid(f)
    OBVIOUS
  <2> DEFINE D == Defaulted(f)
  <2>1. D' = D
    BY <1>2
  <2> HIDE DEF D
  <2>2. Valid(f) <=> /\ f \in DOMAIN disk
                     /\ \A n \in DOMAIN disk[f].programs : Validate(D.programs[n])
                     /\ \A n \in DOMAIN disk[f].groups : D.groups[n].priority \in Priorities
    BY DEF Valid, D, Priorities
  <2>3. Valid(f)' <=> /\ f \in DOMAIN disk'
                      /\ \A n \in DOMAIN disk'[f].programs : Validate(D'.programs[n])
                      /\ \A n \in DOMAIN disk'[f].groups : D'.groups[n].priority \in Priorities
    BY DEF Valid, D, Priorities
  <2> QED BY <2>1, <2>2, <2>3
<1>5. \A f : Loads(f)' <=> Loads(f)
  BY <1>3, <1>4 DEF Loads
<1>6. \A f : Links(f)' = Links(f)
  BY <1>1 DEF Links
<1>7. Files' = Files
  BY <1>6 DEF Files
<1>8. \A f : Below(f)' = Below(f)
  BY <1>6, <1>7 DEF Below
<1>9. Reachable' = Reachable
  BY <1>8 DEF Reachable
<1> QED BY <1>1, <1>3, <1>5, <1>6, <1>7, <1>8, <1>9

LEMMA SameWritten ==
  ASSUME disk' = disk
  PROVE  /\ Tree' <=> Tree
         /\ \A f, g : Precedes(f, g)' <=> Precedes(f, g)
         /\ ProgramsWritten' = ProgramsWritten
         /\ GroupsWritten' = GroupsWritten
         /\ Acceptable' <=> Acceptable
<1>1. /\ \A f : Patterns(f)' = Patterns(f)
      /\ \A f : Loaded(f)' = Loaded(f)
      /\ \A f : Loads(f)' <=> Loads(f)
      /\ \A f : Links(f)' = Links(f)
      /\ \A f : Below(f)' = Below(f)
      /\ Reachable' = Reachable
  BY SameFiles
<1>2. Tree' <=> Tree
  BY <1>1 DEF Tree
<1>3. \A f, g : Precedes(f, g)' <=> Precedes(f, g)
  BY <1>1 DEF Precedes
<1>4. TreeOrder' = TreeOrder
  BY <1>1, <1>3 DEF TreeOrder
<1>5. /\ \A name : WithProgram(name)' = WithProgram(name)
      /\ \A name : WithGroup(name)' = WithGroup(name)
  BY <1>1 DEF WithProgram, WithGroup
<1>6. ProgramsWritten' = ProgramsWritten
  BY <1>1, <1>5 DEF ProgramsWritten
<1>7. GroupsWritten' = GroupsWritten
  BY <1>1, <1>4, <1>5 DEF GroupsWritten
<1>8. Acceptable' <=> Acceptable
  BY <1>2, <1>6, <1>7 DEF Acceptable
<1> QED BY <1>2, <1>3, <1>6, <1>7, <1>8

-----------------------------------------------------------------------------
(***************************************************************************)
(* What one file has when it is loaded.                                    *)
(***************************************************************************)
\* A program as it is written, with the defaults.
Written(f, name) == ApplyDefaults(disk[f].programs[name])

\* f is a function with this domain.
Maps(f, S) == f = [x \in S |-> f[x]]

LEMMA WrittenHas ==
  ASSUME disk \in Disks, NEW f \in DOMAIN disk, NEW name \in DOMAIN disk[f].programs
  PROVE  /\ Dir[f] \in Texts /\ name \in Texts
         /\ Written(f, name) \in ProgramType
         /\ Defaulted(f).programs[name] = Written(f, name)
<1>1. /\ name \in Strings /\ disk[f].programs[name] \in ProgramType /\ Dir[f] \in Strings
      /\ disk[f] = [programs |-> disk[f].programs, groups |-> disk[f].groups, include |-> disk[f].include]
  BY FileHas DEF IsContent
<1>2. Written(f, name) \in ProgramType
  <2> DEFINE p == disk[f].programs[name]
             np == Default(p, "numprocs", 1)
             pr == Default(p, "priority", 999)
  <2>1. p \in ProgramType
    BY <1>1
  <2>2. np \in Int /\ pr \in Int
    BY <2>1 DEF Default, ProgramType
  <2>3. Written(f, name) = [p EXCEPT !.numprocs = np, !.priority = pr]
    BY Zenon DEF Written, ApplyDefaults
  <2> HIDE DEF p, np, pr
  <2> QED BY <2>1, <2>2, <2>3 DEF ProgramType
<1>3. Defaulted(f).programs[name] = Written(f, name)
  BY <1>1 DEF Defaulted, Written
<1> QED BY <1>1, <1>2, <1>3, StringsAreTexts

LEMMA LoadedHas ==
  ASSUME disk \in Disks, NEW f \in DOMAIN disk
  PROVE  /\ Maps(Loaded(f).programs, DOMAIN disk[f].programs)
         /\ Maps(Loaded(f).groups, DOMAIN disk[f].groups)
         /\ \A name \in DOMAIN disk[f].programs :
              LET p == Written(f, name) IN
              Loaded(f).programs[name] =
                [p EXCEPT !.command = expandString(p.command, f, name, p),
                          !.process_name = expandString(p.process_name, f, name, p)]
         /\ \A name \in DOMAIN disk[f].groups : Loaded(f).groups[name] = DefaultGroup(disk[f].groups[name])
<1>1. disk[f] = [programs |-> disk[f].programs, groups |-> disk[f].groups, include |-> disk[f].include]
  BY FileHas DEF IsContent
<1> DEFINE D == Defaulted(f)
<1>2. /\ D.programs = [n \in DOMAIN disk[f].programs |-> ApplyDefaults(disk[f].programs[n])]
      /\ D.groups = [n \in DOMAIN disk[f].groups |-> DefaultGroup(disk[f].groups[n])]
  BY <1>1 DEF Defaulted
<1> HIDE DEF D
<1>3. Loaded(f).programs = ExpandVariables(f, D.programs) /\ Loaded(f).groups = D.groups
  BY DEF Loaded, D
<1>4. Maps(Loaded(f).groups, DOMAIN disk[f].groups)
      /\ \A name \in DOMAIN disk[f].groups : Loaded(f).groups[name] = DefaultGroup(disk[f].groups[name])
  BY <1>2, <1>3 DEF Maps
<1>5. \A name \in DOMAIN disk[f].programs : D.programs[name] = Written(f, name)
  BY <1>2 DEF Written
<1>6. DOMAIN D.programs = DOMAIN disk[f].programs
  BY <1>2
<1>7. Maps(ExpandVariables(f, D.programs), DOMAIN D.programs)
  BY DEF Maps, ExpandVariables
<1>8. \A name \in DOMAIN D.programs :
        LET p == D.programs[name] IN
        ExpandVariables(f, D.programs)[name] =
           [p EXCEPT !.command = expandString(p.command, f, name, p),
                     !.process_name = expandString(p.process_name, f, name, p)]
  <2> SUFFICES ASSUME NEW name \in DOMAIN D.programs
      PROVE  LET p == D.programs[name] IN
             ExpandVariables(f, D.programs)[name] =
                [p EXCEPT !.command = expandString(p.command, f, name, p),
                          !.process_name = expandString(p.process_name, f, name, p)]
    OBVIOUS
  <2> DEFINE p == D.programs[name]
  <2>1. ExpandVariables(f, D.programs)[name] =
          [p EXCEPT !.command = expandString(@, f, name, p), !.process_name = expandString(@, f, name, p)]
    BY Zenon DEF ExpandVariables
  <2> QED BY <2>1
<1>9. \A name \in DOMAIN disk[f].programs :
        LET p == Written(f, name) IN
        Loaded(f).programs[name] =
          [p EXCEPT !.command = expandString(p.command, f, name, p),
                    !.process_name = expandString(p.process_name, f, name, p)]
  BY <1>3, <1>5, <1>6, <1>8
<1>10. Maps(Loaded(f).programs, DOMAIN disk[f].programs)
  BY <1>3, <1>6, <1>7
<1> QED BY <1>4, <1>9, <1>10

\* The settings of a program that is loaded.
LEMMA LoadedProgram ==
  ASSUME disk \in Disks, NEW f \in DOMAIN disk, NEW name \in DOMAIN disk[f].programs
  PROVE  /\ Loaded(f).programs[name].numprocs = Written(f, name).numprocs
         /\ Loaded(f).programs[name].start = Written(f, name).start
         /\ Loaded(f).programs[name].priority = Written(f, name).priority
         /\ Loaded(f).programs[name].autostart = Written(f, name).autostart
         /\ Loaded(f).programs[name].command = expandString(Written(f, name).command, f, name, Written(f, name))
         /\ Written(f, name).numprocs \in Int /\ Written(f, name).start \in Int
         /\ Written(f, name).command \in Texts /\ Written(f, name).priority \in Int
         /\ Written(f, name).autostart \in BOOLEAN
<1> DEFINE p == Written(f, name)
           e(s) == expandString(s, f, name, p)
<1>1. p \in ProgramType
  BY WrittenHas
<1>2. Loaded(f).programs[name] = [p EXCEPT !.command = e(p.command), !.process_name = e(p.process_name)]
  BY LoadedHas, Zenon
<1> HIDE DEF p, e
<1>3. /\ Loaded(f).programs[name].numprocs = p.numprocs
      /\ Loaded(f).programs[name].start = p.start
      /\ Loaded(f).programs[name].priority = p.priority
      /\ Loaded(f).programs[name].autostart = p.autostart
      /\ Loaded(f).programs[name].command = e(p.command)
  BY <1>1, <1>2 DEF ProgramType
<1>4. p.numprocs \in Int /\ p.start \in Int /\ p.command \in Texts /\ p.priority \in Int /\ p.autostart \in BOOLEAN
  BY <1>1, StringsAreTexts DEF ProgramType
<1> QED BY <1>3, <1>4 DEF p, e

\* What Load checks.
LEMMA LoadsHas ==
  ASSUME disk \in Disks, NEW f, Loads(f)
  PROVE  /\ f \in DOMAIN disk
         /\ \A name \in DOMAIN disk[f].programs :
              Written(f, name).numprocs >= 1 /\ Written(f, name).priority \in Priorities
         /\ \A name \in DOMAIN disk[f].groups : Loaded(f).groups[name].priority \in Priorities
<1>1. f \in DOMAIN disk /\ (\A n \in DOMAIN disk[f].programs : Validate(Defaulted(f).programs[n]))
      /\ \A n \in DOMAIN disk[f].groups : Defaulted(f).groups[n].priority \in Priorities
  BY DEF Loads, Valid, Priorities
<1>2. \A n \in DOMAIN disk[f].programs : Validate(Written(f, n))
  BY <1>1, WrittenHas
<1>3. Loaded(f).groups = Defaulted(f).groups
  BY DEF Loaded
<1>4. \A n \in DOMAIN disk[f].programs : Written(f, n).numprocs >= 1 /\ Written(f, n).priority \in Priorities
  BY <1>2 DEF Validate, Priorities
<1>5. \A n \in DOMAIN disk[f].groups : Loaded(f).groups[n].priority \in Priorities
  BY <1>1, <1>3, Zenon
<1> QED BY <1>1, <1>4, <1>5, Zenon

-----------------------------------------------------------------------------
(***************************************************************************)
(* The files that are being read.                                          *)
(***************************************************************************)
IsStack(s) == \E T : s \in Seq(T)

\* What the operations on sequences do.
LEMMA Stacks ==
  ASSUME NEW s, IsStack(s), NEW x
  PROVE  /\ Len(s) \in Nat /\ (s = <<>> <=> Len(s) = 0)
         /\ IsStack(Append(s, x)) /\ Len(Append(s, x)) = Len(s) + 1 /\ Append(s, x)[Len(s) + 1] = x
         /\ \A k \in 1..Len(s) : Append(s, x)[k] = s[k]
         /\ s # <<>> => /\ IsStack(Front(s)) /\ Len(Front(s)) = Len(s) - 1
                        /\ \A k \in 1..Len(s) - 1 : Front(s)[k] = s[k]
<1> PICK T : s \in Seq(T)
  BY DEF IsStack
<1> DEFINE U == T \cup {x}
<1>1. s \in Seq(U) /\ x \in U /\ Len(s) \in Nat
  <2>1. s \in [1..Len(s) -> T] /\ Len(s) \in Nat
    BY LenProperties
  <2>2. s \in [1..Len(s) -> U]
    BY <2>1
  <2> HIDE DEF U
  <2>3. s \in Seq(U)
    BY <2>1, <2>2, SeqDef
  <2> QED BY <2>1, <2>3 DEF U
<1> HIDE DEF U
<1>2. s = <<>> <=> Len(s) = 0
  BY EmptySeq
<1>3. /\ Append(s, x) \in Seq(U) /\ Len(Append(s, x)) = Len(s) + 1 /\ Append(s, x)[Len(s) + 1] = x
      /\ \A k \in 1..Len(s) : Append(s, x)[k] = s[k]
  BY <1>1, AppendProperties
<1>4. ASSUME s # <<>>
      PROVE  Front(s) \in Seq(U) /\ Len(Front(s)) = Len(s) - 1 /\ \A k \in 1..Len(s) - 1 : Front(s)[k] = s[k]
  <2>1. Len(s) >= 1
    BY <1>1, <1>2, <1>4
  <2>2. CASE Len(s) = 1
    <3>1. Front(s) = <<>>
      BY <1>1, <2>2 DEF Front
    <3> QED BY <2>2, <3>1
  <2>3. CASE Len(s) > 1
    <3>1. 1 \in 1..Len(s) /\ Len(s) - 1 \in 1..Len(s) /\ 1 <= Len(s) - 1 /\ Len(s) - 1 - 1 + 1 = Len(s) - 1
      BY <1>1, <2>3
    <3>2. /\ SubSeq(s, 1, Len(s) - 1) \in Seq(U) /\ Len(SubSeq(s, 1, Len(s) - 1)) = Len(s) - 1
          /\ \A j \in 1..Len(s) - 1 : SubSeq(s, 1, Len(s) - 1)[j] = s[1 + j - 1]
      BY <1>1, <3>1, SubSeqProperties
    <3>3. \A j \in 1..Len(s) - 1 : 1 + j - 1 = j
      BY <1>1
    <3> QED BY <3>2, <3>3 DEF Front
  <2>4. Len(s) = 1 \/ Len(s) > 1
    <3>1. \A n \in Nat : n >= 1 => n = 1 \/ n > 1
      OBVIOUS
    <3> QED BY <1>1, <2>1, <3>1, Zenon
  <2> QED BY <2>2, <2>3, <2>4, Zenon
<1> QED BY <1>1, <1>2, <1>3, <1>4 DEF IsStack

\* The file that is read next.
LEMMA MinIs ==
  ASSUME NEW T, T \subseteq Nat, T # {}
  PROVE  Min(T) \in T /\ \A y \in T : Min(T) <= y
<1>1. \E x \in T : \A y \in T : x <= y
  BY Least
<1> QED BY <1>1 DEF Min

\* The frame is done with x, which its pattern i matches, and with all below x.
DoneAt(F, i, x) ==
  /\ i \in DOMAIN Patterns(F.file) /\ x \in Patterns(F.file)[i]
  /\ i < F.pattern \/ (i = F.pattern /\ x \notin F.todo)

Scope(F) == {g \in Files : g = F.file \/ \E i, x : DoneAt(F, i, x) /\ g \in Below(x)}

\* c has the programs of these files, which have none in common.
HasPrograms(c, S) ==
  /\ Maps(c.programs, UNION {DOMAIN disk[f].programs : f \in S})
  /\ \A f \in S : \A name \in DOMAIN disk[f].programs : c.programs[name] = Loaded(f).programs[name]
  /\ \A f, g \in S : f # g => DOMAIN disk[f].programs \cap DOMAIN disk[g].programs = {}

\* c has their groups, each one as the last of the files has it.
LastWith(g, name, S) ==
  /\ g \in S /\ name \in DOMAIN disk[g].groups
  /\ \A h \in S : name \in DOMAIN disk[h].groups /\ h # g => Precedes(h, g)

HasGroups(c, S) ==
  /\ Maps(c.groups, UNION {DOMAIN disk[f].groups : f \in S})
  /\ Tree => \A name \in DOMAIN c.groups :
               \E g : LastWith(g, name, S) /\ c.groups[name] = Loaded(g).groups[name]

FrameInv(F) ==
  /\ F.pattern \in 0..Len(Patterns(F.file))
  /\ F.pattern = 0 => F.todo = {}
  /\ F.pattern > 0 => /\ F.todo \subseteq Patterns(F.file)[F.pattern]
                      /\ \A x \in Patterns(F.file)[F.pattern] \ F.todo, y \in F.todo : x < y
  /\ HasPrograms(F.cfg, Scope(F))
  /\ HasGroups(F.cfg, Scope(F))

LEMMA SameFrame ==
  ASSUME disk' = disk
  PROVE  /\ \A F, i, x : DoneAt(F, i, x)' <=> DoneAt(F, i, x)
         /\ \A F : Scope(F)' = Scope(F)
         /\ \A c, S : HasPrograms(c, S)' <=> HasPrograms(c, S)
         /\ \A c, S : HasGroups(c, S)' <=> HasGroups(c, S)
         /\ \A F : FrameInv(F)' <=> FrameInv(F)
<1>1. \A f : Patterns(f)' = Patterns(f)
  BY SameFiles
<1>2. \A F, i, x : DoneAt(F, i, x)' <=> DoneAt(F, i, x)
  BY <1>1 DEF DoneAt
<1>3. /\ \A f : Below(f)' = Below(f)
      /\ Files' = Files
  BY SameFiles
<1>4. \A F : Scope(F)' = Scope(F)
  BY <1>2, <1>3 DEF Scope
<1>5. \A f : Loaded(f)' = Loaded(f)
  BY SameFiles
<1>6. \A c, S : HasPrograms(c, S)' <=> HasPrograms(c, S)
  BY <1>5 DEF HasPrograms
<1>7. /\ Tree' <=> Tree
      /\ \A f, g : Precedes(f, g)' <=> Precedes(f, g)
  BY SameWritten
<1>8. \A g, name, S : LastWith(g, name, S)' <=> LastWith(g, name, S)
  BY <1>7 DEF LastWith
<1>9. \A c, S : HasGroups(c, S)' <=> HasGroups(c, S)
  BY <1>5, <1>7, <1>8 DEF HasGroups
<1>10. \A F : FrameInv(F)' <=> FrameInv(F)
  BY <1>1, <1>4, <1>6, <1>9 DEF FrameInv
<1> QED BY <1>2, <1>4, <1>6, <1>9, <1>10

\* A file that has just been loaded.
LEMMA FrameNew ==
  ASSUME disk \in Disks, NEW f \in DOMAIN disk
  PROVE  /\ FrameInv(Frame(f, Loaded(f), 0, {}))
         /\ \A i, x : ~DoneAt(Frame(f, Loaded(f), 0, {}), i, x)
<1> DEFINE F == Frame(f, Loaded(f), 0, {})
<1>1. F.file = f /\ F.pattern = 0 /\ F.todo = {} /\ F.cfg = Loaded(f)
  BY DEF Frame
<1> HIDE DEF F
<1>2. \A i, x : ~DoneAt(F, i, x)
  BY <1>1, FileHas DEF DoneAt
<1>3. Scope(F) = {f}
  BY <1>1, <1>2, LinksAre DEF Scope
<1>4. HasPrograms(F.cfg, {f})
  <2>1. Maps(Loaded(f).programs, DOMAIN disk[f].programs)
    BY LoadedHas
  <2>2. UNION {DOMAIN disk[g].programs : g \in {f}} = DOMAIN disk[f].programs
    OBVIOUS
  <2> QED BY <1>1, <2>1, <2>2 DEF HasPrograms
<1>5. HasGroups(F.cfg, {f})
  <2>1. Maps(Loaded(f).groups, DOMAIN disk[f].groups)
    BY LoadedHas
  <2>2. DOMAIN Loaded(f).groups = DOMAIN disk[f].groups
    BY <2>1 DEF Maps
  <2>3. \A name \in DOMAIN Loaded(f).groups : LastWith(f, name, {f})
    BY <2>2 DEF LastWith
  <2>4. UNION {DOMAIN disk[g].groups : g \in {f}} = DOMAIN disk[f].groups
    OBVIOUS
  <2> QED BY <1>1, <2>1, <2>3, <2>4 DEF HasGroups
<1>6. F.pattern \in 0..Len(Patterns(F.file))
  BY <1>1, FileHas
<1>7. FrameInv(F)
  BY <1>1, <1>3, <1>4, <1>5, <1>6 DEF FrameInv
<1> QED BY <1>2, <1>7 DEF F

\* A frame that takes its next pattern.
LEMMA FramePattern ==
  ASSUME disk \in Disks, NEW F, F.file \in DOMAIN disk, FrameInv(F), F.todo = {},
         F.pattern < Len(Patterns(F.file)),
         NEW G, G.file = F.file, G.cfg = F.cfg, G.pattern = F.pattern + 1,
         G.todo = Patterns(F.file)[F.pattern + 1]
  PROVE  FrameInv(G) /\ \A i, x : DoneAt(G, i, x) <=> DoneAt(F, i, x)
<1> DEFINE t == Patterns(F.file)[F.pattern + 1]
           n == F.pattern + 1
<1>1. /\ F.pattern \in Nat /\ Len(Patterns(F.file)) \in Nat
      /\ DOMAIN Patterns(F.file) = 1..Len(Patterns(F.file))
  <2>1. F.pattern \in 0..Len(Patterns(F.file))
    BY Zenon DEF FrameInv
  <2> QED BY <2>1, FileHas
<1>3. G.file = F.file /\ G.cfg = F.cfg /\ G.pattern = n /\ G.todo = t
  OBVIOUS
<1> HIDE DEF t, n
<1>4. n \in 1..Len(Patterns(F.file)) /\ n = F.pattern + 1 /\ t = Patterns(F.file)[n]
  BY <1>1 DEF n, t
<1>5. \A i, x : DoneAt(G, i, x) <=> DoneAt(F, i, x)
  <2> SUFFICES ASSUME NEW i \in 1..Len(Patterns(F.file)), NEW x, x \in Patterns(F.file)[i]
      PROVE  (i < n \/ (i = n /\ x \notin t)) <=> (i < F.pattern \/ (i = F.pattern /\ x \notin F.todo))
    BY <1>1, <1>3, Zenon DEF DoneAt
  <2>1. i < n <=> (i < F.pattern \/ i = F.pattern)
    BY <1>1, <1>4
  <2>2. ~(i = n /\ x \notin t)
    BY <1>4
  <2> QED BY <2>1, <2>2
<1>6. Scope(G) = Scope(F)
  BY <1>3, <1>5, Zenon DEF Scope
<1>7. HasPrograms(G.cfg, Scope(G)) /\ HasGroups(G.cfg, Scope(G))
  BY <1>3, <1>6, Zenon DEF FrameInv
<1>8. G.pattern \in 0..Len(Patterns(G.file)) /\ G.pattern > 0 /\ G.pattern # 0 /\ G.todo = Patterns(G.file)[G.pattern]
  BY <1>1, <1>3, <1>4
<1>9. FrameInv(G)
  BY <1>3, <1>7, <1>8 DEF FrameInv
<1> QED BY <1>5, <1>9

\* A file that has been read is done with all that it includes.
LEMMA ReadIs ==
  ASSUME disk \in Disks, NEW G, G.file \in DOMAIN disk, FrameInv(G), IsRead(G)
  PROVE  /\ \A i, x : DoneAt(G, i, x) <=> i \in DOMAIN Patterns(G.file) /\ x \in Patterns(G.file)[i]
         /\ Scope(G) = Below(G.file)
<1>1. \A i, x : DoneAt(G, i, x) <=> i \in DOMAIN Patterns(G.file) /\ x \in Patterns(G.file)[i]
  <2>1. G.todo = {} /\ G.pattern = Len(Patterns(G.file))
    BY DEF IsRead
  <2>2. Len(Patterns(G.file)) \in Nat /\ DOMAIN Patterns(G.file) = 1..Len(Patterns(G.file))
    BY FileHas
  <2>3. \A i \in 1..Len(Patterns(G.file)) : i < G.pattern \/ i = G.pattern
    BY <2>1, <2>2
  <2> QED BY <2>1, <2>2, <2>3 DEF DoneAt
<1>2. Scope(G) = Below(G.file)
  <2>1. G.file \in Files
    BY LinksAre
  <2>2. \A x : x \in Links(G.file) <=> \E i : DoneAt(G, i, x)
    BY <1>1, LinksAre
  <2>3. Below(G.file) = {G.file} \cup UNION {Below(x) : x \in Links(G.file)} /\ Below(G.file) \subseteq Files
    BY <2>1, BelowSplit, BelowIs
  <2> QED BY <2>2, <2>3 DEF Scope
<1> QED BY <1>1, <1>2

\* A frame F, and the frame G of the file that F reads and that is read itself.
Included(F, G) ==
  /\ FrameInv(F) /\ FrameInv(G) /\ F.file \in DOMAIN disk /\ G.file \in DOMAIN disk
  /\ F.todo # {} /\ G.file = Min(F.todo) /\ IsRead(G)

LEMMA IncludedHas ==
  ASSUME disk \in Disks, NEW F, NEW G, Included(F, G)
  PROVE  /\ F.pattern \in DOMAIN Patterns(F.file) /\ G.file \in Patterns(F.file)[F.pattern] /\ G.file \in F.todo
         /\ G.file \in Links(F.file) /\ Scope(G) = Below(G.file)
         /\ \A y \in Patterns(F.file)[F.pattern] \ F.todo : y < G.file
         /\ \A y \in F.todo \ {G.file} : G.file < y
         /\ F.todo \subseteq Patterns(F.file)[F.pattern] /\ F.pattern \in Nat
<1>1. /\ F.pattern \in 0..Len(Patterns(F.file))
      /\ F.pattern = 0 => F.todo = {}
      /\ F.pattern > 0 => /\ F.todo \subseteq Patterns(F.file)[F.pattern]
                          /\ \A x \in Patterns(F.file)[F.pattern] \ F.todo, y \in F.todo : x < y
      /\ F.todo # {} /\ F.file \in DOMAIN disk /\ G.file \in DOMAIN disk /\ G.file = Min(F.todo)
  BY Zenon DEF Included, FrameInv
<1>2. Len(Patterns(F.file)) \in Nat /\ DOMAIN Patterns(F.file) = 1..Len(Patterns(F.file))
      /\ \A i \in DOMAIN Patterns(F.file) : Patterns(F.file)[i] \subseteq Nat
  BY <1>1, FileHas
<1>3. F.pattern \in DOMAIN Patterns(F.file) /\ F.pattern > 0 /\ F.pattern \in Nat
  BY <1>1, <1>2
<1>4. F.todo \subseteq Nat
  BY <1>1, <1>2, <1>3
<1>5. G.file \in F.todo /\ \A y \in F.todo : G.file <= y
  BY <1>1, <1>4, MinIs
<1>6. G.file \in Links(F.file)
  BY <1>1, <1>3, <1>5, LinksAre
<1>8. Scope(G) = Below(G.file)
  BY <1>1, ReadIs DEF Included
<1>9. \A y \in F.todo \ {G.file} : G.file < y
  BY <1>4, <1>5
<1> QED BY <1>1, <1>3, <1>5, <1>6, <1>8, <1>9

\* In a tree the two have no file in common, and those of F come first.
LEMMA IncludedApart ==
  ASSUME disk \in Disks, Tree, NEW F, NEW G, Included(F, G), F.file \in Reachable
  PROVE  /\ Scope(F) \cap Below(G.file) = {}
         /\ \A h \in Scope(F), g \in Below(G.file) : Precedes(h, g)
<1> DEFINE x == G.file
           f == F.file
<1>1. /\ F.pattern \in DOMAIN Patterns(f) /\ x \in Patterns(f)[F.pattern] /\ x \in F.todo /\ x \in Links(f)
      /\ \A y \in Patterns(f)[F.pattern] \ F.todo : y < x
  BY IncludedHas
<1>2. f \in Files /\ f \in DOMAIN disk /\ x \in Files /\ Below(x) \subseteq Below(f)
  <2>1. f \in Files /\ f \in DOMAIN disk /\ x \in Files
    BY <1>1, TreeHas, LinksAre
  <2>2. x \in Below(f)
    BY <1>1, <2>1, BelowIs
  <2> QED BY <2>1, <2>2, BelowBelow
<1> SUFFICES ASSUME NEW h \in Scope(F), NEW g \in Below(x)
    PROVE  h # g /\ Precedes(h, g)
  OBVIOUS
<1>3. CASE h = f
  <2>1. h \notin Below(x)
    BY <1>1, <1>3, NoCircle
  <2>2. g \in Below(h)
    BY <1>2, <1>3
  <2> QED BY <2>1, <2>2 DEF Precedes
<1>4. CASE h # f
  <2>1. PICK i, y : DoneAt(F, i, y) /\ h \in Below(y)
    BY <1>4 DEF Scope
  <2>2. i \in DOMAIN Patterns(f) /\ y \in Patterns(f)[i] /\ (i < F.pattern \/ (i = F.pattern /\ y \notin F.todo))
    BY <2>1 DEF DoneAt
  <2>3. i < F.pattern \/ (i = F.pattern /\ y < x)
    BY <1>1, <2>2
  <2>4. Precedes(h, g)
    BY <1>1, <2>1, <2>2, <2>3 DEF Precedes
  <2>5. Parts(f, h, g)
    BY <1>1, <2>1, <2>2, <2>3 DEF Parts
  <2>6. PICK v, w \in Links(f) : v # w /\ h \in Below(v) /\ g \in Below(w)
    BY <2>5, PartsApart
  <2>7. Below(v) \cap Below(w) = {}
    BY <2>6, Apart
  <2> QED BY <2>4, <2>6, <2>7
<1> QED BY <1>3, <1>4

LEMMA ScopeReachable ==
  ASSUME disk \in Disks, NEW F, F.file \in DOMAIN disk, F.file \in Reachable
  PROVE  Scope(F) \subseteq Reachable
<1>1. Main \in Files /\ F.file \in Files
  BY LinksAre
<1>2. ASSUME NEW i, NEW x, DoneAt(F, i, x) PROVE Below(x) \subseteq Reachable
  <2>1. x \in Links(F.file)
    BY <1>2, LinksAre DEF DoneAt
  <2>2. x \in Below(Main)
    BY <1>1, <2>1, BelowIs DEF Reachable
  <2> QED BY <1>1, <2>2, BelowBelow DEF Reachable
<1> QED BY <1>2 DEF Scope

\* In a tree no two files clash.
LEMMA MergeClash ==
  ASSUME disk \in Disks, NEW F, NEW G, Included(F, G), F.file \in Reachable,
         DOMAIN F.cfg.programs \cap DOMAIN G.cfg.programs # {}
  PROVE  ~Tree
<1> SUFFICES ASSUME Tree PROVE FALSE
  OBVIOUS
<1>1. F.file \in DOMAIN disk /\ HasPrograms(F.cfg, Scope(F)) /\ HasPrograms(G.cfg, Scope(G)) /\ Scope(G) = Below(G.file)
  <2>1. F.file \in DOMAIN disk /\ FrameInv(F) /\ FrameInv(G)
    BY Zenon DEF Included
  <2> QED BY <2>1, IncludedHas, Zenon DEF FrameInv
<1>2. PICK name : name \in DOMAIN F.cfg.programs /\ name \in DOMAIN G.cfg.programs
  OBVIOUS
<1>3. PICK h \in Scope(F) : name \in DOMAIN disk[h].programs
  BY <1>1, <1>2 DEF HasPrograms, Maps
<1>4. PICK g \in Scope(G) : name \in DOMAIN disk[g].programs
  BY <1>1, <1>2 DEF HasPrograms, Maps
<1>5. h # g
  BY <1>1, <1>3, <1>4, IncludedApart
<1>6. h \in Reachable /\ g \in Reachable
  <2>1. G.file \in Reachable
    <3>1. G.file \in Links(F.file) /\ Main \in Files
      BY IncludedHas, LinksAre
    <3> QED BY <3>1, BelowIs DEF Reachable
  <2>2. G.file \in DOMAIN disk
    BY Zenon DEF Included
  <2> QED BY <1>1, <1>3, <1>4, <2>1, <2>2, ScopeReachable
<1> QED BY <1>3, <1>4, <1>5, <1>6 DEF Tree

\* Of two functions, each value comes from the first that has one.
LEMMA Override ==
  ASSUME NEW f, NEW g, NEW S, NEW T, Maps(f, S), Maps(g, T)
  PROVE  /\ Maps(f ++ g, S \cup T) /\ DOMAIN (f ++ g) = S \cup T
         /\ \A x \in S : (f ++ g)[x] = f[x]
         /\ \A x \in T \ S : (f ++ g)[x] = g[x]
<1>1. DOMAIN f = S /\ DOMAIN g = T
  BY DEF Maps
<1> QED BY <1>1 DEF ++, Maps

LEMMA Overrides ==
  ASSUME NEW f, NEW g, NEW S, NEW T, Maps(f, S), Maps(g, T), NEW h, h = f ++ g
  PROVE  /\ Maps(h, S \cup T)
         /\ \A x \in S : h[x] = f[x]
         /\ \A x \in T \ S : h[x] = g[x]
BY Override

\* The configurations of two such frames in one.
LEMMA FrameMerge ==
  ASSUME disk \in Disks, NEW F, NEW G, Included(F, G), F.file \in Reachable,
         DOMAIN F.cfg.programs \cap DOMAIN G.cfg.programs = {},
         NEW H, H.file = F.file, H.cfg = Merged(F.cfg, G.cfg), H.pattern = F.pattern, H.todo = F.todo \ {G.file}
  PROVE  FrameInv(H) /\ \A i, x : DoneAt(H, i, x) <=> DoneAt(F, i, x) \/ (i = F.pattern /\ x = G.file)
<1>1. /\ F.pattern \in DOMAIN Patterns(F.file) /\ G.file \in Patterns(F.file)[F.pattern] /\ G.file \in F.todo
      /\ Scope(G) = Below(G.file) /\ F.todo \subseteq Patterns(F.file)[F.pattern] /\ F.pattern \in Nat
      /\ \A y \in F.todo \ {G.file} : G.file < y
  BY IncludedHas
<1>2. /\ F.pattern \in 0..Len(Patterns(F.file))
      /\ F.pattern = 0 => F.todo = {}
      /\ F.pattern > 0 => \A x \in Patterns(F.file)[F.pattern] \ F.todo, y \in F.todo : x < y
      /\ HasPrograms(F.cfg, Scope(F)) /\ HasGroups(F.cfg, Scope(F))
      /\ HasPrograms(G.cfg, Scope(G)) /\ HasGroups(G.cfg, Scope(G))
  BY Zenon DEF Included, FrameInv
<1>3. \A i, x : DoneAt(H, i, x) <=> DoneAt(F, i, x) \/ (i = F.pattern /\ x = G.file)
  BY <1>1 DEF DoneAt
<1>4. Scope(H) = Scope(F) \cup Scope(G)
  <2>1. G.file \in Files
    BY <1>1, IncludedHas, LinksAre
  <2>2. Below(G.file) \subseteq Files
    BY <2>1, BelowIs
  <2> QED BY <1>1, <1>3, <2>2 DEF Scope
<1> DEFINE c == H.cfg
           d == F.cfg
           e == G.cfg
           S == Scope(F)
           T == Scope(G)
<1>5. c.programs = d.programs ++ e.programs /\ c.groups = e.groups ++ d.groups
  BY DEF Merged
<1>6. Tree => \A h \in S, g \in T : Precedes(h, g)
  BY <1>1, IncludedApart
<1>7. /\ HasPrograms(d, S) /\ HasPrograms(e, T) /\ HasGroups(d, S) /\ HasGroups(e, T)
      /\ DOMAIN d.programs \cap DOMAIN e.programs = {}
  BY <1>2
<1> HIDE DEF c, d, e, S, T
<1>8. HasPrograms(c, S \cup T)
  <2> DEFINE P(f) == DOMAIN disk[f].programs
  <2>1. /\ Maps(d.programs, UNION {P(f) : f \in S}) /\ Maps(e.programs, UNION {P(f) : f \in T})
        /\ \A f \in S : \A name \in P(f) : d.programs[name] = Loaded(f).programs[name]
        /\ \A f \in T : \A name \in P(f) : e.programs[name] = Loaded(f).programs[name]
        /\ \A f, g \in S : f # g => P(f) \cap P(g) = {}
        /\ \A f, g \in T : f # g => P(f) \cap P(g) = {}
    BY <1>7, Zenon DEF HasPrograms
  <2> HIDE DEF P
  <2>2. DOMAIN d.programs = UNION {P(f) : f \in S} /\ DOMAIN e.programs = UNION {P(f) : f \in T}
    BY <2>1 DEF Maps
  <2>3. \A f \in S, g \in T : P(f) \cap P(g) = {}
    BY <1>7, <2>2
  <2>4. UNION {P(f) : f \in S \cup T} = (UNION {P(f) : f \in S}) \cup (UNION {P(f) : f \in T})
    <3> DEFINE X == UNION {P(f) : f \in S \cup T}
               Y == UNION {P(f) : f \in S}
               Z == UNION {P(f) : f \in T}
    <3>1. /\ \A n : n \in X <=> \E f \in S \cup T : n \in P(f)
          /\ \A n : n \in Y <=> \E f \in S : n \in P(f)
          /\ \A n : n \in Z <=> \E f \in T : n \in P(f)
      BY Zenon
    <3> HIDE DEF X, Y, Z
    <3>2. X = Y \cup Z
      BY <3>1
    <3> QED BY <3>2 DEF X, Y, Z
  <2>5. Maps(c.programs, UNION {P(f) : f \in S \cup T})
        /\ (\A n \in UNION {P(f) : f \in S} : c.programs[n] = d.programs[n])
        /\ (\A n \in (UNION {P(f) : f \in T}) \ (UNION {P(f) : f \in S}) : c.programs[n] = e.programs[n])
    BY <1>5, <2>1, <2>4, Override
  <2>6. \A f \in S \cup T : \A name \in P(f) : c.programs[name] = Loaded(f).programs[name]
    BY <2>1, <2>3, <2>5
  <2>7. \A f, g \in S \cup T : f # g => P(f) \cap P(g) = {}
    BY <2>1, <2>3
  <2> QED BY <2>5, <2>6, <2>7 DEF HasPrograms, P
<1>9. HasGroups(c, S \cup T)
  <2> DEFINE Q(f) == DOMAIN disk[f].groups
  <2>1. /\ Maps(d.groups, UNION {Q(f) : f \in S}) /\ Maps(e.groups, UNION {Q(f) : f \in T})
        /\ Tree => \A n \in DOMAIN d.groups : \E g : LastWith(g, n, S) /\ d.groups[n] = Loaded(g).groups[n]
        /\ Tree => \A n \in DOMAIN e.groups : \E g : LastWith(g, n, T) /\ e.groups[n] = Loaded(g).groups[n]
    BY <1>7, Zenon DEF HasGroups
  <2> HIDE DEF Q
  <2>2. DOMAIN d.groups = UNION {Q(f) : f \in S} /\ DOMAIN e.groups = UNION {Q(f) : f \in T}
    BY <2>1 DEF Maps
  <2>3. UNION {Q(f) : f \in S \cup T} = (UNION {Q(f) : f \in T}) \cup (UNION {Q(f) : f \in S})
    <3> DEFINE X == UNION {Q(f) : f \in S \cup T}
               Y == UNION {Q(f) : f \in T}
               Z == UNION {Q(f) : f \in S}
    <3>1. /\ \A n : n \in X <=> \E f \in S \cup T : n \in Q(f)
          /\ \A n : n \in Y <=> \E f \in T : n \in Q(f)
          /\ \A n : n \in Z <=> \E f \in S : n \in Q(f)
      BY Zenon
    <3> HIDE DEF X, Y, Z
    <3>2. X = Y \cup Z
      BY <3>1
    <3> QED BY <3>2 DEF X, Y, Z
  <2>4. /\ Maps(c.groups, UNION {Q(f) : f \in S \cup T}) /\ DOMAIN c.groups = DOMAIN e.groups \cup DOMAIN d.groups
        /\ \A n \in DOMAIN e.groups : c.groups[n] = e.groups[n]
        /\ \A n \in DOMAIN d.groups \ DOMAIN e.groups : c.groups[n] = d.groups[n]
    <3> DEFINE V == UNION {Q(f) : f \in T}
               W == UNION {Q(f) : f \in S}
    <3>1. Maps(e.groups, V) /\ Maps(d.groups, W)
      BY <2>1, Zenon
    <3> HIDE DEF V, W
    <3>2. /\ Maps(c.groups, V \cup W)
          /\ \A x \in V : c.groups[x] = e.groups[x]
          /\ \A x \in W \ V : c.groups[x] = d.groups[x]
      BY <1>5, <3>1, Override
    <3>3. DOMAIN c.groups = V \cup W
      BY <3>2 DEF Maps
    <3> QED BY <2>2, <2>3, <3>2, <3>3, Zenon DEF V, W
  <2>5. ASSUME Tree, NEW n \in DOMAIN c.groups
        PROVE  \E g : LastWith(g, n, S \cup T) /\ c.groups[n] = Loaded(g).groups[n]
    <3>1. CASE n \in DOMAIN e.groups
      <4>1. PICK g : LastWith(g, n, T) /\ e.groups[n] = Loaded(g).groups[n]
        BY <2>1, <2>5, <3>1
      <4>2. LastWith(g, n, S \cup T)
        BY <1>6, <2>5, <4>1 DEF LastWith
      <4> QED BY <2>4, <3>1, <4>1, <4>2
    <3>2. CASE n \notin DOMAIN e.groups
      <4>1. n \in DOMAIN d.groups
        BY <2>4, <2>5, <3>2
      <4>2. PICK g : LastWith(g, n, S) /\ d.groups[n] = Loaded(g).groups[n]
        BY <2>1, <2>5, <4>1
      <4>3. \A h \in T : n \notin Q(h)
        BY <2>2, <3>2
      <4>4. LastWith(g, n, S \cup T)
        BY <4>2, <4>3 DEF LastWith, Q
      <4> QED BY <2>4, <3>2, <4>1, <4>2, <4>4
    <3> QED BY <3>1, <3>2
  <2> QED BY <2>4, <2>5 DEF HasGroups, Q
<1>10. \A x \in Patterns(F.file)[F.pattern] \ H.todo, y \in H.todo : x < y
  <2>1. F.pattern > 0
    BY <1>1, FileHas DEF Included
  <2> QED BY <1>1, <1>2, <2>1
<1>11. FrameInv(H)
  <2>1. HasPrograms(H.cfg, Scope(H)) /\ HasGroups(H.cfg, Scope(H))
    BY <1>4, <1>8, <1>9, Zenon DEF c, S, T
  <2>2. /\ H.pattern \in 0..Len(Patterns(H.file))
        /\ H.pattern = 0 => H.todo = {}
        /\ H.todo \subseteq Patterns(H.file)[H.pattern]
        /\ \A x \in Patterns(H.file)[H.pattern] \ H.todo, y \in H.todo : x < y
    BY <1>1, <1>2, <1>10
  <2> QED BY <2>1, <2>2, Zenon DEF FrameInv
<1> QED BY <1>3, <1>11

\* The file x, which pattern i of h matches, has been read or is being read.
Taken(h, i, x) ==
  /\ h \in seen /\ i \in DOMAIN Patterns(h) /\ x \in Patterns(h)[i]
  /\ \A k \in 1..Len(stack) : stack[k].file = h =>
       \/ DoneAt(stack[k], i, x)
       \/ k < Len(stack) /\ i = stack[k].pattern /\ x = stack[k + 1].file

\* While the files are read: the stack is a path from the main file to the one that is
\* read, each frame reads the first file of those it has still to read ...
ReadingInv ==
  /\ disk \in Disks /\ IsStack(stack)
  /\ stack = <<>> => seen = {}
  /\ stack # <<>> => stack[1].file = Main /\ Main \in seen
  /\ \A h \in seen : h \in Reachable /\ Loads(h)
  /\ \A k \in 1..Len(stack) : stack[k].file \in seen /\ FrameInv(stack[k])
  /\ \A k \in 1..Len(stack) - 1 : stack[k].todo # {} /\ stack[k + 1].file = Min(stack[k].todo)
  /\ \A j, k \in 1..Len(stack) : stack[j].file = stack[k].file => j = k

\* ... and every file but the main one has been included once.
TakenInv ==
  /\ \A h, i, x : Taken(h, i, x) => x \in seen /\ x # Main
  /\ \A h, i, g, j, x : Taken(h, i, x) /\ Taken(g, j, x) => g = h /\ i = j
  /\ \A x \in seen : x # Main => \E h, i : Taken(h, i, x)

LEMMA TopIs ==
  ASSUME ReadingInv, stack # <<>>
  PROVE  /\ Len(stack) \in Nat /\ Len(stack) >= 1 /\ Top = stack[Len(stack)]
         /\ Top.file \in seen /\ FrameInv(Top) /\ Top.file \in DOMAIN disk /\ Top.file \in Reachable
<1>1. Len(stack) \in Nat /\ Len(stack) # 0
  BY Stacks DEF ReadingInv
<1>2. Len(stack) >= 1 /\ Len(stack) \in 1..Len(stack)
  BY <1>1
<1>3. Top = stack[Len(stack)]
  BY DEF Top, Last
<1>4. Top.file \in seen /\ FrameInv(Top)
  BY <1>2, <1>3, Zenon DEF ReadingInv
<1>5. Loads(Top.file) /\ Top.file \in Reachable
  BY <1>4, Zenon DEF ReadingInv
<1>6. Top.file \in DOMAIN disk
  BY <1>5, Zenon DEF Loads, Valid
<1> QED BY <1>1, <1>2, <1>3, <1>4, <1>5, <1>6

\* The first file is loaded.
LEMMA OpenMainStep ==
  ASSUME disk \in Disks, disk' = disk, stack = <<>>, seen = {}, Loads(Main),
         seen' = seen \cup {Main}, stack' = Append(stack, Frame(Main, Loaded(Main), 0, {}))
  PROVE  ReadingInv' /\ TakenInv'
<1> DEFINE F == Frame(Main, Loaded(Main), 0, {})
<1>1. Main \in DOMAIN disk /\ Main \in Reachable /\ F.file = Main
  <2>1. Main \in DOMAIN disk
    BY Zenon DEF Loads, Valid
  <2>2. Main \in Reachable
    BY LinksAre, BelowIs DEF Reachable
  <2>3. F.file = Main
    BY DEF Frame
  <2> QED BY <2>1, <2>2, <2>3
<1>2. FrameInv(F) /\ \A i, x : ~DoneAt(F, i, x)
  BY <1>1, FrameNew
<1> HIDE DEF F
<1>3. Len(stack') = 1 /\ stack'[1] = F /\ IsStack(stack') /\ stack' # <<>>
  <2>1. IsStack(stack)
    <3>1. <<>> \in Seq({})
      OBVIOUS
    <3> QED BY <3>1 DEF IsStack
  <2>2. stack' = Append(stack, F)
    BY DEF F
  <2>3. Len(stack) = 0 /\ IsStack(Append(stack, F)) /\ Len(Append(stack, F)) = Len(stack) + 1
        /\ Append(stack, F)[Len(stack) + 1] = F
    BY <2>1, Stacks
  <2>4. IsStack(stack') /\ Len(stack') = 1 /\ stack'[1] = F
    BY <2>2, <2>3
  <2>5. stack' # <<>>
    BY <2>4, Stacks
  <2> QED BY <2>4, <2>5
<1>4. seen' = {Main}
  OBVIOUS
<1>5. ReadingInv'
  <2>1. (\A h \in seen : h \in Reachable /\ Loads(h))'
    BY <1>1, <1>4, SameFiles
  <2>2. \A k \in 1..Len(stack') : stack'[k] = F
    BY <1>3
  <2>3. (\A k \in 1..Len(stack) : stack[k].file \in seen /\ FrameInv(stack[k]))'
    BY <1>1, <1>2, <1>4, <2>2, SameFrame
  <2>4. (\A k \in 1..Len(stack) - 1 : stack[k].todo # {} /\ stack[k + 1].file = Min(stack[k].todo))'
    BY <1>3
  <2>5. (\A j, k \in 1..Len(stack) : stack[j].file = stack[k].file => j = k)'
    BY <1>3
  <2> QED BY <1>1, <1>3, <1>4, <2>1, <2>3, <2>4, <2>5 DEF ReadingInv
<1>6. ASSUME NEW h, NEW i, NEW x PROVE ~Taken(h, i, x)'
  BY <1>1, <1>2, <1>3, <1>4, SameFrame DEF Taken
<1>7. TakenInv'
  BY <1>4, <1>6 DEF TakenInv
<1> QED BY <1>5, <1>7

\* What the last frame is replaced by.
LEMMA Replaced ==
  ASSUME NEW s, IsStack(s), s # <<>>, NEW x
  PROVE  LET t == Append(Front(s), x) IN
         /\ IsStack(t) /\ Len(t) = Len(s) /\ t[Len(s)] = x /\ t # <<>>
         /\ \A k \in 1..Len(s) - 1 : t[k] = s[k]
<1> DEFINE t == Append(Front(s), x)
<1>1. Len(s) \in Nat /\ Len(s) # 0 /\ IsStack(Front(s)) /\ Len(Front(s)) = Len(s) - 1
      /\ \A k \in 1..Len(s) - 1 : Front(s)[k] = s[k]
  BY Stacks
<1>2. IsStack(t) /\ Len(t) = Len(Front(s)) + 1 /\ t[Len(Front(s)) + 1] = x
      /\ \A k \in 1..Len(Front(s)) : t[k] = Front(s)[k]
  BY <1>1, Stacks
<1> HIDE DEF t
<1>3. IsStack(t) /\ Len(t) = Len(s) /\ t[Len(s)] = x /\ \A k \in 1..Len(s) - 1 : t[k] = s[k]
  BY <1>1, <1>2
<1>4. t # <<>>
  BY <1>1, <1>3, Stacks
<1> QED BY <1>3, <1>4 DEF t

\* The next pattern of the file that is read.
LEMMA PatternStep ==
  ASSUME ReadingInv, TakenInv, disk' = disk, stack # <<>>, seen' = seen, Top.todo = {},
         Top.pattern < Len(Patterns(Top.file)),
         stack' = Append(Front(stack), Frame(Top.file, Top.cfg, Top.pattern + 1, Patterns(Top.file)[Top.pattern + 1]))
  PROVE  ReadingInv' /\ TakenInv'
<1> DEFINE G == Frame(Top.file, Top.cfg, Top.pattern + 1, Patterns(Top.file)[Top.pattern + 1])
           n == Len(stack)
<1>1. n \in Nat /\ n >= 1 /\ Top = stack[n] /\ Top.file \in seen /\ FrameInv(Top) /\ Top.file \in DOMAIN disk
  BY TopIs
<1>2. G.file = Top.file /\ G.cfg = Top.cfg /\ G.pattern = Top.pattern + 1 /\ G.todo = Patterns(Top.file)[Top.pattern + 1]
  BY DEF Frame
<1> HIDE DEF G
<1>3. FrameInv(G) /\ \A i, x : DoneAt(G, i, x) <=> DoneAt(Top, i, x)
  BY <1>1, <1>2, FramePattern DEF ReadingInv
<1>4. /\ IsStack(stack') /\ Len(stack') = n /\ stack'[n] = G /\ stack' # <<>>
      /\ \A k \in 1..n - 1 : stack'[k] = stack[k]
  <2>1. stack' = Append(Front(stack), G)
    BY DEF G
  <2>2. IsStack(stack)
    BY DEF ReadingInv
  <2> QED BY <2>1, <2>2, Replaced
<1> HIDE DEF n
<1>5. \A k \in 1..n : stack'[k].file = stack[k].file /\ (k = n \/ stack'[k] = stack[k])
  BY <1>1, <1>2, <1>4
<1>6. \A k \in 1..n : \A i, x : DoneAt(stack'[k], i, x) <=> DoneAt(stack[k], i, x)
  BY <1>1, <1>3, <1>4, <1>5
<1>7. ReadingInv'
  <2>0. /\ disk \in Disks /\ IsStack(stack) /\ stack[1].file = Main /\ Main \in seen
        /\ \A h \in seen : h \in Reachable /\ Loads(h)
        /\ \A k \in 1..n : stack[k].file \in seen /\ FrameInv(stack[k])
        /\ \A k \in 1..n - 1 : stack[k].todo # {} /\ stack[k + 1].file = Min(stack[k].todo)
        /\ \A j, k \in 1..n : stack[j].file = stack[k].file => j = k
    BY Zenon DEF ReadingInv, n
  <2>1. (\A h \in seen : h \in Reachable /\ Loads(h))'
    BY <2>0, SameFiles
  <2>2. (\A k \in 1..Len(stack) : stack[k].file \in seen /\ FrameInv(stack[k]))'
    <3>1. \A k \in 1..n : stack'[k].file \in seen /\ FrameInv(stack'[k])
      <4> SUFFICES ASSUME NEW k \in 1..n PROVE stack'[k].file \in seen /\ FrameInv(stack'[k])
        OBVIOUS
      <4>1. CASE k = n
        BY <1>1, <1>2, <1>3, <1>4, <4>1, Zenon
      <4>2. CASE k # n
        BY <1>5, <2>0, <4>2, Zenon
      <4> QED BY <4>1, <4>2
    <3>2. \A F : FrameInv(F)' <=> FrameInv(F)
      BY SameFrame
    <3>3. Len(stack') = n /\ seen' = seen
      BY <1>4
    <3> QED BY <3>1, <3>2, <3>3
  <2>3. (\A k \in 1..Len(stack) - 1 : stack[k].todo # {} /\ stack[k + 1].file = Min(stack[k].todo))'
    <3>1. \A k \in 1..n - 1 : stack'[k] = stack[k] /\ stack'[k + 1].file = stack[k + 1].file
      BY <1>1, <1>4, <1>5
    <3> QED BY <1>4, <2>0, <3>1
  <2>4. stack'[1].file = Main
    BY <1>1, <1>5, <2>0
  <2>5. (\A j, k \in 1..Len(stack) : stack[j].file = stack[k].file => j = k)'
    BY <1>4, <1>5, <2>0
  <2> QED BY <1>4, <2>0, <2>1, <2>2, <2>3, <2>4, <2>5 DEF ReadingInv
<1>8. ASSUME NEW h, NEW i, NEW x PROVE Taken(h, i, x)' <=> Taken(h, i, x)
  <2>1. \A k \in 1..n : k < n => stack'[k].pattern = stack[k].pattern /\ stack'[k + 1].file = stack[k + 1].file
    BY <1>1, <1>4, <1>5, SMTT(30)
  <2>2. Patterns(h)' = Patterns(h)
    BY SameFiles
  <2>3. \A F : DoneAt(F, i, x)' <=> DoneAt(F, i, x)
    BY SameFrame
  <2>4. Taken(h, i, x) <=>
          /\ h \in seen /\ i \in DOMAIN Patterns(h) /\ x \in Patterns(h)[i]
          /\ \A k \in 1..n : stack[k].file = h =>
               DoneAt(stack[k], i, x) \/ (k < n /\ i = stack[k].pattern /\ x = stack[k + 1].file)
    BY Zenon DEF Taken, n
  <2>5. Taken(h, i, x)' <=>
          /\ h \in seen /\ i \in DOMAIN Patterns(h) /\ x \in Patterns(h)[i]
          /\ \A k \in 1..n : stack'[k].file = h =>
               DoneAt(stack'[k], i, x) \/ (k < n /\ i = stack'[k].pattern /\ x = stack'[k + 1].file)
    BY <1>4, <2>2, <2>3 DEF Taken
  <2> QED BY <1>5, <1>6, <2>1, <2>4, <2>5, ZenonT(60)
<1>9. TakenInv'
  BY <1>8 DEF TakenInv
<1> QED BY <1>7, <1>9

\* The file that a frame reads next.
LEMMA NextHas ==
  ASSUME disk \in Disks, NEW F, F.file \in DOMAIN disk, FrameInv(F), F.todo # {}
  PROVE  LET x == Min(F.todo) IN
         /\ x \in F.todo /\ F.pattern \in DOMAIN Patterns(F.file) /\ x \in Patterns(F.file)[F.pattern]
         /\ ~DoneAt(F, F.pattern, x) /\ x \in Links(F.file)
<1>1. /\ F.pattern \in 0..Len(Patterns(F.file))
      /\ F.pattern = 0 => F.todo = {}
      /\ F.pattern > 0 => F.todo \subseteq Patterns(F.file)[F.pattern]
  BY Zenon DEF FrameInv
<1>2. Len(Patterns(F.file)) \in Nat /\ DOMAIN Patterns(F.file) = 1..Len(Patterns(F.file))
      /\ \A i \in DOMAIN Patterns(F.file) : Patterns(F.file)[i] \subseteq Nat
  BY FileHas
<1>3. F.pattern \in DOMAIN Patterns(F.file) /\ F.pattern > 0 /\ F.pattern \in Nat
  BY <1>1, <1>2
<1>4. F.todo \subseteq Nat
  BY <1>1, <1>2, <1>3
<1>5. Min(F.todo) \in F.todo
  BY <1>4, MinIs
<1>6. ~DoneAt(F, F.pattern, Min(F.todo))
  BY <1>3, <1>5 DEF DoneAt
<1> QED BY <1>1, <1>3, <1>5, <1>6, LinksAre

\* A file that is included is loaded.
LEMMA IncludeStep ==
  ASSUME ReadingInv, TakenInv, disk' = disk, stack # <<>>, Top.todo # {},
         NEW x, x = Min(Top.todo), x \notin seen, Loads(x), seen' = seen \cup {x},
         stack' = Append(stack, Frame(x, Loaded(x), 0, {}))
  PROVE  ReadingInv' /\ TakenInv'
<1> DEFINE G == Frame(x, Loaded(x), 0, {})
           n == Len(stack)
<1>1. n \in Nat /\ n >= 1 /\ Top = stack[n] /\ Top.file \in seen /\ FrameInv(Top) /\ Top.file \in DOMAIN disk
      /\ Top.file \in Reachable
  BY TopIs
<1>2. /\ x \in Top.todo /\ Top.pattern \in DOMAIN Patterns(Top.file) /\ x \in Patterns(Top.file)[Top.pattern]
      /\ ~DoneAt(Top, Top.pattern, x) /\ x \in Links(Top.file)
  BY <1>1, NextHas DEF ReadingInv
<1>3. x \in DOMAIN disk /\ x \in Reachable /\ x # Main
  <2>1. x \in DOMAIN disk
    BY Zenon DEF Loads, Valid
  <2>2. x \in Reachable
    BY <1>1, <1>2, LinksAre, BelowIs DEF Reachable, ReadingInv
  <2>3. x # Main
    BY DEF ReadingInv
  <2> QED BY <2>1, <2>2, <2>3
<1>4. FrameInv(G) /\ G.file = x /\ \A i, y : ~DoneAt(G, i, y)
  <2>1. FrameInv(G) /\ \A i, y : ~DoneAt(G, i, y)
    BY <1>3, FrameNew DEF ReadingInv
  <2>2. G.file = x
    BY DEF Frame
  <2> QED BY <2>1, <2>2
<1> HIDE DEF G
<1>5. /\ IsStack(stack') /\ Len(stack') = n + 1 /\ stack'[n + 1] = G /\ stack' # <<>>
      /\ \A k \in 1..n : stack'[k] = stack[k]
  <2>1. stack' = Append(stack, G)
    BY DEF G
  <2>2. IsStack(stack)
    BY DEF ReadingInv
  <2>3. IsStack(stack') /\ Len(stack') = n + 1 /\ stack'[n + 1] = G /\ \A k \in 1..n : stack'[k] = stack[k]
    BY <2>1, <2>2, Stacks
  <2>4. stack' # <<>>
    BY <1>1, <2>3, Stacks
  <2> QED BY <2>3, <2>4
<1>0. /\ disk \in Disks /\ stack[1].file = Main /\ Main \in seen
      /\ \A h \in seen : h \in Reachable /\ Loads(h)
      /\ \A k \in 1..n : stack[k].file \in seen /\ FrameInv(stack[k])
      /\ \A k \in 1..n - 1 : stack[k].todo # {} /\ stack[k + 1].file = Min(stack[k].todo)
      /\ \A j, k \in 1..n : stack[j].file = stack[k].file => j = k
  BY Zenon DEF ReadingInv, n
<1> HIDE DEF n
<1>6. 1..n + 1 = (1..n) \cup {n + 1} /\ n + 1 \notin 1..n /\ 1 \in 1..n /\ n \in 1..n
      /\ (n + 1) - 1 = n /\ 1..n = (1..n - 1) \cup {n} /\ \A k \in 1..n - 1 : k \in 1..n /\ k + 1 \in 1..n
  BY <1>1
<1>7. ReadingInv'
  <2>1. (\A h \in seen : h \in Reachable /\ Loads(h))'
    BY <1>0, <1>3, SameFiles
  <2>2. (\A k \in 1..Len(stack) : stack[k].file \in seen /\ FrameInv(stack[k]))'
    BY <1>0, <1>4, <1>5, <1>6, SameFrame
  <2>3. (\A k \in 1..Len(stack) - 1 : stack[k].todo # {} /\ stack[k + 1].file = Min(stack[k].todo))'
    <3>1. stack'[n].todo # {} /\ stack'[n + 1].file = Min(stack'[n].todo)
      BY <1>1, <1>4, <1>5, <1>6
    <3>2. ASSUME NEW k \in 1..n - 1
          PROVE  stack'[k].todo # {} /\ stack'[k + 1].file = Min(stack'[k].todo)
      <4>1. stack'[k] = stack[k] /\ stack'[k + 1] = stack[k + 1]
        BY <1>5, <1>6
      <4>2. stack[k].todo # {} /\ stack[k + 1].file = Min(stack[k].todo)
        BY <1>0, Zenon
      <4> QED BY <4>1, <4>2, Zenon
    <3>3. 1..Len(stack') - 1 = (1..n - 1) \cup {n}
      BY <1>5, <1>6
    <3>4. ASSUME NEW k \in 1..Len(stack') - 1
          PROVE  stack'[k].todo # {} /\ stack'[k + 1].file = Min(stack'[k].todo)
      <4>1. CASE k \in 1..n - 1
        BY <3>2, <4>1, Zenon
      <4>2. CASE k = n
        BY <3>1, <4>2, Zenon
      <4> QED BY <3>3, <4>1, <4>2, Zenon
    <3> QED BY <3>4, Zenon
  <2>4. (\A j, k \in 1..Len(stack) : stack[j].file = stack[k].file => j = k)'
    <3>1. \A k \in 1..n : stack'[k].file = stack[k].file /\ stack[k].file # x
      BY <1>0, <1>5
    <3> QED BY <1>0, <1>4, <1>5, <1>6, <3>1
  <2>5. stack'[1].file = Main /\ Main \in seen' /\ disk' \in Disks
    BY <1>0, <1>5, <1>6
  <2> QED BY <1>5, <2>1, <2>2, <2>3, <2>4, <2>5 DEF ReadingInv
<1>8. ASSUME NEW h, NEW i, NEW y
      PROVE  Taken(h, i, y)' <=> Taken(h, i, y) \/ (h = Top.file /\ i = Top.pattern /\ y = x)
  <2>2. Patterns(h)' = Patterns(h)
    BY SameFiles
  <2>3. \A F : DoneAt(F, i, y)' <=> DoneAt(F, i, y)
    BY SameFrame
  <2> DEFINE Before(k) == stack[k].file = h =>
                            DoneAt(stack[k], i, y) \/ (k < n /\ i = stack[k].pattern /\ y = stack[k + 1].file)
             After(k) == stack'[k].file = h =>
                            DoneAt(stack'[k], i, y) \/ (k < n + 1 /\ i = stack'[k].pattern /\ y = stack'[k + 1].file)
             Links1 == i \in DOMAIN Patterns(h) /\ y \in Patterns(h)[i]
  <2>4. Taken(h, i, y) <=> h \in seen /\ Links1 /\ \A k \in 1..n : Before(k)
    BY Zenon DEF Taken, n
  <2>5. Taken(h, i, y)' <=> h \in seen' /\ Links1 /\ \A k \in 1..n + 1 : After(k)
    BY <1>5, <2>2, <2>3 DEF Taken
  <2>6. After(n + 1) <=> h # x
    BY <1>1, <1>4, <1>5
  <2>7. \A k \in 1..n - 1 : After(k) <=> Before(k)
    BY <1>1, <1>5, <1>6
  <2>8. Before(n) <=> (h = Top.file => DoneAt(Top, i, y))
    BY <1>1
  <2>9. After(n) <=> (h = Top.file => DoneAt(Top, i, y) \/ (i = Top.pattern /\ y = x))
    BY <1>1, <1>4, <1>5, <1>6
  <2>10. h = Top.file => \A k \in 1..n - 1 : Before(k)
    BY <1>0, <1>1, <1>6
  <2>11. Top.file # x /\ Top.file \in seen
    BY <1>1
  <2>12. h = Top.file /\ i = Top.pattern /\ y = x => Links1
    BY <1>2
  <2> HIDE DEF Before, After, Links1
  <2>13. (\A k \in 1..n : Before(k)) <=> Before(n) /\ \A k \in 1..n - 1 : Before(k)
    BY <1>6
  <2>14. (\A k \in 1..n + 1 : After(k)) <=> After(n + 1) /\ After(n) /\ \A k \in 1..n - 1 : After(k)
    BY <1>6
  <2>15. h \in seen' <=> h \in seen \/ h = x
    OBVIOUS
  <2> QED BY <2>4, <2>5, <2>6, <2>7, <2>8, <2>9, <2>10, <2>11, <2>12, <2>13, <2>14, <2>15
<1>9. TakenInv'
  <2>1. /\ \A h, i, y : Taken(h, i, y) => y \in seen /\ y # Main
        /\ \A h, i, g, j, y : Taken(h, i, y) /\ Taken(g, j, y) => g = h /\ i = j
        /\ \A y \in seen : y # Main => \E h, i : Taken(h, i, y)
    BY Zenon DEF TakenInv
  <2>2. (\A h, i, y : Taken(h, i, y) => y \in seen /\ y # Main)'
    BY <1>3, <1>8, <2>1
  <2>3. (\A h, i, g, j, y : Taken(h, i, y) /\ Taken(g, j, y) => g = h /\ i = j)'
    BY <1>8, <2>1
  <2>4. (\A y \in seen : y # Main => \E h, i : Taken(h, i, y))'
    BY <1>8, <2>1
  <2> QED BY <2>2, <2>3, <2>4 DEF TakenInv
<1> QED BY <1>7, <1>9

\* The two last frames.
LEMMA LastTwo ==
  ASSUME ReadingInv, Len(stack) > 1, IsRead(Top)
  PROVE  LET m == Len(stack) - 1 IN
         /\ m \in Nat /\ m >= 1 /\ Len(stack) = m + 1 /\ stack # <<>> /\ Top = stack[m + 1]
         /\ Included(stack[m], Top) /\ stack[m].file \in Reachable
         /\ stack[m].file \in seen /\ Top.file \in seen
<1> DEFINE m == Len(stack) - 1
<1>1. Len(stack) \in Nat /\ stack # <<>>
  BY Stacks DEF ReadingInv
<1>2. m \in Nat /\ m >= 1 /\ Len(stack) = m + 1 /\ m \in 1..Len(stack) /\ m \in 1..Len(stack) - 1
  BY <1>1
<1> HIDE DEF m
<1>3. Top = stack[m + 1] /\ Top.file \in seen /\ FrameInv(Top) /\ Top.file \in DOMAIN disk
  BY <1>1, <1>2, TopIs
<1>4. stack[m].file \in seen /\ FrameInv(stack[m])
  BY <1>2, Zenon DEF ReadingInv
<1>5. stack[m].todo # {} /\ stack[m + 1].file = Min(stack[m].todo)
  BY <1>2, <1>1, Zenon DEF ReadingInv, m
<1>6. Loads(stack[m].file) /\ stack[m].file \in Reachable
  BY <1>4, Zenon DEF ReadingInv
<1>7. stack[m].file \in DOMAIN disk
  BY <1>6, Zenon DEF Loads, Valid
<1>8. Included(stack[m], Top)
  BY <1>3, <1>4, <1>5, <1>7, Zenon DEF Included
<1> QED BY <1>1, <1>2, <1>3, <1>4, <1>6, <1>8, Zenon DEF m

\* An included file is read, and its configuration goes into that of the file before it.
LEMMA MergeStep ==
  ASSUME ReadingInv, TakenInv, disk' = disk, seen' = seen, Len(stack) > 1, IsRead(Top),
         NEW F, F = stack[Len(stack) - 1], DOMAIN F.cfg.programs \cap DOMAIN Top.cfg.programs = {},
         stack' = Append(Front(Front(stack)),
                         Frame(F.file, Merged(F.cfg, Top.cfg), F.pattern, F.todo \ {Top.file}))
  PROVE  ReadingInv' /\ TakenInv'
<1> DEFINE H == Frame(F.file, Merged(F.cfg, Top.cfg), F.pattern, F.todo \ {Top.file})
           m == Len(stack) - 1
           G == Top
<1>1. /\ m \in Nat /\ m >= 1 /\ Len(stack) = m + 1 /\ stack # <<>> /\ G = stack[m + 1] /\ F = stack[m]
      /\ Included(F, G) /\ F.file \in Reachable /\ F.file \in seen /\ G.file \in seen
  BY LastTwo
<1>2. H.file = F.file /\ H.cfg = Merged(F.cfg, G.cfg) /\ H.pattern = F.pattern /\ H.todo = F.todo \ {G.file}
  BY DEF Frame
<1>a. stack' = Append(Front(Front(stack)), H) /\ DOMAIN F.cfg.programs \cap DOMAIN G.cfg.programs = {}
  OBVIOUS
<1> HIDE DEF H, G, m
<1>0. /\ disk \in Disks /\ IsStack(stack) /\ stack[1].file = Main /\ Main \in seen
      /\ \A h \in seen : h \in Reachable /\ Loads(h)
      /\ \A k \in 1..m + 1 : stack[k].file \in seen /\ FrameInv(stack[k])
      /\ \A k \in 1..Len(stack) - 1 : stack[k].todo # {} /\ stack[k + 1].file = Min(stack[k].todo)
      /\ \A j, k \in 1..m + 1 : stack[j].file = stack[k].file => j = k
  BY <1>1, Zenon DEF ReadingInv
<1>b. \A k \in 1..m : stack[k].todo # {} /\ stack[k + 1].file = Min(stack[k].todo)
  BY <1>0, Zenon DEF m
<1>3. FrameInv(H) /\ \A i, x : DoneAt(H, i, x) <=> DoneAt(F, i, x) \/ (i = F.pattern /\ x = G.file)
  <2>1. disk \in Disks /\ Included(F, G) /\ F.file \in Reachable
    BY <1>0, <1>1, Zenon
  <2> QED BY <2>1, <1>2, <1>a, FrameMerge
<1>4. \A i, x : DoneAt(G, i, x) <=> i \in DOMAIN Patterns(G.file) /\ x \in Patterns(G.file)[i]
  <2>1. FrameInv(G) /\ G.file \in DOMAIN disk /\ IsRead(G)
    BY <1>1, Zenon DEF Included
  <2> QED BY <1>0, <2>1, ReadIs
<1>5. /\ IsStack(stack') /\ Len(stack') = m /\ stack'[m] = H /\ stack' # <<>>
      /\ \A k \in 1..m - 1 : stack'[k] = stack[k]
  <2> DEFINE s == Front(stack)
  <2>1. IsStack(s) /\ Len(s) = m /\ \A k \in 1..m : s[k] = stack[k]
    <3>1. IsStack(stack) /\ stack # <<>>
      BY <1>0, <1>1, Zenon
    <3>2. IsStack(Front(stack)) /\ Len(Front(stack)) = Len(stack) - 1
          /\ \A k \in 1..Len(stack) - 1 : Front(stack)[k] = stack[k]
      BY <3>1, Stacks
    <3>3. Len(stack) - 1 = m
      BY DEF m
    <3> QED BY <3>2, <3>3
  <2> HIDE DEF s
  <2>2. s # <<>>
    BY <1>1, <2>1, Stacks
  <2>3. stack' = Append(Front(s), H)
    BY <1>a DEF s
  <2>4. IsStack(stack') /\ Len(stack') = m /\ stack'[m] = H /\ stack' # <<>> /\ \A k \in 1..m - 1 : stack'[k] = s[k]
    <3>1. /\ IsStack(stack') /\ Len(stack') = Len(s) /\ stack'[Len(s)] = H /\ stack' # <<>>
          /\ \A k \in 1..Len(s) - 1 : stack'[k] = s[k]
      <4>1. IsStack(s)
        BY <2>1
      <4>2. LET t == Append(Front(s), H) IN
            /\ IsStack(t) /\ Len(t) = Len(s) /\ t[Len(s)] = H /\ t # <<>>
            /\ \A k \in 1..Len(s) - 1 : t[k] = s[k]
        BY <4>1, <2>2, Replaced, ZenonT(60)
      <4> QED BY <4>2, <2>3, Zenon
    <3> QED BY <2>1, <3>1, Zenon
  <2>5. \A k \in 1..m - 1 : s[k] = stack[k]
    BY <1>1, <2>1
  <2> QED BY <2>4, <2>5
<1>6. 1..m + 1 = (1..m) \cup {m + 1} /\ 1 \in 1..m /\ m \in 1..m /\ m < m + 1 /\ ~(m < m)
      /\ (m + 1) - 1 = m /\ 1..m = (1..m - 1) \cup {m}
      /\ \A k \in 1..m - 1 : k \in 1..m /\ k + 1 \in 1..m /\ k < m /\ k < m + 1
  BY <1>1
<1>7. \A k \in 1..m : stack'[k].file = stack[k].file
  BY <1>1, <1>2, <1>5, <1>6
<1>8. ReadingInv'
  <2>1. (\A h \in seen : h \in Reachable /\ Loads(h))'
    BY <1>0, SameFiles
  <2>2. (\A k \in 1..Len(stack) : stack[k].file \in seen /\ FrameInv(stack[k]))'
    BY <1>0, <1>1, <1>2, <1>3, <1>5, <1>6, SameFrame
  <2>3. (\A k \in 1..Len(stack) - 1 : stack[k].todo # {} /\ stack[k + 1].file = Min(stack[k].todo))'
    <3>1. ASSUME NEW k \in 1..m - 1
          PROVE  stack'[k].todo # {} /\ stack'[k + 1].file = Min(stack'[k].todo)
      <4>1. stack'[k] = stack[k] /\ stack'[k + 1].file = stack[k + 1].file
        <5>1. k \in 1..m /\ k + 1 \in 1..m
          BY <1>6
        <5> QED BY <1>5, <1>7, <5>1, Zenon
      <4>2. stack[k].todo # {} /\ stack[k + 1].file = Min(stack[k].todo)
        BY <1>b, <1>6, Zenon
      <4> QED BY <4>1, <4>2, Zenon
    <3> QED BY <1>5, <3>1
  <2>4. (\A j, k \in 1..Len(stack) : stack[j].file = stack[k].file => j = k)'
    <3>1. ASSUME NEW j \in 1..m, NEW k \in 1..m, stack'[j].file = stack'[k].file
          PROVE  j = k
      <4>1. stack[j].file = stack[k].file
        BY <1>7, <3>1
      <4>2. j \in 1..m + 1 /\ k \in 1..m + 1
        BY <1>6
      <4> QED BY <1>0, <4>1, <4>2, Zenon
    <3>2. \A j, k \in 1..m : stack'[j].file = stack'[k].file => j = k
      BY <3>1
    <3>3. Len(stack') = m
      BY <1>5
    <3>4. 1..Len(stack') = 1..m
      BY <3>3
    <3>5. ASSUME NEW j \in 1..Len(stack'), NEW k \in 1..Len(stack'), stack'[j].file = stack'[k].file
          PROVE  j = k
      <4>1. j \in 1..m /\ k \in 1..m
        BY <3>4, Zenon
      <4> QED BY <3>2, <3>5, <4>1, Zenon
    <3> QED BY <3>5, Zenon
  <2>5. stack'[1].file = Main /\ Main \in seen' /\ disk' \in Disks
    BY <1>0, <1>6, <1>7
  <2> QED BY <1>5, <2>1, <2>2, <2>3, <2>4, <2>5 DEF ReadingInv
<1>9. ASSUME NEW h, NEW i, NEW y PROVE Taken(h, i, y)' <=> Taken(h, i, y)
  <2>2. Patterns(h)' = Patterns(h)
    BY SameFiles
  <2>3. \A f : DoneAt(f, i, y)' <=> DoneAt(f, i, y)
    BY SameFrame
  <2> DEFINE Before(k) == stack[k].file = h =>
                            DoneAt(stack[k], i, y) \/ (k < m + 1 /\ i = stack[k].pattern /\ y = stack[k + 1].file)
             After(k) == stack'[k].file = h =>
                            DoneAt(stack'[k], i, y) \/ (k < m /\ i = stack'[k].pattern /\ y = stack'[k + 1].file)
             Links1 == i \in DOMAIN Patterns(h) /\ y \in Patterns(h)[i]
  <2>4. Taken(h, i, y) <=> h \in seen /\ Links1 /\ \A k \in 1..m + 1 : Before(k)
    BY <1>1, Zenon DEF Taken
  <2>5. Taken(h, i, y)' <=> h \in seen /\ Links1 /\ \A k \in 1..m : After(k)
    BY <1>5, <2>2, <2>3, ZenonT(60) DEF Taken
  <2>6. Links1 => Before(m + 1)
    BY <1>1, <1>4
  <2>7. ASSUME NEW k \in 1..m - 1 PROVE After(k) <=> Before(k)
    <3>1. stack'[k] = stack[k] /\ stack'[k + 1].file = stack[k + 1].file /\ k < m /\ k < m + 1
      <4>1. k \in 1..m /\ k + 1 \in 1..m /\ k < m /\ k < m + 1
        BY <1>6
      <4> QED BY <1>5, <1>7, <4>1, Zenon
    <3> QED BY <3>1, Zenon
  <2>8. Before(m) <=> (h = F.file => DoneAt(F, i, y) \/ (i = F.pattern /\ y = G.file))
    BY <1>1, <1>6
  <2>9. After(m) <=> (h = F.file => DoneAt(H, i, y))
    BY <1>2, <1>5, <1>6
  <2>10. After(m) <=> Before(m)
    BY <1>3, <2>8, <2>9
  <2> HIDE DEF Before, After, Links1
  <2>13. (\A k \in 1..m + 1 : Before(k)) <=> Before(m + 1) /\ Before(m) /\ \A k \in 1..m - 1 : Before(k)
    BY <1>6
  <2>14. (\A k \in 1..m : After(k)) <=> After(m) /\ \A k \in 1..m - 1 : After(k)
    BY <1>6
  <2> QED BY <2>4, <2>5, <2>6, <2>7, <2>10, <2>13, <2>14
<1>10. TakenInv'
  <2>1. /\ \A h, i, y : Taken(h, i, y) => y \in seen /\ y # Main
        /\ \A h, i, g, j, y : Taken(h, i, y) /\ Taken(g, j, y) => g = h /\ i = j
        /\ \A y \in seen : y # Main => \E h, i : Taken(h, i, y)
    BY Zenon DEF TakenInv
  <2> QED BY <1>9, <2>1 DEF TakenInv
<1> QED BY <1>8, <1>10

\* A file that cannot be included makes the configuration bad.
LEMMA IncludeRejected ==
  ASSUME ReadingInv, TakenInv, stack # <<>>, Top.todo # {},
         NEW x, x = Min(Top.todo), x \in seen \/ ~Loads(x)
  PROVE  ~Tree
<1> SUFFICES ASSUME Tree PROVE FALSE
  OBVIOUS
<1> DEFINE n == Len(stack)
           f == Top.file
           j == Top.pattern
<1>1. n \in Nat /\ n >= 1 /\ Top = stack[n] /\ Top.file \in seen /\ FrameInv(Top) /\ Top.file \in DOMAIN disk
      /\ Top.file \in Reachable
  BY TopIs
<1>2. /\ Top.pattern \in DOMAIN Patterns(f) /\ x \in Patterns(f)[j]
      /\ ~DoneAt(Top, j, x) /\ x \in Links(f)
  BY <1>1, NextHas DEF ReadingInv
<1>3. x \in Reachable /\ Loads(x) /\ x # Main /\ x \in seen
  <2>1. x \in Reachable /\ x # Main
    BY <1>1, <1>2, TreeHas DEF ReadingInv
  <2>2. Loads(x)
    BY <2>1, Zenon DEF Tree
  <2> QED BY <2>1, <2>2
<1>4. PICK h, i : Taken(h, i, x)
  BY <1>3, Zenon DEF TakenInv
<1>5. h \in seen /\ i \in DOMAIN Patterns(h) /\ x \in Patterns(h)[i]
  BY <1>4, Zenon DEF Taken
<1>6. h \in Reachable
  BY <1>5, Zenon DEF ReadingInv
<1>7. h = f /\ i = j
  <2>1. Patterns(h)[i] \cap Patterns(f)[j] # {}
    BY <1>2, <1>5
  <2>2. \A a, b \in Reachable : \A k \in DOMAIN Patterns(a), l \in DOMAIN Patterns(b) :
          Patterns(a)[k] \cap Patterns(b)[l] # {} => a = b /\ k = l
    BY Zenon DEF Tree
  <2> QED BY <1>1, <1>2, <1>5, <1>6, <2>1, <2>2
<1>8. stack[n].file = h => DoneAt(stack[n], i, x) \/ (n < n /\ i = stack[n].pattern /\ x = stack[n + 1].file)
  <2>1. n \in 1..Len(stack)
    BY <1>1
  <2> QED BY <1>4, <2>1, Zenon DEF Taken
<1> QED BY <1>1, <1>2, <1>7, <1>8

\* When the main file has been read, so has every file that can be reached, once, and its
\* configuration is what the files say.
LEMMA AllRead ==
  ASSUME ReadingInv, TakenInv, Len(stack) = 1, IsRead(Top)
  PROVE  /\ Tree /\ cfg.programs = ProgramsWritten /\ cfg.groups = GroupsWritten
         /\ \A g \in DOMAIN cfg.groups : cfg.groups[g].priority \in Priorities
<1> DEFINE F == Top
<1>0. disk \in Disks
  BY DEF ReadingInv
<1>1. stack # <<>>
  <2>1. IsStack(stack)
    BY DEF ReadingInv
  <2> QED BY <2>1, Stacks
<1>2. F = stack[1] /\ F.file = Main /\ FrameInv(F) /\ Main \in DOMAIN disk /\ Main \in seen
  <2>1. F = stack[1] /\ FrameInv(F) /\ F.file \in DOMAIN disk
    BY <1>1, TopIs
  <2>2. stack[1].file = Main /\ Main \in seen
    BY <1>1, Zenon DEF ReadingInv
  <2> QED BY <2>1, <2>2
<1>3. /\ \A i, x : DoneAt(F, i, x) <=> i \in DOMAIN Patterns(Main) /\ x \in Patterns(Main)[i]
      /\ Scope(F) = Reachable
  BY <1>0, <1>2, ReadIs DEF Reachable
<1> HIDE DEF F
<1>4. ASSUME NEW h \in seen, NEW i \in DOMAIN Patterns(h), NEW x \in Patterns(h)[i]
      PROVE  Taken(h, i, x)
  <2>1. \A k \in 1..Len(stack) : k = 1
    OBVIOUS
  <2>2. stack[1].file = h => DoneAt(stack[1], i, x)
    BY <1>2, <1>3
  <2> QED BY <2>1, <2>2, Zenon DEF Taken
<1>5. \A h \in seen : h \in Reachable /\ Loads(h) /\ h \in DOMAIN disk
  <2>1. \A h \in seen : h \in Reachable /\ Loads(h)
    BY Zenon DEF ReadingInv
  <2>2. \A h \in seen : h \in DOMAIN disk
    BY <2>1, Zenon DEF Loads, Valid
  <2> QED BY <2>1, <2>2
<1>6. seen = Reachable
  <2>1. \A h \in seen : Links(h) \subseteq seen
    <3> SUFFICES ASSUME NEW h \in seen, NEW x \in Links(h) PROVE x \in seen
      OBVIOUS
    <3>1. PICK i \in DOMAIN Patterns(h) : x \in Patterns(h)[i]
      BY <1>0, <1>5, LinksAre
    <3>2. Taken(h, i, x)
      BY <1>4, <3>1
    <3> QED BY <3>2, Zenon DEF TakenInv
  <2>2. seen \in SUBSET Files
    BY <1>0, <1>5, LinksAre
  <2>3. Reachable \subseteq seen
    BY <1>2, <2>1, <2>2, BelowLeast DEF Reachable
  <2> QED BY <1>5, <2>3
<1>7. HasPrograms(F.cfg, Reachable) /\ HasGroups(F.cfg, Reachable)
  BY <1>2, <1>3, Zenon DEF FrameInv
<1>8. Tree
  <2>1. \A f \in Reachable : Loads(f)
    BY <1>5, <1>6
  <2>2. ASSUME NEW f \in Reachable, NEW g \in Reachable, NEW i \in DOMAIN Patterns(f), NEW j \in DOMAIN Patterns(g),
               Patterns(f)[i] \cap Patterns(g)[j] # {}
        PROVE  f = g /\ i = j
    <3>1. PICK x : x \in Patterns(f)[i] /\ x \in Patterns(g)[j]
      BY <2>2
    <3>2. Taken(f, i, x) /\ Taken(g, j, x)
      BY <1>4, <1>6, <3>1
    <3> QED BY <3>2, Zenon DEF TakenInv
  <2>3. \A f \in Reachable : Main \notin Links(f)
    <3> SUFFICES ASSUME NEW f \in Reachable, Main \in Links(f) PROVE FALSE
      OBVIOUS
    <3>1. PICK i \in DOMAIN Patterns(f) : Main \in Patterns(f)[i]
      BY <1>0, <1>5, <1>6, LinksAre
    <3>2. Taken(f, i, Main)
      BY <1>4, <1>6, <3>1
    <3> QED BY <3>2, Zenon DEF TakenInv
  <2>4. \A f, g \in Reachable : f # g => DOMAIN disk[f].programs \cap DOMAIN disk[g].programs = {}
    BY <1>7, Zenon DEF HasPrograms
  <2> QED BY <2>1, <2>2, <2>3, <2>4, Zenon DEF Tree
<1>9. cfg = F.cfg
  BY <1>2 DEF cfg
<1>10. cfg.programs = ProgramsWritten
  <2> DEFINE c == F.cfg.programs
             N == UNION {DOMAIN disk[f].programs : f \in Reachable}
  <2>1. Maps(c, N) /\ \A f \in Reachable : \A name \in DOMAIN disk[f].programs : c[name] = Loaded(f).programs[name]
    BY <1>7, Zenon DEF HasPrograms
  <2>2. ASSUME NEW name \in N PROVE c[name] = Loaded(AnyOf(WithProgram(name))).programs[name]
    <3>1. PICK f \in Reachable : name \in DOMAIN disk[f].programs
      OBVIOUS
    <3>2. AnyOf(WithProgram(name)) \in WithProgram(name)
      <4>1. f \in WithProgram(name)
        BY <3>1, Zenon DEF WithProgram
      <4> QED BY <4>1 DEF AnyOf
    <3>3. AnyOf(WithProgram(name)) \in Reachable /\ name \in DOMAIN disk[AnyOf(WithProgram(name))].programs
      BY <3>2, Zenon DEF WithProgram
    <3> QED BY <2>1, <3>3, Zenon
  <2> HIDE DEF c
  <2>3. c = [name \in N |-> c[name]]
    BY <2>1, Zenon DEF Maps
  <2> HIDE DEF N
  <2>4. c = [name \in N |-> Loaded(AnyOf(WithProgram(name))).programs[name]]
    BY <2>2, <2>3, Zenon
  <2> QED BY <1>9, <2>4, Zenon DEF ProgramsWritten, c, N
<1>11. cfg.groups = GroupsWritten
  <2> DEFINE c == F.cfg.groups
             N == UNION {DOMAIN disk[f].groups : f \in Reachable}
  <2>1. Maps(c, N) /\ \A name \in DOMAIN c : \E g : LastWith(g, name, Reachable) /\ c[name] = Loaded(g).groups[name]
    BY <1>7, <1>8, Zenon DEF HasGroups
  <2> HIDE DEF c
  <2>3. c = [name \in N |-> c[name]] /\ DOMAIN c = N
    BY <2>1 DEF Maps
  <2>2. ASSUME NEW name \in N PROVE c[name] = Loaded(LastOf(WithGroup(name), TreeOrder)).groups[name]
    <3>1. PICK g : LastWith(g, name, Reachable) /\ c[name] = Loaded(g).groups[name]
      BY <2>1, <2>3, Zenon
    <3>2. g \in Reachable /\ name \in DOMAIN disk[g].groups
          /\ \A h \in Reachable : name \in DOMAIN disk[h].groups /\ h # g => Precedes(h, g)
      BY <3>1, Zenon DEF LastWith
    <3>3. WithGroup(name) \in SUBSET Reachable /\ g \in WithGroup(name)
          /\ \A h \in WithGroup(name) : h = g \/ Precedes(h, g)
      BY <3>2 DEF WithGroup
    <3>4. LastOf(WithGroup(name), TreeOrder) = g
      BY <1>0, <1>8, <3>3, LastIs
    <3> QED BY <3>1, <3>4, Zenon
  <2> HIDE DEF N
  <2>4. c = [name \in N |-> Loaded(LastOf(WithGroup(name), TreeOrder)).groups[name]]
    BY <2>2, <2>3, Zenon
  <2> QED BY <1>9, <2>4, Zenon DEF GroupsWritten, c, N
<1>12. ASSUME NEW name \in DOMAIN cfg.groups PROVE cfg.groups[name].priority \in Priorities
  <2>1. PICK g : LastWith(g, name, Reachable) /\ cfg.groups[name] = Loaded(g).groups[name]
    BY <1>7, <1>8, <1>9 DEF HasGroups
  <2>2. Loads(g) /\ name \in DOMAIN disk[g].groups
    BY <1>8, <2>1, Zenon DEF LastWith, Tree
  <2>3. \A n \in DOMAIN disk[g].groups : Loaded(g).groups[n].priority \in Priorities
    <3>1. g \in DOMAIN disk /\ \A n \in DOMAIN disk[g].groups : Defaulted(g).groups[n].priority \in Priorities
      BY <2>2 DEF Loads, Valid, Priorities
    <3> QED BY <3>1, Zenon DEF Loaded
  <2> QED BY <2>1, <2>2, <2>3, Zenon
<1> QED BY <1>8, <1>10, <1>11, <1>12

-----------------------------------------------------------------------------
(***************************************************************************)
(* The configuration that has been read.                                   *)
(***************************************************************************)
\* The files are as they should be, and the configuration is what they say.
Settled ==
  /\ disk \in Disks /\ Acceptable
  /\ cfg.programs = ProgramsWritten /\ cfg.groups = GroupsWritten
  /\ \A g \in DOMAIN cfg.groups : cfg.groups[g].priority \in Priorities

\* The checks look at the programs and the groups of a configuration.
LEMMA SameChecks ==
  ASSUME NEW c, NEW d, c.programs = d.programs, c.groups = d.groups
  PROVE  /\ validateGroupReferences(c) <=> validateGroupReferences(d)
         /\ validateProcessNames(c) <=> validateProcessNames(d)
<1>1. validateGroupReferences(c) <=> validateGroupReferences(d)
  BY Zenon DEF validateGroupReferences
<1>2. validateProcessNames(c) <=> validateProcessNames(d)
  BY Zenon DEF validateProcessNames
<1> QED BY <1>1, <1>2

\* When all files are read, the checks decide whether they are as they should be.
LEMMA CheckDecides ==
  ASSUME Tree, cfg.programs = ProgramsWritten, cfg.groups = GroupsWritten
  PROVE  Acceptable <=> validateGroupReferences(cfg) /\ validateProcessNames(cfg)
<1> DEFINE c == [programs |-> ProgramsWritten, groups |-> GroupsWritten]
<1>1. c.programs = cfg.programs /\ c.groups = cfg.groups
  OBVIOUS
<1>2. Acceptable <=> validateGroupReferences(c) /\ validateProcessNames(c)
  BY Zenon DEF Acceptable
<1> HIDE DEF c
<1>3. /\ validateGroupReferences(c) <=> validateGroupReferences(cfg)
      /\ validateProcessNames(c) <=> validateProcessNames(cfg)
  BY <1>1, SameChecks
<1> QED BY <1>2, <1>3, Zenon

LEMMA SettledHas ==
  ASSUME Settled
  PROVE  /\ Tree
         /\ \A name \in DOMAIN cfg.programs :
              /\ cfg.programs[name].priority \in Priorities
              /\ cfg.programs[name].numprocs \in Int /\ cfg.programs[name].numprocs >= 1
              /\ \E f \in Reachable : /\ f \in DOMAIN disk /\ name \in DOMAIN disk[f].programs
                                      /\ cfg.programs[name] = Loaded(f).programs[name]
         /\ \A g \in DOMAIN cfg.groups :
              cfg.groups[g].priority \in Priorities /\ cfg.groups[g].programs \subseteq DOMAIN cfg.programs
         /\ \A g, h \in DOMAIN cfg.groups :
              g # h => cfg.groups[g].programs \cap cfg.groups[h].programs = {}
         /\ UniqueNames(cfg.programs)
<1>0. disk \in Disks /\ Tree /\ Acceptable /\ cfg.programs = ProgramsWritten /\ cfg.groups = GroupsWritten
  BY Zenon DEF Settled, Acceptable
<1>1. validateGroupReferences(cfg) /\ validateProcessNames(cfg)
  BY <1>0, CheckDecides
<1>2. UniqueNames(cfg.programs)
  BY <1>1, Zenon DEF validateProcessNames
<1>3. /\ \A g \in DOMAIN cfg.groups : cfg.groups[g].programs \subseteq DOMAIN cfg.programs
      /\ \A g, h \in DOMAIN cfg.groups :
           g # h => cfg.groups[g].programs \cap cfg.groups[h].programs = {}
  BY <1>1, Zenon DEF validateGroupReferences
<1>4. \A f \in Reachable : Loads(f)
  BY <1>0, Zenon DEF Tree
<1>5. ASSUME NEW name \in DOMAIN cfg.programs
      PROVE  /\ cfg.programs[name].priority \in Priorities
             /\ cfg.programs[name].numprocs \in Int /\ cfg.programs[name].numprocs >= 1
             /\ \E f \in Reachable : /\ f \in DOMAIN disk /\ name \in DOMAIN disk[f].programs
                                     /\ cfg.programs[name] = Loaded(f).programs[name]
  <2> DEFINE f == AnyOf(WithProgram(name))
  <2>1. name \in UNION {DOMAIN disk[g].programs : g \in Reachable} /\ cfg.programs[name] = Loaded(f).programs[name]
    <3> DEFINE N == UNION {DOMAIN disk[g].programs : g \in Reachable}
    <3>1. ProgramsWritten = [n \in N |-> Loaded(AnyOf(WithProgram(n))).programs[n]]
      BY Zenon DEF ProgramsWritten
    <3> HIDE DEF N
    <3>2. name \in N /\ ProgramsWritten[name] = Loaded(AnyOf(WithProgram(name))).programs[name]
      BY <1>0, <3>1
    <3> QED BY <1>0, <3>2, Zenon DEF N
  <2>2. f \in WithProgram(name)
    <3>1. PICK g \in Reachable : name \in DOMAIN disk[g].programs
      BY <2>1
    <3>2. g \in WithProgram(name)
      BY <3>1, Zenon DEF WithProgram
    <3> QED BY <3>2 DEF AnyOf
  <2> HIDE DEF f
  <2>3. f \in Reachable /\ name \in DOMAIN disk[f].programs
    BY <2>2, Zenon DEF WithProgram
  <2>4. f \in DOMAIN disk /\ Written(f, name).numprocs >= 1 /\ Written(f, name).priority \in Priorities
    BY <1>0, <1>4, <2>3, LoadsHas
  <2>5. /\ Loaded(f).programs[name].numprocs = Written(f, name).numprocs /\ Written(f, name).numprocs \in Int
        /\ Loaded(f).programs[name].priority = Written(f, name).priority
    BY <1>0, <2>3, <2>4, LoadedProgram
  <2> QED BY <2>1, <2>3, <2>4, <2>5
<1>6. ASSUME NEW g \in DOMAIN cfg.groups PROVE cfg.groups[g].priority \in Priorities
  BY Zenon DEF Settled
<1> QED BY <1>0, <1>2, <1>3, <1>5, <1>6

\* The instances of these programs, and the names of their processes.
InstancesOf(S) == {i \in Instances(cfg.programs) : i[1] \in S}
NamesOf(S) == {NameOf(cfg.programs, i) : i \in InstancesOf(S)}

\* The processes are the instances of these programs.
HasProcs(S) ==
  /\ Maps(procs, NamesOf(S))
  /\ \A i \in InstancesOf(S) : procs[NameOf(cfg.programs, i)] = NewProcess(i[1], i[2])

\* Their groups.
HasOwn(S) == groups = [p \in S |-> NamesOf({p})]

\* The priorities of these groups.
HasPrio(T) ==
  /\ Maps(prio, UNION {cfg.groups[g].programs : g \in T})
  /\ \A g \in T : \A p \in cfg.groups[g].programs : prio[p] = cfg.groups[g].priority

AllPrograms == DOMAIN cfg.programs
AllGroups == DOMAIN cfg.groups

\* Theirs and those of the programs.
HasTables(T) ==
  AllGroups \cap AllPrograms = {} =>
    groups = [g \in T |-> NamesOf(cfg.groups[g].programs)] ++ [p \in AllPrograms |-> NamesOf({p})]

LEMMA SameCfg ==
  ASSUME stack' = stack
  PROVE  /\ cfg' = cfg
         /\ \A name, k : NewProcess(name, k)' = NewProcess(name, k)
         /\ \A S : InstancesOf(S)' = InstancesOf(S)
         /\ \A S : NamesOf(S)' = NamesOf(S)
<1>1. cfg' = cfg
  BY DEF cfg
<1>2. \A name, k : NewProcess(name, k)' = NewProcess(name, k)
  BY <1>1, Zenon DEF NewProcess
<1>3. \A S : InstancesOf(S)' = InstancesOf(S)
  BY <1>1, Zenon DEF InstancesOf
<1>4. \A S : NamesOf(S)' = NamesOf(S)
  BY <1>1, <1>3, Zenon DEF NamesOf
<1> QED BY <1>1, <1>2, <1>3, <1>4

LEMMA SameSettled ==
  ASSUME disk' = disk, stack' = stack, Settled
  PROVE  Settled'
<1>1. cfg' = cfg
  BY SameCfg
<1>2. Acceptable' /\ ProgramsWritten' = ProgramsWritten /\ GroupsWritten' = GroupsWritten
  BY SameWritten DEF Settled
<1> QED BY <1>1, <1>2 DEF Settled

\* Two instances with the same name are the same, and an instance is one of a program.
LEMMA InstanceIs ==
  ASSUME Settled
  PROVE  /\ \A i, j \in Instances(cfg.programs) : NameOf(cfg.programs, i) = NameOf(cfg.programs, j) => i = j
         /\ \A i : i \in Instances(cfg.programs) <=>
              \E name \in AllPrograms : \E k \in 0..cfg.programs[name].numprocs - 1 : i = <<name, k>>
         /\ \A i \in Instances(cfg.programs) : i[1] \in AllPrograms /\ i = <<i[1], i[2]>>
         /\ InstancesOf(AllPrograms) = Instances(cfg.programs)
<1>1. \A i, j \in Instances(cfg.programs) : NameOf(cfg.programs, i) = NameOf(cfg.programs, j) => i = j
  BY SettledHas, Zenon DEF UniqueNames
<1>2. \A i : i \in Instances(cfg.programs) <=>
        \E name \in AllPrograms : \E k \in 0..cfg.programs[name].numprocs - 1 : i = <<name, k>>
  <2> DEFINE A(n) == {<<n, k>> : k \in 0..cfg.programs[n].numprocs - 1}
  <2>1. \A n : \A i : i \in A(n) <=> \E k \in 0..cfg.programs[n].numprocs - 1 : i = <<n, k>>
    OBVIOUS
  <2>2. Instances(cfg.programs) = UNION {A(n) : n \in DOMAIN cfg.programs}
    BY DEF Instances
  <2> HIDE DEF A
  <2>3. \A i : i \in Instances(cfg.programs) <=> \E n \in DOMAIN cfg.programs : i \in A(n)
    BY <2>2
  <2> QED BY <2>1, <2>3, ZenonT(60) DEF AllPrograms
<1>3. \A i \in Instances(cfg.programs) : i[1] \in AllPrograms /\ i = <<i[1], i[2]>>
  BY <1>2
<1>4. InstancesOf(AllPrograms) = Instances(cfg.programs)
  BY <1>3 DEF InstancesOf
<1> QED BY <1>1, <1>2, <1>3, <1>4

\* What the processes of these programs are.
LEMMA OfIs ==
  ASSUME Settled, NEW S, HasProcs(S), NEW T, T \subseteq S
  PROVE  Of(T) = NamesOf(T)
<1>1. DOMAIN procs = NamesOf(S)
  BY DEF HasProcs, Maps
<1>2. \A i \in InstancesOf(S) : procs[NameOf(cfg.programs, i)].program = i[1]
  <2>1. \A name, k : NewProcess(name, k).program = name
    BY DEF NewProcess
  <2> QED BY <2>1, Zenon DEF HasProcs
<1>3. \A n : n \in NamesOf(S) <=> \E i \in InstancesOf(S) : n = NameOf(cfg.programs, i)
  BY Zenon DEF NamesOf
<1>4. \A n : n \in NamesOf(T) <=> \E i \in InstancesOf(T) : n = NameOf(cfg.programs, i)
  BY Zenon DEF NamesOf
<1>5. \A i : i \in InstancesOf(T) <=> i \in InstancesOf(S) /\ i[1] \in T
  BY Zenon DEF InstancesOf
<1>6. \A n : n \in Of(T) <=> n \in NamesOf(S) /\ procs[n].program \in T
  BY <1>1, Zenon DEF Of
<1>7. \A n : n \in Of(T) <=> n \in NamesOf(T)
  BY <1>2, <1>3, <1>4, <1>5, <1>6, Zenon
<1> QED BY <1>7

\* LoadConfig comes to the next program.
LEMMA ProgramStep ==
  ASSUME Settled, NEW S, NEW name \in AllPrograms, name \notin S, HasProcs(S), HasOwn(S),
         phase = "programs", LoadProgram(name)
  PROVE  HasProcs(S \cup {name})' /\ HasOwn(S \cup {name})'
<1> DEFINE P == cfg.programs
           new == {i \in Instances(P) : i[1] = name /\ NameOf(P, i) \notin DOMAIN procs}
           added == {NameOf(P, i) : i \in new}
           of(n) == LET i == CHOOSE j \in new : NameOf(P, j) = n IN NewProcess(i[1], i[2])
           fresh == [n \in added |-> of(n)]
<1>1. /\ procs' = procs ++ fresh /\ groups' = groups ++ Only(name, added)
      /\ stack' = stack
  BY Zenon DEF LoadProgram
<1>2. /\ \A i, j \in Instances(P) : NameOf(P, i) = NameOf(P, j) => i = j
  BY InstanceIs
<1>3. new = InstancesOf({name})
  <2>1. \A i \in Instances(P) : i[1] = name => NameOf(P, i) \notin DOMAIN procs
    <3> SUFFICES ASSUME NEW i \in Instances(P), i[1] = name, NameOf(P, i) \in DOMAIN procs PROVE FALSE
      OBVIOUS
    <3>1. NameOf(P, i) \in NamesOf(S)
      BY DEF HasProcs, Maps
    <3>2. PICK j \in Instances(P) : j[1] \in S /\ NameOf(P, i) = NameOf(P, j)
      BY <3>1, Zenon DEF NamesOf, InstancesOf
    <3> QED BY <1>2, <3>2
  <2> QED BY <2>1 DEF InstancesOf
<1>4. added = NamesOf({name})
  BY <1>3, Zenon DEF NamesOf
<1>5. \A i \in InstancesOf({name}) : fresh[NameOf(P, i)] = NewProcess(i[1], i[2])
  <2> SUFFICES ASSUME NEW i \in InstancesOf({name}) PROVE fresh[NameOf(P, i)] = NewProcess(i[1], i[2])
    OBVIOUS
  <2>1. i \in new /\ NameOf(P, i) \in added /\ i \in Instances(P)
    BY <1>3 DEF InstancesOf
  <2>2. (CHOOSE j \in new : NameOf(P, j) = NameOf(P, i)) = i
    BY <1>2, <2>1
  <2>3. fresh[NameOf(P, i)] = LET x == CHOOSE j \in new : NameOf(P, j) = NameOf(P, i) IN NewProcess(x[1], x[2])
    BY <2>1, Zenon
  <2> QED BY <2>2, <2>3, Zenon
<1>6. Maps(fresh, NamesOf({name}))
  <2> HIDE DEF of, added
  <2>1. fresh = [n \in added |-> fresh[n]]
    OBVIOUS
  <2> QED BY <1>4, <2>1, Zenon DEF Maps
<1> HIDE DEF fresh, new, added, of
<1>7. InstancesOf(S \cup {name}) = InstancesOf(S) \cup InstancesOf({name})
  BY DEF InstancesOf
<1>8. NamesOf(S \cup {name}) = NamesOf(S) \cup NamesOf({name})
  BY <1>7 DEF NamesOf
<1>9. Maps(procs, NamesOf(S)) /\ \A i \in InstancesOf(S) : procs[NameOf(P, i)] = NewProcess(i[1], i[2])
  BY Zenon DEF HasProcs
<1>10. /\ Maps(procs', NamesOf(S \cup {name}))
       /\ \A n \in NamesOf(S) : procs'[n] = procs[n]
       /\ \A n \in NamesOf({name}) \ NamesOf(S) : procs'[n] = fresh[n]
  <2>1. Maps(procs, NamesOf(S)) /\ Maps(fresh, NamesOf({name})) /\ procs' = procs ++ fresh
    BY <1>1, <1>6, <1>9
  <2>2. /\ Maps(procs', NamesOf(S) \cup NamesOf({name}))
        /\ \A n \in NamesOf(S) : procs'[n] = procs[n]
        /\ \A n \in NamesOf({name}) \ NamesOf(S) : procs'[n] = fresh[n]
    BY <2>1, Overrides
  <2> QED BY <1>8, <2>2, Zenon
<1>11. \A i \in InstancesOf(S \cup {name}) : procs'[NameOf(P, i)] = NewProcess(i[1], i[2])
  <2>1. ASSUME NEW i \in InstancesOf(S) PROVE procs'[NameOf(P, i)] = NewProcess(i[1], i[2])
    BY <1>9, <1>10, Zenon DEF NamesOf
  <2>2. ASSUME NEW i \in InstancesOf({name}) PROVE procs'[NameOf(P, i)] = NewProcess(i[1], i[2])
    <3>1. NameOf(P, i) \in NamesOf({name})
      BY Zenon DEF NamesOf
    <3>2. NameOf(P, i) \notin NamesOf(S)
      <4>1. \A j \in InstancesOf(S) : i # j
        BY DEF InstancesOf
      <4>2. i \in Instances(P) /\ InstancesOf(S) \subseteq Instances(P)
        BY DEF InstancesOf
      <4> QED BY <1>2, <4>1, <4>2, Zenon DEF NamesOf
    <3> QED BY <1>5, <1>10, <3>1, <3>2
  <2> QED BY <1>7, <2>1, <2>2
<1>12. HasProcs(S \cup {name})'
  <2>1. /\ cfg' = cfg /\ InstancesOf(S \cup {name})' = InstancesOf(S \cup {name})
        /\ NamesOf(S \cup {name})' = NamesOf(S \cup {name})
        /\ \A n, k : NewProcess(n, k)' = NewProcess(n, k)
    BY <1>1, SameCfg
  <2> QED BY <1>10, <1>11, <2>1, Zenon DEF HasProcs, Maps
<1>13. HasOwn(S \cup {name})'
  <2>1. \A T : NamesOf(T)' = NamesOf(T)
    BY <1>1, SameCfg
  <2>2. groups = [p \in S |-> NamesOf({p})]
    BY Zenon DEF HasOwn
  <2>3. groups ++ Only(name, NamesOf({name})) = [p \in S \cup {name} |-> NamesOf({p})]
    BY <2>2 DEF ++, Only
  <2> QED BY <1>1, <1>4, <2>1, <2>3, Zenon DEF HasOwn
<1> QED BY <1>12, <1>13

\* LoadConfig comes to the next [groups] table.
LEMMA GroupStep ==
  ASSUME Settled, NEW T, T \subseteq AllGroups, NEW g \in AllGroups, g \notin T,
         HasProcs(AllPrograms), HasTables(T), HasPrio(T), LoadGroup(g)
  PROVE  HasTables(T \cup {g})' /\ HasPrio(T \cup {g})'
<1> DEFINE members == cfg.groups[g].programs
           merged == UNION {groups[p] : p \in members \cap DOMAIN groups}
<1>1. /\ prio' = [p \in members |-> cfg.groups[g].priority] ++ prio
      /\ groups' = Only(g, merged) ++ groups
      /\ stack' = stack
  BY Zenon DEF LoadGroup
<1>2. members \subseteq AllPrograms
  BY SettledHas DEF AllGroups, AllPrograms
<1>3. ASSUME NEW h \in T PROVE cfg.groups[h].programs \cap members = {}
  <2>1. \A a, b \in AllGroups : a # b => cfg.groups[a].programs \cap cfg.groups[b].programs = {}
    BY SettledHas DEF AllGroups
  <2>2. h \in AllGroups /\ h # g
    OBVIOUS
  <2> QED BY <2>1, <2>2, Zenon
<1>4. cfg' = cfg /\ \A S : NamesOf(S)' = NamesOf(S)
  BY <1>1, SameCfg
<1>5. AllGroups' = AllGroups /\ AllPrograms' = AllPrograms
  BY <1>4, Zenon DEF AllGroups, AllPrograms
<1>6. HasPrio(T \cup {g})'
  <2> DEFINE new == [p \in members |-> cfg.groups[g].priority]
             A == UNION {cfg.groups[h].programs : h \in T}
  <2>1. Maps(new, members) /\ \A p \in members : new[p] = cfg.groups[g].priority
    BY DEF Maps
  <2>2. Maps(prio, A) /\ \A h \in T : \A p \in cfg.groups[h].programs : prio[p] = cfg.groups[h].priority
    BY Zenon DEF HasPrio
  <2> HIDE DEF new, A
  <2>3. prio' = new ++ prio
    BY <1>1 DEF new
  <2>4. /\ Maps(prio', members \cup A)
        /\ \A p \in members : prio'[p] = new[p]
        /\ \A p \in A \ members : prio'[p] = prio[p]
    BY <2>1, <2>2, <2>3, Overrides
  <2>5. members \cup A = UNION {cfg.groups[h].programs : h \in T \cup {g}}
    BY DEF A
  <2>6. ASSUME NEW h \in T \cup {g}, NEW p \in cfg.groups[h].programs PROVE prio'[p] = cfg.groups[h].priority
    <3>1. CASE h = g
      BY <2>1, <2>4, <3>1
    <3>2. CASE h \in T
      <4>1. p \in A \ members
        BY <1>3, <3>2 DEF A
      <4> QED BY <2>2, <2>4, <3>2, <4>1
    <3> QED BY <3>1, <3>2
  <2>7. /\ Maps(prio', UNION {cfg.groups[h].programs : h \in T \cup {g}})
        /\ \A h \in T \cup {g} : \A p \in cfg.groups[h].programs : prio'[p] = cfg.groups[h].priority
    BY <2>4, <2>5, <2>6, Zenon
  <2> QED BY <1>4, <2>7 DEF HasPrio
<1>7. HasTables(T \cup {g})'
  <2> SUFFICES ASSUME AllGroups \cap AllPrograms = {}
      PROVE  groups' = [h \in T \cup {g} |-> NamesOf(cfg.groups[h].programs)] ++ [p \in AllPrograms |-> NamesOf({p})]
    BY <1>4, <1>5, Zenon DEF HasTables
  <2> DEFINE own == [p \in AllPrograms |-> NamesOf({p})]
             tables == [h \in T |-> NamesOf(cfg.groups[h].programs)]
             after == [h \in T \cup {g} |-> NamesOf(cfg.groups[h].programs)]
  <2>1. groups = tables ++ own
    BY Zenon DEF HasTables
  <2>2. DOMAIN groups = T \cup AllPrograms /\ \A p \in AllPrograms : groups[p] = NamesOf({p})
    <3> HIDE DEF own, tables
    <3>1. Maps(tables, T) /\ Maps(own, AllPrograms) /\ \A p \in AllPrograms : own[p] = NamesOf({p})
      BY DEF own, tables, Maps
    <3>2. /\ Maps(groups, T \cup AllPrograms)
          /\ \A p \in AllPrograms \ T : groups[p] = own[p]
      BY <2>1, <3>1, Overrides
    <3>3. DOMAIN groups = T \cup AllPrograms
      BY <3>2 DEF Maps
    <3> QED BY <3>1, <3>2, <3>3
  <2>3. merged = NamesOf(members)
    <3>1. members \cap DOMAIN groups = members
      BY <1>2, <2>2
    <3>2. \A n : n \in merged <=> \E p \in members : n \in groups[p]
      BY <3>1
    <3>3. \A n : n \in merged <=> \E p \in members : n \in NamesOf({p})
      BY <1>2, <2>2, <3>2
    <3>4. \A S : \A n : n \in NamesOf(S) <=> \E i \in Instances(cfg.programs) : i[1] \in S /\ n = NameOf(cfg.programs, i)
      BY Zenon DEF NamesOf, InstancesOf
    <3> HIDE DEF merged, members
    <3>5. \A n : n \in merged <=> n \in NamesOf(members)
      <4> SUFFICES ASSUME NEW n PROVE n \in merged <=> n \in NamesOf(members)
        OBVIOUS
      <4>1. \A p : n \in NamesOf({p}) <=> \E i \in Instances(cfg.programs) : i[1] = p /\ n = NameOf(cfg.programs, i)
        BY <3>4
      <4>2. n \in NamesOf(members) <=> \E i \in Instances(cfg.programs) : i[1] \in members /\ n = NameOf(cfg.programs, i)
        BY <3>4, Zenon
      <4> QED BY <3>3, <4>1, <4>2, Zenon
    <3> QED BY <3>5
  <2> HIDE DEF merged
  <2>4. Only(g, NamesOf(members)) ++ (tables ++ own) = after ++ own
    BY DEF ++, Only
  <2> QED BY <1>1, <2>1, <2>3, <2>4, Zenon
<1> QED BY <1>6, <1>7

-----------------------------------------------------------------------------
(***************************************************************************)
(* The order of the processes.                                             *)
(***************************************************************************)
\* The manager has all processes, groups and priorities.
Complete == Settled /\ HasProcs(AllPrograms) /\ HasTables(AllGroups) /\ HasPrio(AllGroups)

\* sortByPriority compares by rank.
LEMMA RankIs ==
  ASSUME Complete
  PROVE  \A m, n \in DOMAIN procs : ~Less(m, n) <=> Rank(n) <= Rank(m)
<1>0. Settled /\ HasProcs(AllPrograms) /\ HasPrio(AllGroups)
  BY Zenon DEF Complete
<1>1. cfg.programs = ProgramsWritten /\ cfg.groups = GroupsWritten
  BY <1>0, Zenon DEF Settled
<1>2. ASSUME NEW n \in DOMAIN procs
      PROVE  /\ GroupKey(n) \in Priorities /\ procs[n].priority \in Priorities
             /\ Rank(n) = RankOf(GroupKey(n), procs[n].priority)
  <2> DEFINE name == procs[n].program
             own == cfg.programs[name].priority
             of == {g \in AllGroups : name \in cfg.groups[g].programs}
  <2>1. PICK i \in InstancesOf(AllPrograms) : n = NameOf(cfg.programs, i)
    BY <1>0 DEF HasProcs, Maps, NamesOf
  <2>2. i[1] \in AllPrograms
    BY <2>1, Zenon DEF InstancesOf
  <2>3. procs[n] = NewProcess(i[1], i[2])
    BY <1>0, <2>1, Zenon DEF HasProcs
  <2>4. name = i[1] /\ procs[n].priority = own
    <3>1. NewProcess(i[1], i[2]).program = i[1] /\ NewProcess(i[1], i[2]).priority = cfg.programs[i[1]].priority
      BY DEF NewProcess
    <3> QED BY <2>3, <3>1
  <2>5. own \in Priorities
    <3>1. \A p \in AllPrograms : cfg.programs[p].priority \in Priorities
      BY <1>0, SettledHas DEF AllPrograms
    <3>2. name \in AllPrograms
      BY <2>2, <2>4
    <3> QED BY <3>1, <3>2, Zenon
  <2>6. DOMAIN prio = UNION {cfg.groups[g].programs : g \in AllGroups}
        /\ \A g \in AllGroups : \A p \in cfg.groups[g].programs : prio[p] = cfg.groups[g].priority
    BY <1>0 DEF HasPrio, Maps
  <2>7. Rank(n) = IF of = {} THEN RankOf(own, own) ELSE RankOf(cfg.groups[AnyOf(of)].priority, own)
    <3> DEFINE W == ProgramsWritten
               G == GroupsWritten
               rank(P, T) == LET o == P[procs[n].program].priority
                                 f == {g \in DOMAIN T : procs[n].program \in T[g].programs}
                             IN IF f = {} THEN RankOf(o, o) ELSE RankOf(T[AnyOf(f)].priority, o)
    <3>1. Rank(n) = rank(W, G)
      BY DEF Rank, RankOf
    <3>2. W = cfg.programs /\ G = cfg.groups
      BY <1>1
    <3> HIDE DEF W, G, rank
    <3>3. Rank(n) = rank(cfg.programs, cfg.groups)
      BY <3>1, <3>2, Zenon
    <3> QED BY <3>3, Zenon DEF rank, AllGroups
  <2>8. GroupKey(n) = IF name \in DOMAIN prio THEN prio[name] ELSE own
    BY <2>4, Zenon DEF GroupKey
  <2>9. CASE of = {}
    <3>1. name \notin DOMAIN prio
      BY <2>6, <2>9
    <3> HIDE DEF own, name, of
    <3>2. Rank(n) = RankOf(own, own)
      BY <2>7, <2>9, Zenon
    <3>3. GroupKey(n) = own
      BY <2>8, <3>1, Zenon
    <3> QED BY <2>4, <2>5, <3>2, <3>3
  <2>10. CASE of # {}
    <3>1. AnyOf(of) \in of
      BY <2>10, Zenon DEF AnyOf
    <3> DEFINE g == AnyOf(of)
    <3>2. g \in AllGroups /\ name \in cfg.groups[g].programs
      BY <3>1, Zenon
    <3> HIDE DEF g
    <3>3. name \in DOMAIN prio /\ prio[name] = cfg.groups[g].priority
      BY <2>6, <3>2
    <3>4. cfg.groups[g].priority \in Priorities
      BY <1>0, <3>2, SettledHas DEF AllGroups
    <3>5. Rank(n) = RankOf(cfg.groups[g].priority, own)
      BY <2>7, <2>10, Zenon DEF g
    <3>6. GroupKey(n) = cfg.groups[g].priority
      BY <2>8, <3>3, Zenon
    <3> HIDE DEF own, name
    <3> QED BY <2>4, <2>5, <3>4, <3>5, <3>6
  <2> QED BY <2>9, <2>10
<1>3. \A a, b, c, d \in Priorities : ~(a < c \/ (a = c /\ b < d)) <=> RankOf(c, d) <= RankOf(a, b)
  BY DEF Priorities, RankOf
<1>4. ASSUME NEW m \in DOMAIN procs, NEW n \in DOMAIN procs
      PROVE  ~Less(m, n) <=> Rank(n) <= Rank(m)
  <2>1. Less(m, n) <=> GroupKey(m) < GroupKey(n)
                       \/ (GroupKey(m) = GroupKey(n) /\ procs[m].priority < procs[n].priority)
    BY Zenon DEF Less
  <2>2. /\ GroupKey(m) \in Priorities /\ GroupKey(n) \in Priorities
        /\ procs[m].priority \in Priorities /\ procs[n].priority \in Priorities
        /\ Rank(m) = RankOf(GroupKey(m), procs[m].priority)
        /\ Rank(n) = RankOf(GroupKey(n), procs[n].priority)
    BY <1>2
  <2> DEFINE a == GroupKey(m)
             b == procs[m].priority
             c == GroupKey(n)
             d == procs[n].priority
  <2>3. a \in Priorities /\ b \in Priorities /\ c \in Priorities /\ d \in Priorities
    BY <2>2
  <2>4. Less(m, n) <=> (a < c \/ (a = c /\ b < d))
    BY <2>1, Zenon
  <2>5. Rank(m) = RankOf(a, b) /\ Rank(n) = RankOf(c, d)
    BY <2>2
  <2> HIDE DEF a, b, c, d
  <2> QED BY <1>3, <2>3, <2>4, <2>5
<1> QED BY <1>4

\* What has been visited is in order, and comes before all that is still to be visited.
StartSorted ==
  /\ \A i, j \in 1..Len(order) : i < j => ~Less(order[j], order[i])
  /\ \A i \in 1..Len(order) : \A m \in todo : ~Less(m, order[i])

StopSorted ==
  /\ \A i, j \in 1..Len(order) : i < j => ~Less(order[i], order[j])
  /\ \A i \in 1..Len(order) : \A m \in todo : ~Less(order[i], m)

OrderInv ==
  /\ order \in Seq(DOMAIN procs) /\ todo \subseteq DOMAIN procs /\ then \subseteq DOMAIN procs
  /\ phase = "start" => StartSorted
  /\ phase \in {"stop", "down"} => StopSorted

\* The next process of a pass.
LEMMA StartNextStep ==
  ASSUME OrderInv, NEW n, StartNext(n)
  PROVE  OrderInv'
<1>1. /\ phase = "start" /\ n \in todo /\ todo' = todo \ {n} /\ order' = Append(order, n)
      /\ procs' = procs /\ prio' = prio /\ phase' = phase /\ then' = then
      /\ \A m \in todo : ~Less(m, n)
  BY DEF StartNext, loaded
<1>2. \A x, y : Less(x, y)' <=> Less(x, y)
  BY <1>1 DEF Less, GroupKey
<1>3. /\ order \in Seq(DOMAIN procs) /\ todo \subseteq DOMAIN procs /\ then \subseteq DOMAIN procs
      /\ \A i, j \in 1..Len(order) : i < j => ~Less(order[j], order[i])
      /\ \A i \in 1..Len(order) : \A m \in todo : ~Less(m, order[i])
  BY <1>1, Zenon DEF OrderInv, StartSorted
<1>4. n \in DOMAIN procs
  BY <1>1, <1>3
<1> DEFINE k == Len(order)
<1>5. /\ order' \in Seq(DOMAIN procs) /\ Len(order') = k + 1 /\ order'[k + 1] = n
      /\ \A i \in 1..k : order'[i] = order[i]
  BY <1>1, <1>3, <1>4, AppendProperties
<1>6. k \in Nat
  BY <1>3, LenProperties
<1> HIDE DEF k
<1>7. \A i, j \in 1..k + 1 : i < j => i \in 1..k /\ (j \in 1..k \/ j = k + 1)
  BY <1>6
<1>8. \A i \in 1..k + 1 : i \in 1..k \/ i = k + 1
  BY <1>6
<1>9. \A i, j \in 1..k + 1 : i < j => ~Less(order'[j], order'[i])
  BY <1>1, <1>3, <1>5, <1>7, Zenon DEF k
<1>10. \A i \in 1..k + 1 : \A m \in todo' : ~Less(m, order'[i])
  BY <1>1, <1>3, <1>5, <1>8 DEF k
<1>11. StartSorted'
  BY <1>2, <1>5, <1>9, <1>10 DEF StartSorted
<1> QED BY <1>1, <1>3, <1>5, <1>11 DEF OrderInv

LEMMA StopNextStep ==
  ASSUME OrderInv, NEW n, StopNext(n)
  PROVE  OrderInv'
<1>1. /\ phase \in {"stop", "down"} /\ n \in todo /\ todo' = todo \ {n} /\ order' = Append(order, n)
      /\ procs' = procs /\ prio' = prio /\ phase' = phase /\ then' \subseteq then
      /\ \A m \in todo : ~Less(n, m)
  BY DEF StopNext, loaded
<1>2. \A x, y : Less(x, y)' <=> Less(x, y)
  BY <1>1 DEF Less, GroupKey
<1>3. /\ order \in Seq(DOMAIN procs) /\ todo \subseteq DOMAIN procs /\ then \subseteq DOMAIN procs
      /\ \A i, j \in 1..Len(order) : i < j => ~Less(order[i], order[j])
      /\ \A i \in 1..Len(order) : \A m \in todo : ~Less(order[i], m)
  BY <1>1, Zenon DEF OrderInv, StopSorted
<1>4. n \in DOMAIN procs
  BY <1>1, <1>3
<1> DEFINE k == Len(order)
<1>5. /\ order' \in Seq(DOMAIN procs) /\ Len(order') = k + 1 /\ order'[k + 1] = n
      /\ \A i \in 1..k : order'[i] = order[i]
  BY <1>1, <1>3, <1>4, AppendProperties
<1>6. k \in Nat
  BY <1>3, LenProperties
<1> HIDE DEF k
<1>7. \A i, j \in 1..k + 1 : i < j => i \in 1..k /\ (j \in 1..k \/ j = k + 1)
  BY <1>6
<1>8. \A i \in 1..k + 1 : i \in 1..k \/ i = k + 1
  BY <1>6
<1>9. \A i, j \in 1..k + 1 : i < j => ~Less(order'[i], order'[j])
  BY <1>1, <1>3, <1>5, <1>7, Zenon DEF k
<1>10. \A i \in 1..k + 1 : \A m \in todo' : ~Less(order'[i], m)
  BY <1>1, <1>3, <1>5, <1>8 DEF k
<1>11. StopSorted'
  BY <1>2, <1>5, <1>9, <1>10 DEF StopSorted
<1> QED BY <1>1, <1>3, <1>5, <1>11 DEF OrderInv

\* The beginning of a pass.
LEMMA PassBegins ==
  ASSUME procs' = procs, order' = <<>>, todo' \subseteq DOMAIN procs, then' \subseteq DOMAIN procs
  PROVE  OrderInv'
<1>1. order' \in Seq(DOMAIN procs) /\ 1..Len(order') = {}
  <2>1. Len(order') = 0
    OBVIOUS
  <2>2. order' \in Seq(DOMAIN procs)
    OBVIOUS
  <2> QED BY <2>1, <2>2
<1>2. StartSorted' /\ StopSorted'
  BY <1>1 DEF StartSorted, StopSorted
<1> QED BY <1>1, <1>2 DEF OrderInv

-----------------------------------------------------------------------------
(***************************************************************************)
(* The steps.                                                              *)
(***************************************************************************)
\* Before the passes nothing has been visited.
NoPass == order = <<>> /\ then = {}

\* What holds while the files are read, when they are refused, while LoadConfig builds the
\* processes and the groups, and in the passes.
InFiles ==
  /\ disk \in Disks /\ phase = "files" /\ ReadingInv /\ TakenInv /\ NoPass
  /\ procs = Nothing /\ groups = Nothing /\ prio = Nothing

Refused == disk \in Disks /\ phase = "rejected" /\ ~Acceptable

InPrograms ==
  /\ phase = "programs" /\ Settled /\ NoPass /\ todo \subseteq AllPrograms /\ prio = Nothing
  /\ HasProcs(AllPrograms \ todo) /\ HasOwn(AllPrograms \ todo)

InGroups ==
  /\ phase = "groups" /\ Settled /\ NoPass /\ todo \subseteq AllGroups
  /\ HasProcs(AllPrograms) /\ HasTables(AllGroups \ todo) /\ HasPrio(AllGroups \ todo)

InPasses == phase \in {"start", "stop", "down"} /\ Complete /\ OrderInv

LoadInv == InFiles \/ Refused \/ InPrograms \/ InGroups \/ InPasses

LEMMA LoadInit == Init => LoadInv
<1> SUFFICES ASSUME Init PROVE InFiles
  BY DEF LoadInv
<1>1. /\ disk \in Disks /\ phase = "files" /\ stack = <<>> /\ seen = {} /\ NoPass
      /\ procs = Nothing /\ groups = Nothing /\ prio = Nothing
  BY DEF Init, NoPass
<1>2. IsStack(stack) /\ 1..Len(stack) = {} /\ 1..Len(stack) - 1 = {}
  <2>1. <<>> \in Seq({}) /\ Len(<<>>) = 0
    OBVIOUS
  <2> QED BY <1>1, <2>1 DEF IsStack
<1>3. ReadingInv
  BY <1>1, <1>2 DEF ReadingInv
<1>4. TakenInv
  BY <1>1 DEF TakenInv, Taken
<1> QED BY <1>1, <1>3, <1>4, Zenon DEF InFiles

\* A refusal is right.
LEMMA Refuses ==
  ASSUME disk \in Disks, disk' = disk, ~Tree \/ ~Acceptable, phase' = "rejected"
  PROVE  LoadInv'
<1>1. ~Acceptable
  BY Zenon DEF Acceptable
<1>2. ~Acceptable'
  BY <1>1, SameWritten
<1> QED BY <1>2 DEF LoadInv, Refused

\* The files go on being read.
LEMMA Reads ==
  ASSUME InFiles, ReadingInv', TakenInv', disk' = disk, UNCHANGED <<phase, procs, groups, prio, later>>
  PROVE  LoadInv'
<1>1. InFiles'
  BY DEF InFiles, NoPass, later
<1> QED BY <1>1 DEF LoadInv

LEMMA OpenMainRight ==
  ASSUME InFiles, OpenMain
  PROVE  LoadInv'
<1>1. /\ disk \in Disks /\ stack = <<>> /\ seen = {} /\ disk' = disk
      /\ seen' = seen \cup {Main} /\ UNCHANGED <<procs, groups, prio, later>>
  BY DEF InFiles, OpenMain, Open, ReadingInv
<1>2. CASE Loads(Main)
  <2>1. stack' = Append(stack, Frame(Main, Loaded(Main), 0, {})) /\ phase' = phase
    BY <1>1, <1>2 DEF OpenMain, Open
  <2>2. ReadingInv' /\ TakenInv'
    BY <1>1, <1>2, <2>1, OpenMainStep
  <2> QED BY <1>1, <2>1, <2>2, Reads
<1>3. CASE ~Loads(Main)
  <2>1. phase' = "rejected"
    BY <1>3, Zenon DEF OpenMain, Open, Reject
  <2>2. Main \in Reachable
    BY <1>1, LinksAre, BelowIs DEF Reachable
  <2>3. ~Tree
    BY <1>3, <2>2, Zenon DEF Tree
  <2> QED BY <1>1, <2>1, <2>3, Refuses
<1> QED BY <1>2, <1>3

LEMMA PatternRight ==
  ASSUME InFiles, Pattern
  PROVE  LoadInv'
<1>1. /\ ReadingInv /\ TakenInv /\ stack # <<>> /\ disk' = disk /\ seen' = seen
      /\ Top.todo = {} /\ Top.pattern < Len(Patterns(Top.file))
      /\ stack' = Append(Front(stack), Frame(Top.file, Top.cfg, Top.pattern + 1, Patterns(Top.file)[Top.pattern + 1]))
      /\ UNCHANGED <<phase, procs, groups, prio, later>>
  BY Zenon DEF InFiles, Pattern
<1>2. ReadingInv' /\ TakenInv'
  BY <1>1, PatternStep
<1> QED BY <1>1, <1>2, Reads

LEMMA IncludeRight ==
  ASSUME InFiles, Include
  PROVE  LoadInv'
<1> DEFINE x == Min(Top.todo)
<1>1. /\ disk \in Disks /\ ReadingInv /\ TakenInv /\ stack # <<>> /\ Top.todo # {} /\ Open(x)
  BY Zenon DEF InFiles, Include
<1> HIDE DEF x
<1>2. disk' = disk /\ seen' = seen \cup {x} /\ UNCHANGED <<procs, groups, prio, later>>
  BY <1>1, Zenon DEF Open
<1>3. CASE x \notin seen /\ Loads(x)
  <2>1. stack' = Append(stack, Frame(x, Loaded(x), 0, {})) /\ phase' = phase
    BY <1>1, <1>3 DEF Open
  <2>2. ReadingInv' /\ TakenInv'
    BY <1>1, <1>2, <1>3, <2>1, IncludeStep DEF x
  <2> QED BY <1>2, <2>1, <2>2, Reads
<1>4. CASE x \in seen \/ ~Loads(x)
  <2>1. phase' = "rejected"
    BY <1>1, <1>4, Zenon DEF Open, Reject
  <2>2. ~Tree
    BY <1>1, <1>4, IncludeRejected DEF x
  <2> QED BY <1>1, <1>2, <2>1, <2>2, Refuses
<1> QED BY <1>3, <1>4

LEMMA MergeRight ==
  ASSUME InFiles, Merge
  PROVE  LoadInv'
<1> DEFINE F == stack[Len(stack) - 1]
<1>1. /\ disk \in Disks /\ ReadingInv /\ TakenInv /\ Len(stack) > 1 /\ IsRead(Top)
      /\ disk' = disk /\ seen' = seen /\ UNCHANGED <<procs, groups, prio, later>>
  BY Zenon DEF InFiles, Merge
<1>2. CASE DOMAIN F.cfg.programs \cap DOMAIN Top.cfg.programs = {}
  <2>1. /\ stack' = Append(Front(Front(stack)), Frame(F.file, Merged(F.cfg, Top.cfg), F.pattern, F.todo \ {Top.file}))
        /\ phase' = phase
    BY <1>2, Zenon DEF Merge
  <2>2. ReadingInv' /\ TakenInv'
    BY <1>1, <1>2, <2>1, MergeStep
  <2> QED BY <1>1, <2>1, <2>2, Reads
<1>3. CASE DOMAIN F.cfg.programs \cap DOMAIN Top.cfg.programs # {}
  <2>1. phase' = "rejected"
    BY <1>3, Zenon DEF Merge, Reject
  <2>2. Included(F, Top) /\ F.file \in Reachable
    BY <1>1, LastTwo
  <2> HIDE DEF F
  <2>3. ~Tree
    BY <1>1, <1>3, <2>2, MergeClash
  <2> QED BY <1>1, <2>1, <2>3, Refuses
<1> QED BY <1>2, <1>3

LEMMA CheckStep ==
  ASSUME InFiles, Check
  PROVE  LoadInv'
<1>1. /\ disk \in Disks /\ ReadingInv /\ TakenInv /\ Len(stack) = 1 /\ IsRead(Top) /\ NoPass
      /\ procs = Nothing /\ groups = Nothing /\ prio = Nothing
      /\ disk' = disk /\ seen' = seen /\ UNCHANGED <<procs, groups, prio, later>>
  BY Zenon DEF InFiles, Check
<1>2. /\ Tree /\ cfg.programs = ProgramsWritten /\ cfg.groups = GroupsWritten
      /\ \A g \in DOMAIN cfg.groups : cfg.groups[g].priority \in Priorities
  BY <1>1, AllRead
<1>3. Acceptable <=> validateGroupReferences(cfg) /\ validateProcessNames(cfg)
  BY <1>2, CheckDecides
<1>4. CASE Acceptable
  <2>1. phase' = "programs" /\ todo' = AllPrograms /\ stack' = stack
    BY <1>3, <1>4, Zenon DEF Check, AllPrograms
  <2>2. Settled
    BY <1>1, <1>2, <1>4 DEF Settled
  <2>3. Settled'
    BY <1>1, <2>1, <2>2, SameSettled
  <2>4. cfg' = cfg /\ AllPrograms' = AllPrograms
    BY <2>1, SameCfg DEF AllPrograms
  <2>5. (AllPrograms \ todo)' = {}
    BY <2>1, <2>4
  <2>6. HasProcs({})'
    <3>1. InstancesOf({}) = {} /\ NamesOf({}) = {}
      BY DEF InstancesOf, NamesOf
    <3>2. InstancesOf({})' = {} /\ NamesOf({})' = {}
      BY <2>1, <3>1, SameCfg
    <3>3. Maps(procs', {})
      BY <1>1 DEF Nothing, Maps
    <3> QED BY <3>2, <3>3 DEF HasProcs
  <2>7. HasOwn({})'
    BY <1>1 DEF HasOwn, Nothing
  <2>8. InPrograms'
    BY <1>1, <2>1, <2>3, <2>4, <2>5, <2>6, <2>7 DEF InPrograms, NoPass, later
  <2> QED BY <2>8 DEF LoadInv
<1>5. CASE ~Acceptable
  <2>1. phase' = "rejected"
    BY <1>3, <1>5, Zenon DEF Check, Reject
  <2> QED BY <1>1, <1>5, <2>1, Refuses
<1> QED BY <1>4, <1>5

\* What LoadConfig has of the configuration does not change.
LEMMA SameStage ==
  ASSUME disk' = disk, stack' = stack, Settled
  PROVE  /\ Settled' /\ AllPrograms' = AllPrograms /\ AllGroups' = AllGroups
         /\ procs' = procs => \A S : HasProcs(S) => HasProcs(S)'
         /\ groups' = groups => \A S : HasOwn(S) => HasOwn(S)'
         /\ groups' = groups => \A S : HasTables(S) => HasTables(S)'
         /\ prio' = prio => \A S : HasPrio(S) => HasPrio(S)'
<1>1. /\ cfg' = cfg
      /\ \A name, k : NewProcess(name, k)' = NewProcess(name, k)
      /\ \A S : InstancesOf(S)' = InstancesOf(S)
      /\ \A S : NamesOf(S)' = NamesOf(S)
  BY SameCfg
<1>2. AllPrograms' = AllPrograms /\ AllGroups' = AllGroups
  BY <1>1, Zenon DEF AllPrograms, AllGroups
<1>3. Settled'
  BY SameSettled
<1>4. ASSUME procs' = procs, NEW S, HasProcs(S) PROVE HasProcs(S)'
  BY <1>1, <1>4, Zenon DEF HasProcs, Maps
<1>5. ASSUME groups' = groups, NEW S, HasOwn(S) PROVE HasOwn(S)'
  BY <1>1, <1>5, Zenon DEF HasOwn
<1>6. ASSUME groups' = groups, NEW S, HasTables(S) PROVE HasTables(S)'
  BY <1>1, <1>2, <1>6, Zenon DEF HasTables
<1>7. ASSUME prio' = prio, NEW S, HasPrio(S) PROVE HasPrio(S)'
  BY <1>1, <1>7, Zenon DEF HasPrio, Maps
<1> QED BY <1>2, <1>3, <1>4, <1>5, <1>6, <1>7

LEMMA LoadProgramRight ==
  ASSUME InPrograms, NEW name \in todo, LoadProgram(name)
  PROVE  LoadInv'
<1>0. PICK S : S = AllPrograms \ todo
  OBVIOUS
<1>1. /\ phase = "programs" /\ Settled /\ NoPass /\ todo \subseteq AllPrograms /\ prio = Nothing
      /\ HasProcs(S) /\ HasOwn(S)
  BY <1>0, Zenon DEF InPrograms
<1>2. /\ todo' = todo \ {name} /\ disk' = disk /\ stack' = stack
      /\ UNCHANGED <<phase, prio, order, then>>
  BY DEF LoadProgram, later
<1>3. name \in AllPrograms /\ name \notin S /\ AllPrograms \ todo' = S \cup {name}
  BY <1>0, <1>1, <1>2
<1>4. HasProcs(S \cup {name})' /\ HasOwn(S \cup {name})'
  BY <1>1, <1>3, ProgramStep
<1>5. Settled' /\ AllPrograms' = AllPrograms
  BY <1>1, <1>2, SameStage
<1>6. (AllPrograms \ todo)' = S \cup {name}
  BY <1>3, <1>5
<1>8. InPrograms'
  <2>1. HasProcs(AllPrograms \ todo)' /\ HasOwn(AllPrograms \ todo)'
    BY <1>4, <1>6
  <2> QED BY <1>1, <1>2, <1>5, <2>1 DEF InPrograms, NoPass
<1> QED BY <1>8 DEF LoadInv

LEMMA BeginGroupsRight ==
  ASSUME InPrograms, BeginGroups
  PROVE  LoadInv'
<1>1. /\ Settled /\ NoPass /\ prio = Nothing /\ HasProcs(AllPrograms \ todo) /\ HasOwn(AllPrograms \ todo)
  BY Zenon DEF InPrograms
<1>2. /\ todo = {} /\ phase' = "groups" /\ todo' = AllGroups /\ disk' = disk /\ stack' = stack
      /\ UNCHANGED <<procs, groups, prio, order, then>>
  BY DEF BeginGroups, ProgramsDone, AllGroups, later
<1>3. HasProcs(AllPrograms) /\ HasOwn(AllPrograms)
  <2>1. AllPrograms \ todo = AllPrograms
    BY <1>2
  <2> QED BY <1>1, <2>1
<1>4. HasTables({})
  <2>1. groups = [p \in AllPrograms |-> NamesOf({p})]
    BY <1>3, Zenon DEF HasOwn
  <2> DEFINE own == [p \in AllPrograms |-> NamesOf({p})]
             none == [g \in {} |-> NamesOf(cfg.groups[g].programs)]
  <2>2. none ++ own = own
    BY DEF ++
  <2> QED BY <2>1, <2>2, Zenon DEF HasTables
<1>5. HasPrio({})
  BY <1>1 DEF HasPrio, Maps, Nothing
<1>6. /\ Settled' /\ AllPrograms' = AllPrograms /\ AllGroups' = AllGroups
      /\ HasProcs(AllPrograms)' /\ HasTables({})' /\ HasPrio({})'
  <2>1. PICK P : P = AllPrograms
    OBVIOUS
  <2>2. Settled' /\ AllPrograms' = P /\ AllGroups' = AllGroups /\ HasProcs(P)' /\ HasTables({})' /\ HasPrio({})'
    BY <1>1, <1>2, <1>3, <1>4, <1>5, <2>1, SameStage
  <2> QED BY <2>1, <2>2
<1>7. (AllGroups \ todo)' = {}
  BY <1>2, <1>6
<1>8. HasTables(AllGroups \ todo)' /\ HasPrio(AllGroups \ todo)'
  BY <1>6, <1>7
<1>9. InGroups'
  BY <1>1, <1>2, <1>6, <1>8 DEF InGroups, NoPass
<1> QED BY <1>9 DEF LoadInv

LEMMA LoadGroupRight ==
  ASSUME InGroups, NEW g \in todo, LoadGroup(g)
  PROVE  LoadInv'
<1>0. PICK T : T = AllGroups \ todo
  OBVIOUS
<1>1. /\ phase = "groups" /\ Settled /\ NoPass /\ todo \subseteq AllGroups
      /\ HasProcs(AllPrograms) /\ HasTables(T) /\ HasPrio(T)
  BY <1>0, Zenon DEF InGroups
<1>2. /\ todo' = todo \ {g} /\ disk' = disk /\ stack' = stack
      /\ UNCHANGED <<phase, procs, order, then>>
  BY DEF LoadGroup, later
<1>3. T \subseteq AllGroups /\ g \in AllGroups /\ g \notin T /\ AllGroups \ todo' = T \cup {g}
  BY <1>0, <1>1, <1>2
<1>4. HasTables(T \cup {g})' /\ HasPrio(T \cup {g})'
  BY <1>1, <1>3, GroupStep
<1>5. Settled' /\ AllPrograms' = AllPrograms /\ AllGroups' = AllGroups /\ HasProcs(AllPrograms)'
  <2>1. PICK P : P = AllPrograms
    OBVIOUS
  <2>2. Settled' /\ AllPrograms' = P /\ AllGroups' = AllGroups /\ HasProcs(P)'
    BY <1>1, <1>2, <2>1, SameStage
  <2> QED BY <2>1, <2>2
<1>6. HasTables(AllGroups \ todo)' /\ HasPrio(AllGroups \ todo)'
  <2>1. (AllGroups \ todo)' = T \cup {g}
    BY <1>3, <1>5
  <2> QED BY <1>4, <2>1
<1>7. InGroups'
  BY <1>1, <1>2, <1>3, <1>5, <1>6 DEF InGroups, NoPass
<1> QED BY <1>7 DEF LoadInv

\* The manager keeps what it has.
LEMMA PassRight ==
  ASSUME Complete, UNCHANGED loaded, phase' \in {"start", "stop", "down"}, OrderInv'
  PROVE  LoadInv'
<1>1. /\ disk' = disk /\ stack' = stack /\ procs' = procs /\ groups' = groups /\ prio' = prio
  BY DEF loaded
<1>2. Settled /\ HasProcs(AllPrograms) /\ HasTables(AllGroups) /\ HasPrio(AllGroups)
  BY Zenon DEF Complete
<1>3. PICK P, G : P = AllPrograms /\ G = AllGroups
  OBVIOUS
<1>4. Settled' /\ AllPrograms' = P /\ AllGroups' = G /\ HasProcs(P)' /\ HasTables(G)' /\ HasPrio(G)'
  BY <1>1, <1>2, <1>3, SameStage
<1>5. Complete'
  BY <1>4 DEF Complete
<1>6. InPasses'
  BY <1>5 DEF InPasses
<1> QED BY <1>6 DEF LoadInv

LEMMA BeginStartRight ==
  ASSUME InGroups, BeginStart
  PROVE  LoadInv'
<1>1. /\ todo = {} /\ phase' = "start" /\ UNCHANGED loaded /\ procs' = procs
      /\ todo' \subseteq DOMAIN procs /\ order' = <<>> /\ then' = {}
  BY DEF BeginStart, InGroups, NoPass, later, loaded
<1>2. Complete
  <2>1. AllGroups \ todo = AllGroups
    BY <1>1
  <2>2. Settled /\ HasProcs(AllPrograms) /\ HasTables(AllGroups \ todo) /\ HasPrio(AllGroups \ todo)
    BY Zenon DEF InGroups
  <2> QED BY <2>1, <2>2 DEF Complete
<1>3. OrderInv'
  BY <1>1, PassBegins
<1> QED BY <1>1, <1>2, <1>3, PassRight

LEMMA NextProcessRight ==
  ASSUME InPasses, NEW n, StartNext(n) \/ StopNext(n)
  PROVE  LoadInv'
<1>1. OrderInv'
  BY StartNextStep, StopNextStep DEF InPasses
<1>2. Complete /\ UNCHANGED loaded /\ phase' \in {"start", "stop", "down"}
  BY DEF InPasses, StartNext, StopNext
<1> QED BY <1>1, <1>2, PassRight

\* A request, the second half of a restart, and the shutdown begin a pass.
LEMMA RequestRight ==
  ASSUME InPasses, NEW pass \in {"start", "stop"}, NEW S, S \subseteq DOMAIN procs,
         NEW next, next \subseteq DOMAIN procs, Request(pass, S, next)
  PROVE  LoadInv'
<1>1. /\ phase' \in {"start", "stop", "down"} /\ todo' = S /\ then' = next /\ order' = <<>>
      /\ UNCHANGED loaded /\ procs' = procs
  BY DEF Request, loaded
<1>2. OrderInv'
  BY <1>1, PassBegins
<1> QED BY <1>1, <1>2, PassRight DEF InPasses

LEMMA OtherPassRight ==
  ASSUME InPasses, RestartStarts \/ StopAll
  PROVE  LoadInv'
<1>1. OrderInv /\ Complete
  BY DEF InPasses
<1>2. phase' \in {"start", "stop", "down"} /\ UNCHANGED loaded /\ procs' = procs /\ order' = <<>>
      /\ todo' \subseteq DOMAIN procs /\ then' \subseteq DOMAIN procs
  BY <1>1 DEF RestartStarts, StopAll, loaded, OrderInv
<1>3. OrderInv'
  BY <1>2, PassBegins
<1> QED BY <1>1, <1>2, <1>3, PassRight

\* The phase tells what holds.
LEMMA Stages ==
  ASSUME LoadInv
  PROVE  /\ phase = "files" => InFiles
         /\ phase = "programs" => InPrograms
         /\ phase = "groups" => InGroups
         /\ phase \in {"start", "stop", "down"} => InPasses
         /\ phase = "rejected" => Refused
BY DEF LoadInv, InFiles, Refused, InPrograms, InGroups, InPasses

\* A step of any process or request.
LEMMA LoadNext ==
  ASSUME LoadInv, Next
  PROVE  LoadInv'
<1>1. CASE OpenMain
  BY <1>1, Stages, OpenMainRight DEF OpenMain
<1>2. CASE Pattern
  BY <1>2, Stages, PatternRight DEF Pattern
<1>3. CASE Include
  BY <1>3, Stages, IncludeRight DEF Include
<1>4. CASE Merge
  BY <1>4, Stages, MergeRight DEF Merge
<1>5. CASE Check
  BY <1>5, Stages, CheckStep DEF Check
<1>6. ASSUME NEW x \in todo, LoadProgram(x) PROVE LoadInv'
  BY <1>6, Stages, LoadProgramRight DEF LoadProgram
<1>7. ASSUME NEW x \in todo, LoadGroup(x) PROVE LoadInv'
  BY <1>7, Stages, LoadGroupRight DEF LoadGroup
<1>8. ASSUME NEW x \in todo, StartNext(x) \/ StopNext(x) PROVE LoadInv'
  BY <1>8, Stages, NextProcessRight DEF StartNext, StopNext
<1>9. CASE BeginGroups
  BY <1>9, Stages, BeginGroupsRight DEF BeginGroups
<1>10. CASE BeginStart
  BY <1>10, Stages, BeginStartRight DEF BeginStart
<1>11. ASSUME NEW pass \in {"start", "stop"}, NEW S, S \subseteq DOMAIN procs,
              NEW next, next \subseteq DOMAIN procs, Request(pass, S, next)
       PROVE  LoadInv'
  <2>1. InPasses
    BY <1>11, Stages DEF Request, Idle
  <2> QED BY <1>11, <2>1, RequestRight
<1>12. CASE StartAllOrdered \/ StopAllOrdered \/ RestartAllOrdered
  <2>1. orderedNames \subseteq DOMAIN procs
    BY DEF orderedNames
  <2>2. CASE StartAllOrdered
    BY <1>11, <2>1, <2>2 DEF StartAllOrdered
  <2>3. CASE StopAllOrdered
    BY <1>11, <2>1, <2>3 DEF StopAllOrdered
  <2>4. CASE RestartAllOrdered
    BY <1>11, <2>1, <2>4 DEF RestartAllOrdered
  <2> QED BY <1>12, <2>2, <2>3, <2>4
<1>13. ASSUME NEW g, StartGroup(g) \/ StopGroup(g) \/ RestartGroup(g) PROVE LoadInv'
  <2>1. groupProcesses(g) \subseteq DOMAIN procs
    BY DEF groupProcesses
  <2>2. CASE StartGroup(g)
    BY <1>11, <2>1, <2>2 DEF StartGroup
  <2>3. CASE StopGroup(g)
    BY <1>11, <2>1, <2>3 DEF StopGroup
  <2>4. CASE RestartGroup(g)
    BY <1>11, <2>1, <2>4 DEF RestartGroup
  <2> QED BY <1>13, <2>2, <2>3, <2>4
<1>14. CASE RestartStarts \/ StopAll
  <2>1. InPasses
    BY <1>14, Stages DEF RestartStarts, StopAll, Idle
  <2> QED BY <1>14, <2>1, OtherPassRight
<1> QED BY <1>1, <1>2, <1>3, <1>4, <1>5, <1>6, <1>7, <1>8, <1>9, <1>10, <1>12, <1>13, <1>14 DEF Next

\* And a step that changes nothing.
LEMMA LoadStutter ==
  ASSUME LoadInv, UNCHANGED vars
  PROVE  LoadInv'
<1>1. /\ disk' = disk /\ stack' = stack /\ seen' = seen /\ phase' = phase /\ todo' = todo
      /\ procs' = procs /\ groups' = groups /\ prio' = prio /\ order' = order /\ then' = then
      /\ UNCHANGED loaded
  BY DEF vars, loaded, later
<1>2. CASE phase = "files"
  <2>1. ReadingInv /\ TakenInv /\ InFiles
    BY <1>2, Stages DEF InFiles
  <2>2. ReadingInv'
    <3>1. /\ \A f : Patterns(f)' = Patterns(f)
          /\ \A f : Loads(f)' <=> Loads(f)
          /\ Reachable' = Reachable
          /\ \A F : FrameInv(F)' <=> FrameInv(F)
      BY <1>1, SameFiles, SameFrame
    <3> QED BY <1>1, <2>1, <3>1 DEF ReadingInv
  <2>3. ASSUME NEW h, NEW i, NEW x PROVE Taken(h, i, x)' <=> Taken(h, i, x)
    <3>1. /\ \A f : Patterns(f)' = Patterns(f)
          /\ \A F : DoneAt(F, i, x)' <=> DoneAt(F, i, x)
      BY <1>1, SameFiles, SameFrame
    <3> QED BY <1>1, <3>1 DEF Taken
  <2>4. TakenInv'
    BY <1>1, <2>1, <2>3 DEF TakenInv
  <2>5. InFiles'
    BY <1>1, <2>1, <2>2, <2>4 DEF InFiles, NoPass
  <2> QED BY <2>5 DEF LoadInv
<1>3. CASE phase = "rejected"
  <2>1. Refused'
    BY <1>1, <1>3, Stages, SameWritten DEF Refused
  <2> QED BY <2>1 DEF LoadInv
<1>4. CASE phase = "programs"
  <2>1. PICK P, S : P = AllPrograms /\ S = AllPrograms \ todo
    OBVIOUS
  <2>2. Settled /\ NoPass /\ todo \subseteq P /\ prio = Nothing /\ HasProcs(S) /\ HasOwn(S)
    BY <1>4, <2>1, Stages DEF InPrograms
  <2>3. Settled' /\ AllPrograms' = P /\ HasProcs(S)' /\ HasOwn(S)'
    BY <1>1, <2>1, <2>2, SameStage
  <2>4. (AllPrograms \ todo)' = S
    BY <1>1, <2>1, <2>3
  <2>5. HasProcs(AllPrograms \ todo)' /\ HasOwn(AllPrograms \ todo)'
    BY <2>3, <2>4
  <2>6. InPrograms'
    BY <1>1, <1>4, <2>2, <2>3, <2>5 DEF InPrograms, NoPass
  <2> QED BY <2>6 DEF LoadInv
<1>5. CASE phase = "groups"
  <2>1. PICK P, G, T : P = AllPrograms /\ G = AllGroups /\ T = AllGroups \ todo
    OBVIOUS
  <2>2. Settled /\ NoPass /\ todo \subseteq G /\ HasProcs(P) /\ HasTables(T) /\ HasPrio(T)
    BY <1>5, <2>1, Stages DEF InGroups
  <2>3. Settled' /\ AllPrograms' = P /\ AllGroups' = G /\ HasProcs(P)' /\ HasTables(T)' /\ HasPrio(T)'
    BY <1>1, <2>1, <2>2, SameStage
  <2>4. (AllGroups \ todo)' = T
    BY <1>1, <2>1, <2>3
  <2>5. HasTables(AllGroups \ todo)' /\ HasPrio(AllGroups \ todo)' /\ HasProcs(AllPrograms)'
    BY <2>3, <2>4
  <2>6. InGroups'
    BY <1>1, <1>5, <2>2, <2>3, <2>5 DEF InGroups, NoPass
  <2> QED BY <2>6 DEF LoadInv
<1>6. CASE phase \in {"start", "stop", "down"}
  <2>1. Complete /\ OrderInv
    BY <1>6, Stages DEF InPasses
  <2>2. \A x, y : Less(x, y)' <=> Less(x, y)
    BY <1>1 DEF Less, GroupKey
  <2>3. OrderInv'
    BY <1>1, <2>1, <2>2 DEF OrderInv, StartSorted, StopSorted
  <2> QED BY <1>1, <1>6, <2>1, <2>3, PassRight
<1> QED BY <1>2, <1>3, <1>4, <1>5, <1>6 DEF LoadInv, InFiles, Refused, InPrograms, InGroups, InPasses

LEMMA Inductive == Spec => []LoadInv
<1>1. LoadInv /\ [Next]_vars => LoadInv'
  BY LoadNext, LoadStutter
<1> QED BY LoadInit, <1>1, PTL DEF Spec

-----------------------------------------------------------------------------
(***************************************************************************)
(* What the runs check.                                                    *)
(***************************************************************************)
\* The process of an instance has its command.
LEMMA CommandRight ==
  ASSUME Settled, HasProcs(AllPrograms), NEW n \in DOMAIN procs
  PROVE  CommandKept(n)
<1>1. PICK i \in InstancesOf(AllPrograms) : n = NameOf(cfg.programs, i)
  BY DEF HasProcs, Maps, NamesOf
<1> DEFINE name == i[1]
           k == i[2]
           L == cfg.programs[name]
<1>2. i \in Instances(cfg.programs) /\ name \in AllPrograms /\ k \in 0..L.numprocs - 1
  <2>1. i \in Instances(cfg.programs)
    BY <1>1, Zenon DEF InstancesOf
  <2>2. PICK m \in AllPrograms : \E j \in 0..cfg.programs[m].numprocs - 1 : i = <<m, j>>
    BY <2>1, InstanceIs
  <2> QED BY <2>1, <2>2
<1>3. procs[n] = NewProcess(name, k)
  BY <1>1, Zenon DEF HasProcs
<1>0. \A m \in AllPrograms :
        /\ cfg.programs[m].numprocs \in Int /\ cfg.programs[m].numprocs >= 1
        /\ \E f \in Reachable : f \in DOMAIN disk /\ m \in DOMAIN disk[f].programs
                               /\ cfg.programs[m] = Loaded(f).programs[m]
  <2>1. \A m \in DOMAIN cfg.programs :
          /\ cfg.programs[m].priority \in Priorities
          /\ cfg.programs[m].numprocs \in Int /\ cfg.programs[m].numprocs >= 1
          /\ \E f \in Reachable : /\ f \in DOMAIN disk /\ m \in DOMAIN disk[f].programs
                                  /\ cfg.programs[m] = Loaded(f).programs[m]
    BY SettledHas
  <2>2. ASSUME NEW m \in AllPrograms
        PROVE  /\ cfg.programs[m].numprocs \in Int /\ cfg.programs[m].numprocs >= 1
               /\ \E f \in Reachable : f \in DOMAIN disk /\ m \in DOMAIN disk[f].programs
                                      /\ cfg.programs[m] = Loaded(f).programs[m]
    <3>1. m \in DOMAIN cfg.programs
      BY DEF AllPrograms
    <3> QED BY <2>1, <3>1
  <2> QED BY <2>2
<1>4. PICK f \in Reachable : f \in DOMAIN disk /\ name \in DOMAIN disk[f].programs /\ L = Loaded(f).programs[name]
  BY <1>0, <1>2, Zenon
<1>5. L.numprocs \in Int /\ L.numprocs >= 1
  BY <1>0, <1>2, Zenon
<1> DEFINE p == Written(f, name)
<1>6. disk \in Disks
  BY Zenon DEF Settled
<1>7. /\ L.numprocs = p.numprocs /\ L.start = p.start /\ p.start \in Int /\ p.command \in Texts
      /\ L.command = expandString(p.command, f, name, p)
  BY <1>4, <1>6, LoadedProgram
<1>8. IsInstance(f, name, p, k)
  <2>1. Dir[f] \in Texts /\ name \in Texts
    BY <1>4, <1>6, WrittenHas
  <2> HIDE DEF L, p, name, k
  <2>2. k \in Int /\ (p.numprocs <= 1 => k = 0) /\ p.numprocs \in Int
    BY <1>2, <1>5, <1>7
  <2> QED BY <1>7, <2>1, <2>2, Zenon DEF IsInstance
<1>9. procs[n].program = name /\ procs[n].k = k /\ procs[n].command = Numbered(L.command, p, k)
  <2>1. /\ NewProcess(name, k).program = name /\ NewProcess(name, k).k = k
        /\ NewProcess(name, k).command = IF L.numprocs > 1
                                         THEN Rewrite(L.command, Only(<<"%", "(num)">>, Numeral(L.start + k)))
                                         ELSE L.command
    BY Zenon DEF NewProcess
  <2>2. Numbered(L.command, p, k) = IF L.numprocs > 1
                                    THEN Rewrite(L.command, Only(<<"%", "(num)">>, Numeral(L.start + k)))
                                    ELSE L.command
    <3> HIDE DEF L, p
    <3>1. L.numprocs = p.numprocs /\ L.start = p.start
      BY <1>7
    <3> QED BY <3>1, Zenon DEF Numbered, Numbers
  <2> HIDE DEF L, p
  <2> QED BY <1>3, <2>1, <2>2, Zenon
<1>10. Clear(p.command, f, name, p, k) => procs[n].command = Meaning(p.command, f, name, p, k)
  <2> HIDE DEF p, L, name, k
  <2>1. Clear(p.command, f, name, p, k) => Right(p.command, f, name, p, k)
    BY <1>7, <1>8, RightClear
  <2> QED BY <1>7, <1>9, <2>1, Zenon DEF Right
<1> QED BY <1>4, <1>9, <1>10, Zenon DEF CommandKept, Written

LEMMA LoadedHolds ==
  ASSUME LoadInv
  PROVE  LoadedAsWritten
<1>1. phase = "rejected" => ~Acceptable
  BY Stages DEF Refused
<1>2. phase \in {"programs", "groups", "start", "stop", "down"} => Settled
  BY Stages DEF InPrograms, InGroups, InPasses, Complete
<1>3. Settled => Acceptable
  BY DEF Settled
<1>4. ASSUME phase \in {"groups", "start", "stop", "down"}
      PROVE  /\ Instances(ProgramsWritten) = {<<procs[n].program, procs[n].k>> : n \in DOMAIN procs}
             /\ \A m, n \in DOMAIN procs :
                  procs[m].program = procs[n].program /\ procs[m].k = procs[n].k => m = n
             /\ \A n \in DOMAIN procs : CommandKept(n)
  <2>1. Settled /\ HasProcs(AllPrograms)
    BY <1>4, Stages DEF InGroups, InPasses, Complete
  <2>2. cfg.programs = ProgramsWritten
    BY <2>1 DEF Settled
  <2>3. /\ InstancesOf(AllPrograms) = Instances(cfg.programs)
        /\ \A i \in Instances(cfg.programs) : i = <<i[1], i[2]>>
    BY <2>1, InstanceIs
  <2>4. \A i \in Instances(cfg.programs) :
          procs[NameOf(cfg.programs, i)].program = i[1] /\ procs[NameOf(cfg.programs, i)].k = i[2]
    <3>1. \A name, k : NewProcess(name, k).program = name /\ NewProcess(name, k).k = k
      BY Zenon DEF NewProcess
    <3>2. \A i \in Instances(cfg.programs) : procs[NameOf(cfg.programs, i)] = NewProcess(i[1], i[2])
      BY <2>1, <2>3 DEF HasProcs
    <3>3. ASSUME NEW i \in Instances(cfg.programs)
          PROVE  procs[NameOf(cfg.programs, i)].program = i[1] /\ procs[NameOf(cfg.programs, i)].k = i[2]
      <4>1. procs[NameOf(cfg.programs, i)] = NewProcess(i[1], i[2])
        BY <3>2, Zenon
      <4> QED BY <3>1, <4>1
    <3> QED BY <3>3
  <2>5. \A n : n \in DOMAIN procs <=> \E i \in Instances(cfg.programs) : n = NameOf(cfg.programs, i)
    <3>1. DOMAIN procs = NamesOf(AllPrograms)
      BY <2>1 DEF HasProcs, Maps
    <3> QED BY <2>3, <3>1, Zenon DEF NamesOf
  <2>6. \A n \in DOMAIN procs :
          /\ <<procs[n].program, procs[n].k>> \in Instances(cfg.programs)
          /\ n = NameOf(cfg.programs, <<procs[n].program, procs[n].k>>)
    <3> SUFFICES ASSUME NEW n \in DOMAIN procs
        PROVE  /\ <<procs[n].program, procs[n].k>> \in Instances(cfg.programs)
               /\ n = NameOf(cfg.programs, <<procs[n].program, procs[n].k>>)
      OBVIOUS
    <3>1. PICK i \in Instances(cfg.programs) : n = NameOf(cfg.programs, i)
      BY <2>5
    <3>2. <<procs[n].program, procs[n].k>> = i
      BY <2>3, <2>4, <3>1
    <3> QED BY <3>1, <3>2
  <2>7. \A i \in Instances(cfg.programs) : \E n \in DOMAIN procs : i = <<procs[n].program, procs[n].k>>
    BY <2>3, <2>4, <2>5
  <2>8. Instances(ProgramsWritten) = {<<procs[n].program, procs[n].k>> : n \in DOMAIN procs}
    BY <2>2, <2>6, <2>7
  <2>9. \A m, n \in DOMAIN procs : procs[m].program = procs[n].program /\ procs[m].k = procs[n].k => m = n
    BY <2>6, Zenon
  <2>10. \A n \in DOMAIN procs : CommandKept(n)
    BY <2>1, CommandRight
  <2> QED BY <2>8, <2>9, <2>10
<1> QED BY <1>1, <1>2, <1>3, <1>4, Zenon DEF LoadedAsWritten

LEMMA GroupsHold ==
  ASSUME LoadInv
  PROVE  GroupsAsWritten
<1> SUFFICES ASSUME phase \in {"start", "stop", "down"}, DOMAIN GroupsWritten \cap DOMAIN ProgramsWritten = {}
    PROVE  groups = [g \in DOMAIN GroupsWritten |-> Of(GroupsWritten[g].programs)]
                    ++ [p \in DOMAIN ProgramsWritten |-> Of({p})]
  BY DEF GroupsAsWritten
<1>1. Settled /\ HasProcs(AllPrograms) /\ HasTables(AllGroups)
  BY Stages DEF InPasses, Complete
<1>2. cfg.programs = ProgramsWritten /\ cfg.groups = GroupsWritten
  BY <1>1 DEF Settled
<1>3. groups = [g \in AllGroups |-> NamesOf(cfg.groups[g].programs)] ++ [p \in AllPrograms |-> NamesOf({p})]
  <2>1. AllGroups \cap AllPrograms = {}
    BY <1>2 DEF AllGroups, AllPrograms
  <2> QED BY <1>1, <2>1 DEF HasTables
<1>4. \A g \in AllGroups : NamesOf(cfg.groups[g].programs) = Of(cfg.groups[g].programs)
  <2>1. \A g \in AllGroups : cfg.groups[g].programs \subseteq AllPrograms
    BY <1>1, SettledHas DEF AllGroups, AllPrograms
  <2> QED BY <1>1, <2>1, OfIs
<1>5. \A p \in AllPrograms : NamesOf({p}) = Of({p})
  BY <1>1, OfIs
<1>6. /\ [g \in AllGroups |-> NamesOf(cfg.groups[g].programs)] = [g \in AllGroups |-> Of(cfg.groups[g].programs)]
      /\ [p \in AllPrograms |-> NamesOf({p})] = [p \in AllPrograms |-> Of({p})]
  BY <1>4, <1>5
<1> QED BY <1>2, <1>3, <1>6 DEF AllGroups, AllPrograms

LEMMA OrderHolds ==
  ASSUME LoadInv
  PROVE  StartedInOrder
<1> SUFFICES ASSUME NEW i \in DOMAIN order, NEW j \in DOMAIN order, i < j
    PROVE  /\ phase = "start" => Rank(order[i]) <= Rank(order[j])
           /\ phase \in {"stop", "down"} => Rank(order[i]) >= Rank(order[j])
  BY DEF StartedInOrder
<1>1. ASSUME phase \in {"start", "stop", "down"}
      PROVE  /\ Complete /\ OrderInv /\ i \in 1..Len(order) /\ j \in 1..Len(order)
             /\ order[i] \in DOMAIN procs /\ order[j] \in DOMAIN procs
  <2>1. Complete /\ OrderInv
    BY <1>1, Stages DEF InPasses
  <2>2. order \in Seq(DOMAIN procs)
    BY <2>1 DEF OrderInv
  <2>3. DOMAIN order = 1..Len(order)
    BY <2>2, LenProperties
  <2> QED BY <2>1, <2>2, <2>3, ElementOfSeq
<1>2. CASE phase = "start"
  <2>1. ~Less(order[j], order[i])
    BY <1>1, <1>2 DEF OrderInv, StartSorted
  <2>2. Rank(order[i]) <= Rank(order[j])
    BY <1>1, <1>2, <2>1, RankIs
  <2> QED BY <1>2, <2>2
<1>3. CASE phase \in {"stop", "down"}
  <2>1. ~Less(order[i], order[j])
    BY <1>1, <1>3 DEF OrderInv, StopSorted
  <2>2. Rank(order[j]) <= Rank(order[i])
    BY <1>1, <1>3, <2>1, RankIs
  <2> QED BY <1>3, <2>2
<1> QED BY <1>2, <1>3

-----------------------------------------------------------------------------
\* LoadWithIncludes refuses a configuration exactly if its files do not form a tree, one of
\* them does not load, or names or references clash, whatever the order in which it reads
\* them; else LoadConfig makes one process of every instance of every program, with the
\* command that the file means.
THEOREM LoadedRight == Spec => []LoadedAsWritten
<1>1. LoadInv => LoadedAsWritten
  BY LoadedHolds
<1> QED BY Inductive, <1>1, PTL

\* LoadConfig gives every program a group of its instances and every [groups] table the
\* processes of its programs, also if an included file redefines the table, if no table has
\* the name of a program.
THEOREM GroupsRight == Spec => []GroupsAsWritten
<1>1. LoadInv => GroupsAsWritten
  BY GroupsHold
<1> QED BY Inductive, <1>1, PTL

\* AutostartAll, StopAll and every request for all processes or a group visit processes in
\* the order of the priorities in the files, the stops in the reverse order.
THEOREM OrderRight == Spec => []StartedInOrder
<1>1. LoadInv => StartedInOrder
  BY OrderHolds
<1> QED BY Inductive, <1>1, PTL
=============================================================================
