---------------------------- MODULE EventsProofs ----------------------------
(***************************************************************************)
(* Theorems about Events, for every set of publishers, types, streams and  *)
(* listeners, every size of the queues and every number of events.         *)
(***************************************************************************)
EXTENDS Events, FiniteSetTheorems, SequenceTheorems, TLAPS

-----------------------------------------------------------------------------
(***************************************************************************)
(* Sequences in which nothing occurs twice.                                *)
(***************************************************************************)
\* What a sequence has after an element was appended.
LEMMA AppendHas ==
  ASSUME NEW S, NEW q \in Seq(S), NEW x \in S
  PROVE  /\ Append(q, x) \in Seq(S)
         /\ ToSet(Append(q, x)) = ToSet(q) \cup {x}
         /\ IsInjective(q) /\ x \notin ToSet(q) => IsInjective(Append(q, x))
<1>1. /\ Append(q, x) \in Seq(S) /\ Len(Append(q, x)) = Len(q) + 1
      /\ \A i \in 1..Len(q) : Append(q, x)[i] = q[i]
      /\ Append(q, x)[Len(q) + 1] = x
  BY AppendProperties
<1>2. Len(q) \in Nat /\ DOMAIN q = 1..Len(q) /\ DOMAIN Append(q, x) = 1..Len(q) + 1
  BY <1>1, LenProperties
<1> QED BY <1>1, <1>2 DEF ToSet, IsInjective

\* What a sequence has without its head.
LEMMA TailHas ==
  ASSUME NEW S, NEW q \in Seq(S), q # <<>>
  PROVE  /\ Tail(q) \in Seq(S) /\ Head(q) \in S
         /\ ToSet(q) = ToSet(Tail(q)) \cup {Head(q)}
         /\ IsInjective(q) => IsInjective(Tail(q)) /\ Head(q) \notin ToSet(Tail(q))
<1>1. /\ Tail(q) \in Seq(S) /\ Head(q) \in S /\ Len(Tail(q)) = Len(q) - 1
      /\ \A i \in 1..Len(Tail(q)) : Tail(q)[i] = q[i + 1]
  BY HeadTailProperties
<1>2. Len(q) \in Nat \ {0} /\ DOMAIN q = 1..Len(q) /\ DOMAIN Tail(q) = 1..Len(q) - 1
  BY <1>1, LenProperties, EmptySeq
<1>3. Head(q) = q[1]
  OBVIOUS
<1>4. \A i \in 1..Len(q) : i = 1 \/ (i - 1 \in 1..Len(q) - 1 /\ q[i] = Tail(q)[i - 1])
  BY <1>1, <1>2
<1>5. ToSet(q) = ToSet(Tail(q)) \cup {Head(q)}
  <2>1. \A i \in DOMAIN q : q[i] = Head(q) \/ \E j \in DOMAIN Tail(q) : q[i] = Tail(q)[j]
    BY <1>2, <1>3, <1>4
  <2>2. Head(q) \in ToSet(q) /\ \A j \in DOMAIN Tail(q) : Tail(q)[j] \in ToSet(q)
    BY <1>1, <1>2, <1>3 DEF ToSet
  <2> QED BY <2>1, <2>2 DEF ToSet
<1>6. IsInjective(q) => IsInjective(Tail(q)) /\ Head(q) \notin ToSet(Tail(q))
  BY <1>1, <1>2, <1>3 DEF ToSet, IsInjective
<1> QED BY <1>1, <1>5, <1>6

\* What a sequence has from which an element was taken out.
LEMMA RemoveHas ==
  ASSUME NEW S, NEW q \in Seq(S), IsInjective(q), NEW x
  PROVE  /\ RemoveFirst(q, x) \in Seq(S)
         /\ ToSet(RemoveFirst(q, x)) = ToSet(q) \ {x}
         /\ IsInjective(RemoveFirst(q, x))
<1>0. Len(q) \in Nat /\ DOMAIN q = 1..Len(q)
  BY LenProperties
<1>1. CASE ~ \E i \in 1..Len(q) : q[i] = x
  BY <1>0, <1>1 DEF RemoveFirst, ToSet
<1>2. ASSUME NEW i \in 1..Len(q), q[i] = x
      PROVE  /\ RemoveFirst(q, x) \in Seq(S)
             /\ ToSet(RemoveFirst(q, x)) = ToSet(q) \ {x}
             /\ IsInjective(RemoveFirst(q, x))
  <2>1. {j \in 1..Len(q) : q[j] = x} = {i}
    BY <1>0, <1>2 DEF IsInjective
  <2>2. Min({i}) = i
    BY DEF Min
  <2>3. SelectInSeq(q, LAMBDA v : v = x) = i
    BY <2>1, <2>2 DEF SelectInSeq
  <2> DEFINE r == RemoveAt(q, i)
             a == SubSeq(q, 1, i - 1)
             b == SubSeq(q, i + 1, Len(q))
  <2>4. RemoveFirst(q, x) = r
    BY <1>2, <2>3 DEF RemoveFirst
  <2>5. a \in Seq(S) /\ Len(a) = i - 1 /\ \A j \in 1..i - 1 : a[j] = q[j]
    <3>1. \A j \in 1..i - 1 : q[j] \in S
      BY <1>0, <1>2, ElementOfSeq
    <3> QED BY <1>0, <1>2, <3>1, SubSeqProperties
  <2>6. b \in Seq(S) /\ Len(b) = Len(q) - i /\ \A j \in 1..Len(q) - i : b[j] = q[i + j]
    <3>1. \A j \in i + 1..Len(q) : q[j] \in S
      BY <1>0, <1>2, ElementOfSeq
    <3>2. i + 1 \in Int /\ Len(q) \in Int
      BY <1>0
    <3>3. b \in Seq(S)
      BY <3>1, <3>2, SubSeqProperties
    <3>4. /\ i + 1 <= Len(q) => Len(b) = Len(q) - (i + 1) + 1
          /\ ~(i + 1 <= Len(q)) => Len(b) = 0
      BY <3>1, <3>2, SubSeqProperties
    <3>5. \A j \in 1..Len(q) - (i + 1) + 1 : b[j] = q[i + 1 + j - 1]
      BY <3>1, <3>2, SubSeqProperties
    <3> HIDE DEF b
    <3>6. Len(b) = Len(q) - i
      <4>1. i \in Nat /\ Len(q) \in Nat /\ i <= Len(q)
        BY <1>0
      <4>2. Len(q) - (i + 1) + 1 = Len(q) - i /\ (~(i + 1 <= Len(q)) => Len(q) - i = 0)
        BY <4>1
      <4> QED BY <3>4, <4>2
    <3>7. \A j \in 1..Len(q) - i : j \in 1..Len(q) - (i + 1) + 1 /\ i + 1 + j - 1 = i + j
      BY <1>0
    <3>8. \A j \in 1..Len(q) - i : b[j] = q[i + j]
      BY <3>5, <3>7
    <3> QED BY <3>3, <3>6, <3>8
  <2>7. /\ r \in Seq(S) /\ Len(r) = Len(q) - 1
        /\ \A j \in 1..Len(q) - 1 : r[j] = IF j < i THEN q[j] ELSE q[j + 1]
    <3> HIDE DEF a, b
    <3>1. /\ a \o b \in Seq(S) /\ Len(a \o b) = Len(a) + Len(b)
          /\ \A j \in 1..Len(a) + Len(b) : (a \o b)[j] = IF j <= Len(a) THEN a[j] ELSE b[j - Len(a)]
      BY <2>5, <2>6, ConcatProperties
    <3>2. r = a \o b
      BY DEF RemoveAt, a, b
    <3>3. ASSUME NEW j \in 1..Len(q) - 1 PROVE r[j] = IF j < i THEN q[j] ELSE q[j + 1]
      <4>1. i \in Nat /\ j \in Nat /\ Len(q) \in Nat /\ i <= Len(q) /\ j <= Len(q) - 1 /\ 1 <= j
        BY <1>0
      <4>2. j \in 1..Len(a) + Len(b)
        BY <2>5, <2>6, <4>1
      <4>3. (a \o b)[j] = IF j <= Len(a) THEN a[j] ELSE b[j - Len(a)]
        BY <3>1, <4>2
      <4>4. CASE j < i
        <5>1. j <= Len(a) /\ j \in 1..i - 1
          BY <2>5, <4>1, <4>4
        <5> QED BY <2>5, <3>2, <4>3, <4>4, <5>1
      <4>5. CASE ~(j < i)
        <5>1. ~(j <= i - 1) /\ j - (i - 1) \in 1..Len(q) - i /\ i + (j - (i - 1)) = j + 1
          BY <4>1, <4>5
        <5>2. (a \o b)[j] = b[j - (i - 1)] /\ b[j - (i - 1)] = q[i + (j - (i - 1))]
          BY <2>5, <2>6, <4>3, <5>1
        <5> QED BY <3>2, <4>5, <5>1, <5>2
      <4> QED BY <4>4, <4>5
    <3>4. Len(r) = Len(q) - 1
      <4>1. Len(r) = (i - 1) + (Len(q) - i)
        BY <2>5, <2>6, <3>1, <3>2
      <4> QED BY <1>0, <4>1
    <3> QED BY <3>1, <3>2, <3>3, <3>4
  <2> HIDE DEF r, a, b
  <2>8. DOMAIN r = 1..Len(q) - 1
    BY <2>7, LenProperties
  <2>9. IsInjective(r)
    BY <1>0, <2>7, <2>8, SMTT(30) DEF IsInjective
  <2>10. \A j \in 1..Len(q) : j # i => \E k \in 1..Len(q) - 1 : r[k] = q[j]
    <3> TAKE j \in 1..Len(q)
    <3>1. CASE j < i
      BY <1>0, <1>2, <2>7, <3>1
    <3>2. CASE j > i
      <4>1. j - 1 \in 1..Len(q) - 1 /\ ~(j - 1 < i) /\ (j - 1) + 1 = j
        BY <1>0, <1>2, <3>2
      <4> QED BY <2>7, <4>1
    <3> QED BY <1>0, <1>2, <3>1, <3>2
  <2>11. \A k \in 1..Len(q) - 1 : r[k] # x /\ \E j \in 1..Len(q) : r[k] = q[j]
    BY <1>0, <1>2, <2>7, SMTT(30) DEF IsInjective
  <2>12. ToSet(r) = ToSet(q) \ {x}
    <3>1. ToSet(q) = {q[j] : j \in 1..Len(q)} /\ ToSet(r) = {r[k] : k \in 1..Len(q) - 1}
      BY <1>0, <2>8 DEF ToSet
    <3>2. \A y \in ToSet(r) : y \in ToSet(q) \ {x}
      BY <3>1, <2>11
    <3>3. \A y \in ToSet(q) \ {x} : y \in ToSet(r)
      BY <1>2, <3>1, <2>10
    <3> QED BY <3>2, <3>3
  <2> QED BY <2>4, <2>7, <2>9, <2>12
<1> QED BY <1>1, <1>2

\* A set that is finite can be listed.
LEMMA ListHas ==
  ASSUME NEW S, IsFiniteSet(S)
  PROVE  /\ SetToSeq(S) \in Seq(S) /\ IsInjective(SetToSeq(S))
         /\ ToSet(SetToSeq(S)) \subseteq S
<1>1. Cardinality(S) \in Nat /\ ExistsBijection(1..Cardinality(S), S)
  BY FS_CardinalityType
<1>2. \E f \in [1..Cardinality(S) -> S] : IsInjective(f)
  BY <1>1 DEF ExistsBijection, Bijection, Injection
<1>3. SetToSeq(S) \in [1..Cardinality(S) -> S] /\ IsInjective(SetToSeq(S))
  BY <1>2 DEF SetToSeq
<1>4. SetToSeq(S) \in Seq(S)
  BY <1>1, <1>3, SeqDef
<1> QED BY <1>3, <1>4 DEF ToSet

-----------------------------------------------------------------------------
(***************************************************************************)
(* The inductive invariant.                                                *)
(***************************************************************************)
StreamType ==
  [at : {"new", "subscribing", "open", "leaving"}, types : SUBSET Types, left : SUBSET Types]

ListenerType == [does : {"init", "waits", "works", "confused"}, said : BOOLEAN]

TypeOK ==
  /\ scenario \subseteq Subscribers /\ closing \subseteq Subscribers /\ dispatching \in BOOLEAN
  /\ subs \in [Types -> Seq(Subscribers)]
  /\ pub \in [Publishers -> [event : SUBSET Event, todo : Seq(Subscribers)]]
  /\ count \in [Publishers -> 0..MaxEvents]
  /\ ticker \in {"run", "stopping", "done"}
  /\ stream \in [Streams -> StreamType]
  /\ ch \in [Streams -> Seq(Event)] /\ got \in [Streams -> Seq(Event)]
  /\ due \in [Streams -> SUBSET Event] /\ dropped \in [Streams -> SUBSET Event]
  /\ eventCh \in Seq(Event)
  /\ lstate \in [Listeners -> {"acknowledged", "ready", "busy"}]
  /\ lproc \in [Listeners -> ListenerType]
  /\ given \in [Listeners -> SUBSET Event]
  /\ hook \in [failures : Nat, tripped : BOOLEAN]
  /\ deliveries \subseteq [event : Event, attempt : Nat]

\* The event under way is the last one of its publisher; nobody is called twice with it.
UnderWay ==
  \A p \in Publishers :
    /\ IsInjective(pub[p].todo)
    /\ pub[p].event = {} <=> pub[p].todo = <<>>
    /\ \A e \in pub[p].event : pub[p].event = {e} /\ e.by = p /\ e.n = count[p]

\* The types that a stream is subscribed to at the moment.
Wanted(s) == IF stream[s].at = "leaving" THEN stream[s].left ELSE stream[s].types \ stream[s].left

\* Nobody is subscribed twice to a type, and a stream to those of its types that its
\* handler has come to.
Subscriptions ==
  /\ \A t \in Types : IsInjective(subs[t])
  /\ \A s \in Streams :
       /\ \A t \in Types : s \in ToSet(subs[t]) <=> t \in Wanted(s)
       /\ stream[s].at = "new" => stream[s].types = {}
       /\ stream[s].at = "open" => stream[s].left = {}
       /\ stream[s].left \subseteq stream[s].types

\* The subscriber x has the events E: they were published, and x has still to be called
\* with the last one of a publisher if its turn is to come.
Has(x, E) ==
  \A e \in E : /\ e.n <= count[e.by]
               /\ x \in ToSet(pub[e.by].todo) => e.n < count[e.by]

HasStream == \A s \in Streams : Has(s, ToSet(got[s]) \cup ToSet(ch[s]))

HasPool == Has(Pool, ToSet(eventCh) \cup UNION {given[l] : l \in Listeners})

\* A stream that was never open is owed nothing.
NothingDue == \A s \in Streams : stream[s].at \in {"new", "subscribing"} => due[s] = {}

\* A listener that is ready in the pool's view waits; a READY that was not read yet is its
\* last word.
Handshake ==
  \A l \in Listeners : /\ lstate[l] = "ready" => lproc[l].does = "waits" /\ ~lproc[l].said
                       /\ lproc[l].said => lproc[l].does = "waits"

\* An event is in the queue once, or with one listener.
InOnePlace ==
  /\ IsInjective(eventCh)
  /\ \A l \in Listeners : given[l] \cap ToSet(eventCh) = {}
  /\ \A l, m \in Listeners : l # m => given[l] \cap given[m] = {}

Inv ==
  /\ TypeOK /\ UnderWay /\ Subscriptions /\ HasStream /\ HasPool /\ NothingDue
  /\ Handshake /\ InOnePlace

\* At first nobody but the pool and the webhook has subscribed, and nothing was published.
LEMMA InitInv == Init => Inv /\ StreamInOrder /\ OpenGetsAll
<1> SUFFICES ASSUME Init PROVE Inv /\ StreamInOrder /\ OpenGetsAll
  OBVIOUS
<1> DEFINE own == scenario \cap {Pool, Hook}
           first == SetToSeq(own)
<1>1. IsFiniteSet(own)
  <2>1. IsFiniteSet({Pool, Hook})
    <3>1. IsFiniteSet({Pool}) /\ {Pool, Hook} = {Pool} \cup {Hook}
      BY FS_Singleton
    <3> QED BY <3>1, FS_AddElement
  <2> QED BY <2>1, FS_Intersection
<1>2. first \in Seq(own) /\ IsInjective(first) /\ ToSet(first) \subseteq own
  BY <1>1, ListHas
<1>3. scenario \subseteq Subscribers
  BY EventsConstants DEF Init
<1>4. first \in Seq(Subscribers)
  BY <1>2, <1>3, SeqMonotonic DEF Subscribers
<1>5. \A s \in Streams : s \notin ToSet(first)
  BY <1>2, EventsConstants
<1>6. subs = [t \in Types |-> first]
  BY DEF Init, NewBus
<1> HIDE DEF own, first
<1> USE EventsConstants DEF Init, NewBus, NoClients, NewListenerPool, NewWebhookManager
<1>7. ToSet(<<>>) = {} /\ IsInjective(<<>>) /\ \A S : <<>> \in Seq(S)
  BY DEF ToSet, IsInjective
<1>8. TypeOK
  <2>1. subs \in [Types -> Seq(Subscribers)]
    BY <1>4, <1>6
  <2>2. pub \in [Publishers -> [event : SUBSET Event, todo : Seq(Subscribers)]]
    BY <1>7
  <2>3. count \in [Publishers -> 0..MaxEvents]
    OBVIOUS
  <2>4. stream \in [Streams -> StreamType] /\ lproc \in [Listeners -> ListenerType]
    BY DEF StreamType, ListenerType
  <2>5. ch \in [Streams -> Seq(Event)] /\ got \in [Streams -> Seq(Event)] /\ eventCh \in Seq(Event)
    BY <1>7
  <2> QED BY <1>3, <2>1, <2>2, <2>3, <2>4, <2>5 DEF TypeOK
<1>9. UnderWay
  BY <1>7 DEF UnderWay
<1>10. Subscriptions
  BY <1>2, <1>5, <1>6 DEF Subscriptions, Wanted
<1>11. HasStream /\ HasPool
  BY <1>7 DEF HasStream, HasPool, Has
<1>12. NothingDue /\ Handshake /\ InOnePlace
  BY <1>7 DEF NothingDue, Handshake, InOnePlace
<1>13. StreamInOrder
  BY DEF StreamInOrder
<1>14. OpenGetsAll
  BY DEF OpenGetsAll, Open
<1> QED BY <1>8, <1>9, <1>10, <1>11, <1>12, <1>13, <1>14 DEF Inv

\* What the next call of a publisher finds and does.
Delivers(p, e, x) ==
  /\ p \in Publishers /\ e \in Event /\ x \in Subscribers
  /\ pub[p].event = {e} /\ e.by = p /\ e.n = count[p]
  /\ LET rest == Tail(pub[p].todo) IN
     /\ rest \in Seq(Subscribers) /\ IsInjective(rest) /\ x \notin ToSet(rest)
     /\ ToSet(pub[p].todo) = ToSet(rest) \cup {x}
     /\ pub' = [pub EXCEPT ![p] = Publishing({e}, rest)]
  /\ \/ /\ x \in Streams
        /\ ch' = [ch EXCEPT ![x] = Put(@, e)]
        /\ dropped' = [dropped EXCEPT ![x] = IF Len(ch[x]) < QueueSize THEN @ ELSE @ \cup {e}]
        /\ UNCHANGED <<pool, webhooks>>
     \/ /\ x = Pool
        /\ eventCh' = Put(eventCh, e)
        /\ UNCHANGED <<ch, dropped, lstate, lproc, given, webhooks>>
     \/ /\ x = Hook
        /\ deliveries' = deliveries \cup {[event |-> e, attempt |-> 0]}
        /\ UNCHANGED <<ch, dropped, pool, hook, results>>
  /\ UNCHANGED <<services, subs, count, ticker, stream, got, due>>

\* Call takes the event under way to the first of the handlers.
LEMMA CallDelivers ==
  ASSUME TypeOK, UnderWay, NEW p \in Publishers, Call(p)
  PROVE  \E e \in Event, x \in Subscribers : Delivers(p, e, x)
<1> DEFINE q == pub[p].todo
<1>1. q \in Seq(Subscribers) /\ q # <<>> /\ IsInjective(q) /\ pub[p].event # {}
  BY DEF TypeOK, UnderWay, Call
<1>2. PICK e \in pub[p].event : pub[p].event = {e} /\ e.by = p /\ e.n = count[p]
  BY <1>1 DEF UnderWay
<1>3. e \in Event
  BY <1>2 DEF TypeOK
<1>4. (CHOOSE f \in pub[p].event : TRUE) = e
  BY <1>2
<1>5. /\ Tail(q) \in Seq(Subscribers) /\ Head(q) \in Subscribers
      /\ ToSet(q) = ToSet(Tail(q)) \cup {Head(q)}
      /\ IsInjective(Tail(q)) /\ Head(q) \notin ToSet(Tail(q))
  BY <1>1, TailHas
<1>6. Delivers(p, e, Head(q))
  BY <1>2, <1>3, <1>4, <1>5 DEF Delivers, Call
<1> QED BY <1>3, <1>5, <1>6

\* What Publish has begun with.
LEMMA BeginIs ==
  ASSUME TypeOK, NEW p \in Publishers, NEW t \in Types, BeginPublish(p, t)
  PROVE  LET e == [by |-> p, n |-> count[p] + 1, type |-> t] IN
         /\ e \in Event
         /\ pub' = [pub EXCEPT ![p] = Publishing({e}, subs[t])]
         /\ due' = [s \in Streams |-> IF s \in Open /\ t \in stream[s].types THEN due[s] \cup {e} ELSE due[s]]
         /\ count' = [count EXCEPT ![p] = @ + 1] /\ count[p] + 1 \in 1..MaxEvents
BY EventsConstants DEF BeginPublish, TypeOK, Event

\* A queue that is offered an event.
LEMMA PutHas ==
  ASSUME NEW q \in Seq(Event), NEW e \in Event
  PROVE  /\ Put(q, e) \in Seq(Event)
         /\ ToSet(q) \subseteq ToSet(Put(q, e)) /\ ToSet(Put(q, e)) \subseteq ToSet(q) \cup {e}
         /\ Len(q) < QueueSize => e \in ToSet(Put(q, e))
         /\ IsInjective(q) /\ e \notin ToSet(q) => IsInjective(Put(q, e))
BY AppendHas DEF Put

-----------------------------------------------------------------------------
(***************************************************************************)
(* The invariant is kept: types, publishers and subscriptions.             *)
(***************************************************************************)
\* A new event gets its number, and its handlers are called.
LEMMA PublishTyped ==
  ASSUME TypeOK, UnderWay, NEW p \in Publishers, (\E t \in Types : BeginPublish(p, t)) \/ Call(p)
  PROVE  TypeOK'
<1>1. ASSUME NEW t \in Types, BeginPublish(p, t)
      PROVE  TypeOK'
  <2> DEFINE e == [by |-> p, n |-> count[p] + 1, type |-> t]
  <2>1. /\ e \in Event /\ pub' = [pub EXCEPT ![p] = Publishing({e}, subs[t])]
        /\ due' = [s \in Streams |-> IF s \in Open /\ t \in stream[s].types THEN due[s] \cup {e} ELSE due[s]]
        /\ count' = [count EXCEPT ![p] = @ + 1] /\ count[p] + 1 \in 1..MaxEvents
    BY <1>1, BeginIs
  <2> HIDE DEF e
  <2>2. Publishing({e}, subs[t]) \in [event : SUBSET Event, todo : Seq(Subscribers)]
    BY <2>1 DEF Publishing, TypeOK
  <2>3. due' \in [Streams -> SUBSET Event] /\ count' \in [Publishers -> 0..MaxEvents]
    BY <2>1 DEF TypeOK
  <2>4. pub' \in [Publishers -> [event : SUBSET Event, todo : Seq(Subscribers)]]
    BY <2>1, <2>2 DEF TypeOK
  <2> QED BY <1>1, <2>3, <2>4 DEF TypeOK, BeginPublish, services, pool, webhooks
<1>2. ASSUME Call(p)
      PROVE  TypeOK'
  <2>1. PICK e \in Event, x \in Subscribers : Delivers(p, e, x)
    BY <1>2, CallDelivers
  <2>2. pub' \in [Publishers -> [event : SUBSET Event, todo : Seq(Subscribers)]]
    BY <2>1 DEF Delivers, Publishing, TypeOK
  <2>3. ch' \in [Streams -> Seq(Event)] /\ dropped' \in [Streams -> SUBSET Event]
    <3>1. ch \in [Streams -> Seq(Event)] /\ dropped \in [Streams -> SUBSET Event]
      BY DEF TypeOK
    <3>2. CASE UNCHANGED <<ch, dropped>>
      BY <3>1, <3>2
    <3>3. CASE /\ x \in Streams /\ ch' = [ch EXCEPT ![x] = Put(@, e)]
               /\ dropped' = [dropped EXCEPT ![x] = IF Len(ch[x]) < QueueSize THEN @ ELSE @ \cup {e}]
      BY <3>1, <3>3, PutHas
    <3> QED BY <2>1, <3>2, <3>3 DEF Delivers
  <2>4. eventCh' \in Seq(Event)
    <3>1. eventCh \in Seq(Event)
      BY DEF TypeOK
    <3>2. UNCHANGED eventCh \/ eventCh' = Put(eventCh, e)
      BY <2>1 DEF Delivers, pool
    <3> QED BY <3>1, <3>2, PutHas
  <2>5. deliveries' \subseteq [event : Event, attempt : Nat]
    BY <2>1 DEF Delivers, TypeOK, pool, webhooks
  <2> QED
    BY <2>1, <2>2, <2>3, <2>4, <2>5 DEF Delivers, TypeOK, services, pool, webhooks
<1> QED BY <1>1, <1>2

\* Streams come and go.
LEMMA StreamTyped ==
  ASSUME TypeOK, Subscriptions, NEW s \in Streams,
         \/ \E types \in SUBSET Types \ {{}} : Connect(s, types)
         \/ \E t \in Types : SubscribeNext(s, t) \/ Unsubscribe(s, t)
         \/ Flush(s) \/ WriteSSE(s) \/ Disconnect(s)
  PROVE  TypeOK'
<1> USE DEF StreamRest, services, pool, webhooks
<1>0. stream \in [Streams -> StreamType]
  BY DEF TypeOK
<1>1. ASSUME NEW types \in SUBSET Types \ {{}}, Connect(s, types)
      PROVE  TypeOK'
  <2>1. stream' \in [Streams -> StreamType]
    BY <1>0, <1>1 DEF Connect, StreamType
  <2> QED BY <1>1, <2>1 DEF Connect, TypeOK
<1>2. ASSUME NEW t \in Types, SubscribeNext(s, t)
      PROVE  TypeOK'
  <2>1. subs' \in [Types -> Seq(Subscribers)]
    BY <1>2, AppendHas DEF SubscribeNext, Subscribe, TypeOK, Subscribers
  <2>2. stream' \in [Streams -> StreamType]
    BY <1>0, <1>2 DEF SubscribeNext, StreamType
  <2> QED BY <1>2, <2>1, <2>2 DEF SubscribeNext, TypeOK
<1>3. ASSUME NEW t \in Types, Unsubscribe(s, t)
      PROVE  TypeOK'
  <2>1. subs' \in [Types -> Seq(Subscribers)]
    BY <1>3, RemoveHas DEF Unsubscribe, TypeOK, Subscriptions
  <2>2. stream' \in [Streams -> StreamType]
    BY <1>0, <1>3 DEF Unsubscribe, StreamType
  <2> QED BY <1>3, <2>1, <2>2 DEF Unsubscribe, TypeOK
<1>4. CASE Flush(s)
  <2>1. stream' \in [Streams -> StreamType]
    BY <1>0, <1>4 DEF Flush, StreamType
  <2> QED BY <1>4, <2>1 DEF Flush, TypeOK
<1>5. CASE WriteSSE(s)
  <2>1. ch' \in [Streams -> Seq(Event)] /\ got' \in [Streams -> Seq(Event)]
    BY <1>5, TailHas, AppendHas DEF WriteSSE, TypeOK
  <2> QED BY <1>5, <2>1 DEF WriteSSE, TypeOK
<1>6. CASE Disconnect(s)
  <2>1. stream' \in [Streams -> StreamType]
    BY <1>0, <1>6 DEF Disconnect, StreamType
  <2> QED BY <1>6, <2>1 DEF Disconnect, TypeOK
<1> QED BY <1>1, <1>2, <1>3, <1>4, <1>5, <1>6

\* Listeners, deliveries and the services that stop.
LEMMA ServiceTyped ==
  ASSUME TypeOK, Subscriptions,
         \/ TickerStop \/ TickerDone \/ Discard \/ DispatchEnds
         \/ \E l \in Listeners : SayReady(l) \/ readReady(l) \/ Send(l)
         \/ \E d \in deliveries : Admit(d) \/ Post(d) \/ GiveUp(d)
         \/ \E x \in {Pool, Hook} : Stop(x) \/ \E t \in Types : Leave(x, t)
  PROVE  TypeOK'
<1> USE DEF services, bus, clients, pool, webhooks
<1>0. /\ lproc \in [Listeners -> ListenerType] /\ given \in [Listeners -> SUBSET Event]
      /\ hook \in [failures : Nat, tripped : BOOLEAN]
      /\ deliveries \subseteq [event : Event, attempt : Nat]
  BY DEF TypeOK
<1>1. CASE TickerStop \/ TickerDone
  BY <1>1 DEF TickerStop, TickerDone, TypeOK
<1>2. CASE Discard
  BY <1>2, TailHas DEF Discard, PoolRest, TypeOK
<1>3. CASE DispatchEnds
  BY <1>3 DEF DispatchEnds, TypeOK
<1>4. ASSUME NEW l \in Listeners, SayReady(l) \/ readReady(l)
      PROVE  TypeOK'
  <2>1. lproc' \in [Listeners -> ListenerType]
    <3>1. CASE SayReady(l)
      BY <1>0, <3>1 DEF SayReady, ListenerType
    <3>2. CASE readReady(l)
      BY <1>0, <3>2 DEF readReady, ListenerType
    <3> QED BY <1>4, <3>1, <3>2
  <2> QED BY <1>4, <2>1 DEF SayReady, readReady, PoolRest, TypeOK
<1>5. ASSUME NEW l \in Listeners, Send(l)
      PROVE  TypeOK'
  <2>1. Head(eventCh) \in Event /\ Tail(eventCh) \in Seq(Event)
    BY <1>5, TailHas DEF Send, TypeOK
  <2>2. lproc' \in [Listeners -> ListenerType]
    BY <1>0, <1>5 DEF Send, ListenerType
  <2>3. given' \in [Listeners -> SUBSET Event]
    BY <1>0, <1>5, <2>1 DEF Send
  <2> QED BY <1>5, <2>1, <2>2, <2>3 DEF Send, Busy, PoolRest, TypeOK
<1>6. ASSUME NEW d \in deliveries, Admit(d) \/ Post(d) \/ GiveUp(d)
      PROVE  TypeOK'
  <2>1. d \in [event : Event, attempt : Nat] /\ hook \in [failures : Nat, tripped : BOOLEAN]
    BY DEF TypeOK
  <2>2. deliveries' \subseteq [event : Event, attempt : Nat]
    <3>1. \A a \in Nat : [d EXCEPT !.attempt = a] \in [event : Event, attempt : Nat]
      BY <2>1
    <3>2. d.attempt \in Nat /\ d.attempt + 1 \in Nat
      BY <2>1
    <3> QED BY <1>0, <1>6, <3>1, <3>2 DEF Admit, Post, GiveUp
  <2>3. hook' \in [failures : Nat, tripped : BOOLEAN]
    <3>1. Threshold \in Nat
      BY EventsConstants
    <3>2. hook.failures + 1 \in Nat /\ (hook.failures + 1 >= Threshold) \in BOOLEAN
      BY <2>1, <3>1
    <3>3. CASE UNCHANGED hook
      BY <1>0, <3>3
    <3>4. CASE hook' = Succeeded(hook)
      BY <1>0, <3>4 DEF Succeeded
    <3>5. CASE GiveUp(d)
      <4>1. hook' = [failures |-> hook.failures + 1, tripped |-> hook.tripped \/ hook.failures + 1 >= Threshold]
        BY <3>5 DEF GiveUp
      <4> QED BY <2>1, <3>2, <4>1
    <3> QED BY <1>6, <3>3, <3>4, <3>5 DEF Admit, Post
  <2> QED BY <1>6, <2>2, <2>3 DEF Admit, Post, GiveUp, HookRest, TypeOK
<1>7. ASSUME NEW x \in {Pool, Hook}, Stop(x)
      PROVE  TypeOK'
  BY <1>7 DEF Stop, TypeOK, Subscribers
<1>8. ASSUME NEW x \in {Pool, Hook}, NEW t \in Types, Leave(x, t)
      PROVE  TypeOK'
  <2>1. subs' \in [Types -> Seq(Subscribers)]
    BY <1>8, RemoveHas DEF Leave, TypeOK, Subscriptions
  <2> QED BY <1>8, <2>1 DEF Leave, TypeOK
<1> QED BY <1>1, <1>2, <1>3, <1>4, <1>5, <1>6, <1>7, <1>8

\* Every step keeps the types.
LEMMA TypeStep == TypeOK /\ UnderWay /\ Subscriptions /\ [Next]_vars => TypeOK'
<1> SUFFICES ASSUME TypeOK, UnderWay, Subscriptions, [Next]_vars PROVE TypeOK'
  OBVIOUS
<1>1. CASE UNCHANGED vars
  BY <1>1 DEF TypeOK, vars, services, bus, clients, pool, webhooks
<1>2. CASE Next
  BY <1>2, PublishTyped, StreamTyped, ServiceTyped DEF Next
<1> QED BY <1>1, <1>2

\* A publisher has one event under way, its last; the steps of the others do not touch it.
LEMMA UnderWayStep ==
  TypeOK /\ UnderWay /\ Subscriptions /\ [Next]_vars => UnderWay'
<1> SUFFICES ASSUME TypeOK, UnderWay, Subscriptions, [Next]_vars PROVE UnderWay'
  OBVIOUS
<1>0. /\ pub \in [Publishers -> [event : SUBSET Event, todo : Seq(Subscribers)]]
      /\ count \in [Publishers -> 0..MaxEvents]
  BY DEF TypeOK
<1>1. ASSUME NEW p \in Publishers, NEW t \in Types, BeginPublish(p, t)
      PROVE  UnderWay'
  <2> DEFINE e == [by |-> p, n |-> count[p] + 1, type |-> t]
  <2>1. /\ pub' = [pub EXCEPT ![p] = Publishing({e}, subs[t])]
        /\ count' = [count EXCEPT ![p] = @ + 1]
    BY <1>1, BeginIs
  <2>2. e.by = p /\ e.n = count[p] + 1
    OBVIOUS
  <2>3. IsInjective(subs[t])
    BY DEF Subscriptions
  <2> HIDE DEF e
  <2>4. count'[p] = e.n
    BY <1>0, <2>1, <2>2
  <2> QED BY <1>0, <2>1, <2>2, <2>3, <2>4 DEF UnderWay, Publishing
<1>2. ASSUME NEW p \in Publishers, Call(p)
      PROVE  UnderWay'
  <2>1. PICK e \in Event, x \in Subscribers : Delivers(p, e, x)
    BY <1>2, CallDelivers
  <2> QED BY <1>0, <2>1 DEF Delivers, UnderWay, Publishing
<1>3. CASE UNCHANGED <<pub, count>>
  BY <1>3 DEF UnderWay
<1> QED
  BY <1>1, <1>2, <1>3 DEF Next, vars, bus, TickerStop, TickerDone, Connect, SubscribeNext,
    Unsubscribe, Flush, WriteSSE, Disconnect, StreamRest, SayReady, readReady, Send, Discard,
    PoolRest, Admit, Post, GiveUp, HookRest, Stop, DispatchEnds, Leave

\* The subscriptions follow the handlers of the streams, one type at a time.
LEMMA SubscriptionsStep ==
  TypeOK /\ Subscriptions /\ [Next]_vars => Subscriptions'
<1> SUFFICES ASSUME TypeOK, Subscriptions, [Next]_vars PROVE Subscriptions'
  OBVIOUS
<1>0. /\ subs \in [Types -> Seq(Subscribers)] /\ stream \in [Streams -> StreamType]
      /\ \A s \in Streams : s \in Subscribers
  BY DEF TypeOK, Subscribers
<1>1. ASSUME NEW s \in Streams, NEW types \in SUBSET Types, Connect(s, types)
      PROVE  Subscriptions'
  BY <1>0, <1>1 DEF Connect, Subscriptions, Wanted, StreamType
<1>2. ASSUME NEW s \in Streams, NEW t \in Types, SubscribeNext(s, t)
      PROVE  Subscriptions'
  <2>1. s \notin ToSet(subs[t]) /\ IsInjective(subs[t])
    BY <1>0, <1>2 DEF SubscribeNext, Subscriptions, Wanted
  <2>2. subs' = [subs EXCEPT ![t] = Append(@, s)] /\ stream' = [stream EXCEPT ![s].left = @ \ {t}]
    BY <1>2 DEF SubscribeNext, Subscribe
  <2>3. ToSet(subs'[t]) = ToSet(subs[t]) \cup {s} /\ IsInjective(subs'[t])
    BY <1>0, <2>1, <2>2, AppendHas
  <2>4. stream[s].at = "subscribing" /\ t \in stream[s].left
    BY <1>2 DEF SubscribeNext
  <2> QED BY <1>0, <2>2, <2>3, <2>4 DEF Subscriptions, Wanted, StreamType
<1>3. ASSUME NEW s \in Streams, NEW t \in Types, Unsubscribe(s, t)
      PROVE  Subscriptions'
  <2>1. subs' = [subs EXCEPT ![t] = RemoveFirst(@, s)] /\ stream' = [stream EXCEPT ![s].left = @ \ {t}]
    BY <1>3 DEF Unsubscribe
  <2>2. ToSet(subs'[t]) = ToSet(subs[t]) \ {s} /\ IsInjective(subs'[t])
    BY <1>0, <2>1, RemoveHas DEF Subscriptions
  <2>3. stream[s].at = "leaving" /\ t \in stream[s].left
    BY <1>3 DEF Unsubscribe
  <2> QED BY <1>0, <2>1, <2>2, <2>3 DEF Subscriptions, Wanted, StreamType
<1>4. ASSUME NEW s \in Streams, Flush(s) \/ WriteSSE(s) \/ Disconnect(s)
      PROVE  Subscriptions'
  BY <1>0, <1>4, SMTT(30) DEF Flush, Subscribed, WriteSSE, Disconnect, Subscriptions, Wanted, StreamType
<1>5. ASSUME NEW x \in {Pool, Hook}, NEW t \in Types, Leave(x, t)
      PROVE  Subscriptions'
  <2>1. subs' = [subs EXCEPT ![t] = RemoveFirst(@, x)] /\ UNCHANGED stream
    BY <1>5 DEF Leave, clients
  <2>2. ToSet(subs'[t]) = ToSet(subs[t]) \ {x} /\ IsInjective(subs'[t])
    BY <1>0, <2>1, RemoveHas DEF Subscriptions
  <2>3. x \notin Streams
    BY EventsConstants
  <2> QED BY <1>0, <2>1, <2>2, <2>3 DEF Subscriptions, Wanted
<1>6. CASE UNCHANGED <<subs, stream>>
  BY <1>6 DEF Subscriptions, Wanted
<1> QED
  BY <1>1, <1>2, <1>3, <1>4, <1>5, <1>6 DEF Next, vars, bus, clients, BeginPublish, Call,
    TickerStop, TickerDone, SayReady, readReady, Send, Discard, PoolRest, Admit, Post, GiveUp,
    HookRest, Stop, DispatchEnds

-----------------------------------------------------------------------------
(***************************************************************************)
(* What a stream gets.                                                     *)
(***************************************************************************)
\* Events that x has stay behind those it has still to be called with.
HasNext(x, E) ==
  \A e \in E : /\ e.n <= count'[e.by]
               /\ x \in ToSet(pub'[e.by].todo) => e.n < count'[e.by]

\* Nobody gets an event of a publisher before that publisher has published it.
LEMMA HasStep ==
  ASSUME TypeOK, UnderWay, Subscriptions, [Next]_vars,
         NEW x, NEW E \in SUBSET Event, Has(x, E)
  PROVE  HasNext(x, E)
<1>0. /\ pub \in [Publishers -> [event : SUBSET Event, todo : Seq(Subscribers)]]
      /\ count \in [Publishers -> 0..MaxEvents]
      /\ \A e \in E : e.by \in Publishers /\ e.n \in 1..MaxEvents
  BY DEF TypeOK, Event
<1>1. ASSUME NEW p \in Publishers, NEW t \in Types, BeginPublish(p, t)
      PROVE  HasNext(x, E)
  <2>1. count' = [count EXCEPT ![p] = @ + 1] /\ \A q \in Publishers \ {p} : pub'[q] = pub[q]
    BY <1>0, <1>1 DEF BeginPublish
  <2>2. \A e \in E : e.by = p => e.n < count'[p]
    BY <1>0, <2>1 DEF Has
  <2> QED BY <1>0, <2>1, <2>2 DEF Has, HasNext
<1>2. ASSUME NEW p \in Publishers, Call(p)
      PROVE  HasNext(x, E)
  <2>1. PICK f \in Event, y \in Subscribers : Delivers(p, f, y)
    BY <1>2, CallDelivers
  <2>2. /\ \A q \in Publishers : ToSet(pub'[q].todo) \subseteq ToSet(pub[q].todo)
        /\ UNCHANGED count
    BY <1>0, <2>1 DEF Delivers, Publishing
  <2> QED BY <1>0, <2>2 DEF Has, HasNext
<1>3. CASE UNCHANGED <<pub, count>>
  BY <1>3 DEF Has, HasNext
<1> QED
  BY <1>1, <1>2, <1>3 DEF Next, vars, bus, TickerStop, TickerDone, Connect, SubscribeNext,
    Unsubscribe, Flush, WriteSSE, Disconnect, StreamRest, SayReady, readReady, Send, Discard,
    PoolRest, Admit, Post, GiveUp, HookRest, Stop, DispatchEnds, Leave

\* Who is called with an event has it from then on, and is not called with it again.
LEMMA HasDelivered ==
  ASSUME TypeOK, NEW p, NEW e, NEW x, Delivers(p, e, x)
  PROVE  HasNext(x, {e})
BY DEF Delivers, HasNext, TypeOK, Publishing

\* Of two events of one publisher the first one was published first.
InOrder(q) == \A i, j \in 1..Len(q) : i < j /\ q[i].by = q[j].by => q[i].n < q[j].n

\* A later event may follow.
LEMMA InOrderAppend ==
  ASSUME NEW q \in Seq(Event), InOrder(q), NEW e \in Event,
         \A f \in ToSet(q) : f.by = e.by => f.n < e.n
  PROVE  InOrder(Append(q, e))
<1>1. /\ Len(q) \in Nat /\ Len(Append(q, e)) = Len(q) + 1
      /\ \A i \in 1..Len(q) : Append(q, e)[i] = q[i] /\ q[i] \in ToSet(q)
      /\ Append(q, e)[Len(q) + 1] = e
  BY AppendProperties, LenProperties DEF ToSet
<1>2. \A i \in 1..Len(q) + 1 : i = Len(q) + 1 \/ i \in 1..Len(q)
  BY <1>1
<1>3. ASSUME NEW i \in 1..Len(q) + 1, NEW j \in 1..Len(q) + 1, i < j,
             Append(q, e)[i].by = Append(q, e)[j].by
      PROVE  Append(q, e)[i].n < Append(q, e)[j].n
  <2>1. i \in 1..Len(q)
    BY <1>1, <1>3
  <2>2. CASE j = Len(q) + 1
    BY <1>1, <1>3, <2>1, <2>2
  <2>3. CASE j \in 1..Len(q)
    BY <1>1, <1>3, <2>1, <2>3 DEF InOrder
  <2> QED BY <1>2, <2>2, <2>3
<1> QED BY <1>1, <1>3 DEF InOrder

\* The channel of a stream and what its client received are one sequence.
LEMMA Flow ==
  ASSUME NEW g \in Seq(Event), NEW c \in Seq(Event)
  PROVE  /\ g \o c \in Seq(Event) /\ ToSet(g \o c) = ToSet(g) \cup ToSet(c)
         /\ \A e \in Event : g \o Append(c, e) = Append(g \o c, e)
         /\ c # <<>> => Append(g, Head(c)) \o Tail(c) = g \o c
<1>1. g \o c \in Seq(Event)
  BY ConcatProperties
<1>2. ToSet(g \o c) = ToSet(g) \cup ToSet(c)
  <2>1. /\ ToSet(g \o c) = Range(g \o c) /\ ToSet(g) = Range(g) /\ ToSet(c) = Range(c)
    BY DEF Range, ToSet
  <2> QED BY <2>1, RangeConcatenation
<1>3. ASSUME NEW e \in Event
      PROVE  g \o Append(c, e) = Append(g \o c, e)
  <2>1. <<e>> \in Seq(Event)
    OBVIOUS
  <2>2. Append(c, e) = c \o <<e>> /\ Append(g \o c, e) = (g \o c) \o <<e>>
    BY <1>1, AppendIsConcat
  <2> QED BY <2>1, <2>2, ConcatAssociative
<1>4. ASSUME c # <<>>
      PROVE  Append(g, Head(c)) \o Tail(c) = g \o c
  <2>1. Head(c) \in Event /\ Tail(c) \in Seq(Event)
    BY <1>4, HeadTailProperties
  <2>2. <<Head(c)>> \in Seq(Event)
    BY <2>1
  <2>3. c = <<Head(c)>> \o Tail(c)
    BY <1>4
  <2>4. Append(g, Head(c)) = g \o <<Head(c)>>
    BY <2>1, AppendIsConcat
  <2> QED BY <2>1, <2>2, <2>3, <2>4, ConcatAssociative
<1> QED BY <1>1, <1>2, <1>3, <1>4

\* The same for what the streams hold.
LEMMA HasStreamStep ==
  TypeOK /\ UnderWay /\ Subscriptions /\ HasStream /\ [Next]_vars => HasStream'
<1> SUFFICES ASSUME TypeOK, UnderWay, Subscriptions, HasStream, [Next]_vars, NEW s \in Streams
    PROVE  Has(s, ToSet(got[s]) \cup ToSet(ch[s]))'
  BY DEF HasStream
<1> DEFINE E == ToSet(got[s]) \cup ToSet(ch[s])
<1>0. /\ got \in [Streams -> Seq(Event)] /\ ch \in [Streams -> Seq(Event)]
      /\ E \in SUBSET Event
  <2>1. got \in [Streams -> Seq(Event)] /\ ch \in [Streams -> Seq(Event)]
    BY DEF TypeOK
  <2>2. \A q \in Seq(Event) : ToSet(q) \subseteq Event
    BY LenProperties, ElementOfSeq DEF ToSet
  <2> QED BY <2>1, <2>2
<1>1. HasNext(s, E)
  BY <1>0, HasStep DEF HasStream
<1>2. SUFFICES HasNext(s, E')
  BY DEF Has, HasNext
<1>3. ASSUME NEW p \in Publishers, Call(p)
      PROVE  HasNext(s, E')
  <2>1. PICK e \in Event, x \in Subscribers : Delivers(p, e, x)
    BY <1>3, CallDelivers
  <2>2. CASE x = s
    <3>1. E' \subseteq E \cup {e}
      <4>1. ch'[s] = Put(ch[s], e) \/ ch'[s] = ch[s]
        BY <1>0, <2>1, <2>2 DEF Delivers
      <4>2. ToSet(ch'[s]) \subseteq ToSet(ch[s]) \cup {e}
        BY <1>0, <4>1, PutHas
      <4> QED BY <2>1, <4>2 DEF Delivers
    <3>2. HasNext(s, {e})
      BY <2>1, <2>2, HasDelivered
    <3> QED BY <1>1, <3>1, <3>2 DEF HasNext
  <2>3. CASE x # s
    <3>1. UNCHANGED <<got, ch[s]>>
      BY <1>0, <2>1, <2>3 DEF Delivers
    <3> QED BY <1>1, <3>1 DEF HasNext
  <2> QED BY <2>2, <2>3
<1>4. ASSUME NEW r \in Streams, WriteSSE(r)
      PROVE  HasNext(s, E')
  <2>1. CASE r = s
    <3>1. /\ got' = [got EXCEPT ![s] = Append(@, Head(ch[s]))] /\ ch' = [ch EXCEPT ![s] = Tail(@)]
          /\ ch[s] # <<>>
      BY <1>4, <2>1 DEF WriteSSE
    <3>2. Head(ch[s]) \in Event /\ ToSet(ch[s]) = ToSet(Tail(ch[s])) \cup {Head(ch[s])}
      BY <1>0, <3>1, TailHas
    <3>3. ToSet(got'[s]) = ToSet(got[s]) \cup {Head(ch[s])}
      BY <1>0, <3>1, <3>2, AppendHas
    <3>4. E' = E
      BY <1>0, <3>1, <3>2, <3>3
    <3> QED BY <1>1, <3>4
  <2>2. CASE r # s
    <3>1. UNCHANGED <<got[s], ch[s]>>
      BY <1>0, <1>4, <2>2 DEF WriteSSE
    <3> QED BY <1>1, <3>1
  <2> QED BY <2>1, <2>2
<1>5. CASE UNCHANGED <<got, ch>>
  BY <1>1, <1>5
<1> QED
  BY <1>3, <1>4, <1>5 DEF Next, vars, clients, BeginPublish, TickerStop, TickerDone, Connect,
    SubscribeNext, Unsubscribe, Flush, Disconnect, StreamRest, SayReady, readReady, Send,
    Discard, PoolRest, Admit, Post, GiveUp, HookRest, Stop, DispatchEnds, Leave

\* Every step keeps the events of a stream in the order of their publication.
LEMMA OrderStep ==
  TypeOK /\ UnderWay /\ HasStream /\ StreamInOrder /\ [Next]_vars => StreamInOrder'
<1> SUFFICES ASSUME TypeOK, UnderWay, HasStream, StreamInOrder, [Next]_vars, NEW s \in Streams
    PROVE  InOrder(got[s] \o ch[s])'
  BY DEF StreamInOrder, InOrder
<1>0. got \in [Streams -> Seq(Event)] /\ ch \in [Streams -> Seq(Event)]
  BY DEF TypeOK
<1>1. InOrder(got[s] \o ch[s])
  BY DEF StreamInOrder, InOrder
<1>2. ASSUME UNCHANGED <<got[s], ch[s]>>
      PROVE  InOrder(got[s] \o ch[s])'
  BY <1>1, <1>2
<1>3. ASSUME NEW p \in Publishers, Call(p)
      PROVE  InOrder(got[s] \o ch[s])'
  <2>1. PICK e \in Event, x \in Subscribers : Delivers(p, e, x)
    BY <1>3, CallDelivers
  <2>2. CASE x = s /\ x \in Streams /\ Len(ch[s]) < QueueSize /\ ch' = [ch EXCEPT ![x] = Put(@, e)]
    <3>1. ch'[s] = Append(ch[s], e) /\ got' = got
      BY <1>0, <2>1, <2>2 DEF Delivers, Put
    <3>2. /\ got[s] \o ch[s] \in Seq(Event)
          /\ ToSet(got[s] \o ch[s]) = ToSet(got[s]) \cup ToSet(ch[s])
          /\ got[s] \o Append(ch[s], e) = Append(got[s] \o ch[s], e)
      BY <1>0, Flow
    <3>3. \A f \in ToSet(got[s] \o ch[s]) : f.by = e.by => f.n < e.n
      BY <2>1, <2>2, <3>2 DEF Delivers, HasStream, Has
    <3> QED BY <1>1, <3>1, <3>2, <3>3, InOrderAppend
  <2>3. CASE UNCHANGED <<got[s], ch[s]>>
    BY <1>2, <2>3
  <2> QED BY <1>0, <2>1, <2>2, <2>3 DEF Delivers, Put
<1>4. ASSUME NEW r \in Streams, WriteSSE(r)
      PROVE  InOrder(got[s] \o ch[s])'
  <2>1. CASE r = s
    <3>1. got'[s] = Append(got[s], Head(ch[s])) /\ ch'[s] = Tail(ch[s]) /\ ch[s] # <<>>
      BY <1>0, <1>4, <2>1 DEF WriteSSE
    <3>2. got'[s] \o ch'[s] = got[s] \o ch[s]
      BY <1>0, <3>1, Flow
    <3> QED BY <1>1, <3>2
  <2>2. CASE r # s
    <3>1. UNCHANGED <<got[s], ch[s]>>
      BY <1>0, <1>4, <2>2 DEF WriteSSE
    <3> QED BY <1>2, <3>1
  <2> QED BY <2>1, <2>2
<1>5. CASE UNCHANGED <<got, ch>>
  BY <1>2, <1>5
<1> QED
  BY <1>3, <1>4, <1>5 DEF Next, vars, clients, BeginPublish, TickerStop, TickerDone, Connect,
    SubscribeNext, Unsubscribe, Flush, Disconnect, StreamRest, SayReady, readReady, Send,
    Discard, PoolRest, Admit, Post, GiveUp, HookRest, Stop, DispatchEnds, Leave

\* Of events that are not under way nobody is still to be called.
LEMMA NothingDueStep == TypeOK /\ NothingDue /\ [Next]_vars => NothingDue'
<1> SUFFICES ASSUME TypeOK, NothingDue, [Next]_vars PROVE NothingDue'
  OBVIOUS
<1>0. due \in [Streams -> SUBSET Event] /\ stream \in [Streams -> StreamType]
  BY DEF TypeOK
<1>1. ASSUME NEW p \in Publishers, NEW t \in Types, BeginPublish(p, t)
      PROVE  NothingDue'
  BY <1>0, <1>1 DEF BeginPublish, Open, NothingDue
<1>2. ASSUME NEW s \in Streams,
             \/ \E types \in SUBSET Types : Connect(s, types)
             \/ \E t \in Types : SubscribeNext(s, t) \/ Unsubscribe(s, t)
             \/ Flush(s) \/ WriteSSE(s) \/ Disconnect(s)
      PROVE  NothingDue'
  BY <1>0, <1>2 DEF Connect, SubscribeNext, Unsubscribe, Flush, WriteSSE, Disconnect, NothingDue,
    StreamType
<1>3. CASE UNCHANGED <<stream, due>>
  BY <1>3 DEF NothingDue
<1> QED
  BY <1>1, <1>2, <1>3 DEF Next, vars, clients, Call, TickerStop, TickerDone, SayReady, readReady,
    Send, Discard, PoolRest, Admit, Post, GiveUp, HookRest, Stop, DispatchEnds, Leave

\* An event that is owed to a stream has arrived, found no room, or is still being handed out.
Arrives(s, e) ==
  \/ e \in ToSet(got[s]) \cup ToSet(ch[s]) \cup dropped[s]
  \/ \E p \in Publishers : e \in pub[p].event /\ s \in ToSet(pub[p].todo)

\* No call takes away what a stream has, and it hands out the event to its stream.
LEMMA CallArrives ==
  ASSUME TypeOK, UnderWay, NEW p \in Publishers, Call(p),
         NEW s \in Streams, NEW f, Arrives(s, f)
  PROVE  Arrives(s, f)'
<1>0. /\ pub \in [Publishers -> [event : SUBSET Event, todo : Seq(Subscribers)]]
      /\ ch \in [Streams -> Seq(Event)] /\ dropped \in [Streams -> SUBSET Event]
  BY DEF TypeOK
<1>1. PICK e \in Event, x \in Subscribers : Delivers(p, e, x)
  BY CallDelivers
<1>2. ToSet(ch[s]) \subseteq ToSet(ch'[s]) /\ dropped[s] \subseteq dropped'[s] /\ UNCHANGED got
  <2>1. ch'[s] = ch[s] \/ ch'[s] = Put(ch[s], e)
    BY <1>0, <1>1 DEF Delivers
  <2>2. dropped[s] \subseteq dropped'[s] /\ UNCHANGED got
    <3>1. \/ dropped' = dropped
          \/ dropped' = [dropped EXCEPT ![x] = IF Len(ch[x]) < QueueSize THEN @ ELSE @ \cup {e}]
      BY <1>1 DEF Delivers
    <3>2. UNCHANGED got
      BY <1>1 DEF Delivers
    <3> QED BY <1>0, <3>1, <3>2
  <2> QED BY <1>0, <2>1, <2>2, PutHas
<1>3. CASE f \in ToSet(got[s]) \cup ToSet(ch[s]) \cup dropped[s]
  BY <1>2, <1>3 DEF Arrives
<1>4. ASSUME NEW q \in Publishers, f \in pub[q].event, s \in ToSet(pub[q].todo)
      PROVE  Arrives(s, f)'
  <2>1. CASE q # p
    <3>1. pub'[q] = pub[q]
      BY <1>0, <1>1, <2>1 DEF Delivers
    <3> QED BY <1>4, <3>1 DEF Arrives
  <2>2. CASE q = p /\ x = s
    <3>1. f = e
      BY <1>1, <1>4, <2>2 DEF Delivers
    <3>2. x \in Streams /\ x # Pool /\ x # Hook
      BY <2>2, EventsConstants
    <3>3. ch'[s] = Put(ch[s], e) /\ dropped'[s] = IF Len(ch[s]) < QueueSize THEN dropped[s] ELSE dropped[s] \cup {e}
      BY <1>0, <1>1, <2>2, <3>2 DEF Delivers
    <3>4. e \in ToSet(ch'[s]) \/ e \in dropped'[s]
      BY <1>0, <3>3, PutHas
    <3> QED BY <3>1, <3>4 DEF Arrives
  <2>3. CASE q = p /\ x # s
    <3>1. f = e /\ s \in ToSet(Tail(pub[p].todo))
      BY <1>1, <1>4, <2>3 DEF Delivers
    <3>2. Tail(pub[p].todo) # <<>>
      BY <3>1 DEF ToSet
    <3>3. pub'[p] = [event |-> {e}, todo |-> Tail(pub[p].todo)]
      BY <1>0, <1>1, <3>2 DEF Delivers, Publishing
    <3>4. f \in pub'[p].event /\ s \in ToSet(pub'[p].todo)
      BY <3>1, <3>3
    <3> QED BY <3>4 DEF Arrives
  <2> QED BY <2>1, <2>2, <2>3
<1> QED BY <1>3, <1>4 DEF Arrives

\* A stream that is open has, or is still to be handed, every event published since.
LEMMA OpenStep ==
  TypeOK /\ UnderWay /\ Subscriptions /\ NothingDue /\ OpenGetsAll /\ [Next]_vars => OpenGetsAll'
<1> SUFFICES ASSUME TypeOK, UnderWay, Subscriptions, NothingDue, OpenGetsAll, [Next]_vars,
                    NEW s \in Streams, stream'[s].at = "open", NEW f \in due'[s]
    PROVE  Arrives(s, f)'
  BY DEF OpenGetsAll, Open, Arrives
<1>0. /\ pub \in [Publishers -> [event : SUBSET Event, todo : Seq(Subscribers)]]
      /\ ch \in [Streams -> Seq(Event)] /\ got \in [Streams -> Seq(Event)]
      /\ due \in [Streams -> SUBSET Event] /\ stream \in [Streams -> StreamType]
  BY DEF TypeOK
<1>1. stream[s].at = "open" /\ f \in due[s] => Arrives(s, f)
  BY DEF OpenGetsAll, Open, Arrives
<1>2. ASSUME NEW p \in Publishers, NEW t \in Types, BeginPublish(p, t)
      PROVE  Arrives(s, f)'
  <2> DEFINE e == [by |-> p, n |-> count[p] + 1, type |-> t]
  <2>1. /\ pub[p].event = {} /\ pub' = [pub EXCEPT ![p] = Publishing({e}, subs[t])]
        /\ due' = [r \in Streams |-> IF r \in Open /\ t \in stream[r].types THEN due[r] \cup {e} ELSE due[r]]
        /\ UNCHANGED <<stream, ch, got, dropped>>
    BY <1>2, BeginIs DEF BeginPublish
  <2> HIDE DEF e
  <2>2. CASE f \in due[s]
    <3>1. Arrives(s, f)
      BY <1>1, <2>1, <2>2
    <3>2. \A q \in Publishers : pub'[q] = pub[q] \/ pub[q].event = {}
      BY <1>0, <2>1
    <3> QED BY <2>1, <3>1, <3>2 DEF Arrives
  <2>3. CASE f \notin due[s]
    <3>1. f = e /\ t \in stream[s].types /\ stream[s].at = "open"
      BY <1>0, <2>1, <2>3 DEF Open
    <3>2. s \in ToSet(subs[t])
      BY <3>1 DEF Subscriptions, Wanted
    <3>3. subs[t] # <<>>
      BY <3>2 DEF ToSet
    <3>4. pub'[p] = [event |-> {e}, todo |-> subs[t]]
      BY <1>0, <2>1, <3>3 DEF Publishing
    <3> QED BY <3>1, <3>2, <3>4 DEF Arrives
  <2> QED BY <2>2, <2>3
<1>3. ASSUME NEW p \in Publishers, Call(p)
      PROVE  Arrives(s, f)'
  <2>1. UNCHANGED <<stream, due>>
    BY <1>3 DEF Call
  <2> QED BY <1>1, <1>3, <2>1, CallArrives
<1>4. ASSUME NEW r \in Streams, WriteSSE(r)
      PROVE  Arrives(s, f)'
  <2>1. UNCHANGED <<stream, due, dropped, pub>>
    BY <1>4 DEF WriteSSE, StreamRest
  <2>2. ToSet(got'[s]) \cup ToSet(ch'[s]) = ToSet(got[s]) \cup ToSet(ch[s])
    <3>1. CASE r = s
      <4>1. got'[s] = Append(got[s], Head(ch[s])) /\ ch'[s] = Tail(ch[s]) /\ ch[s] # <<>>
        BY <1>0, <1>4, <3>1 DEF WriteSSE
      <4>2. Head(ch[s]) \in Event /\ ToSet(ch[s]) = ToSet(Tail(ch[s])) \cup {Head(ch[s])}
        BY <1>0, <4>1, TailHas
      <4>3. ToSet(got'[s]) = ToSet(got[s]) \cup {Head(ch[s])}
        BY <1>0, <4>1, <4>2, AppendHas
      <4> QED BY <4>1, <4>2, <4>3
    <3>2. CASE r # s
      BY <1>0, <1>4, <3>2 DEF WriteSSE
    <3> QED BY <3>1, <3>2
  <2> QED BY <1>1, <2>1, <2>2 DEF Arrives
<1>5. ASSUME NEW r \in Streams, Flush(r)
      PROVE  Arrives(s, f)'
  <2>1. UNCHANGED <<due, got, ch, dropped, pub>>
    BY <1>5 DEF Flush, StreamRest
  <2>2. stream[s].at = "open"
    BY <1>0, <1>5, <2>1 DEF Flush, NothingDue
  <2> QED BY <1>1, <2>1, <2>2 DEF Arrives
<1>6. ASSUME NEW r \in Streams,
             \/ \E types \in SUBSET Types : Connect(r, types)
             \/ \E t \in Types : SubscribeNext(r, t) \/ Unsubscribe(r, t)
             \/ Disconnect(r)
      PROVE  Arrives(s, f)'
  <2>1. UNCHANGED <<due, got, ch, dropped, pub>>
    BY <1>6 DEF Connect, SubscribeNext, Unsubscribe, Disconnect, StreamRest
  <2>2. stream[s].at = "open"
    <3>1. ASSUME NEW a \in {"subscribing", "leaving"}, NEW b, NEW c,
                 stream' = [stream EXCEPT ![r] = [at |-> a, types |-> b, left |-> c]]
          PROVE  stream[s].at = "open"
      BY <1>0, <3>1
    <3>2. ASSUME NEW types, Connect(r, types)
          PROVE  stream[s].at = "open"
      BY <3>1, <3>2 DEF Connect
    <3>3. ASSUME NEW t, SubscribeNext(r, t) \/ Unsubscribe(r, t)
          PROVE  stream[s].at = "open"
      BY <1>0, <3>3 DEF SubscribeNext, Unsubscribe, StreamType
    <3>4. CASE Disconnect(r)
      BY <1>0, <3>4 DEF Disconnect, StreamType
    <3> QED BY <1>6, <3>2, <3>3, <3>4
  <2> QED BY <1>1, <2>1, <2>2 DEF Arrives
<1>7. CASE UNCHANGED <<stream, due, got, ch, dropped, pub>>
  BY <1>1, <1>7 DEF Arrives
<1> QED
  BY <1>2, <1>3, <1>4, <1>5, <1>6, <1>7 DEF Next, vars, bus, clients, TickerStop, TickerDone,
    SayReady, readReady, Send, Discard, PoolRest, Admit, Post, GiveUp, HookRest, Stop,
    DispatchEnds, Leave

-----------------------------------------------------------------------------
(***************************************************************************)
(* The listener pool and the webhook.                                      *)
(***************************************************************************)
\* The dispatcher and the reader of a listener's output turn by turn.
LEMMA HandshakeStep == TypeOK /\ Handshake /\ [Next]_vars => Handshake'
<1> SUFFICES ASSUME TypeOK, Handshake, [Next]_vars PROVE Handshake'
  OBVIOUS
<1>0. /\ lproc \in [Listeners -> ListenerType]
      /\ lstate \in [Listeners -> {"acknowledged", "ready", "busy"}]
  BY DEF TypeOK
<1>1. ASSUME NEW l \in Listeners, SayReady(l)
      PROVE  Handshake'
  BY <1>0, <1>1 DEF SayReady, Handshake, ListenerType
<1>2. ASSUME NEW l \in Listeners, readReady(l)
      PROVE  Handshake'
  BY <1>0, <1>2 DEF readReady, Handshake, ListenerType
<1>3. ASSUME NEW l \in Listeners, Send(l)
      PROVE  Handshake'
  BY <1>0, <1>3 DEF Send, Busy, Handshake, ListenerType
<1>4. CASE UNCHANGED <<lstate, lproc>>
  BY <1>4 DEF Handshake
<1> QED
  BY <1>1, <1>2, <1>3, <1>4, CallDelivers DEF Next, vars, pool, BeginPublish, Call, TickerStop,
    TickerDone, Connect, SubscribeNext, Unsubscribe, Flush, WriteSSE, Disconnect, StreamRest,
    Discard, Admit, Post, GiveUp, HookRest, Stop, DispatchEnds, Leave

\* What the pool has is in its queue or with a listener.
PoolHas == ToSet(eventCh) \cup UNION {given[l] : l \in Listeners}

\* An event is in one place of the pool at a time: in the queue or with one listener.
LEMMA PoolStep ==
  TypeOK /\ UnderWay /\ Subscriptions /\ HasPool /\ InOnePlace /\ [Next]_vars
    => HasPool' /\ InOnePlace'
<1> SUFFICES ASSUME TypeOK, UnderWay, Subscriptions, HasPool, InOnePlace, [Next]_vars
    PROVE  HasPool' /\ InOnePlace'
  OBVIOUS
<1>0. /\ eventCh \in Seq(Event) /\ given \in [Listeners -> SUBSET Event]
      /\ PoolHas \in SUBSET Event
  <2>1. eventCh \in Seq(Event) /\ given \in [Listeners -> SUBSET Event]
    BY DEF TypeOK
  <2>2. ToSet(eventCh) \subseteq Event
    BY <2>1, LenProperties, ElementOfSeq DEF ToSet
  <2> QED BY <2>1, <2>2 DEF PoolHas
<1>1. HasNext(Pool, PoolHas)
  BY <1>0, HasStep DEF HasPool, PoolHas
<1>2. ASSUME PoolHas' \subseteq PoolHas
      PROVE  HasPool'
  BY <1>1, <1>2 DEF HasNext, HasPool, Has, PoolHas
<1>3. ASSUME UNCHANGED <<eventCh, given>>
      PROVE  HasPool' /\ InOnePlace'
  BY <1>2, <1>3 DEF PoolHas, InOnePlace
<1>4. ASSUME NEW p \in Publishers, Call(p)
      PROVE  HasPool' /\ InOnePlace'
  <2>1. PICK e \in Event, x \in Subscribers : Delivers(p, e, x)
    BY <1>4, CallDelivers
  <2>2. CASE x = Pool /\ eventCh' = Put(eventCh, e) /\ given' = given
    <3>1. e \notin PoolHas
      <4>1. Has(Pool, PoolHas)
        BY DEF HasPool, PoolHas
      <4>2. Pool \in ToSet(pub[p].todo) /\ e.by = p /\ e.n = count[p] /\ p \in Publishers
        BY <2>1, <2>2 DEF Delivers
      <4>3. count[p] \in Nat
        BY EventsConstants, <4>2 DEF TypeOK
      <4>4. e \in PoolHas => e.n < count[p]
        BY <4>1, <4>2 DEF Has
      <4> HIDE DEF PoolHas
      <4> QED BY <4>2, <4>3, <4>4
    <3>2. /\ ToSet(eventCh) \subseteq ToSet(eventCh') /\ ToSet(eventCh') \subseteq ToSet(eventCh) \cup {e}
          /\ IsInjective(eventCh')
      BY <1>0, <2>2, <3>1, PutHas DEF InOnePlace, PoolHas
    <3>3. HasNext(Pool, {e})
      BY <2>1, <2>2, HasDelivered
    <3>4. PoolHas' \subseteq PoolHas \cup {e}
      BY <2>2, <3>2 DEF PoolHas
    <3>5. HasPool'
      BY <1>1, <3>3, <3>4 DEF HasNext, HasPool, Has, PoolHas
    <3>6. InOnePlace'
      BY <2>2, <3>1, <3>2 DEF InOnePlace, PoolHas
    <3> QED BY <3>5, <3>6
  <2>3. CASE UNCHANGED <<eventCh, given>>
    BY <1>3, <2>3
  <2> QED BY <2>1, <2>2, <2>3 DEF Delivers, pool
<1>5. ASSUME NEW l \in Listeners, Send(l)
      PROVE  HasPool' /\ InOnePlace'
  <2>1. eventCh # <<>> /\ eventCh' = Tail(eventCh)
    BY <1>5 DEF Send
  <2>2. /\ ToSet(eventCh) = ToSet(eventCh') \cup {Head(eventCh)}
        /\ IsInjective(eventCh') /\ Head(eventCh) \notin ToSet(eventCh')
    BY <1>0, <2>1, TailHas DEF InOnePlace
  <2>3. given' = [given EXCEPT ![l] = @ \cup {Head(eventCh)}] \/ given' = given
    BY <1>5 DEF Send
  <2>4. PoolHas' \subseteq PoolHas
    BY <1>0, <2>2, <2>3 DEF PoolHas
  <2>5. InOnePlace'
    BY <1>0, <2>2, <2>3 DEF InOnePlace
  <2> QED BY <1>2, <2>4, <2>5
<1>6. ASSUME Discard
      PROVE  HasPool' /\ InOnePlace'
  <2>1. eventCh # <<>> /\ eventCh' = Tail(eventCh) /\ given' = given
    BY <1>6 DEF Discard
  <2>2. ToSet(eventCh) = ToSet(eventCh') \cup {Head(eventCh)} /\ IsInjective(eventCh')
    BY <1>0, <2>1, TailHas DEF InOnePlace
  <2>3. PoolHas' \subseteq PoolHas
    BY <2>1, <2>2 DEF PoolHas
  <2>4. InOnePlace'
    BY <2>1, <2>2 DEF InOnePlace
  <2> QED BY <1>2, <2>3, <2>4
<1> QED
  BY <1>3, <1>4, <1>5, <1>6 DEF Next, vars, pool, BeginPublish, TickerStop, TickerDone, Connect,
    SubscribeNext, Unsubscribe, Flush, WriteSSE, Disconnect, StreamRest, SayReady, readReady,
    Admit, Post, GiveUp, HookRest, Stop, DispatchEnds, Leave

\* The conjuncts, each from the lemma that is about it.
LEMMA InvStep == Inv /\ [Next]_vars => Inv'
BY TypeStep, UnderWayStep, SubscriptionsStep, HasStreamStep, NothingDueStep, HandshakeStep,
  PoolStep DEF Inv

\* The inductive invariant holds always.
LEMMA Invariant == Spec => []Inv
BY InitInv, InvStep, PTL DEF Spec

-----------------------------------------------------------------------------
\* Whatever the publishers, the streams and the sizes of the queues: a stream gets the
\* events of one publisher in the order of their publication and none twice
\* (handleEventStream, Bus.Publish).
THEOREM StreamAlwaysInOrder == Spec => []StreamInOrder
<1>1. Inv /\ StreamInOrder /\ [Next]_vars => StreamInOrder'
  BY OrderStep DEF Inv
<1> QED BY <1>1, InitInv, Invariant, PTL DEF Spec

\* Whatever other subscribers do: an event whose Publish began while a stream was open
\* reaches its channel or finds it full (handleEventStream subscribes before it flushes
\* the headers).
THEOREM OpenAlwaysGetsAll == Spec => []OpenGetsAll
<1>1. Inv /\ OpenGetsAll /\ [Next]_vars => OpenGetsAll'
  BY OpenStep DEF Inv
<1> QED BY <1>1, InitInv, Invariant, PTL DEF Spec

\* However many listeners there are: none is given an event while it works on another one,
\* and no event goes to two of them (sendToReady, readReady).
THEOREM AlwaysOneAtATime == Spec => []OneAtATime
<1>1. Init => OneAtATime
  BY DEF Init, NewListenerPool, OneAtATime
<1>2. Inv /\ OneAtATime /\ [Next]_vars => OneAtATime'
  <2> SUFFICES ASSUME Inv, OneAtATime, [Next]_vars PROVE OneAtATime'
    OBVIOUS
  <2>0. InOnePlace' /\ Handshake /\ lproc \in [Listeners -> ListenerType]
    BY InvStep DEF Inv, TypeOK
  <2>1. ASSUME NEW l \in Listeners, SayReady(l) \/ readReady(l)
        PROVE  \A m \in Listeners : lproc'[m].does # "confused"
    BY <2>0, <2>1 DEF SayReady, readReady, OneAtATime, ListenerType
  <2>2. ASSUME NEW l \in Listeners, Send(l)
        PROVE  \A m \in Listeners : lproc'[m].does # "confused"
    BY <2>0, <2>2 DEF Send, OneAtATime, Handshake, ListenerType
  <2>3. ASSUME UNCHANGED lproc
        PROVE  \A m \in Listeners : lproc'[m].does # "confused"
    BY <2>3 DEF OneAtATime
  <2>4. \A m \in Listeners : lproc'[m].does # "confused"
    BY <2>1, <2>2, <2>3 DEF Next, vars, pool, BeginPublish, Call, TickerStop, TickerDone, Connect,
      SubscribeNext, Unsubscribe, Flush, WriteSSE, Disconnect, StreamRest, Discard, Admit, Post,
      GiveUp, HookRest, Stop, DispatchEnds, Leave
  <2> QED BY <2>0, <2>4 DEF InOnePlace, OneAtATime
<1> QED BY <1>1, <1>2, Invariant, PTL DEF Spec

\* How a delivery may end.
Results == {"ok", "failed"}

\* What the results have after one more delivery has ended.
LEMMA AppendResult ==
  ASSUME NEW q \in Seq(Results), NEW x \in Results
  PROVE  /\ Append(q, x) \in Seq(Results) /\ Len(q) \in Nat /\ Len(Append(q, x)) = Len(q) + 1
         /\ \A i \in 1..Len(q) : Append(q, x)[i] = q[i]
         /\ Append(q, x)[Len(q) + 1] = x
BY AppendProperties, LenProperties

\* Deliveries that run side by side end one after the other: a success ends the run of
\* failures, all attempts lost make it longer (deliver).
LEMMA RunsStep ==
  ASSUME TypeOK, results \in Seq(Results), BreakerCountsRuns, NEW d, Post(d) \/ GiveUp(d)
  PROVE  results' \in Seq(Results) /\ BreakerCountsRuns'
<1> DEFINE n == Len(results)
           Run(i, m, q) == i + Threshold - 1 <= m /\ \A j \in i..i + Threshold - 1 : q[j] = "failed"
<1>1. /\ hook \in [failures : Nat, tripped : BOOLEAN] /\ n \in Nat
      /\ Threshold \in Nat /\ Threshold >= 1
  BY EventsConstants, LenProperties DEF TypeOK
<1>2. /\ hook.failures \in Nat /\ hook.failures <= n
      /\ \A i \in 1..n : i > n - hook.failures => results[i] = "failed"
      /\ hook.failures < n => results[n - hook.failures] = "ok"
      /\ hook.tripped <=> \E i \in 1..n : Run(i, n, results)
  BY <1>1 DEF BreakerCountsRuns
<1>3. CASE UNCHANGED <<hook, results>>
  BY <1>3 DEF BreakerCountsRuns
<1>4. ASSUME NEW x \in Results, results' = Append(results, x)
      PROVE  /\ results' \in Seq(Results) /\ Len(results') = n + 1
             /\ \A i \in 1..n : results'[i] = results[i]
             /\ results'[n + 1] = x
             /\ \A i \in 1..n : Run(i, n, results) => Run(i, n + 1, results')
             /\ \A i \in 1..n + 1 : Run(i, n + 1, results') =>
                  (i \in 1..n /\ Run(i, n, results)) \/ i + Threshold - 1 = n + 1
  <2>1. /\ results' \in Seq(Results) /\ Len(results') = n + 1
        /\ \A i \in 1..n : results'[i] = results[i]
        /\ results'[n + 1] = x
    BY <1>4, AppendResult
  <2>2. ASSUME NEW i \in 1..n, Run(i, n, results) PROVE Run(i, n + 1, results')
    <3>1. \A j \in i..i + Threshold - 1 : j \in 1..n
      BY <1>1, <2>2
    <3> QED BY <1>1, <2>1, <2>2, <3>1
  <2>3. ASSUME NEW i \in 1..n + 1, Run(i, n + 1, results'), i + Threshold - 1 # n + 1
        PROVE  i \in 1..n /\ Run(i, n, results)
    <3>1. i + Threshold - 1 <= n /\ i \in 1..n /\ \A j \in i..i + Threshold - 1 : j \in 1..n
      BY <1>1, <2>3
    <3> QED BY <2>1, <2>3, <3>1
  <2> HIDE DEF Run
  <2> QED BY <2>1, <2>2, <2>3
<1> HIDE DEF n
<1>5. CASE results' = Append(results, "ok") /\ hook' = Succeeded(hook)
  <2>1. hook'.failures = 0 /\ hook'.tripped = hook.tripped
    BY <1>1, <1>5 DEF Succeeded
  <2>2. /\ results' \in Seq(Results) /\ Len(results') = n + 1 /\ results'[n + 1] = "ok"
        /\ \A i \in 1..n : Run(i, n, results) => Run(i, n + 1, results')
        /\ \A i \in 1..n + 1 : Run(i, n + 1, results') =>
             (i \in 1..n /\ Run(i, n, results)) \/ i + Threshold - 1 = n + 1
    BY <1>4, <1>5 DEF Results
  <2>3. ASSUME NEW i \in 1..n + 1, Run(i, n + 1, results') PROVE i + Threshold - 1 # n + 1
    <3>1. ASSUME i + Threshold - 1 = n + 1 PROVE n + 1 \in i..i + Threshold - 1
      BY <1>1, <3>1
    <3> QED BY <2>2, <2>3, <3>1
  <2>4. hook'.tripped <=> \E i \in 1..n + 1 : Run(i, n + 1, results')
    <3>1. \A i \in 1..n : i \in 1..n + 1
      BY <1>1
    <3> HIDE DEF Run
    <3> QED BY <1>2, <2>1, <2>2, <2>3, <3>1
  <2>5. /\ hook'.failures \in 0..n + 1
        /\ \A i \in 1..n + 1 : ~(i > n + 1 - hook'.failures)
        /\ results'[n + 1 - hook'.failures] = "ok"
    <3>1. n + 1 - 0 = n + 1 /\ 0 \in 0..n + 1 /\ \A i \in 1..n + 1 : ~(i > n + 1)
      BY <1>1
    <3> QED BY <2>1, <2>2, <3>1
  <2>6. BreakerCountsRuns'
    <3>0. Len(results') = n + 1
      BY <2>2
    <3>1. hook'.failures \in 0..Len(results')
      BY <1>1, <3>0, <2>5
    <3>2. \A i \in 1..Len(results') : i > Len(results') - hook'.failures => results'[i] = "failed"
      BY <1>1, <3>0, <2>5
    <3>3. hook'.failures < Len(results') => results'[Len(results') - hook'.failures] = "ok"
      BY <1>1, <3>0, <2>5
    <3>4. hook'.tripped <=> \E i \in 1..Len(results') : Run(i, Len(results'), results')
      <4> HIDE DEF Run
      <4> QED BY <2>2, <2>4
    <3> QED BY <3>1, <3>2, <3>3, <3>4 DEF BreakerCountsRuns
  <2> QED BY <2>2, <2>6
<1>6. CASE GiveUp(d)
  <2>1. /\ hook'.failures = hook.failures + 1
        /\ hook'.tripped <=> hook.tripped \/ hook.failures + 1 >= Threshold
        /\ results' = Append(results, "failed")
    BY <1>6 DEF GiveUp
  <2>2. /\ results' \in Seq(Results) /\ Len(results') = n + 1 /\ results'[n + 1] = "failed"
        /\ \A i \in 1..n : results'[i] = results[i]
        /\ \A i \in 1..n : Run(i, n, results) => Run(i, n + 1, results')
        /\ \A i \in 1..n + 1 : Run(i, n + 1, results') =>
             (i \in 1..n /\ Run(i, n, results)) \/ i + Threshold - 1 = n + 1
    BY <1>4, <2>1 DEF Results
  <2>3. \A i \in 1..n + 1 : i > n - hook.failures => results'[i] = "failed"
    <3>1. \A i \in 1..n + 1 : i = n + 1 \/ i \in 1..n
      BY <1>1
    <3> QED BY <1>2, <2>2, <3>1
  <2>4. ASSUME hook.failures + 1 >= Threshold PROVE \E i \in 1..n + 1 : Run(i, n + 1, results')
    <3> DEFINE i == n + 2 - Threshold
    <3>1. i \in 1..n + 1 /\ i + Threshold - 1 = n + 1
      BY <1>1, <1>2, <2>4
    <3>2. \A j \in i..n + 1 : j \in 1..n + 1 /\ j > n - hook.failures
      BY <1>1, <1>2, <2>4, <3>1
    <3> HIDE DEF i
    <3>3. \A j \in i..i + Threshold - 1 : results'[j] = "failed"
      <4>1. \A j \in i..n + 1 : results'[j] = "failed"
        BY <2>3, <3>2
      <4> QED BY <3>1, <4>1
    <3>4. i + Threshold - 1 <= n + 1
      BY <1>1, <3>1
    <3> QED BY <3>1, <3>3, <3>4
  <2>5. ASSUME NEW i \in 1..n + 1, Run(i, n + 1, results'), i + Threshold - 1 = n + 1
        PROVE  hook.failures + 1 >= Threshold
    <3> SUFFICES ASSUME ~(hook.failures + 1 >= Threshold) PROVE FALSE
      OBVIOUS
    <3>1. /\ hook.failures < n /\ n - hook.failures \in 1..n
          /\ n - hook.failures \in i..i + Threshold - 1
      BY <1>1, <1>2, <2>5
    <3> QED BY <1>2, <2>2, <2>5, <3>1
  <2>6. hook'.tripped <=> \E i \in 1..n + 1 : Run(i, n + 1, results')
    <3>1. \A i \in 1..n : i \in 1..n + 1
      BY <1>1
    <3> HIDE DEF Run
    <3> QED BY <1>2, <2>1, <2>2, <2>4, <2>5, <3>1
  <2>7. /\ hook'.failures \in 0..n + 1
        /\ \A i \in 1..n + 1 : i > n + 1 - hook'.failures => results'[i] = "failed"
        /\ hook'.failures < n + 1 => results'[n + 1 - hook'.failures] = "ok"
    <3>1. /\ hook'.failures \in 0..n + 1 /\ n + 1 - hook'.failures = n - hook.failures
          /\ hook'.failures < n + 1 => hook.failures < n /\ n - hook.failures \in 1..n
      BY <1>1, <1>2, <2>1
    <3> QED BY <1>2, <2>2, <2>3, <3>1
  <2>8. BreakerCountsRuns'
    <3>0. Len(results') = n + 1
      BY <2>2
    <3>1. hook'.failures \in 0..Len(results')
      BY <1>1, <3>0, <2>7
    <3>2. \A i \in 1..Len(results') : i > Len(results') - hook'.failures => results'[i] = "failed"
      BY <1>1, <3>0, <2>7
    <3>3. hook'.failures < Len(results') => results'[Len(results') - hook'.failures] = "ok"
      BY <1>1, <3>0, <2>7
    <3>4. hook'.tripped <=> \E i \in 1..Len(results') : Run(i, Len(results'), results')
      <4> HIDE DEF Run
      <4> QED BY <2>2, <2>6
    <3> QED BY <3>1, <3>2, <3>3, <3>4 DEF BreakerCountsRuns
  <2> QED BY <2>2, <2>8
<1> QED BY <1>3, <1>5, <1>6 DEF Post

\* However deliveries, retries and successes interleave, before the breaker trips and after:
\* its counter is the length of the last run of failures, and it is open if and only if a
\* run was long enough (deliver, sendHTTP).
THEOREM BreakerAlwaysCountsRuns == Spec => []BreakerCountsRuns
<1> DEFINE Runs == results \in Seq(Results) /\ BreakerCountsRuns
<1>1. Init => Runs
  <2> SUFFICES ASSUME Init PROVE Runs
    OBVIOUS
  <2>1. results = <<>> /\ hook.failures = 0 /\ hook.tripped = FALSE
    BY DEF Init, NewWebhookManager
  <2>2. results \in Seq(Results) /\ Len(results) = 0 /\ 1..0 = {} /\ 0 \in 0..0 /\ ~(0 < 0)
    BY <2>1
  <2> QED BY <2>1, <2>2 DEF BreakerCountsRuns
<1>2. Inv /\ Runs /\ [Next]_vars => Runs'
  <2> SUFFICES ASSUME Inv, Runs, [Next]_vars PROVE Runs'
    OBVIOUS
  <2>1. ASSUME NEW d \in deliveries, Post(d) \/ GiveUp(d)
        PROVE  Runs'
    BY <2>1, RunsStep DEF Inv
  <2>2. ASSUME UNCHANGED <<hook, results>>
        PROVE  Runs'
    BY <2>2 DEF BreakerCountsRuns
  <2>3. ASSUME NEW p \in Publishers, Call(p)
        PROVE  Runs'
    <3>1. PICK e \in Event, x \in Subscribers : Delivers(p, e, x)
      BY <2>3, CallDelivers DEF Inv
    <3>2. UNCHANGED <<hook, results>>
      BY <3>1 DEF Delivers, webhooks
    <3> QED BY <2>2, <3>2
  <2>4. ASSUME NEW d \in deliveries, Admit(d)
        PROVE  Runs'
    BY <2>2, <2>4 DEF Admit
  <2>5. ASSUME UNCHANGED webhooks
        PROVE  Runs'
    BY <2>2, <2>5 DEF webhooks
  <2> QED
    BY <2>1, <2>3, <2>4, <2>5 DEF Next, vars, BeginPublish, TickerStop, TickerDone, Connect,
      SubscribeNext, Unsubscribe, Flush, WriteSSE, Disconnect, StreamRest, SayReady, readReady, Send,
      Discard, PoolRest, Stop, DispatchEnds, Leave
<1> QED BY <1>1, <1>2, Invariant, PTL DEF Spec
=============================================================================
