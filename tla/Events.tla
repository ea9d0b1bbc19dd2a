------------------------------- MODULE Events -------------------------------
(***************************************************************************)
(* The event bus and everything that subscribes to it (internal/events):   *)
(* event streams of API clients (api.go), the pool of listener processes,  *)
(* webhooks, and the ticker, which is one more publisher.                  *)
(*                                                                         *)
(* A publisher is a goroutine that publishes one event after the other,    *)
(* such as the state changes of one process, which are published with the  *)
(* lock of the process held.  Publish copies the list of handlers and then *)
(* calls them one by one; subscriptions change between the calls.  An      *)
(* event is its publisher, its number there and its type; its payload and  *)
(* how it is written out are left out.                                     *)
(***************************************************************************)
EXTENDS Naturals, Sequences, SequencesExt, FiniteSets

CONSTANTS
  Processes,   \* publishers of state changes
  Ticker,      \* the ticker, a publisher
  Types,       \* event types
  TickTypes,   \* those of the ticker
  Streams,     \* connections of API clients
  Listeners,   \* processes of the listener pool
  Pool, Hook,  \* the subscribers that are not streams
  Scenarios,   \* the sets of subscribers to look at
  QueueSize,   \* the 64 slots of a stream's channel and of eventCh
  MaxRetries,  \* WebhookConfig.MaxRetries
  Threshold,   \* the 5 failures that trip the breaker
  MaxEvents    \* bound on the events of a publisher

Publishers == Processes \cup {Ticker}
Subscribers == Streams \cup {Pool, Hook}

ASSUME EventsConstants ==
  /\ Ticker \notin Processes /\ TickTypes \subseteq Types /\ Pool # Hook /\ {Pool, Hook} \cap Streams = {}
  /\ {QueueSize, MaxRetries, Threshold, MaxEvents} \subseteq Nat \ {0}
  /\ Scenarios \subseteq SUBSET Subscribers

Event == [by : Publishers, n : 1..MaxEvents, type : Types]

VARIABLES
  scenario, \* the subscribers of this behaviour
  closing,  \* the pool and the webhook, once their Stop was called
  dispatching, \* the dispatch goroutine of the pool runs
  subs,     \* Bus.subs: for each type the subscribers, in order
  pub,      \* the Publish under way of each publisher: the event (at most one) and the handlers to call
  count,    \* how many events it has published
  ticker,   \* Ticker: "run", "stopping" (stopCh closed) or "done"
  stream,   \* a connection: where it is, its types, the types to subscribe to or leave
  ch,       \* the channel of a stream
  got,      \* history: what its client received
  due,      \* history: the events whose Publish began while the client saw the stream open
  dropped,  \* history: the events that found the channel full
  eventCh,  \* the queue of the pool
  lstate,   \* Listener.state, as the pool has it
  lproc,    \* the listener process: what it does, its event, a READY not read yet
  given,    \* history: the events sent to each listener
  hook,     \* webhookEntry: failures and the breaker
  deliveries, \* the goroutines of deliver: event and attempt; 0 is before the breaker is looked at
  results   \* history: how the deliveries that were posted ended, in that order

services == <<scenario, closing, dispatching>>
bus      == <<subs, pub, count, ticker>>
clients  == <<stream, ch, got, due, dropped>>
pool     == <<eventCh, lstate, lproc, given>>
webhooks == <<hook, deliveries, results>>
vars == <<services, bus, clients, pool, webhooks>>

NewBus ==
  /\ subs = [t \in Types |-> SetToSeq(scenario \cap {Pool, Hook})]
  /\ pub = [p \in Publishers |-> [event |-> {}, todo |-> <<>>]]
  /\ count = [p \in Publishers |-> 0] /\ ticker = "run"

NoClients ==
  /\ stream = [s \in Streams |-> [at |-> "new", types |-> {}, left |-> {}]]
  /\ ch = [s \in Streams |-> <<>>] /\ got = [s \in Streams |-> <<>>]
  /\ due = [s \in Streams |-> {}] /\ dropped = [s \in Streams |-> {}]

\* NewListenerPool, and AddListener for every process of the pool.
NewListenerPool ==
  /\ eventCh = <<>> /\ lstate = [l \in Listeners |-> "acknowledged"]
  /\ lproc = [l \in Listeners |-> [does |-> "init", said |-> FALSE]]
  /\ given = [l \in Listeners |-> {}]

NewWebhookManager ==
  hook = [failures |-> 0, tripped |-> FALSE] /\ deliveries = {} /\ results = <<>>

\* The pool and the webhook subscribe when they are made.
Init ==
  /\ scenario \in Scenarios /\ closing = {} /\ dispatching = TRUE
  /\ NewBus /\ NoClients /\ NewListenerPool /\ NewWebhookManager

-----------------------------------------------------------------------------
(***************************************************************************)
(* Publish.                                                                *)
(***************************************************************************)
Open == {s \in Streams : stream[s].at = "open"}

\* Publish returns when no handler is left.
Publishing(event, handlers) ==
  [event |-> IF handlers = <<>> THEN {} ELSE event, todo |-> handlers]

\* The handlers of the type are copied under the lock.
BeginPublish(p, t) ==
  /\ pub[p].event = {} /\ count[p] < MaxEvents
  /\ IF p = Ticker THEN t \in TickTypes /\ ticker # "done" ELSE t \notin TickTypes
  /\ LET e == [by |-> p, n |-> count[p] + 1, type |-> t]
     IN  /\ pub' = [pub EXCEPT ![p] = Publishing({e}, subs[t])]
         /\ due' = [s \in Streams |-> IF s \in Open /\ t \in stream[s].types THEN due[s] \cup {e} ELSE due[s]]
  /\ count' = [count EXCEPT ![p] = @ + 1]
  /\ UNCHANGED <<services, subs, ticker, stream, ch, got, dropped, pool, webhooks>>

\* Mutant of Offer: the handler waits for room in the channel.
OfferBlocking(queue, e) == Len(queue) < QueueSize

\* The handlers of streams and of the pool do not wait for room in their channel.
Offer(queue, e) == TRUE

Put(queue, e) == IF Len(queue) < QueueSize THEN Append(queue, e) ELSE queue

\* safeCall of the next handler.
Call(p) ==
  /\ pub[p].todo # <<>>
  /\ pub' = [pub EXCEPT ![p] = Publishing(@.event, Tail(@.todo))]
  /\ LET e == CHOOSE e \in pub[p].event : TRUE
         s == Head(pub[p].todo)
     IN  \/ /\ s \in Streams /\ Offer(ch[s], e)
            /\ ch' = [ch EXCEPT ![s] = Put(@, e)]
            /\ dropped' = [dropped EXCEPT ![s] = IF Len(ch[s]) < QueueSize THEN @ ELSE @ \cup {e}]
            /\ UNCHANGED <<pool, webhooks>>
         \/ /\ s = Pool /\ Offer(eventCh, e)
            /\ eventCh' = Put(eventCh, e)
            /\ UNCHANGED <<ch, dropped, lstate, lproc, given, webhooks>>
         \/ /\ s = Hook
            /\ deliveries' = deliveries \cup {[event |-> e, attempt |-> 0]}
            /\ UNCHANGED <<ch, dropped, pool, hook, results>>
  /\ UNCHANGED <<services, subs, count, ticker, stream, got, due>>

\* Ticker.Stop closes stopCh; run returns when it sees that.
TickerStop ==
  /\ ticker = "run" /\ ticker' = "stopping"
  /\ UNCHANGED <<services, subs, pub, count, clients, pool, webhooks>>

TickerDone ==
  /\ ticker = "stopping" /\ pub[Ticker].event = {}
  /\ ticker' = "done"
  /\ UNCHANGED <<services, subs, pub, count, clients, pool, webhooks>>

-----------------------------------------------------------------------------
(***************************************************************************)
(* handleEventStream and handleStreamLog.                                  *)
(***************************************************************************)
StreamRest == UNCHANGED <<services, pub, count, ticker, dropped, pool, webhooks>>

Connect(s, types) ==
  /\ s \in scenario /\ stream[s].at = "new"
  /\ stream' = [stream EXCEPT ![s] = [at |-> "subscribing", types |-> types, left |-> types]]
  /\ UNCHANGED <<subs, ch, got, due>> /\ StreamRest

\* Mutant of Subscribe: every turn of the loop subscribes to the same type.
SubscribeSame(s, t) == [subs EXCEPT ![CHOOSE u \in stream[s].types : TRUE] = Append(@, s)]

Subscribe(s, t) == [subs EXCEPT ![t] = Append(@, s)]

SubscribeNext(s, t) ==
  /\ stream[s].at = "subscribing" /\ t \in stream[s].left
  /\ subs' = Subscribe(s, t)
  /\ stream' = [stream EXCEPT ![s].left = @ \ {t}]
  /\ UNCHANGED <<ch, got, due>> /\ StreamRest

\* Mutant of Subscribed: the headers go out before the subscriptions are made.
SubscribedSome(s) == stream[s].left # stream[s].types

Subscribed(s) == stream[s].left = {}

\* The headers are flushed.
Flush(s) ==
  /\ stream[s].at = "subscribing" /\ Subscribed(s)
  /\ stream' = [stream EXCEPT ![s].at = "open"]
  /\ UNCHANGED <<subs, ch, got, due>> /\ StreamRest

WriteSSE(s) ==
  /\ stream[s].at = "open" /\ ch[s] # <<>>
  /\ got' = [got EXCEPT ![s] = Append(@, Head(ch[s]))]
  /\ ch' = [ch EXCEPT ![s] = Tail(@)]
  /\ UNCHANGED <<subs, stream, due>> /\ StreamRest

\* The client is gone; the subscriptions are removed one by one.
Disconnect(s) ==
  /\ stream[s].at = "open"
  /\ stream' = [stream EXCEPT ![s].at = "leaving", ![s].left = stream[s].types]
  /\ UNCHANGED <<subs, ch, got, due>> /\ StreamRest

Unsubscribe(s, t) ==
  /\ stream[s].at = "leaving" /\ t \in stream[s].left
  /\ subs' = [subs EXCEPT ![t] = RemoveFirst(@, s)]
  /\ stream' = [stream EXCEPT ![s].left = @ \ {t}]
  /\ UNCHANGED <<ch, got, due>> /\ StreamRest

-----------------------------------------------------------------------------
(***************************************************************************)
(* The listener pool, and a listener that says READY when it has nothing   *)
(* to do.                                                                  *)
(***************************************************************************)
PoolRest == UNCHANGED <<services, bus, clients, webhooks>>

\* external: the listener process prints READY, at first or after an event.
SayReady(l) ==
  /\ Pool \in scenario /\ lproc[l].does \in {"init", "works"}
  /\ lproc' = [lproc EXCEPT ![l] = [does |-> "waits", said |-> TRUE]]
  /\ UNCHANGED <<eventCh, lstate, given>> /\ PoolRest

readReady(l) ==
  /\ lproc[l].said
  /\ lproc' = [lproc EXCEPT ![l].said = FALSE]
  /\ lstate' = [lstate EXCEPT ![l] = "ready"]
  /\ UNCHANGED <<eventCh, given>> /\ PoolRest

\* Mutant of Busy: a listener that was given an event stays ready.
StaysReady(l) == lstate

Busy(l) == [lstate EXCEPT ![l] = "busy"]

\* dispatch and sendToReady: the event goes to a listener that is ready; the write may
\* fail, and the listener then stays busy.
Send(l) ==
  /\ dispatching /\ eventCh # <<>> /\ lstate[l] = "ready"
  /\ eventCh' = Tail(eventCh)
  /\ lstate' = Busy(l)
  /\ \/ /\ given' = [given EXCEPT ![l] = @ \cup {Head(eventCh)}]
        /\ lproc' = [lproc EXCEPT ![l].does = IF @ = "waits" THEN "works" ELSE "confused"]
     \/ UNCHANGED <<given, lproc>>
  /\ PoolRest

\* Nobody is ready: the event is gone.
Discard ==
  /\ dispatching /\ eventCh # <<>> /\ \A l \in Listeners : lstate[l] # "ready"
  /\ eventCh' = Tail(eventCh)
  /\ UNCHANGED <<lstate, lproc, given>> /\ PoolRest

-----------------------------------------------------------------------------
(***************************************************************************)
(* deliver: one goroutine for each event.                                  *)
(***************************************************************************)
HookRest == UNCHANGED <<services, bus, clients, pool>>

Admit(d) ==
  /\ d \in deliveries /\ d.attempt = 0
  /\ deliveries' = (deliveries \ {d}) \cup IF hook.tripped THEN {} ELSE {[d EXCEPT !.attempt = 1]}
  /\ UNCHANGED <<hook, results>> /\ HookRest

\* Mutant of Succeeded: a delivery closes the breaker too.
SucceededResets(h) == [failures |-> 0, tripped |-> FALSE]

Succeeded(h) == [h EXCEPT !.failures = 0]

\* sendHTTP: a success ends the delivery, a failure is followed by the next attempt.
Post(d) ==
  /\ d \in deliveries /\ d.attempt \in 1..MaxRetries
  /\ \/ /\ hook' = Succeeded(hook)
        /\ deliveries' = deliveries \ {d} /\ results' = Append(results, "ok")
     \/ /\ deliveries' = (deliveries \ {d}) \cup {[d EXCEPT !.attempt = @ + 1]}
        /\ UNCHANGED <<hook, results>>
  /\ HookRest

\* All attempts failed.
GiveUp(d) ==
  /\ d \in deliveries /\ d.attempt > MaxRetries
  /\ deliveries' = deliveries \ {d} /\ results' = Append(results, "failed")
  /\ hook' = [failures |-> hook.failures + 1, tripped |-> hook.tripped \/ hook.failures + 1 >= Threshold]
  /\ HookRest

-----------------------------------------------------------------------------
(***************************************************************************)
(* Stop of the pool and of the webhook.  What was queued or is being       *)
(* delivered is left to itself.                                            *)
(***************************************************************************)
Stop(x) ==
  /\ x \in scenario \ (closing \cup Streams) /\ closing' = closing \cup {x}
  /\ UNCHANGED <<scenario, dispatching, bus, clients, pool, webhooks>>

\* dispatch finds stopCh closed, sooner or later: it may take events before that.
DispatchEnds ==
  /\ Pool \in closing /\ dispatching /\ dispatching' = FALSE
  /\ UNCHANGED <<scenario, closing, bus, clients, pool, webhooks>>

\* One of the Unsubscribe calls; the pool waits for its dispatcher first.
Leave(x, t) ==
  /\ x \in closing /\ x \in ToSet(subs[t]) /\ (x = Pool => ~dispatching)
  /\ subs' = [subs EXCEPT ![t] = RemoveFirst(@, x)]
  /\ UNCHANGED <<services, pub, count, ticker, clients, pool, webhooks>>

Next ==
  \/ \E p \in Publishers : (\E t \in Types : BeginPublish(p, t)) \/ Call(p)
  \/ TickerStop \/ TickerDone
  \/ \E s \in Streams : \/ \E types \in SUBSET Types \ {{}} : Connect(s, types)
                        \/ \E t \in Types : SubscribeNext(s, t) \/ Unsubscribe(s, t)
                        \/ Flush(s) \/ WriteSSE(s) \/ Disconnect(s)
  \/ \E l \in Listeners : SayReady(l) \/ readReady(l) \/ Send(l)
  \/ Discard
  \/ \E d \in deliveries : Admit(d) \/ Post(d) \/ GiveUp(d)
  \/ \E x \in {Pool, Hook} : Stop(x) \/ \E t \in Types : Leave(x, t)
  \/ DispatchEnds

Spec == Init /\ [][Next]_vars

\* The Go runtime runs the publishers and the ticker; nothing is assumed of clients,
\* listeners and HTTP servers.
FairSpec ==
  /\ Spec
  /\ \A p \in Publishers : WF_vars(Call(p))
  /\ WF_vars(TickerDone)

-----------------------------------------------------------------------------
\* A stream gets the events of one publisher in the order of their publication and none
\* twice, whatever other publishers, subscriptions and disconnections happen meanwhile.
StreamInOrder ==
  \A s \in Streams : LET all == got[s] \o ch[s] IN
    \A i, j \in 1..Len(all) : i < j /\ all[i].by = all[j].by => all[i].n < all[j].n

\* "An event published once the client sees the stream open is delivered": it reaches the
\* channel or finds it full.
OpenGetsAll ==
  \A s \in Open : \A e \in due[s] :
    \/ e \in ToSet(got[s]) \cup ToSet(ch[s]) \cup dropped[s]
    \/ \E p \in Publishers : e \in pub[p].event /\ s \in ToSet(pub[p].todo)

\* A listener is given an event only while it waits for one, and no event goes to two
\* listeners (sendToReady and readReady act on one state from two goroutines).
OneAtATime ==
  /\ \A l \in Listeners : lproc[l].does # "confused"
  /\ \A l, m \in Listeners : l # m => given[l] \cap given[m] = {}

\* "Circuit breaker opens after 5 consecutive failures" (spec.md): however deliveries that
\* run side by side end, before the breaker trips and after, the counter is the length of
\* the last run of failures, and the breaker is open if and only if a run was long enough.
BreakerCountsRuns ==
  LET n == Len(results) IN
  /\ hook.failures \in 0..n
  /\ \A i \in 1..n : i > n - hook.failures => results[i] = "failed"
  /\ hook.failures < n => results[n - hook.failures] = "ok"
  /\ hook.tripped <=> \E i \in 1..n : /\ i + Threshold - 1 <= n
                                     /\ \A j \in i..i + Threshold - 1 : results[j] = "failed"

\* No publisher waits for a subscriber: a Publish ends although clients do not read,
\* listeners do not answer and servers hang (it runs with the lock of a process held);
\* Ticker.Stop therefore returns too, and shutdown begins.
PublishEnds ==
  /\ \A p \in Publishers : pub[p].event # {} ~> pub[p].event = {}
  /\ ticker = "stopping" ~> ticker = "done"
=============================================================================
