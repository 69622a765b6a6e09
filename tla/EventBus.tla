------------------------------- MODULE EventBus -------------------------------
(***************************************************************************)
(* The in-process event publisher.  Publishing an event and replaying one  *)
(* of the outbox take the list of handlers registered for its type, append *)
(* the wildcard handlers to it, and call one after the other; other        *)
(* requests run while a handler is awaited.  A type without handlers gets  *)
(* a fresh list; for the others it is the registered list that grows.      *)
(***************************************************************************)
EXTENDS Integers, Sequences, FiniteSets, SequencesExt

CONSTANTS
    EventTypes,      \* types of events
    Named,           \* EventTypes -> the handlers subscribed to each at start-up
    Wildcard,        \* the handler of every type
    MaxDeliveries,   \* bound: deliveries between two starts of the process
    MaxRestarts      \* bound: restarts

ASSUME EventAssumption ==
    /\ Named \in [EventTypes -> Seq(STRING \ {Wildcard})]
    /\ \A t \in EventTypes : \A i, j \in DOMAIN Named[t] : Named[t][i] = Named[t][j] => i = j
    /\ MaxDeliveries \in Nat /\ MaxRestarts \in Nat

VARIABLES
    handlers,     \* EventTypes -> the registered list, which deliveries extend
    delivery,     \* the deliveries since the process started, in order
    outbox,       \* types of the published events, in memory only
    replaying,    \* the entries that a replay request still has to deliver
    restarts

eventVars == <<handlers, delivery, outbox, replaying, restarts>>

-----------------------------------------------------------------------------

\* A type without subscribers is not in the dictionary.
Registered(t) == Named[t] # <<>>

\* Mutant of Extended: the wildcard handler is left out.
ExtendedNamedOnly(t) == handlers[t]

Extended(t) == Append(handlers[t], Wildcard)

\* Starts the delivery of an event of type t; by says which request awaits it.
Deliver(t, by) ==
    /\ Len(delivery) < MaxDeliveries
    /\ delivery' = Append(delivery,
          [type |-> t, by |-> by, own |-> IF Registered(t) THEN <<>> ELSE Extended(t),
           at |-> 1, called |-> <<>>, done |-> FALSE])
    /\ handlers' = IF Registered(t) THEN [handlers EXCEPT ![t] = Extended(t)] ELSE handlers

Publish(t) ==
    /\ Deliver(t, "publish")
    /\ outbox' = Append(outbox, t)
    /\ UNCHANGED <<replaying, restarts>>

\* The list that delivery d iterates over.
ListOf(d) == IF Registered(d.type) THEN handlers[d.type] ELSE d.own

\* Mutant of AfterCall: a handler that raises ends the delivery.
AfterCallStops(d, raised) == IF raised THEN Len(ListOf(d)) + 1 ELSE d.at + 1

\* What a handler raises is logged.
AfterCall(d, raised) == d.at + 1

\* Mutant of CallHandler: what a handler raises leaves the loop.
CallHandlerEscapes(n) ==
    /\ ~delivery[n].done
    /\ delivery[n].at \in 1..Len(ListOf(delivery[n]))
    /\ \E raised \in BOOLEAN :
          delivery' = [delivery EXCEPT ![n].at = IF raised THEN 0 ELSE @ + 1,
                                       ![n].called = Append(@, ListOf(delivery[n])[delivery[n].at])]
    /\ UNCHANGED <<handlers, outbox, replaying, restarts>>

CallHandler(n) ==
    /\ ~delivery[n].done
    /\ delivery[n].at <= Len(ListOf(delivery[n]))
    /\ \E raised \in BOOLEAN :
          delivery' = [delivery EXCEPT ![n].at = AfterCall(delivery[n], raised),
                                       ![n].called = Append(@, ListOf(delivery[n])[delivery[n].at])]
    /\ UNCHANGED <<handlers, outbox, replaying, restarts>>

EndDelivery(n) ==
    /\ ~delivery[n].done
    /\ delivery[n].at > Len(ListOf(delivery[n]))
    /\ delivery' = [delivery EXCEPT ![n].done = TRUE]
    /\ UNCHANGED <<handlers, outbox, replaying, restarts>>

\* A replay works on a copy of the outbox.
ReplayEvents ==
    /\ replaying = <<>>
    /\ outbox # <<>>
    /\ replaying' = outbox
    /\ UNCHANGED <<handlers, delivery, outbox, restarts>>

\* The entries are replayed one after the other.
ReplayNext ==
    /\ replaying # <<>>
    /\ \A n \in DOMAIN delivery : delivery[n].by = "replay" => delivery[n].done
    /\ Deliver(Head(replaying), "replay")
    /\ replaying' = Tail(replaying)
    /\ UNCHANGED <<outbox, restarts>>

\* register_cross_domain_handlers runs when the application starts; deliveries
\* and outbox are gone.
Restart ==
    /\ restarts < MaxRestarts
    /\ handlers' = Named
    /\ delivery' = <<>> /\ outbox' = <<>> /\ replaying' = <<>>
    /\ restarts' = restarts + 1

EventInit ==
    /\ handlers = Named
    /\ delivery = <<>> /\ outbox = <<>> /\ replaying = <<>>
    /\ restarts = 0

EventNext ==
    \/ \E t \in EventTypes : Publish(t)
    \/ \E n \in DOMAIN delivery : CallHandler(n) \/ EndDelivery(n)
    \/ ReplayEvents \/ ReplayNext
    \/ Restart

\* The event loop resumes a delivery when the handler it awaits has returned.
Delivers(n) == n \in DOMAIN delivery /\ (CallHandler(n) \/ EndDelivery(n))

EventFairness == \A n \in 1..MaxDeliveries : WF_eventVars(Delivers(n))

EventSpec == EventInit /\ [][EventNext]_eventVars /\ EventFairness

-----------------------------------------------------------------------------
(* Properties *)

TimesCalled(d, h) == Cardinality({i \in DOMAIN d.called : d.called[i] = h})

\* A delivery calls each handler subscribed to the type of its event at most
\* once, and has called all of them when it ends: although other deliveries
\* extend the list it iterates over, and whether handlers raise or not.
NamedHandlersOnce ==
    \A n \in DOMAIN delivery : \A h \in ToSet(Named[delivery[n].type]) :
        /\ TimesCalled(delivery[n], h) <= 1
        /\ delivery[n].done => TimesCalled(delivery[n], h) = 1

DeliveriesOf(t, last) == {n \in DOMAIN delivery : n <= last /\ delivery[n].type = t}

\* The wildcard handler stays on the registered list: the delivery of an event
\* calls it once for every delivery of the type since the process started, at
\* least of those before it and at most of those so far; once if the type has
\* no handlers of its own.
WildcardsPileUp ==
    \A n \in DOMAIN delivery :
        LET d == delivery[n] IN
        d.done => IF Registered(d.type)
                  THEN TimesCalled(d, Wildcard) \in Cardinality(DeliveriesOf(d.type, n))
                                              ..Cardinality(DeliveriesOf(d.type, Len(delivery)))
                  ELSE TimesCalled(d, Wildcard) = 1

\* Every delivery that has started ends, unless the process stops: finitely
\* many deliveries cannot extend the list for ever.
DeliveriesEnd ==
    \A n \in 1..MaxDeliveries :
        n \in DOMAIN delivery ~> (n \notin DOMAIN delivery \/ delivery[n].done)

\* What subscribers may rely on.
EventsAreDelivered == [](NamedHandlersOnce /\ WildcardsPileUp) /\ DeliveriesEnd
==============================================================================
