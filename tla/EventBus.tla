------------------------------ MODULE EventBus ------------------------------
(***************************************************************************)
(* A channel of the server's event bus.  A publisher offers its event to   *)
(* the subscribers in the order in which they registered.  A subscriber    *)
(* without a debounce window handles the event at once, in the publisher's *)
(* task; for the others the event is put aside, and a task of the          *)
(* subscriber takes what has come together and handles it as one batch.    *)
(* A handler that fails is logged: its events are gone.                    *)
(* (The bus has a channel per type of operation; they differ in their      *)
(* subscribers only, which Wants expresses.)                               *)
(***************************************************************************)
EXTENDS Naturals, Sequences, SequencesExt

CONSTANTS
    Publishers,
    Subscribers,    \* the registered subscribers, in order
    Debounced,      \* those with a debounce window
    Wants,          \* the kinds of event each subscriber's filter matches
    Program,        \* the kinds of event each publisher publishes, in order
    MaxFailures     \* bound on failing handlers

Names == Range(Subscribers)

ASSUME SubscribersAssumption ==
    /\ Subscribers \in Seq(Names) /\ IsInjective(Subscribers)
    /\ Debounced \subseteq Names

ASSUME ProgramAssumption == \A p \in Publishers : Program[p] \in Seq(STRING)

ASSUME FailuresAssumption == MaxFailures \in Nat

\* The n-th event of p.
Events == UNION {{p} \X (1 .. Len(Program[p])) : p \in Publishers}

Kind(e) == Program[e[1]][e[2]]

VARIABLES
    count,      \* how many events each publisher has published
    at,         \* the subscriber it has come to, 0 when it is not publishing
    pending,    \* the events put aside for each subscriber
    batch,      \* the events its task has taken and is handling
    handled,    \* the events it has handled
    dropped,    \* the events whose handler failed
    failures    \* handlers failed so far

busVars == <<count, at, pending, batch, handled, dropped, failures>>

BusTypeOK ==
    /\ count \in [Publishers -> Nat] /\ \A p \in Publishers : count[p] <= Len(Program[p])
    /\ at \in [Publishers -> 0 .. Len(Subscribers)]
    /\ \A f \in {pending, batch, handled} : f \in [Names -> Seq(Events)]
    /\ dropped \in [Names -> SUBSET Events]
    /\ failures \in 0 .. MaxFailures

BusInit ==
    /\ count = [p \in Publishers |-> 0]
    /\ at = [p \in Publishers |-> 0]
    /\ pending = [s \in Names |-> <<>>]
    /\ batch = [s \in Names |-> <<>>]
    /\ handled = [s \in Names |-> <<>>]
    /\ dropped = [s \in Names |-> {}]
    /\ failures = 0

\* The event p is publishing, and the subscriber it has come to.
Current(p) == <<p, count[p]>>
Reached(p) == Subscribers[at[p]]

\* handle(events): done, or an error that is logged.
Handle(s, events) ==
    \/ /\ handled' = [handled EXCEPT ![s] = @ \o events]
       /\ UNCHANGED <<dropped, failures>>
    \/ /\ failures < MaxFailures
       /\ failures' = failures + 1
       /\ dropped' = [dropped EXCEPT ![s] = @ \union Range(events)]
       /\ UNCHANGED handled

\* publish: the first step.
BeginPublish(p) ==
    /\ at[p] = 0
    /\ count[p] < Len(Program[p])
    /\ count' = [count EXCEPT ![p] = @ + 1]
    /\ at' = [at EXCEPT ![p] = 1]
    /\ UNCHANGED <<pending, batch, handled, dropped, failures>>

\* The rest of publish, one subscriber at a time: add_event if the filter
\* matches.
Matches(p) == Kind(Current(p)) \in Wants[Reached(p)]

\* Mutant: the event is put aside without its scope.
AddEventKind(p) ==
    IF Reached(p) \in Debounced
    THEN /\ pending' = [pending EXCEPT ![Reached(p)] = Append(@, Kind(Current(p)))]
         /\ UNCHANGED <<handled, dropped, failures>>
    ELSE Handle(Reached(p), <<Current(p)>>) /\ UNCHANGED pending

AddEvent(p) ==
    IF Reached(p) \in Debounced
    THEN /\ pending' = [pending EXCEPT ![Reached(p)] = Append(@, Current(p))]
         /\ UNCHANGED <<handled, dropped, failures>>
    ELSE Handle(Reached(p), <<Current(p)>>) /\ UNCHANGED pending

Offer(p) ==
    /\ at[p] # 0
    /\ IF Matches(p) THEN AddEvent(p) ELSE UNCHANGED <<pending, handled, dropped, failures>>
    /\ at' = [at EXCEPT ![p] = IF @ = Len(Subscribers) THEN 0 ELSE @ + 1]
    /\ UNCHANGED <<count, batch>>

\* Mutant: a single event waits for company.
TickTwo(s) ==
    /\ s \in Debounced
    /\ batch[s] = <<>> /\ Len(pending[s]) > 1
    /\ batch' = [batch EXCEPT ![s] = pending[s]]
    /\ pending' = [pending EXCEPT ![s] = <<>>]
    /\ UNCHANGED <<count, at, handled, dropped, failures>>

\* The task of a debounced subscriber: drain under the lock ...
Tick(s) ==
    /\ s \in Debounced
    /\ batch[s] = <<>> /\ pending[s] # <<>>
    /\ batch' = [batch EXCEPT ![s] = pending[s]]
    /\ pending' = [pending EXCEPT ![s] = <<>>]
    /\ UNCHANGED <<count, at, handled, dropped, failures>>

\* Mutant: what came together while the handler ran is thrown
\* away with the batch.
HandleBatchClears(s) ==
    /\ batch[s] # <<>>
    /\ Handle(s, batch[s])
    /\ batch' = [batch EXCEPT ![s] = <<>>]
    /\ pending' = [pending EXCEPT ![s] = <<>>]
    /\ UNCHANGED <<count, at>>

\* Mutant: a failed batch is put back behind what has come.
HandleBatchPutsBack(s) ==
    /\ batch[s] # <<>>
    /\ \/ /\ handled' = [handled EXCEPT ![s] = @ \o batch[s]]
          /\ UNCHANGED <<failures, pending>>
       \/ /\ failures < MaxFailures
          /\ failures' = failures + 1
          /\ pending' = [pending EXCEPT ![s] = @ \o batch[s]]
          /\ UNCHANGED handled
    /\ batch' = [batch EXCEPT ![s] = <<>>]
    /\ UNCHANGED <<count, at, dropped>>

\* ... then handle what was drained.
HandleBatch(s) ==
    /\ batch[s] # <<>>
    /\ Handle(s, batch[s])
    /\ batch' = [batch EXCEPT ![s] = <<>>]
    /\ UNCHANGED <<count, at, pending>>

-----------------------------------------------------------------------------
(***************************************************************************)
(* Properties.                                                             *)
(***************************************************************************)

\* What s has got so far and not lost, in the order in which it gets to it.
Line(s) == handled[s] \o batch[s] \o pending[s]

\* The position of s in the order of registration.
Position(s) == CHOOSE i \in 1 .. Len(Subscribers) : Subscribers[i] = s

\* The events that have been offered to s and match its filter.
Offered(s) ==
    {e \in Events :
        /\ Kind(e) \in Wants[s]
        /\ \/ e[2] < count[e[1]]
           \/ e[2] = count[e[1]] /\ (at[e[1]] = 0 \/ at[e[1]] > Position(s))}

\* Every event offered to a subscriber is handled, on its way to the handler
\* or was dropped by a failing handler, and never twice, although events are
\* pushed while the handler of an earlier batch runs.
DeliveredOnce ==
    \A s \in Names :
        /\ IsInjective(Line(s))
        /\ Range(Line(s)) \intersect dropped[s] = {}
        /\ Range(Line(s)) \union dropped[s] = Offered(s)

\* A subscriber sees the events of one publisher in the order in which they
\* were published, debounced or not.
PublisherOrder ==
    \A s \in Names : \A i, j \in 1 .. Len(Line(s)) :
        i < j /\ Line(s)[i][1] = Line(s)[j][1] => Line(s)[i][2] < Line(s)[j][2]

\* An event that is put aside does not stay there: its batch is handled, or
\* fails.
PendingIsHandled ==
    \A s \in Debounced : \A e \in Events :
        e \in Range(pending[s]) ~> e \in Range(handled[s]) \union dropped[s]
=============================================================================
