-------------------------- MODULE SessionFinalizer --------------------------
(***************************************************************************)
(* The end of update_session for a Complete report, over the event bus:    *)
(* the phase is published, the historical row is written and published,    *)
(* and the transient parent of a rescan is deleted.  (The count of scans,  *)
(* written in between, is part of DiscoverySchedule.)                      *)
(* Subscribers run in the middle of it: the neighbour resolution of the    *)
(* host service (on Complete), the updaters of last_discovery_id and the   *)
(* reaper of scan-target subnets (on the row), and debounced ones.  Other  *)
(* publishers use the bus at the same time.                                *)
(***************************************************************************)
EXTENDS EventBus

CONSTANTS
    Finalizer,  \* the publisher that runs update_session
    Resolver    \* the subscriber that resolves neighbours (HostService)

ASSUME FinalizerAssumption ==
    /\ Finalizer \in Publishers
    /\ Program[Finalizer] = <<"Complete", "Created">>
    /\ Resolver \in Names \ Debounced

VARIABLES
    rescan,     \* whether the discovery is the transient parent of a rescan
    step,       \* how far update_session is
    row,        \* whether the historical row is written
    parent,     \* whether the discovery is there
    warnings    \* the resolution's warnings: none yet, on the row, or lost

vars == <<busVars, rescan, step, row, parent, warnings>>

TypeOK ==
    /\ BusTypeOK
    /\ step \in {"publish", "published", "stored", "announced", "done"}
    /\ rescan \in BOOLEAN /\ row \in BOOLEAN /\ parent \in BOOLEAN
    /\ warnings \in {"none", "recorded", "lost"}

Init ==
    /\ BusInit
    /\ rescan \in BOOLEAN
    /\ step = "publish" /\ row = FALSE /\ parent = TRUE
    /\ warnings = "none"

Published == at[Finalizer] = 0

\* append_historical_warnings, called from the resolver's handler: a row that
\* is not there is silently passed over.
AppendWarnings ==
    warnings' = IF Reached(Finalizer) = Resolver /\ Matches(Finalizer)
                   /\ Current(Finalizer) \in Range(handled'[Resolver])
                THEN IF row THEN "recorded" ELSE "lost"
                ELSE warnings

PublishPhase ==
    /\ step = "publish"
    /\ BeginPublish(Finalizer)
    /\ step' = "published"
    /\ UNCHANGED <<rescan, row, parent, warnings>>

\* publish goes through the subscribers, inside update_session.
OfferToSubscribers ==
    /\ Offer(Finalizer)
    /\ AppendWarnings
    /\ UNCHANGED <<rescan, step, row, parent>>

\* discovery_storage.create, whose error is only logged; the row is published
\* only if it was written.
StoreRow ==
    /\ step = "published" /\ Published
    /\ \/ row' = TRUE /\ step' = "stored"
       \/ row' = row /\ step' = "announced"
    /\ UNCHANGED <<busVars, rescan, parent, warnings>>

PublishRow ==
    /\ step = "stored"
    /\ BeginPublish(Finalizer)
    /\ step' = "announced"
    /\ UNCHANGED <<rescan, row, parent, warnings>>

\* Mutant: the delete does not wait for the subscribers.
DeleteParentAtOnce ==
    /\ step = "announced"
    /\ parent' = ~ rescan
    /\ step' = "done"
    /\ UNCHANGED <<busVars, rescan, row, warnings>>

\* The parent of a rescan is deleted; an error leaves it to the sweeper.
DeleteParent ==
    /\ step = "announced" /\ Published
    /\ parent' \in IF rescan THEN {parent, FALSE} ELSE {parent}
    /\ step' = "done"
    /\ UNCHANGED <<busVars, rescan, row, warnings>>

\* Other tasks of the server, and the tasks of debounced subscribers.
Others(p) ==
    /\ p # Finalizer
    /\ BeginPublish(p) \/ Offer(p)
    /\ UNCHANGED <<rescan, step, row, parent, warnings>>

Debounce(s) ==
    /\ Tick(s) \/ HandleBatch(s)
    /\ UNCHANGED <<rescan, step, row, parent, warnings>>

Finalize ==
    \/ PublishPhase \/ OfferToSubscribers \/ StoreRow
    \/ PublishRow \/ DeleteParent

Next ==
    \/ Finalize
    \/ \E p \in Publishers : Others(p)
    \/ \E s \in Debounced : Debounce(s)

Spec == Init /\ [][Next]_vars

\* The debounce tasks tick for ever and their handlers return.
FairSpec == Spec /\ \A s \in Debounced : WF_vars(Debounce(s))

-----------------------------------------------------------------------------
(***************************************************************************)
(* Properties.                                                             *)
(***************************************************************************)

\* "Delete it now that the historical row is persisted and its subscribers
\* have run": when the parent of a rescan goes, every subscriber that is not
\* debounced has run on the phase and on the row, if there is one.
SubscribersBeforeDelete ==
    ~ parent =>
        \A s \in Names \ Debounced : \A n \in 1 .. count[Finalizer] :
            Kind(<<Finalizer, n>>) \in Wants[s] =>
                <<Finalizer, n>> \in Range(handled[s]) \union dropped[s]

\* "Resolution necessarily runs after the historical Discovery row is written,
\* so its findings are appended to that row" (hosts/subscriber.rs).  Not so: the
\* phase is published before the row is written.  No run checks this.
WarningsRecorded == warnings # "lost"
=============================================================================
