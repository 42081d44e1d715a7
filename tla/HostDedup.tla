------------------------------ MODULE HostDedup ------------------------------
(***************************************************************************)
(* How the server decides that two reports are about one host: reports     *)
(* from daemons and hosts typed in by people are matched by address and by *)
(* MAC against the hosts of the network, under one lock per network, while *)
(* people delete and consolidate hosts under one lock per host.            *)
(*                                                                         *)
(* A host is its row and its address rows; ports, services and interfaces  *)
(* follow the host as the address rows do.  One network.                   *)
(***************************************************************************)
EXTENDS Naturals, Sequences, FiniteSets, Queues

CONSTANTS
    Hosts,      \* host ids
    Reports,    \* create_with_children calls
    Typed,      \* the ones made by a person, ConflictBehavior::Error
    Claimed,    \* the host id each report carries
    Device,     \* the device each report is about
    Payload,    \* the addresses of each report, in order, each with its MAC
    Floating,   \* devices that are a virtual IP only
    VirtualMacs,\* VRRP, CARP and HSRP MACs
    NoMac,      \* an address without a MAC
    Loopbacks,  \* loopback addresses
    Users,      \* requests that delete or consolidate hosts
    None,       \* no one
    MaxFaults   \* bound on failing database calls

Brought == [r \in Reports |-> {Payload[r][i] : i \in DOMAIN Payload[r]}]
Incoming == UNION {Brought[r] : r \in Reports}
Addrs == {p.addr : p \in Incoming}
Macs == {p.mac : p \in Incoming}
Addresses == [addr : Addrs, mac : Macs]

ASSUME ReportsAssumption ==
    /\ Claimed \in [Reports -> Hosts]
    /\ Typed \subseteq Reports
    /\ \A r \in Reports : Payload[r] \in Seq(Incoming)
    /\ \A r \in Reports : \A i, j \in DOMAIN Payload[r] : Payload[r][i].addr = Payload[r][j].addr => i = j
    /\ MaxFaults \in Nat
    /\ None \notin Hosts /\ None \notin Reports /\ None \notin Users

\* A stored address row: its id, made of the report that brought it and the
\* address, and the host it belongs to.
Rows == [by : Reports, addr : Addrs, mac : Macs, host : Hosts]

VARIABLES
    hosts,      \* the ids of the host rows, oldest first
    rows,       \* the address rows
    dedup,      \* who holds the HostDedup lock
    pc,         \* where each report is
    target,     \* the host id each report goes on with
    todo,       \* addresses it has still to store
    seen,       \* rows it found there already, as it read them
    hostLock,   \* who holds each Host lock
    upc,        \* where each request is
    request,    \* its hosts: the one kept, or None, and the one removed
    destRows,   \* the address rows of the kept host, as read
    otherRows,  \* the address rows of the other, as read
    left,       \* those of them still to look at
    faults,
    \* history
    touched,    \* the devices whose reports created or updated each host
    overtaken,  \* addresses of hosts that a report and a request worked on at once
    halfway,    \* addresses of hosts whose consolidation failed after it began to move
    removed     \* addresses a person deleted with their host

reportVars == <<dedup, pc, target, todo, seen>>
userVars == <<hostLock, upc, request, destRows, otherRows, left>>
storeVars == <<hosts, rows, touched>>
vars == <<hosts, rows, dedup, pc, target, todo, seen, hostLock, upc, request, destRows, otherRows, left,
          faults, touched, overtaken, halfway, removed>>

Live == Members(hosts)
RowsOf(h) == {x \in rows : x.host = h}
Identities(xs) == {[addr |-> x.addr, mac |-> x.mac] : x \in xs}

TypeOK ==
    /\ hosts \in Seq(Hosts) /\ NoRepeat(hosts)
    /\ rows \subseteq Rows
    /\ dedup \in Reports \union {None}
    /\ pc \in [Reports -> {"idle", "matched", "storing", "ok", "failed"}]
    /\ target \in [Reports -> Hosts]
    /\ todo \in [Reports -> Seq(Incoming)]
    /\ seen \in [Reports -> SUBSET Rows]
    /\ hostLock \in [Hosts -> Users \union {None}]
    /\ upc \in [Users -> {"idle", "lock", "dest", "other", "moving", "delete", "over", "failed"}]
    /\ request \in [Users -> (Hosts \union {None}) \X (Hosts \union {None})]
    /\ destRows \in [Users -> SUBSET Rows]
    /\ otherRows \in [Users -> SUBSET Rows]
    /\ left \in [Users -> SUBSET Rows]
    /\ faults \in 0 .. MaxFaults
    /\ touched \in [Hosts -> SUBSET {Device[r] : r \in Reports}]
    /\ overtaken \subseteq Addresses /\ halfway \subseteq Addresses
    /\ removed \subseteq Addresses

Init ==
    /\ hosts = <<>> /\ rows = {}
    /\ dedup = None
    /\ pc = [r \in Reports |-> "idle"]
    /\ target = Claimed
    /\ todo = [r \in Reports |-> <<>>] /\ seen = [r \in Reports |-> {}]
    /\ hostLock = [h \in Hosts |-> None]
    /\ upc = [u \in Users |-> "idle"]
    /\ request = [u \in Users |-> <<None, None>>]
    /\ destRows = [u \in Users |-> {}] /\ otherRows = [u \in Users |-> {}]
    /\ left = [u \in Users |-> {}]
    /\ faults = 0
    /\ touched = [h \in Hosts |-> {}] /\ overtaken = {} /\ halfway = {} /\ removed = {}

-----------------------------------------------------------------------------
(***************************************************************************)
(* select_matching_host.                                                   *)
(***************************************************************************)
Virtual(p) == p.mac \in VirtualMacs
Real(p) == p.mac # NoMac /\ ~ Virtual(p)
Skipped(p) == p.addr \in Loopbacks \/ Virtual(p)

\* A MAC that several addresses of a payload share names a trunk, not an address.
UniqueMac(p, payload) == p.mac # NoMac /\ Cardinality({q \in payload : q.mac = p.mac}) = 1

SameId(r, p, x) == x.by = r /\ x.addr = p.addr

\* ip_addresses_match: by address, by id, by a MAC that is unique in the payload.
AddressesMatch(r, p, x, payload) ==
    x.addr = p.addr \/ SameId(r, p, x) \/ (x.mac = p.mac /\ UniqueMac(p, payload))

Before(h, k) == \E i, j \in DOMAIN hosts : i <= j /\ hosts[i] = h /\ hosts[j] = k
Oldest(candidates) == CHOOSE h \in candidates : \A k \in candidates : Before(h, k)
Newest(candidates) == CHOOSE h \in candidates : \A k \in candidates : Before(k, h)

\* Pass 1, mutant: shared addresses are matched as well.
PhysicalMatchesAll(r) ==
    {h \in Live : \E p \in Brought[r], x \in RowsOf(h) : AddressesMatch(r, p, x, Brought[r])}

\* Pass 1: the addresses that belong to one machine.
PhysicalMatches(r) ==
    LET payload == {p \in Brought[r] : ~ Skipped(p)}
    IN  {h \in Live : \E p \in payload, x \in RowsOf(h) :
            ~ Skipped(x) /\ AddressesMatch(r, p, x, payload)}

\* Pass 2, mutant: as in pass 1, virtual MACs identify nothing.
FloatingMatchesNone(r) ==
    LET payload == {p \in Brought[r] : ~ Skipped(p)}
    IN  {h \in Live : \E p \in payload, x \in RowsOf(h) : x.addr = p.addr}

\* Pass 2: a virtual address on its own, against hosts without a real MAC.
FloatingMatches(r) ==
    LET payload == {p \in Brought[r] : p.addr \notin Loopbacks /\ Virtual(p)}
    IN  {h \in Live :
            /\ ~ \E x \in RowsOf(h) : x.addr \notin Loopbacks /\ Real(x)
            /\ \E p \in payload, x \in RowsOf(h) : x.addr = p.addr /\ x.addr \notin Loopbacks}

\* Only one of the passes runs.
Physical(r) == \E p \in Brought[r] : ~ Skipped(p)

SelectMatchingHost(r) ==
    IF Physical(r)
    THEN IF PhysicalMatches(r) = {} THEN None ELSE Oldest(PhysicalMatches(r))
    ELSE IF FloatingMatches(r) = {} THEN None ELSE Newest(FloatingMatches(r))

-----------------------------------------------------------------------------
(***************************************************************************)
(* create_with_children.                                                   *)
(***************************************************************************)
Working(r) == pc[r] \in {"matched", "storing"}

\* A report works on the host it goes on with and on the hosts of the rows it
\* has read.  A report and a request that work on one host: what they
\* bring or find there is noted, at the steps of either.
WorksOn(r) == {target[r]} \union {x.host : x \in seen[r]}

Overlap(r, u) ==
    /\ Working(r) /\ WorksOn(r) \intersect {request[u][1], request[u][2]} # {}
    /\ upc[u] \in {"other", "moving", "delete"}

Collide(rs, us) ==
    overtaken' = overtaken \union
        UNION {Identities(Brought[w[1]] \union RowsOf(request[w[2]][1]) \union RowsOf(request[w[2]][2])) :
               w \in {w \in rs \X us : Overlap(w[1], w[2])}}

\* An error: the guard is dropped.
Abort(r) ==
    /\ pc' = [pc EXCEPT ![r] = "failed"]
    /\ dedup' = IF dedup = r THEN None ELSE dedup
    /\ target' = [target EXCEPT ![r] = Claimed[r]]
    /\ todo' = [todo EXCEPT ![r] = <<>>] /\ seen' = [seen EXCEPT ![r] = {}]

\* Stage 1, with the lock of the network: the host that the addresses name.  A
\* person is told to edit the host that is there already.
Matched(r) ==
    LET found == SelectMatchingHost(r)
    IN  /\ IF found # None /\ r \in Typed
           THEN Abort(r)
           ELSE /\ target' = [target EXCEPT ![r] = IF found = None THEN Claimed[r] ELSE found]
                /\ pc' = [pc EXCEPT ![r] = "matched"]
                /\ dedup' = r
                /\ UNCHANGED <<todo, seen>>
        /\ UNCHANGED <<storeVars, userVars, faults, overtaken, removed, halfway>>

\* Mutant: without the lock.
MatchUnlocked(r) == pc[r] = "idle" /\ Matched(r)

Match(r) == pc[r] = "idle" /\ dedup = None /\ Matched(r)

\* Mutant: a row is inserted whatever is there.
CreateUnlockedAgain(r) ==
    LET h == target[r]
    IN  /\ pc[r] = "matched"
        /\ hosts' = Append(hosts, h)
        /\ touched' = [touched EXCEPT ![h] = {Device[r]}]
        /\ todo' = [todo EXCEPT ![r] = Payload[r]]
        /\ pc' = [pc EXCEPT ![r] = "storing"]
        /\ Collide({r}, Users)
        /\ UNCHANGED <<rows, dedup, target, seen, userVars, faults, removed, halfway>>

\* Stage 2, create_unlocked: the row with that id is updated if it is there.
CreateUnlocked(r) ==
    LET h == target[r]
    IN  /\ pc[r] = "matched"
        /\ IF h \in Live
           THEN /\ touched' = [touched EXCEPT ![h] = @ \union {Device[r]}]
                /\ UNCHANGED hosts
           ELSE /\ hosts' = Append(hosts, h)
                /\ touched' = [touched EXCEPT ![h] = {Device[r]}]
        /\ todo' = [todo EXCEPT ![r] = Payload[r]]
        /\ pc' = [pc EXCEPT ![r] = "storing"]
        /\ Collide({r}, Users)
        /\ UNCHANGED <<rows, dedup, target, seen, userVars, faults, removed, halfway>>

\* Mutant: any row of the host with that MAC.
StandingCollapsed(r, p) ==
    LET byAddress == {x \in RowsOf(target[r]) : x.addr = p.addr}
    IN  IF byAddress # {} THEN byAddress
        ELSE {x \in RowsOf(target[r]) : x.mac = p.mac}

\* The row that stands for the address already: found by id, on any host, by
\* address, or by a MAC that is unique on both sides.
Standing(r, p) ==
    LET own == RowsOf(target[r])
        byId == {x \in rows : SameId(r, p, x)}
        byAddress == {x \in own : x.addr = p.addr}
        byMac == {x \in own : x.mac = p.mac}
    IN  CASE byId # {} -> byId
          [] byId = {} /\ byAddress # {} -> byAddress
          [] OTHER -> IF UniqueMac(p, Brought[r]) /\ Cardinality(byMac) = 1 THEN byMac ELSE {}

NewRow(r, p) == [by |-> r, addr |-> p.addr, mac |-> p.mac, host |-> target[r]]

\* The database accepts the row: its id is new, the host is there and does not
\* have the address.
Insertable(r, p) ==
    /\ target[r] \in Live
    /\ ~ \E x \in rows : x.addr = p.addr /\ (x.host = target[r] \/ x.by = r)

\* The next address.  It fails if the row cannot be inserted.
StoreAddress(r) ==
    LET p == Head(todo[r])
        there == IF r \in Typed THEN {} ELSE Standing(r, p)
    IN  /\ pc[r] = "storing" /\ todo[r] # <<>>
        /\ \/ /\ there # {}
              /\ seen' = [seen EXCEPT ![r] =
                             {x \in @ : ~ \E y \in there : SameId(x.by, x, y)} \union there]
              /\ todo' = [todo EXCEPT ![r] = Tail(@)]
              /\ UNCHANGED <<rows, pc, dedup, target>>
           \/ /\ there = {} /\ Insertable(r, p)
              /\ rows' = rows \union {NewRow(r, p)}
              /\ todo' = [todo EXCEPT ![r] = Tail(@)]
              /\ UNCHANGED <<pc, dedup, target, seen>>
           \/ /\ there = {} /\ ~ Insertable(r, p)
              /\ Abort(r) /\ UNCHANGED rows
        /\ Collide({r}, Users)
        /\ UNCHANGED <<hosts, touched, userVars, faults, removed, halfway>>

\* The rows that were found are written back whole, with a new time stamp, in
\* one transaction; the lock is released once the other children are stored.
Release(r) ==
    LET same(x, y) == x.by = y.by /\ x.addr = y.addr
        back == {x \in seen[r] : \E y \in rows : same(x, y)}
        after == back \union {y \in rows : ~ \E x \in back : same(x, y)}
        legal == /\ \A x \in back : x.host \in Live
                 /\ \A x, y \in after : x.addr = y.addr /\ x.host = y.host => x = y
    IN  /\ pc[r] = "storing" /\ todo[r] = <<>>
        /\ IF legal
           THEN /\ rows' = after
                /\ pc' = [pc EXCEPT ![r] = "ok"]
                /\ dedup' = IF dedup = r THEN None ELSE dedup
                /\ seen' = [seen EXCEPT ![r] = {}]
                /\ target' = [target EXCEPT ![r] = Claimed[r]]
                /\ UNCHANGED todo
           ELSE Abort(r) /\ UNCHANGED rows
        /\ Collide({r}, Users)
        /\ UNCHANGED <<hosts, touched, userVars, faults, removed, halfway>>

\* A database call fails.
ReportFails(r) ==
    /\ Working(r)
    /\ faults < MaxFaults /\ faults' = faults + 1
    /\ Abort(r)
    /\ UNCHANGED <<storeVars, userVars, overtaken, removed, halfway>>

\* A daemon sends what was not confirmed again, under the same ids.
Retry(r) ==
    /\ pc[r] = "failed" /\ r \notin Typed
    /\ pc' = [pc EXCEPT ![r] = "idle"]
    /\ UNCHANGED <<storeVars, userVars, dedup, target, todo, seen, faults, overtaken, removed, halfway>>

-----------------------------------------------------------------------------
(***************************************************************************)
(* delete_host and consolidate_hosts.                                      *)
(***************************************************************************)
Free(u) == [h \in Hosts |-> IF hostLock[h] = u THEN None ELSE hostLock[h]]

\* The guards are released, and what was read is forgotten.
LetGo(u) ==
    /\ hostLock' = Free(u)
    /\ request' = [request EXCEPT ![u] = <<None, None>>]
    /\ destRows' = [destRows EXCEPT ![u] = {}] /\ otherRows' = [otherRows EXCEPT ![u] = {}]
    /\ left' = [left EXCEPT ![u] = {}]

\* The request is over, refused or not.
EndRequest(u) == upc' = [upc EXCEPT ![u] = "over"] /\ LetGo(u)

\* People consolidate the hosts of one device, and virtual IPs into routers.
OneMachine(h, k) == Cardinality((touched[h] \union touched[k]) \ Floating) <= 1

\* The handlers read the hosts before anything is locked.
BeginDelete(u) ==
    /\ upc[u] \in {"idle", "failed"}
    /\ \E h \in Live : request' = [request EXCEPT ![u] = <<None, h>>]
    /\ upc' = [upc EXCEPT ![u] = "lock"]
    /\ UNCHANGED <<storeVars, reportVars, hostLock, destRows, otherRows, left, faults, overtaken, removed, halfway>>

BeginConsolidate(u) ==
    /\ upc[u] \in {"idle", "failed"}
    /\ \E h, k \in Live : h # k /\ OneMachine(h, k) /\ request' = [request EXCEPT ![u] = <<h, k>>]
    /\ upc' = [upc EXCEPT ![u] = "lock"]
    /\ UNCHANGED <<storeVars, reportVars, hostLock, destRows, otherRows, left, faults, overtaken, removed, halfway>>

\* session_lock_many takes the guards in one order for all requests, so that it
\* is one step that waits for both.
Lock(u) ==
    LET locked == {request[u][1], request[u][2]} \ {None}
    IN  /\ upc[u] = "lock"
        /\ \A h \in locked : hostLock[h] = None
        /\ hostLock' = [h \in Hosts |-> IF h \in locked THEN u ELSE hostLock[h]]
        /\ upc' = [upc EXCEPT ![u] = IF request[u][1] = None THEN "delete" ELSE "dest"]
        /\ UNCHANGED <<storeVars, reportVars, request, destRows, otherRows, left, faults, overtaken, removed, halfway>>

ReadDest(u) ==
    /\ upc[u] = "dest"
    /\ destRows' = [destRows EXCEPT ![u] = RowsOf(request[u][1])]
    /\ upc' = [upc EXCEPT ![u] = "other"]
    /\ UNCHANGED <<storeVars, reportVars, hostLock, request, otherRows, left, faults, overtaken, removed, halfway>>

ReadOther(u) ==
    /\ upc[u] = "other"
    /\ otherRows' = [otherRows EXCEPT ![u] = RowsOf(request[u][2])]
    /\ left' = [left EXCEPT ![u] = RowsOf(request[u][2])]
    /\ upc' = [upc EXCEPT ![u] = "moving"]
    /\ UNCHANGED <<storeVars, reportVars, hostLock, request, destRows, faults, overtaken, removed, halfway>>

\* An address of the other host that the kept one has, as both were read.
Conflict(u, x) ==
    \E d \in destRows[u] :
        \/ d.addr = x.addr
        \/ d.mac = x.mac /\ UniqueMac(d, destRows[u]) /\ UniqueMac(x, otherRows[u])

\* Each address without a conflict is moved; the update writes nothing if the
\* row is gone, and fails if the kept host is gone or has the address by now.
MoveAddress(u) ==
    LET keep == request[u][1]
    IN  /\ upc[u] = "moving"
        /\ \E x \in left[u] :
              IF Conflict(u, x) \/ ~ \E y \in rows : SameId(x.by, x, y)
              THEN /\ left' = [left EXCEPT ![u] = @ \ {x}]
                   /\ UNCHANGED <<rows, touched, hostLock, upc, request, destRows, otherRows>>
              ELSE IF keep \in Live /\ ~ \E y \in RowsOf(keep) : y.addr = x.addr /\ ~ SameId(x.by, x, y)
                   THEN /\ rows' = {y \in rows : ~ SameId(x.by, x, y)} \union {[x EXCEPT !.host = keep]}
                        /\ left' = [left EXCEPT ![u] = @ \ {x}]
                        /\ touched' = [touched EXCEPT ![keep] = @ \union touched[request[u][2]]]
                        /\ UNCHANGED <<hostLock, upc, request, destRows, otherRows>>
                   ELSE EndRequest(u) /\ UNCHANGED <<rows, touched>>
        /\ Collide(Reports, {u})
        /\ UNCHANGED <<hosts, reportVars, faults, removed, halfway>>

\* upsert_host merges the metadata.
MergeHost(u) ==
    LET keep == request[u][1]
        drop == request[u][2]
    IN  /\ upc[u] = "moving" /\ left[u] = {}
        /\ touched' = IF keep \in Live
                      THEN [touched EXCEPT ![keep] = @ \union touched[drop]] ELSE touched
        /\ upc' = [upc EXCEPT ![u] = "delete"]
        /\ UNCHANGED <<hosts, rows, reportVars, hostLock, request, destRows, otherRows, left,
                       faults, overtaken, removed, halfway>>

\* delete_host_inner: the address rows go with the host.
DeleteHostInner(u) ==
    LET h == request[u][2]
    IN  /\ upc[u] = "delete"
        /\ rows' = rows \ RowsOf(h)
        /\ hosts' = Retain(hosts, {h})
        /\ touched' = [touched EXCEPT ![h] = {}]
        /\ removed' = IF request[u][1] = None
                      THEN removed \union Identities(RowsOf(h)) ELSE removed
        /\ Collide(Reports, {u})
        /\ EndRequest(u)
        /\ UNCHANGED <<reportVars, faults, halfway>>

\* Mutant: an address that cannot be moved is logged, and the rest goes on.
RequestFailsLogged(u) ==
    /\ upc[u] = "moving"
    /\ faults < MaxFaults /\ faults' = faults + 1
    /\ \E x \in left[u] : left' = [left EXCEPT ![u] = @ \ {x}]
    /\ UNCHANGED <<storeVars, reportVars, hostLock, upc, request, destRows, otherRows, overtaken,
                   removed, halfway>>

\* A call of the request fails, or the wait for its guards times out: what has
\* been moved stays moved, and the other host is still there.  The person may
\* ask again.
RequestFails(u) ==
    LET kept == request[u][1]
        both == RowsOf(kept) \union RowsOf(request[u][2])
    IN  /\ upc[u] \in {"lock", "dest", "other", "moving", "delete"}
        /\ faults < MaxFaults /\ faults' = faults + 1
        /\ halfway' = IF kept # None /\ upc[u] \in {"moving", "delete"}
                      THEN halfway \union Identities(both) ELSE halfway
        /\ upc' = [upc EXCEPT ![u] = "failed"]
        /\ LetGo(u)
        /\ UNCHANGED <<storeVars, reportVars, overtaken, removed>>

-----------------------------------------------------------------------------
Report(r) ==
    \/ Match(r) \/ CreateUnlocked(r) \/ StoreAddress(r) \/ Release(r)
    \/ ReportFails(r) \/ Retry(r)

User(u) ==
    \/ BeginDelete(u) \/ BeginConsolidate(u) \/ Lock(u)
    \/ ReadDest(u) \/ ReadOther(u) \/ MoveAddress(u) \/ MergeHost(u) \/ DeleteHostInner(u)
    \/ RequestFails(u)

Next == (\E r \in Reports : Report(r)) \/ (\E u \in Users : User(u))

Spec == Init /\ [][Next]_vars

-----------------------------------------------------------------------------
(***************************************************************************)
(* Properties.                                                             *)
(***************************************************************************)

\* The reports of a virtual IP bring its address, with a virtual MAC, and
\* nothing else.
FloatingAlone ==
    \A q, r \in Reports : Device[q] = Device[r] /\ Device[r] \in Floating =>
        \A p \in Brought[q], s \in Brought[r] :
            p.addr = s.addr /\ Virtual(p) /\ p.addr \notin Loopbacks

\* Every id is one device's, virtual IPs and no others bring no address of their
\* own, and no two devices share an own address or the MAC of one.
DevicesApart ==
    /\ \A q, r \in Reports : Claimed[q] = Claimed[r] => Device[q] = Device[r]
    /\ \A r \in Reports : Device[r] \in Floating <=> ~ Physical(r)
    /\ \A q, r \in Reports : Device[q] # Device[r] =>
          \A p \in Brought[q], s \in Brought[r] : ~ Skipped(p) /\ ~ Skipped(s) =>
             p.addr # s.addr /\ (p.mac = NoMac \/ p.mac # s.mac)

OneRequest == \A u, w \in Users : u = w

\* The addresses of a report that belong to its device alone.
OwnAddresses(r) == {p.addr : p \in {p \in Brought[r] : ~ Skipped(p)}}

\* The reports of one device agree on them; and a device has one at most.
SameOwnAddresses ==
    \A q, r \in Reports : Device[q] = Device[r] => OwnAddresses(q) = OwnAddresses(r)
OneOwnAddress ==
    \A q, r \in Reports : Device[q] = Device[r] =>
        \A a \in OwnAddresses(q), b \in OwnAddresses(r) : a = b

\* One of these addresses is that address, or on the same card.
Among(p, xs) == \E x \in xs : x.addr = p.addr \/ (x.mac = p.mac /\ p.mac # NoMac)

\* A report and a request on its host have handled the address at once.
Torn(p) == Among(p, overtaken)

\* A consolidation failed and left the addresses of its hosts on both.
Halved(p) == Among(p, halfway)

\* Two reports of one new device make one host: an address that is not a
\* virtual or a loopback one is on two hosts only if a report ran into a
\* deletion or a consolidation of its host, or a consolidation failed half-way
\* (create_with_children; consolidate_hosts has no transaction around it).
OneHostPerAddress ==
    \A x, y \in {z \in rows : ~ Skipped(z)} :
        x.addr = y.addr /\ x.host # y.host => Torn(x) \/ Halved(x)

\* The routers of a redundancy group are never taken for one machine, although
\* both report the shared address (select_matching_host, pass 1).
PeersApart == \A h \in Live : Cardinality(touched[h] \ Floating) <= 1

\* A floating address is one host, not a new one at every scan: no two hosts
\* known from its own reports only have it, unless a report ran into a request
\* (select_matching_host, pass 2).
OneFloatingHost ==
    \A d \in Floating :
        \A x, y \in {z \in rows : touched[z.host] = {d}} :
            x.addr = y.addr /\ x.host # y.host => Torn(x)

\* A consolidation deletes an address with the other host only if the kept host
\* has the address, or one on the same card, where each of them had one address
\* on that card when they were read: an address of a trunk is never dropped, and
\* neither a failed call nor the order of the moves drops one.  What a report
\* has overtaken is exempt (consolidate_hosts).
ConsolidationKeeps ==
    [][\A u \in Users : upc[u] = "delete" /\ upc'[u] = "over" /\ request[u][1] # None =>
          \A x \in RowsOf(request[u][2]) :
             \/ Torn(x)
             \/ \E d \in rows' : d.host = request[u][1] /\ d.addr = x.addr
             \/ \E d \in destRows[u] :
                   /\ d.mac = x.mac /\ UniqueMac(d, destRows[u]) /\ UniqueMac(x, otherRows[u])
                   /\ d \in rows' \/ Torn(d)]_vars

\* What a report returned Ok for is on a live host, under its address or, if it
\* is the only one there with its MAC, under that, unless a person deleted it, a
\* report ran into a request on its host, or a consolidation of its host failed
\* half-way: no address of a trunk is collapsed into another, and neither a retry
\* nor a consolidation that ends loses one.  (After one that failed, the addresses
\* of a trunk are on two hosts, one on each may be all there is on the card, and a
\* second consolidation takes the one for the other.)
ReportedIsKept ==
    \A r \in Reports : pc[r] = "ok" =>
        \A p \in Brought[r] :
            \/ \E x \in removed : x.addr = p.addr \/ x.mac = p.mac
            \/ \E x \in rows : /\ x.addr = p.addr \/ (x.mac = p.mac /\ UniqueMac(p, Brought[r]))
                               /\ x.host \in Live
            \/ Torn(p) \/ Halved(p)
=============================================================================
