--------------------------- MODULE HostDedupProofs ---------------------------
(***************************************************************************)
(* Proofs about HostDedup, for any hosts, reports, devices, requests and   *)
(* number of faults.                                                       *)
(*                                                                         *)
(* The properties speak of the address rows and of who was on a host at    *)
(* the same time; none is inductive.  Sound collects what every proof      *)
(* needs: one report at a time works (Serial), a request holds the guards  *)
(* of its hosts (Guarded), rows are on hosts that are there and that know  *)
(* the device that brought them (Tables), and what a report or a request   *)
(* has read is still so, or the address was noted (Fresh).  On top of it:  *)
(*   Single, Pending     a floating address has one host, and the report   *)
(*                       that is on its way goes to it;                    *)
(*   Peers               no host, target or request joins two machines;    *)
(*   OneHost, Directed   the same as Single for an own address;            *)
(*   Undisturbed         the same for a device, until a person asks;       *)
(*   DestFresh, Relocated   an address of a host to be removed will be     *)
(*                       looked at, or the kept host has it or its card.   *)
(***************************************************************************)
EXTENDS HostDedup, QueuesProofs

-----------------------------------------------------------------------------
(***************************************************************************)
(* The order of the hosts.                                                 *)
(***************************************************************************)

\* Any hosts of the network have an oldest and a newest one.
LEMMA Extremes ==
    ASSUME NEW H, hosts \in Seq(H), NEW S, S \subseteq Live, S # {}
    PROVE  /\ \E h \in S : \A k \in S : Before(h, k)
           /\ \E h \in S : \A k \in S : Before(k, h)
<1> DEFINE P == {i \in DOMAIN hosts : hosts[i] \in S}
<1>1. DOMAIN hosts = 1 .. Len(hosts) /\ Len(hosts) \in Nat
  OBVIOUS
<1>2. P \in SUBSET (1 .. Len(hosts)) /\ P \in SUBSET Nat /\ P # {}
  BY <1>1 DEF Live, Members
<1>3. IsFiniteSet(P)
  <2>1. IsFiniteSet(1 .. Len(hosts))
    BY <1>1, FS_Interval
  <2>q. QED BY <1>2, <2>1, FS_Subset
<1>4. Cardinality(P) \in Nat \ {0}
  BY <1>2, <1>3, FS_CardinalityType, FS_EmptySet
<1>5. ASSUME NEW i \in P PROVE {j \in P : j < i} \in SUBSET P /\ IsFiniteSet({j \in P : j < i})
  <2>1. {j \in P : j < i} \in SUBSET P
    OBVIOUS
  <2>q. QED BY <1>3, <2>1, FS_Subset
<1>6. ASSUME NEW k \in S PROVE \E j \in P : hosts[j] = k
  BY DEF Live, Members
<1>7. \E h \in S : \A k \in S : Before(h, k)
  <2>1. 1 \in 1 .. Cardinality(P)
    BY <1>4
  <2>2. PICK i \in P : Cardinality({j \in P : j < i}) = 1 - 1
    BY <1>2, <1>3, <2>1, NthExists
  <2>3. {j \in P : j < i} = {}
    <3>1. Cardinality({j \in P : j < i}) = 0
      BY <2>2
    <3>q. QED BY <3>1, <1>5, FS_EmptySet
  <2>4. ASSUME NEW k \in S PROVE Before(hosts[i], k)
    <3>1. PICK j \in P : hosts[j] = k
      BY <1>6
    <3>2. i \in Nat /\ j \in Nat /\ ~ (j < i)
      BY <1>2, <2>3
    <3>3. i <= j
      BY <3>2
    <3>q. QED BY <3>1, <3>3 DEF Before
  <2>q. QED BY <2>4
<1>8. \E h \in S : \A k \in S : Before(k, h)
  <2>1. Cardinality(P) \in 1 .. Cardinality(P)
    BY <1>4
  <2>2. PICK i \in P : Cardinality({j \in P : j < i}) = Cardinality(P) - 1
    BY <1>2, <1>3, <2>1, NthExists
  <2> DEFINE B == {j \in P : j < i}
  <2>3. i \in Nat /\ i \notin B
    BY <1>2
  <2>4. IsFiniteSet(B \union {i}) /\ Cardinality(B \union {i}) = Cardinality(B) + 1
    BY <2>3, <1>5, FS_AddElement
  <2>5. B \union {i} = P
    <3>1. B \union {i} \in SUBSET P
      OBVIOUS
    <3>2. Cardinality(B \union {i}) = Cardinality(P)
      BY <1>4, <2>2, <2>4
    <3>q. QED BY <3>1, <3>2, <1>3, FS_Subset
  <2>6. ASSUME NEW k \in S PROVE Before(k, hosts[i])
    <3>1. PICK j \in P : hosts[j] = k
      BY <1>6
    <3>2. i \in Nat /\ j \in Nat /\ (j < i \/ j = i)
      BY <1>2, <2>5
    <3>3. j <= i
      BY <3>2
    <3>q. QED BY <3>1, <3>3 DEF Before
  <2>q. QED BY <2>6
<1>q. QED BY <1>7, <1>8

\* select_matching_host names a host that matches in the pass that runs, and
\* none only if there is none.
LEMMA SelectsMatch ==
    ASSUME TypeOK, NEW r \in Reports
    PROVE  /\ Physical(r) =>
                \/ SelectMatchingHost(r) = None /\ PhysicalMatches(r) = {}
                \/ SelectMatchingHost(r) \in PhysicalMatches(r)
           /\ ~ Physical(r) =>
                \/ SelectMatchingHost(r) = None /\ FloatingMatches(r) = {}
                \/ SelectMatchingHost(r) \in FloatingMatches(r)
           /\ SelectMatchingHost(r) \in Live \union {None}
<1>1. PhysicalMatches(r) \subseteq Live /\ FloatingMatches(r) \subseteq Live
  BY DEF PhysicalMatches, FloatingMatches
<1>2. hosts \in Seq(Hosts)
  BY DEF TypeOK
<1>3. PhysicalMatches(r) # {} => Oldest(PhysicalMatches(r)) \in PhysicalMatches(r)
  <2> DEFINE S == PhysicalMatches(r)
  <2> HIDE DEF S
  <2>1. S # {} => Oldest(S) \in S
    BY <1>1, <1>2, Extremes DEF Oldest, S
  <2>q. QED BY <2>1 DEF S
<1>4. FloatingMatches(r) # {} => Newest(FloatingMatches(r)) \in FloatingMatches(r)
  <2> DEFINE S == FloatingMatches(r)
  <2> HIDE DEF S
  <2>1. S # {} => Newest(S) \in S
    BY <1>1, <1>2, Extremes DEF Newest, S
  <2>q. QED BY <2>1 DEF S
<1>q. QED BY <1>1, <1>3, <1>4 DEF SelectMatchingHost

-----------------------------------------------------------------------------
(***************************************************************************)
(* Types.                                                                  *)
(***************************************************************************)
StoreTypes ==
    /\ hosts \in Seq(Hosts) /\ NoRepeat(hosts)
    /\ rows \subseteq Rows
    /\ touched \in [Hosts -> SUBSET {Device[r] : r \in Reports}]

ReportTypes ==
    /\ dedup \in Reports \union {None}
    /\ pc \in [Reports -> {"idle", "matched", "storing", "ok", "failed"}]
    /\ target \in [Reports -> Hosts]
    /\ todo \in [Reports -> Seq(Incoming)]
    /\ seen \in [Reports -> SUBSET Rows]

UserTypes ==
    /\ hostLock \in [Hosts -> Users \union {None}]
    /\ upc \in [Users -> {"idle", "lock", "dest", "other", "moving", "delete", "over", "failed"}]
    /\ request \in [Users -> (Hosts \union {None}) \X (Hosts \union {None})]
    /\ destRows \in [Users -> SUBSET Rows]
    /\ otherRows \in [Users -> SUBSET Rows]
    /\ left \in [Users -> SUBSET Rows]

NoteTypes ==
    /\ faults \in 0 .. MaxFaults
    /\ overtaken \subseteq Addresses /\ halfway \subseteq Addresses
    /\ removed \subseteq Addresses

\* TypeOK, in the parts that the actions touch together.
LEMMA TypeParts == TypeOK <=> StoreTypes /\ ReportTypes /\ UserTypes /\ NoteTypes
BY DEF TypeOK, StoreTypes, ReportTypes, UserTypes, NoteTypes

\* The same of the next state.
LEMMA TypePartsPrimed ==
    ASSUME StoreTypes', ReportTypes', UserTypes', NoteTypes'
    PROVE  TypeOK'
BY DEF TypeOK, StoreTypes, ReportTypes, UserTypes, NoteTypes

\* A request names the hosts it needs from its beginning to its end.
Asking ==
    \A u \in Users : upc[u] \notin {"idle", "over", "failed"} =>
        /\ request[u][2] \in Hosts
        /\ upc[u] \in {"dest", "other", "moving"} =>
              request[u][1] \in Hosts /\ request[u][1] # request[u][2]
        /\ request[u][1] # None => request[u][1] # request[u][2]

\* The addresses that a report brings.
LEMMA BroughtIncoming ==
    ASSUME NEW r \in Reports
    PROVE  /\ Brought[r] \subseteq Incoming
           /\ Payload[r] \in Seq(Incoming)
           /\ Brought[r] = {Payload[r][i] : i \in DOMAIN Payload[r]}
           /\ \A p \in Brought[r] : p.addr \in Addrs /\ p.mac \in Macs
BY ReportsAssumption DEF Brought, Incoming, Addrs, Macs

\* The hosts of the network are host ids.
LEMMA LiveHosts ==
    ASSUME StoreTypes
    PROVE  Live \subseteq Hosts
BY DEF StoreTypes, Live, Members

\* What is noted of addresses is an address and a MAC.
LEMMA IdentitiesTyped ==
    ASSUME NEW xs, \A x \in xs : x.addr \in Addrs /\ x.mac \in Macs
    PROVE  Identities(xs) \subseteq Addresses
BY DEF Identities, Addresses

\* The rows of a host are rows.
LEMMA RowsOfTyped ==
    ASSUME rows \subseteq Rows, NEW h
    PROVE  \A x \in RowsOf(h) : x \in rows /\ x \in Rows /\ x.addr \in Addrs /\ x.mac \in Macs
BY DEF RowsOf, Rows

\* So is what is noted of a collision.
LEMMA CollideTypes ==
    ASSUME rows \subseteq Rows, overtaken \subseteq Addresses,
           NEW rs \in SUBSET Reports, NEW us \in SUBSET Users, Collide(rs, us)
    PROVE  overtaken' \subseteq Addresses
<1> DEFINE Both(w) == Brought[w[1]] \union RowsOf(request[w[2]][1]) \union RowsOf(request[w[2]][2])
<1>1. ASSUME NEW w \in rs \X us PROVE Identities(Both(w)) \subseteq Addresses
  <2>1. w[1] \in Reports
    OBVIOUS
  <2>2. \A x \in Both(w) : x.addr \in Addrs /\ x.mac \in Macs
    BY <2>1, BroughtIncoming, RowsOfTyped
  <2>q. QED BY <2>2, IdentitiesTyped
<1>2. overtaken' = overtaken \union UNION {Identities(Both(w)) : w \in {w \in rs \X us : Overlap(w[1], w[2])}}
  BY DEF Collide
<1> HIDE DEF Both
<1>q. QED BY <1>1, <1>2

\* An error leaves a report typed.
LEMMA AbortTypes ==
    ASSUME ReportTypes, NEW r \in Reports, Abort(r)
    PROVE  ReportTypes'
<1>1. Claimed[r] \in Hosts
  BY ReportsAssumption
<1>2. <<>> \in Seq(Incoming)
  OBVIOUS
<1>q. QED BY <1>1, <1>2 DEF ReportTypes, Abort

\* A request ends, at its end or with an error.
Ends(u) ==
    /\ upc' = [upc EXCEPT ![u] = "over"] \/ upc' = [upc EXCEPT ![u] = "failed"]
    /\ LetGo(u)

\* Both do.
LEMMA BothEnd ==
    ASSUME NEW u, EndRequest(u) \/ RequestFails(u)
    PROVE  Ends(u)
BY DEF Ends, EndRequest, RequestFails

\* The end of a request leaves it typed.
LEMMA EndTypes ==
    ASSUME UserTypes, NEW u \in Users, Ends(u)
    PROVE  UserTypes'
<1>1. Free(u) \in [Hosts -> Users \union {None}]
  BY DEF UserTypes, Free
<1>q. QED BY <1>1 DEF UserTypes, Ends, LetGo

\* The rows that stand for an address are rows of the table.
LEMMA StandingRows ==
    ASSUME NEW r, NEW p
    PROVE  Standing(r, p) \subseteq rows
BY DEF Standing, RowsOf

\* Every step keeps the types.
LEMMA TypeStep ==
    ASSUME TypeOK, Asking, [Next]_vars
    PROVE  TypeOK'
<1>0. StoreTypes /\ ReportTypes /\ UserTypes /\ NoteTypes
  BY TypeParts
<1>1. CASE UNCHANGED vars
  BY <1>1 DEF TypeOK, vars
<1>2. ASSUME NEW r \in Reports, Match(r) PROVE TypeOK'
  <2>1. UNCHANGED <<storeVars, userVars, faults, overtaken, removed, halfway>>
    BY <1>2 DEF Match, Matched
  <2>2. ReportTypes'
    <3>1. CASE Abort(r)
      BY <1>0, <3>1, AbortTypes
    <3>2. CASE /\ target' = [target EXCEPT ![r] = IF SelectMatchingHost(r) = None THEN Claimed[r]
                                                  ELSE SelectMatchingHost(r)]
               /\ pc' = [pc EXCEPT ![r] = "matched"]
               /\ dedup' = r
               /\ UNCHANGED <<todo, seen>>
      <4>1. SelectMatchingHost(r) \in Hosts \union {None} /\ Claimed[r] \in Hosts
        BY <1>0, SelectsMatch, LiveHosts, ReportsAssumption
      <4>q. QED BY <1>0, <3>2, <4>1 DEF ReportTypes
    <3>q. QED BY <1>2, <3>1, <3>2 DEF Match, Matched
  <2>q. QED BY <1>0, <2>1, <2>2, TypePartsPrimed DEF StoreTypes, UserTypes, NoteTypes,
               storeVars, userVars
<1>3. ASSUME NEW r \in Reports, CreateUnlocked(r) PROVE TypeOK'
  <2>1. UNCHANGED <<rows, dedup, target, seen, userVars, faults, removed, halfway>>
    BY <1>3 DEF CreateUnlocked
  <2>2. target[r] \in Hosts /\ Payload[r] \in Seq(Incoming)
    BY <1>0, BroughtIncoming DEF ReportTypes
  <2>3. StoreTypes'
    <3>1. CASE target[r] \in Live
      BY <1>0, <1>3, <2>1, <2>2, <3>1 DEF CreateUnlocked, StoreTypes
    <3>2. CASE target[r] \notin Live
      <4>1. hosts' = Append(hosts, target[r]) /\ target[r] \notin Members(hosts)
        BY <1>3, <3>2 DEF CreateUnlocked, Live
      <4>2. hosts' \in Seq(Hosts) /\ NoRepeat(hosts')
        BY <1>0, <2>2, <4>1, PushMembers DEF StoreTypes
      <4>q. QED BY <1>0, <1>3, <2>1, <3>2, <4>2 DEF CreateUnlocked, StoreTypes
    <3>q. QED BY <3>1, <3>2
  <2>4. ReportTypes'
    BY <1>0, <1>3, <2>1, <2>2 DEF CreateUnlocked, ReportTypes
  <2>5. overtaken' \subseteq Addresses
    BY <1>0, <1>3, CollideTypes DEF CreateUnlocked, StoreTypes, NoteTypes
  <2>q. QED BY <1>0, <2>1, <2>3, <2>4, <2>5, TypePartsPrimed DEF UserTypes, NoteTypes,
               userVars
<1>4. ASSUME NEW r \in Reports, StoreAddress(r) PROVE TypeOK'
  <2> DEFINE p == Head(todo[r])
             there == IF r \in Typed THEN {} ELSE Standing(r, p)
  <2>1. UNCHANGED <<hosts, touched, userVars, faults, removed, halfway>>
    BY <1>4 DEF StoreAddress
  <2>2. todo[r] \in Seq(Incoming) /\ todo[r] # <<>>
    BY <1>0, <1>4 DEF StoreAddress, ReportTypes
  <2>3. p \in Incoming /\ Tail(todo[r]) \in Seq(Incoming)
    BY <2>2
  <2>4. there \subseteq Rows /\ NewRow(r, p) \in Rows
    BY <1>0, <2>3, StandingRows DEF StoreTypes, ReportTypes, NewRow, Rows, Addrs, Macs
  <2>5. rows' \subseteq Rows /\ ReportTypes'
    <3>1. CASE Abort(r) /\ UNCHANGED rows
      BY <1>0, <3>1, AbortTypes DEF StoreTypes
    <3>2. CASE /\ seen' = [seen EXCEPT ![r] =
                              {x \in @ : ~ \E y \in there : SameId(x.by, x, y)} \union there]
               /\ todo' = [todo EXCEPT ![r] = Tail(@)]
               /\ UNCHANGED <<rows, pc, dedup, target>>
      BY <1>0, <2>3, <2>4, <3>2 DEF StoreTypes, ReportTypes
    <3>3. CASE /\ rows' = rows \union {NewRow(r, p)}
               /\ todo' = [todo EXCEPT ![r] = Tail(@)]
               /\ UNCHANGED <<pc, dedup, target, seen>>
      BY <1>0, <2>3, <2>4, <3>3 DEF StoreTypes, ReportTypes
    <3>q. QED BY <1>4, <3>1, <3>2, <3>3 DEF StoreAddress
  <2>6. overtaken' \subseteq Addresses
    BY <1>0, <1>4, CollideTypes DEF StoreAddress, StoreTypes, NoteTypes
  <2>q. QED BY <1>0, <2>1, <2>5, <2>6, TypePartsPrimed DEF StoreTypes, UserTypes,
               NoteTypes, userVars
<1>5. ASSUME NEW r \in Reports, Release(r) PROVE TypeOK'
  <2>1. UNCHANGED <<hosts, touched, userVars, faults, removed, halfway>>
    BY <1>5 DEF Release
  <2>2. rows' \subseteq rows \union seen[r]
    BY <1>5 DEF Release
  <2>3. rows' \subseteq Rows
    BY <1>0, <2>2 DEF StoreTypes, ReportTypes
  <2>4. ReportTypes'
    <3>1. CASE Abort(r)
      BY <1>0, <3>1, AbortTypes
    <3>2. CASE ~ Abort(r)
      <4>1. /\ pc' = [pc EXCEPT ![r] = "ok"]
            /\ dedup' = IF dedup = r THEN None ELSE dedup
            /\ seen' = [seen EXCEPT ![r] = {}]
            /\ target' = [target EXCEPT ![r] = Claimed[r]]
            /\ UNCHANGED todo
        BY <1>5, <3>2 DEF Release
      <4>2. Claimed[r] \in Hosts
        BY ReportsAssumption
      <4>q. QED BY <1>0, <4>1, <4>2 DEF ReportTypes
    <3>q. QED BY <3>1, <3>2
  <2>5. overtaken' \subseteq Addresses
    BY <1>0, <1>5, CollideTypes DEF Release, StoreTypes, NoteTypes
  <2>q. QED BY <1>0, <2>1, <2>3, <2>4, <2>5, TypePartsPrimed DEF StoreTypes, UserTypes,
               NoteTypes, userVars
<1>6. ASSUME NEW r \in Reports, ReportFails(r) PROVE TypeOK'
  <2>1. ReportTypes'
    BY <1>0, <1>6, AbortTypes DEF ReportFails
  <2>2. faults' \in 0 .. MaxFaults
    BY <1>0, <1>6, ReportsAssumption DEF ReportFails, NoteTypes
  <2>q. QED BY <1>0, <1>6, <2>1, <2>2, TypePartsPrimed
         DEF ReportFails, StoreTypes, UserTypes, NoteTypes, storeVars, userVars
<1>7. ASSUME NEW r \in Reports, Retry(r) PROVE TypeOK'
  BY <1>0, <1>7, TypePartsPrimed
     DEF Retry, StoreTypes, ReportTypes, UserTypes, NoteTypes, storeVars, userVars
<1>8. ASSUME NEW u \in Users, BeginDelete(u) \/ BeginConsolidate(u) PROVE TypeOK'
  <2>1. UNCHANGED <<storeVars, reportVars, hostLock, destRows, otherRows, left, faults, overtaken, removed, halfway>>
    BY <1>8 DEF BeginDelete, BeginConsolidate
  <2>2. /\ request' \in [Users -> (Hosts \union {None}) \X (Hosts \union {None})]
        /\ upc' = [upc EXCEPT ![u] = "lock"]
    BY <1>0, <1>8, LiveHosts DEF BeginDelete, BeginConsolidate, UserTypes
  <2>q. QED BY <1>0, <2>1, <2>2, TypePartsPrimed
         DEF StoreTypes, ReportTypes, UserTypes, NoteTypes, storeVars, reportVars
<1>9. ASSUME NEW u \in Users, Lock(u) PROVE TypeOK'
  <2>1. /\ hostLock' \in [Hosts -> Users \union {None}]
        /\ upc' \in [Users -> {"idle", "lock", "dest", "other", "moving", "delete", "over", "failed"}]
    BY <1>0, <1>9 DEF Lock, UserTypes
  <2>q. QED BY <1>0, <1>9, <2>1, TypePartsPrimed
         DEF Lock, StoreTypes, ReportTypes, UserTypes, NoteTypes, storeVars, reportVars
<1>10. ASSUME NEW u \in Users, ReadDest(u) \/ ReadOther(u) PROVE TypeOK'
  <2>1. \A h : RowsOf(h) \subseteq Rows
    BY <1>0 DEF StoreTypes, RowsOf
  <2>2. CASE ReadDest(u)
    BY <1>0, <2>1, <2>2, TypePartsPrimed
       DEF ReadDest, StoreTypes, ReportTypes, UserTypes, NoteTypes, storeVars, reportVars
  <2>3. CASE ReadOther(u)
    BY <1>0, <2>1, <2>3, TypePartsPrimed
       DEF ReadOther, StoreTypes, ReportTypes, UserTypes, NoteTypes, storeVars, reportVars
  <2>q. QED BY <1>10, <2>2, <2>3
<1>11. ASSUME NEW u \in Users, MoveAddress(u) PROVE TypeOK'
  <2>1. UNCHANGED <<hosts, reportVars, faults, removed, halfway>>
    BY <1>11 DEF MoveAddress
  <2>2. overtaken' \subseteq Addresses
    BY <1>0, <1>11, CollideTypes DEF MoveAddress, StoreTypes, NoteTypes
  <2>3. PICK x \in left[u] :
          \/ left' = [left EXCEPT ![u] = @ \ {x}]
             /\ UNCHANGED <<rows, touched, hostLock, upc, request, destRows, otherRows>>
          \/ /\ request[u][1] \in Live
             /\ rows' = {y \in rows : ~ SameId(x.by, x, y)} \union {[x EXCEPT !.host = request[u][1]]}
             /\ left' = [left EXCEPT ![u] = @ \ {x}]
             /\ touched' = [touched EXCEPT ![request[u][1]] = @ \union touched[request[u][2]]]
             /\ UNCHANGED <<hostLock, upc, request, destRows, otherRows>>
          \/ EndRequest(u) /\ UNCHANGED <<rows, touched>>
    BY <1>11 DEF MoveAddress
  <2>4. left[u] \subseteq Rows /\ x \in Rows
    BY <1>0 DEF UserTypes
  <2>5. CASE left' = [left EXCEPT ![u] = @ \ {x}]
             /\ UNCHANGED <<rows, touched, hostLock, upc, request, destRows, otherRows>>
    BY <1>0, <2>1, <2>2, <2>4, <2>5, TypePartsPrimed
       DEF StoreTypes, ReportTypes, UserTypes, NoteTypes, reportVars
  <2>6. CASE /\ request[u][1] \in Live
             /\ rows' = {y \in rows : ~ SameId(x.by, x, y)} \union {[x EXCEPT !.host = request[u][1]]}
             /\ left' = [left EXCEPT ![u] = @ \ {x}]
             /\ touched' = [touched EXCEPT ![request[u][1]] = @ \union touched[request[u][2]]]
             /\ UNCHANGED <<hostLock, upc, request, destRows, otherRows>>
    <3>1. request[u][1] \in Hosts
      BY <1>0, <2>6, LiveHosts
    <3>2. [x EXCEPT !.host = request[u][1]] \in Rows
      BY <2>4, <3>1 DEF Rows
    <3>3. request[u][2] \in Hosts
      BY <1>11 DEF MoveAddress, Asking
    <3>4. touched' \in [Hosts -> SUBSET {Device[r] : r \in Reports}]
      BY <1>0, <2>6, <3>1, <3>3 DEF StoreTypes
    <3>q. QED BY <1>0, <2>1, <2>2, <2>4, <2>6, <3>2, <3>4, TypePartsPrimed
           DEF StoreTypes, ReportTypes, UserTypes, NoteTypes, reportVars
  <2>7. CASE EndRequest(u) /\ UNCHANGED <<rows, touched>>
    BY <1>0, <2>1, <2>2, <2>7, BothEnd, EndTypes, TypePartsPrimed DEF StoreTypes,
       ReportTypes, NoteTypes, reportVars
  <2>q. QED BY <2>3, <2>5, <2>6, <2>7
<1>12. ASSUME NEW u \in Users, MergeHost(u) PROVE TypeOK'
  <2>1. request[u][2] \in Hosts
    BY <1>12 DEF MergeHost, Asking
  <2>2. touched' \in [Hosts -> SUBSET {Device[r] : r \in Reports}]
    BY <1>0, <1>12, <2>1 DEF MergeHost, StoreTypes
  <2>q. QED BY <1>0, <1>12, <2>2, TypePartsPrimed
         DEF MergeHost, StoreTypes, ReportTypes, UserTypes, NoteTypes, reportVars
<1>13. ASSUME NEW u \in Users, DeleteHostInner(u) PROVE TypeOK'
  <2> DEFINE h == request[u][2]
  <2>1. UNCHANGED <<reportVars, faults, halfway>>
    BY <1>13 DEF DeleteHostInner
  <2>2. StoreTypes'
    <3>1. hosts' \in Seq(Hosts) /\ NoRepeat(hosts)'
      BY <1>0, <1>13, RetainType, RetainInjective DEF DeleteHostInner, StoreTypes
    <3>q. QED BY <1>0, <1>13, <3>1 DEF DeleteHostInner, StoreTypes
  <2>3. UserTypes'
    BY <1>0, <1>13, BothEnd, EndTypes DEF DeleteHostInner
  <2>4. overtaken' \subseteq Addresses
    BY <1>0, <1>13, CollideTypes DEF DeleteHostInner, StoreTypes, NoteTypes
  <2>5. removed' \subseteq Addresses
    <3>1. Identities(RowsOf(h)) \subseteq Addresses
      BY <1>0, RowsOfTyped, IdentitiesTyped DEF StoreTypes
    <3>q. QED BY <1>0, <1>13, <3>1 DEF DeleteHostInner, NoteTypes
  <2>q. QED BY <1>0, <2>1, <2>2, <2>3, <2>4, <2>5, TypePartsPrimed DEF ReportTypes,
               NoteTypes, reportVars
<1>14. ASSUME NEW u \in Users, RequestFails(u) PROVE TypeOK'
  <2> DEFINE both == RowsOf(request[u][1]) \union RowsOf(request[u][2])
  <2>1. UserTypes'
    BY <1>0, <1>14, BothEnd, EndTypes
  <2>2. faults' \in 0 .. MaxFaults
    BY <1>0, <1>14, ReportsAssumption DEF RequestFails, NoteTypes
  <2>3. Identities(both) \subseteq Addresses
    BY <1>0, RowsOfTyped, IdentitiesTyped DEF StoreTypes
  <2>4. halfway' \subseteq halfway \union Identities(both)
    BY <1>14 DEF RequestFails
  <2>5. UNCHANGED <<storeVars, reportVars, overtaken, removed>>
    BY <1>14 DEF RequestFails
  <2> HIDE DEF both
  <2>q. QED BY <1>0, <2>1, <2>2, <2>3, <2>4, <2>5, TypePartsPrimed
         DEF StoreTypes, ReportTypes, NoteTypes, storeVars, reportVars
<1>q. QED BY <1>1, <1>2, <1>3, <1>4, <1>5, <1>6, <1>7, <1>8, <1>9, <1>10, <1>11, <1>12,
             <1>13, <1>14
          DEF Next, Report, User

\* No step takes the hosts of a request away before its end.
LEMMA AskingStep ==
    ASSUME TypeOK, Asking, [Next]_vars
    PROVE  Asking'
<1>0. UserTypes /\ Live \subseteq Hosts
  BY TypeParts, LiveHosts
<1>1. CASE UNCHANGED <<upc, request>>
  BY <1>1 DEF Asking
<1>2. CASE UNCHANGED vars
  BY <1>1, <1>2 DEF vars
<1>3. ASSUME NEW r \in Reports, Report(r) PROVE Asking'
  BY <1>1, <1>3 DEF Report, Match, Matched, CreateUnlocked, StoreAddress, Release,
     ReportFails, Retry,
     userVars
<1>4. ASSUME NEW u \in Users, BeginDelete(u) \/ BeginConsolidate(u) PROVE Asking'
  <2>1. PICK h \in Hosts \union {None}, k \in Hosts :
          request' = [request EXCEPT ![u] = <<h, k>>] /\ (h # None => h # k)
    BY <1>0, <1>4, ReportsAssumption DEF BeginDelete, BeginConsolidate
  <2>2. upc' = [upc EXCEPT ![u] = "lock"]
    BY <1>4 DEF BeginDelete, BeginConsolidate
  <2>q. QED BY <1>0, <2>1, <2>2 DEF Asking, UserTypes
<1>5. ASSUME NEW u \in Users, Lock(u) PROVE Asking'
  BY <1>0, <1>5 DEF Lock, Asking, UserTypes
<1>6. ASSUME NEW u \in Users, ReadDest(u) PROVE Asking'
  BY <1>0, <1>6 DEF ReadDest, Asking, UserTypes
<1>7. ASSUME NEW u \in Users, ReadOther(u) PROVE Asking'
  BY <1>0, <1>7 DEF ReadOther, Asking, UserTypes
<1>8. ASSUME NEW u \in Users, Ends(u) PROVE Asking'
  BY <1>0, <1>8 DEF Ends, LetGo, Asking, UserTypes
<1>9. ASSUME NEW u \in Users, MoveAddress(u) PROVE Asking'
  BY <1>1, <1>8, <1>9, BothEnd DEF MoveAddress
<1>10. ASSUME NEW u \in Users, MergeHost(u) PROVE Asking'
  BY <1>0, <1>10 DEF MergeHost, Asking, UserTypes
<1>11. ASSUME NEW u \in Users, DeleteHostInner(u) PROVE Asking'
  BY <1>8, <1>11, BothEnd DEF DeleteHostInner
<1>12. ASSUME NEW u \in Users, RequestFails(u) PROVE Asking'
  BY <1>8, <1>12, BothEnd
<1>q. QED BY <1>2, <1>3, <1>4, <1>5, <1>6, <1>7, <1>9, <1>10, <1>11, <1>12 DEF Next, User

\* They hold at the start.
LEMMA StartTypes ==
    ASSUME Init
    PROVE  TypeOK /\ Asking
<1>1. StoreTypes
  BY EmptyQueue DEF Init, StoreTypes
<1>2. ReportTypes
  BY ReportsAssumption DEF Init, ReportTypes
<1>3. UserTypes
  BY DEF Init, UserTypes
<1>4. NoteTypes
  BY ReportsAssumption DEF Init, NoteTypes
<1>5. Asking
  BY DEF Init, Asking
<1>q. QED BY <1>1, <1>2, <1>3, <1>4, <1>5, TypeParts

\* A row, a report, a request and the history keep their types (TypeOK).
THEOREM TypeCorrect == Spec => []TypeOK
<1>1. Init => TypeOK /\ Asking
  BY StartTypes
<1>2. TypeOK /\ Asking /\ [Next]_vars => (TypeOK /\ Asking)'
  BY TypeStep, AskingStep
<1>q. QED BY <1>1, <1>2, PTL DEF Spec

-----------------------------------------------------------------------------
(***************************************************************************)
(* The locks.                                                              *)
(***************************************************************************)

\* One report at a time is between its match and its end, it has read rows only
\* while it stores, and what it has still to store is its own.
Serial ==
    \A r \in Reports :
        /\ Working(r) => dedup = r
        /\ pc[r] # "storing" => seen[r] = {}
        /\ todo[r] \in Seq(Brought[r])

\* A request that has its guards.
Holding == {"dest", "other", "moving", "delete"}

\* It holds them for all of its hosts.
Guarded ==
    \A u \in Users : upc[u] \in Holding =>
        \A h \in {request[u][1], request[u][2]} \ {None} : hostLock[h] = u

\* The payload of a report lists what it brings.
LEMMA PayloadBrought ==
    ASSUME NEW r \in Reports
    PROVE  Payload[r] \in Seq(Brought[r])
<1>1. Payload[r] \in Seq(Incoming) /\ Brought[r] = {Payload[r][i] : i \in DOMAIN Payload[r]}
  BY BroughtIncoming
<1>2. DOMAIN Payload[r] = 1 .. Len(Payload[r]) /\ Len(Payload[r]) \in Nat
  BY <1>1
<1>3. \A i \in 1 .. Len(Payload[r]) : Payload[r][i] \in Brought[r]
  BY <1>1, <1>2
<1>q. QED BY <1>1, <1>2, <1>3

\* The first and the rest of a list.
LEMMA HeadTail ==
    ASSUME NEW S, NEW q \in Seq(S), q # <<>>
    PROVE  Head(q) \in S /\ Tail(q) \in Seq(S)
OBVIOUS

\* An error leaves nothing of the report behind.
LEMMA AbortSerial ==
    ASSUME ReportTypes, Serial, NEW r \in Reports, Abort(r)
    PROVE  Serial'
<1>1. <<>> \in Seq(Brought[r])
  OBVIOUS
<1>q. QED BY <1>1 DEF ReportTypes, Serial, Abort, Working

\* Every step keeps the reports one after the other.
LEMMA SerialStep ==
    ASSUME TypeOK, Serial, [Next]_vars
    PROVE  Serial'
<1>0. ReportTypes
  BY TypeParts
<1>1. CASE UNCHANGED reportVars
  BY <1>1 DEF reportVars, Serial, Working
<1>2. ASSUME NEW r \in Reports, Match(r) PROVE Serial'
  <2>1. CASE Abort(r)
    BY <1>0, <2>1, AbortSerial
  <2>2. CASE /\ pc' = [pc EXCEPT ![r] = "matched"]
             /\ dedup' = r /\ dedup = None
             /\ UNCHANGED <<todo, seen>>
    <3>1. \A q \in Reports : ~ Working(q)
      BY <2>2, ReportsAssumption DEF Serial
    <3>2. pc[r] # "storing"
      BY <3>1 DEF Working
    <3>q. QED BY <1>0, <2>2, <3>1, <3>2 DEF Serial, Working, ReportTypes
  <2>q. QED BY <1>2, <2>1, <2>2 DEF Match, Matched
<1>3. ASSUME NEW r \in Reports, CreateUnlocked(r) PROVE Serial'
  BY <1>0, <1>3, PayloadBrought DEF CreateUnlocked, Serial, Working, ReportTypes
<1>4. ASSUME NEW r \in Reports, StoreAddress(r) PROVE Serial'
  <2>1. CASE Abort(r)
    BY <1>0, <2>1, AbortSerial
  <2>2. CASE ~ Abort(r)
    <3>1. /\ todo' = [todo EXCEPT ![r] = Tail(@)] /\ todo[r] # <<>> /\ pc[r] = "storing"
          /\ UNCHANGED <<pc, dedup>>
      BY <1>4, <2>2 DEF StoreAddress
    <3>2. \A q \in Reports : q # r => seen'[q] = seen[q]
      BY <1>0, <1>4, <2>2 DEF StoreAddress, ReportTypes
    <3>3. Tail(todo[r]) \in Seq(Brought[r])
      <4>1. todo[r] \in Seq(Brought[r])
        BY DEF Serial
      <4>q. QED BY <3>1, <4>1, HeadTail
    <3>q. QED BY <1>0, <3>1, <3>2, <3>3 DEF Serial, Working, ReportTypes
  <2>q. QED BY <2>1, <2>2
<1>5. ASSUME NEW r \in Reports, Release(r) PROVE Serial'
  <2>1. CASE Abort(r)
    BY <1>0, <2>1, AbortSerial
  <2>2. CASE ~ Abort(r)
    BY <1>0, <1>5, <2>2 DEF Release, Serial, Working, ReportTypes
  <2>q. QED BY <2>1, <2>2
<1>6. ASSUME NEW r \in Reports, ReportFails(r) PROVE Serial'
  BY <1>0, <1>6, AbortSerial DEF ReportFails
<1>7. ASSUME NEW r \in Reports, Retry(r) PROVE Serial'
  BY <1>0, <1>7 DEF Retry, Serial, Working, ReportTypes
<1>8. ASSUME NEW u \in Users, User(u) PROVE Serial'
  BY <1>1, <1>8 DEF User, BeginDelete, BeginConsolidate, Lock, ReadDest, ReadOther,
     MoveAddress, MergeHost,
     DeleteHostInner, RequestFails
<1>9. CASE UNCHANGED vars
  BY <1>1, <1>9 DEF vars, reportVars
<1>q. QED BY <1>2, <1>3, <1>4, <1>5, <1>6, <1>7, <1>8, <1>9 DEF Next, Report

\* Every step keeps the guards.
LEMMA GuardedStep ==
    ASSUME TypeOK, Asking, Guarded, [Next]_vars
    PROVE  Guarded'
<1>0. UserTypes
  BY TypeParts
<1>1. CASE UNCHANGED <<upc, request, hostLock>>
  BY <1>1 DEF Guarded
<1>2. CASE UNCHANGED vars
  BY <1>1, <1>2 DEF vars
<1>3. ASSUME NEW r \in Reports, Report(r) PROVE Guarded'
  BY <1>1, <1>3 DEF Report, Match, Matched, CreateUnlocked, StoreAddress, Release,
     ReportFails, Retry,
     userVars
<1>4. ASSUME NEW u \in Users, BeginDelete(u) \/ BeginConsolidate(u) PROVE Guarded'
  <2>1. /\ upc' = [upc EXCEPT ![u] = "lock"]
        /\ \A w \in Users : w # u => request'[w] = request[w]
        /\ UNCHANGED hostLock
    BY <1>0, <1>4 DEF BeginDelete, BeginConsolidate, UserTypes
  <2>q. QED BY <1>0, <2>1 DEF Guarded, Holding, UserTypes
<1>5. ASSUME NEW u \in Users, Lock(u) PROVE Guarded'
  <2> DEFINE locked == {request[u][1], request[u][2]} \ {None}
  <2>1. /\ locked \subseteq Hosts
        /\ \A h \in locked : hostLock[h] = None
        /\ hostLock' = [h \in Hosts |-> IF h \in locked THEN u ELSE hostLock[h]]
        /\ \A w \in Users : w # u => upc'[w] = upc[w]
        /\ UNCHANGED request
    BY <1>0, <1>5 DEF Lock, UserTypes
  <2>2. SUFFICES ASSUME NEW w \in Users, upc'[w] \in Holding, NEW h \in {request[w][1], request[w][2]} \ {None}
                 PROVE  hostLock'[h] = w
    BY <2>1 DEF Guarded
  <2>3. h \in Hosts
    BY <1>0 DEF UserTypes
  <2>4. CASE w = u
    BY <2>1, <2>3, <2>4
  <2>5. CASE w # u
    BY <2>1, <2>2, <2>3, <2>5, ReportsAssumption DEF Guarded
  <2>q. QED BY <2>4, <2>5
<1>6. ASSUME NEW u \in Users, ReadDest(u) PROVE Guarded'
  BY <1>0, <1>6 DEF ReadDest, Guarded, Holding, UserTypes
<1>7. ASSUME NEW u \in Users, ReadOther(u) PROVE Guarded'
  BY <1>0, <1>7 DEF ReadOther, Guarded, Holding, UserTypes
<1>8. ASSUME NEW u \in Users, Ends(u) PROVE Guarded'
  <2>1. SUFFICES ASSUME NEW w \in Users, upc'[w] \in Holding,
                        NEW h \in {request'[w][1], request'[w][2]} \ {None}
                 PROVE  hostLock'[h] = w
    BY DEF Guarded
  <2>2. w # u
    BY <1>0, <1>8, <2>1 DEF Ends, Holding, UserTypes
  <2>3. upc[w] = upc'[w] /\ request[w] = request'[w]
    BY <1>0, <1>8, <2>2 DEF Ends, LetGo, UserTypes
  <2>4. h \in Hosts /\ hostLock[h] = w
    BY <1>0, <2>1, <2>3 DEF Guarded, UserTypes
  <2>q. QED BY <1>8, <2>2, <2>4 DEF Ends, LetGo, Free
<1>9. ASSUME NEW u \in Users, MoveAddress(u) PROVE Guarded'
  BY <1>1, <1>8, <1>9, BothEnd DEF MoveAddress
<1>10. ASSUME NEW u \in Users, MergeHost(u) PROVE Guarded'
  BY <1>0, <1>10 DEF MergeHost, Guarded, Holding, UserTypes
<1>11. ASSUME NEW u \in Users, DeleteHostInner(u) PROVE Guarded'
  BY <1>8, <1>11, BothEnd DEF DeleteHostInner
<1>12. ASSUME NEW u \in Users, RequestFails(u) PROVE Guarded'
  BY <1>8, <1>12, BothEnd
<1>q. QED BY <1>2, <1>3, <1>4, <1>5, <1>6, <1>7, <1>9, <1>10, <1>11, <1>12 DEF Next, User

\* Two requests that have their guards work on different hosts.
LEMMA GuardsExclude ==
    ASSUME Guarded, NEW u \in Users, NEW w \in Users, u # w, upc[u] \in Holding, upc[w] \in Holding,
           NEW h \in Hosts, h \in {request[u][1], request[u][2]}
    PROVE  h \notin {request[w][1], request[w][2]}
BY ReportsAssumption DEF Guarded

-----------------------------------------------------------------------------
(***************************************************************************)
(* What the steps do to the tables.                                        *)
(***************************************************************************)

\* A host that stays is not forgotten by whom it was touched; only
\* create_unlocked makes a host and only delete_host_inner removes one.
LEMMA Growth ==
    ASSUME TypeOK, Asking, [Next]_vars
    PROVE  /\ \A h \in Live : h \in Live' => touched[h] \subseteq touched'[h]
           /\ \A h \in Live' : h \notin Live =>
                 \E r \in Reports : CreateUnlocked(r) /\ h = target[r] /\ touched'[h] = {Device[r]}
           /\ \A h \in Live : h \notin Live' =>
                 \E u \in Users : DeleteHostInner(u) /\ h = request[u][2]
<1> DEFINE Goal == /\ \A h \in Live : h \in Live' => touched[h] \subseteq touched'[h]
                   /\ \A h \in Live' : h \notin Live =>
                         \E r \in Reports : CreateUnlocked(r) /\ h = target[r] /\ touched'[h] = {Device[r]}
                   /\ \A h \in Live : h \notin Live' =>
                         \E u \in Users : DeleteHostInner(u) /\ h = request[u][2]
<1>0. StoreTypes /\ ReportTypes /\ UserTypes /\ Live \subseteq Hosts
  BY TypeParts, LiveHosts
<1>1. CASE UNCHANGED <<hosts, touched>>
  BY <1>1 DEF Live
<1>2. CASE UNCHANGED vars
  BY <1>1, <1>2 DEF vars
<1>3. ASSUME NEW r \in Reports, CreateUnlocked(r) PROVE Goal
  <2>1. CASE target[r] \in Live
    BY <1>0, <1>3, <2>1 DEF CreateUnlocked, Live, StoreTypes
  <2>2. CASE target[r] \notin Live
    <3>1. target[r] \in Hosts
      BY <1>0 DEF ReportTypes
    <3>2. hosts' = Append(hosts, target[r]) /\ touched' = [touched EXCEPT ![target[r]] = {Device[r]}]
      BY <1>3, <2>2 DEF CreateUnlocked
    <3>3. Live' = Live \union {target[r]}
      BY <1>0, <3>1, <3>2, PushMembers DEF Live, StoreTypes
    <3>q. QED BY <1>0, <1>3, <2>2, <3>1, <3>2, <3>3 DEF StoreTypes
  <2>q. QED BY <2>1, <2>2
<1>4. ASSUME NEW r \in Reports, Report(r), ~ CreateUnlocked(r) PROVE Goal
  BY <1>1, <1>4 DEF Report, Match, Matched, StoreAddress, Release, ReportFails, Retry,
     storeVars
<1>5. ASSUME NEW u \in Users,
             \/ BeginDelete(u) \/ BeginConsolidate(u) \/ Lock(u) \/ ReadDest(u) \/ ReadOther(u)
             \/ RequestFails(u)
      PROVE  Goal
  BY <1>1, <1>5 DEF BeginDelete, BeginConsolidate, Lock, ReadDest, ReadOther, RequestFails,
     storeVars
<1>6. ASSUME UNCHANGED hosts, \A h \in Hosts : touched[h] \subseteq touched'[h] PROVE Goal
  BY <1>0, <1>6 DEF Live
<1>7. ASSUME NEW u \in Users, MoveAddress(u) PROVE Goal
  <2>1. request[u][1] \in Hosts
    BY <1>7 DEF MoveAddress, Asking
  <2>2. \A h \in Hosts : touched[h] \subseteq touched'[h]
    BY <1>0, <1>7, <2>1 DEF MoveAddress, StoreTypes
  <2>q. QED BY <1>6, <1>7, <2>2 DEF MoveAddress
<1>8. ASSUME NEW u \in Users, MergeHost(u) PROVE Goal
  <2>2. \A h \in Hosts : touched[h] \subseteq touched'[h]
    BY <1>0, <1>8 DEF MergeHost, StoreTypes
  <2>q. QED BY <1>6, <1>8, <2>2 DEF MergeHost
<1>9. ASSUME NEW u \in Users, DeleteHostInner(u) PROVE Goal
  <2>1. Live' = Live \ {request[u][2]}
    BY <1>0, <1>9, RetainMembers DEF DeleteHostInner, Live, StoreTypes
  <2>2. touched' = [touched EXCEPT ![request[u][2]] = {}]
    BY <1>9 DEF DeleteHostInner
  <2>q. QED BY <1>0, <1>9, <2>1, <2>2 DEF StoreTypes
<1>q. QED BY <1>2, <1>3, <1>4, <1>5, <1>7, <1>8, <1>9 DEF Next, Report, User

\* A row of the other host is moved.
Moved(u, x) ==
    /\ request[u][1] \in Live
    /\ ~ Conflict(u, x)
    /\ \E y \in rows : SameId(x.by, x, y)
    /\ ~ \E y \in RowsOf(request[u][1]) : y.addr = x.addr /\ ~ SameId(x.by, x, y)
    /\ rows' = {y \in rows : ~ SameId(x.by, x, y)} \union {[x EXCEPT !.host = request[u][1]]}
    /\ left' = [left EXCEPT ![u] = @ \ {x}]
    /\ touched' = [touched EXCEPT ![request[u][1]] = @ \union touched[request[u][2]]]
    /\ UNCHANGED <<hostLock, upc, request, destRows, otherRows>>

\* An address is passed over.
Passed(u, x) ==
    /\ left' = [left EXCEPT ![u] = @ \ {x}]
    /\ UNCHANGED <<rows, touched, hostLock, upc, request, destRows, otherRows>>

\* What moving one address may come to.
LEMMA MoveCases ==
    ASSUME NEW u \in Users, MoveAddress(u)
    PROVE  /\ upc[u] = "moving"
           /\ \E x \in left[u] : \/ Passed(u, x)
                                 \/ Moved(u, x)
                                 \/ EndRequest(u) /\ UNCHANGED <<rows, touched>>
           /\ Collide(Reports, {u})
           /\ UNCHANGED <<hosts, reportVars, faults, removed, halfway>>
BY DEF MoveAddress, Moved, Passed

\* What a report that goes on storing does to the rows.
LEMMA StoreCases ==
    ASSUME TypeOK, Serial, NEW r \in Reports, StoreAddress(r)
    PROVE  /\ pc[r] = "storing"
           /\ \E p \in Brought[r] :
                 \/ /\ rows' = rows /\ Abort(r)
                 \/ /\ rows' = rows /\ UNCHANGED <<pc, dedup, target>>
                    /\ seen' = [seen EXCEPT ![r] = {x \in @ : ~ \E y \in Standing(r, p) : SameId(x.by, x, y)}
                                                   \union Standing(r, p)]
                 \/ /\ Insertable(r, p) /\ rows' = rows \union {NewRow(r, p)}
                    /\ UNCHANGED <<pc, dedup, target, seen>>
           /\ Collide({r}, Users)
           /\ UNCHANGED <<hosts, touched, userVars, faults, removed, halfway>>
<1>1. todo[r] \in Seq(Brought[r])
  BY DEF Serial
<1>2. todo[r] # <<>>
  BY DEF StoreAddress
<1>3. Head(todo[r]) \in Brought[r]
  BY <1>1, <1>2, HeadTail
<1>q. QED BY <1>3 DEF StoreAddress

\* What a report that writes back the rows it has read does to them.
LEMMA ReleaseCases ==
    ASSUME NEW r \in Reports, Release(r)
    PROVE  /\ pc[r] = "storing"
           /\ \/ rows' = rows /\ Abort(r)
              \/ /\ \A y \in rows' : y \in rows \/ (y \in seen[r] /\ y.host \in Live)
                 /\ \A y \in rows : y \in rows' \/ \E x \in seen[r] : x.by = y.by /\ x.addr = y.addr /\ x \in rows'
                 /\ \A x, y \in rows' : x.addr = y.addr /\ x.host = y.host => x = y
                 /\ \A x \in rows' : x \in seen[r] \/ \A y \in seen[r] : y \in rows' => ~ (x.by = y.by /\ x.addr = y.addr)
                 /\ pc' = [pc EXCEPT ![r] = "ok"]
                 /\ seen' = [seen EXCEPT ![r] = {}]
                 /\ target' = [target EXCEPT ![r] = Claimed[r]]
                 /\ dedup' = IF dedup = r THEN None ELSE dedup
           /\ Collide({r}, Users)
           /\ UNCHANGED <<hosts, touched, userVars, faults, removed, halfway>>
BY DEF Release

-----------------------------------------------------------------------------
(***************************************************************************)
(* The tables.                                                             *)
(***************************************************************************)

\* The row is what its report brought.
TrueRow(x) == \E p \in Brought[x.by] : p.addr = x.addr /\ p.mac = x.mac

\* Every row is on a host that is there, and that the device of the report that
\* brought it has touched.
Rooted == \A x \in rows : x.host \in Live /\ TrueRow(x) /\ Device[x.by] \in touched[x.host]

\* No id twice, and no address twice on one host.
Keys == \A x, y \in rows : x.addr = y.addr /\ (x.by = y.by \/ x.host = y.host) => x = y

\* A host that is there was touched by someone.
Known == \A h \in Live : touched[h] # {}

\* A report that stores has touched its host; so have the reports whose rows it
\* has read theirs, as long as the hosts are there.
Begun ==
    \A r \in Reports :
        /\ pc[r] = "storing" /\ target[r] \in Live => Device[r] \in touched[target[r]]
        /\ \A x \in seen[r] : TrueRow(x) /\ (x.host \in Live => Device[x.by] \in touched[x.host])

\* The rows a request is about to move were read from the other host, which is
\* still there.
Moving ==
    \A u \in Users :
        /\ upc[u] # "moving" => left[u] = {}
        /\ \A x \in left[u] : /\ x.host = request[u][2] /\ x.host \in Live
                              /\ TrueRow(x) /\ Device[x.by] \in touched[x.host]

Tables == Rooted /\ Keys /\ Known /\ Begun /\ Moving

\* Every step keeps the hosts known from some report.
LEMMA KnownStep ==
    ASSUME TypeOK, Asking, Known, [Next]_vars
    PROVE  Known'
BY Growth DEF Known

\* A row that stays is where its device has left a trace.
LEMMA RowsStay ==
    ASSUME TypeOK, Asking, Rooted, [Next]_vars, NEW x \in rows, x \in rows'
    PROVE  x.host \in Live' /\ Device[x.by] \in touched'[x.host]
<1>1. x.host \in Live /\ Device[x.by] \in touched[x.host]
  BY DEF Rooted
<1>2. x.host \in Live'
  <2>1. SUFFICES ASSUME x.host \notin Live' PROVE FALSE
    OBVIOUS
  <2>2. PICK u \in Users : DeleteHostInner(u) /\ x.host = request[u][2]
    BY <1>1, <2>1, Growth
  <2>q. QED BY <2>2 DEF DeleteHostInner, RowsOf
<1>q. QED BY <1>1, <1>2, Growth

\* Only four operations write the address table.
LEMMA WhoWrites ==
    ASSUME [Next]_vars
    PROVE  \/ rows' = rows
           \/ \E r \in Reports : StoreAddress(r) \/ Release(r)
           \/ \E u \in Users : MoveAddress(u) \/ DeleteHostInner(u)
BY DEF Next, vars, Report, Match, Matched, CreateUnlocked, ReportFails, Retry, User,
   BeginDelete,
   BeginConsolidate, Lock, ReadDest, ReadOther, MergeHost, RequestFails, storeVars

\* A moved address keeps its id, its address and its MAC.
LEMMA MovedRow ==
    ASSUME TypeOK, Asking, Moving, NEW u \in Users, upc[u] = "moving", NEW x \in left[u], Moved(u, x)
    PROVE  /\ x \in Rows
           /\ [x EXCEPT !.host = request[u][1]] \in Rows
           /\ [x EXCEPT !.host = request[u][1]].by = x.by
           /\ [x EXCEPT !.host = request[u][1]].addr = x.addr
           /\ [x EXCEPT !.host = request[u][1]].mac = x.mac
           /\ [x EXCEPT !.host = request[u][1]].host = request[u][1]
           /\ TrueRow([x EXCEPT !.host = request[u][1]])
           /\ request[u][1] \in Hosts /\ request[u][2] \in Hosts /\ request[u][1] # request[u][2]
           /\ touched'[request[u][1]] = touched[request[u][1]] \union touched[request[u][2]]
           /\ \A h \in Hosts : h # request[u][1] => touched'[h] = touched[h]
<1>1. x \in Rows
  BY DEF TypeOK
<1>2. request[u][1] \in Hosts /\ request[u][2] \in Hosts /\ request[u][1] # request[u][2]
  BY DEF Asking
<1>3. /\ [x EXCEPT !.host = request[u][1]] \in Rows
      /\ [x EXCEPT !.host = request[u][1]].by = x.by
      /\ [x EXCEPT !.host = request[u][1]].addr = x.addr
      /\ [x EXCEPT !.host = request[u][1]].mac = x.mac
      /\ [x EXCEPT !.host = request[u][1]].host = request[u][1]
  BY <1>1, <1>2 DEF Rows
<1>4. TrueRow([x EXCEPT !.host = request[u][1]])
  BY <1>3 DEF Moving, TrueRow
<1>5. /\ touched'[request[u][1]] = touched[request[u][1]] \union touched[request[u][2]]
      /\ \A h \in Hosts : h # request[u][1] => touched'[h] = touched[h]
  BY <1>2 DEF Moved, TypeOK
<1>q. QED BY <1>1, <1>2, <1>3, <1>4, <1>5

\* The columns of an inserted row.
LEMMA NewRowFields ==
    ASSUME NEW r, NEW p
    PROVE  /\ NewRow(r, p).by = r /\ NewRow(r, p).addr = p.addr
           /\ NewRow(r, p).mac = p.mac /\ NewRow(r, p).host = target[r]
BY DEF NewRow

\* Every step keeps the rows on hosts that are there.
LEMMA RootedStep ==
    ASSUME TypeOK, Asking, Serial, Tables, [Next]_vars
    PROVE  Rooted'
<1>0. Rooted /\ Begun /\ Moving
  BY DEF Tables
<1>1. SUFFICES ASSUME NEW x \in rows'
               PROVE  x.host \in Live' /\ TrueRow(x) /\ Device[x.by] \in touched'[x.host]
  BY DEF Rooted, TrueRow
<1>2. CASE x \in rows
  BY <1>0, <1>2, RowsStay DEF Rooted
<1>3. CASE x \notin rows
  <2>1. ASSUME NEW r \in Reports, StoreAddress(r)
        PROVE  x.host \in Live' /\ TrueRow(x) /\ Device[x.by] \in touched'[x.host]
    <3>1. PICK p \in Brought[r] : Insertable(r, p) /\ x = NewRow(r, p)
      BY <1>3, <2>1, StoreCases
    <3>2. x.by = r /\ x.addr = p.addr /\ x.mac = p.mac /\ x.host = target[r]
      BY <3>1, NewRowFields
    <3>3. x.host \in Live' /\ touched' = touched /\ pc[r] = "storing" /\ target[r] \in Live
      BY <2>1, <3>1, <3>2, StoreCases DEF Insertable, Live
    <3>q. QED BY <1>0, <3>2, <3>3 DEF TrueRow, Begun
  <2>2. ASSUME NEW r \in Reports, Release(r)
        PROVE  x.host \in Live' /\ TrueRow(x) /\ Device[x.by] \in touched'[x.host]
    BY <1>0, <1>3, <2>2, ReleaseCases DEF Begun, Live
  <2>3. ASSUME NEW u \in Users, MoveAddress(u)
        PROVE  x.host \in Live' /\ TrueRow(x) /\ Device[x.by] \in touched'[x.host]
    <3>1. upc[u] = "moving" /\ UNCHANGED hosts
      BY <2>3, MoveCases
    <3>2. PICK y \in left[u] : Moved(u, y) /\ x = [y EXCEPT !.host = request[u][1]]
      <4>1. PICK y \in left[u] : Moved(u, y)
        BY <1>3, <2>3, MoveCases DEF Passed
      <4>q. QED BY <1>3, <4>1 DEF Moved
    <3>3. x.by = y.by /\ x.host = request[u][1] /\ TrueRow(x)
          /\ touched'[x.host] = touched[x.host] \union touched[request[u][2]]
      BY <1>0, <3>1, <3>2, MovedRow
    <3>4. Device[y.by] \in touched[request[u][2]]
      BY <1>0, <3>1 DEF Moving
    <3>q. QED BY <3>1, <3>2, <3>3, <3>4 DEF Moved, Live
  <2>q. QED BY <1>3, <2>1, <2>2, <2>3, WhoWrites DEF DeleteHostInner
<1>q. QED BY <1>2, <1>3

\* A report has read no row twice.
SeenKeys ==
    \A r \in Reports : \A x, y \in seen[r] : x.addr = y.addr /\ x.by = y.by => x = y

\* After an error a report has read nothing; the others are as they were.
LEMMA AbortSeen ==
    ASSUME TypeOK, NEW r \in Reports, Abort(r)
    PROVE  /\ seen'[r] = {} /\ pc'[r] = "failed"
           /\ \A q \in Reports : q # r => seen'[q] = seen[q] /\ pc'[q] = pc[q] /\ target'[q] = target[q]
BY DEF Abort, TypeOK

\* What a step does to the rows a report has read.
LEMMA SeenCases ==
    ASSUME TypeOK, Serial, [Next]_vars, NEW r \in Reports
    PROVE  \/ seen'[r] \subseteq seen[r]
           \/ \E p \in Brought[r] :
                 /\ StoreAddress(r) /\ rows' = rows /\ UNCHANGED <<hosts, touched>>
                 /\ seen'[r] = {x \in seen[r] : ~ \E y \in Standing(r, p) : SameId(x.by, x, y)}
                               \union Standing(r, p)
<1>1. CASE UNCHANGED seen
  BY <1>1
<1>2. CASE UNCHANGED vars
  BY <1>1, <1>2 DEF vars
<1>3. ASSUME NEW u \in Users, User(u) PROVE UNCHANGED seen
  BY <1>3 DEF User, BeginDelete, BeginConsolidate, Lock, ReadDest, ReadOther, MoveAddress,
     MergeHost,
     DeleteHostInner, RequestFails, reportVars
<1>4. ASSUME NEW q \in Reports, CreateUnlocked(q) \/ Retry(q) PROVE UNCHANGED seen
  BY <1>4 DEF CreateUnlocked, Retry
<1>5. ASSUME NEW q \in Reports, Abort(q) PROVE seen'[r] \subseteq seen[r]
  BY <1>5, AbortSeen
<1>6. ASSUME NEW q \in Reports, Match(q) PROVE seen'[r] \subseteq seen[r]
  BY <1>5, <1>6 DEF Match, Matched
<1>7. ASSUME NEW q \in Reports, ReportFails(q) PROVE seen'[r] \subseteq seen[r]
  BY <1>5, <1>7 DEF ReportFails
<1>8. ASSUME NEW q \in Reports, Release(q) PROVE seen'[r] \subseteq seen[r]
  <2>1. Abort(q) \/ seen' = [seen EXCEPT ![q] = {}]
    BY <1>8 DEF Release
  <2>2. seen \in [Reports -> SUBSET Rows]
    BY DEF TypeOK
  <2>3. CASE seen' = [seen EXCEPT ![q] = {}]
    BY <2>2, <2>3
  <2>q. QED BY <1>5, <2>1, <2>3
<1>9. ASSUME NEW q \in Reports, StoreAddress(q), q # r PROVE seen'[r] \subseteq seen[r]
  BY <1>5, <1>9, StoreCases DEF TypeOK
<1>10. CASE StoreAddress(r)
  <2>1. PICK p \in Brought[r] :
          \/ Abort(r)
          \/ /\ rows' = rows
             /\ seen' = [seen EXCEPT ![r] = {x \in @ : ~ \E y \in Standing(r, p) : SameId(x.by, x, y)}
                                            \union Standing(r, p)]
          \/ UNCHANGED seen
    BY <1>10, StoreCases
  <2>2. UNCHANGED <<hosts, touched>>
    BY <1>10, StoreCases
  <2>q. QED BY <1>5, <1>10, <2>1, <2>2 DEF TypeOK
<1>q. QED BY <1>1, <1>2, <1>3, <1>4, <1>6, <1>7, <1>8, <1>9, <1>10 DEF Next, Report

\* Every step keeps it: a row that is read again replaces the earlier reading.
LEMMA SeenKeysStep ==
    ASSUME TypeOK, Serial, Keys, SeenKeys, [Next]_vars
    PROVE  SeenKeys'
<1>1. SUFFICES ASSUME NEW r \in Reports, NEW x \in seen'[r], NEW y \in seen'[r],
                      x.addr = y.addr, x.by = y.by
               PROVE  x = y
  BY DEF SeenKeys
<1>2. CASE seen'[r] \subseteq seen[r]
  BY <1>1, <1>2 DEF SeenKeys
<1>3. ASSUME NEW p \in Brought[r],
             seen'[r] = {z \in seen[r] : ~ \E w \in Standing(r, p) : SameId(z.by, z, w)} \union Standing(r, p)
      PROVE  x = y
  BY <1>1, <1>3, StandingRows DEF SeenKeys, Keys, SameId
<1>q. QED BY <1>2, <1>3, SeenCases

\* Every step keeps the keys: the insertion, the transaction of the write-back
\* and the update of a move fail rather than break one.
LEMMA KeysStep ==
    ASSUME TypeOK, Asking, Serial, Tables, SeenKeys, [Next]_vars
    PROVE  Keys'
<1>0. Keys /\ Moving
  BY DEF Tables
<1>1. CASE rows' \subseteq rows
  BY <1>0, <1>1 DEF Keys
<1>2. ASSUME NEW r \in Reports, StoreAddress(r) PROVE Keys'
  <2>1. PICK p \in Brought[r] : rows' = rows \/ (Insertable(r, p) /\ rows' = rows \union {NewRow(r, p)})
    BY <1>2, StoreCases
  <2>2. CASE Insertable(r, p) /\ rows' = rows \union {NewRow(r, p)}
    <3>1. \A x \in rows : x.addr = NewRow(r, p).addr =>
             x.host # NewRow(r, p).host /\ x.by # NewRow(r, p).by
      BY <2>2, NewRowFields DEF Insertable
    <3>q. QED BY <1>0, <2>2, <3>1 DEF Keys
  <2>q. QED BY <1>1, <2>1, <2>2
<1>3. ASSUME NEW r \in Reports, Release(r) PROVE Keys'
  <2>1. CASE rows' = rows
    BY <1>1, <2>1
  <2>2. CASE rows' # rows
    <3>1. SUFFICES ASSUME NEW x \in rows', NEW y \in rows', x.addr = y.addr, x.by = y.by \/ x.host = y.host
                   PROVE  x = y
      BY DEF Keys
    <3>2. CASE x.host = y.host
      BY <1>3, <2>2, <3>1, <3>2, ReleaseCases
    <3>3. CASE x.by = y.by
      <4>0. \A v \in rows' : v \in seen[r] \/ \A w \in seen[r] : w \in rows' => ~ (v.by = w.by /\ v.addr = w.addr)
        BY <1>3, <2>2, ReleaseCases
      <4>1. x \in seen[r] <=> y \in seen[r]
        BY <3>1, <3>3, <4>0
      <4>2. CASE x \in seen[r]
        BY <3>1, <3>3, <4>1, <4>2 DEF SeenKeys
      <4>3. CASE x \notin seen[r]
        <5>1. x \in rows /\ y \in rows
          BY <1>3, <2>2, <3>1, <4>1, <4>3, ReleaseCases
        <5>q. QED BY <1>0, <3>1, <3>3, <5>1 DEF Keys
      <4>q. QED BY <4>2, <4>3
    <3>q. QED BY <3>1, <3>2, <3>3
  <2>q. QED BY <2>1, <2>2
<1>4. ASSUME NEW u \in Users, MoveAddress(u) PROVE Keys'
  <2>1. upc[u] = "moving"
    BY <1>4, MoveCases
  <2>2. CASE rows' = rows
    BY <1>1, <2>2
  <2>3. CASE rows' # rows
    <3>1. PICK x \in left[u] : Moved(u, x)
      BY <1>4, <2>3, MoveCases DEF Passed
    <3> DEFINE z == [x EXCEPT !.host = request[u][1]]
    <3>2. z.by = x.by /\ z.addr = x.addr /\ z.host = request[u][1]
      BY <1>0, <2>1, <3>1, MovedRow
    <3>3. rows' = {y \in rows : ~ SameId(x.by, x, y)} \union {z}
      BY <3>1 DEF Moved
    <3>4. \A y \in rows : ~ SameId(x.by, x, y) /\ y.addr = z.addr => y.by # z.by /\ y.host # z.host
      BY <3>1, <3>2 DEF Moved, SameId, RowsOf
    <3> HIDE DEF z
    <3>q. QED BY <1>0, <3>3, <3>4 DEF Keys
  <2>q. QED BY <2>2, <2>3
<1>5. ASSUME NEW u \in Users, DeleteHostInner(u) PROVE Keys'
  BY <1>1, <1>5 DEF DeleteHostInner
<1>q. QED BY <1>1, <1>2, <1>3, <1>4, <1>5, WhoWrites

\* A report begins to store when its host is made or updated, and keeps it.
LEMMA StoringCases ==
    ASSUME TypeOK, [Next]_vars, NEW r \in Reports, pc'[r] = "storing"
    PROVE  CreateUnlocked(r) \/ (pc[r] = "storing" /\ target'[r] = target[r])
<1> DEFINE Goal == CreateUnlocked(r) \/ (pc[r] = "storing" /\ target'[r] = target[r])
<1>1. CASE UNCHANGED <<pc, target>>
  BY <1>1
<1>2. CASE UNCHANGED vars
  BY <1>1, <1>2 DEF vars
<1>3. ASSUME NEW u \in Users, User(u) PROVE Goal
  BY <1>1, <1>3 DEF User, BeginDelete, BeginConsolidate, Lock, ReadDest, ReadOther,
     MoveAddress, MergeHost,
     DeleteHostInner, RequestFails, reportVars
<1>4. ASSUME NEW q \in Reports, Abort(q) PROVE Goal
  BY <1>4, AbortSeen
<1>5. ASSUME NEW q \in Reports, Match(q) PROVE Goal
  BY <1>4, <1>5 DEF Match, Matched, TypeOK
<1>6. ASSUME NEW q \in Reports, CreateUnlocked(q) PROVE Goal
  BY <1>6 DEF CreateUnlocked, TypeOK
<1>7. ASSUME NEW q \in Reports, StoreAddress(q) PROVE Goal
  BY <1>1, <1>4, <1>7 DEF StoreAddress
<1>8. ASSUME NEW q \in Reports, Release(q) PROVE Goal
  <2>1. Abort(q) \/ (pc' = [pc EXCEPT ![q] = "ok"] /\ target' = [target EXCEPT ![q] = Claimed[q]])
    BY <1>8 DEF Release
  <2>q. QED BY <1>4, <2>1 DEF TypeOK
<1>9. ASSUME NEW q \in Reports, ReportFails(q) PROVE Goal
  BY <1>4, <1>9 DEF ReportFails
<1>10. ASSUME NEW q \in Reports, Retry(q) PROVE Goal
  BY <1>10 DEF Retry, TypeOK
<1>q. QED BY <1>2, <1>3, <1>5, <1>6, <1>7, <1>8, <1>9, <1>10 DEF Next, Report

\* While a report stores, no host is made.
LEMMA NobodyCreates ==
    ASSUME TypeOK, Asking, Serial, [Next]_vars, NEW r \in Reports, pc[r] = "storing"
    PROVE  Live' \subseteq Live
<1>1. ASSUME NEW q \in Reports, CreateUnlocked(q) PROVE FALSE
  <2>1. Working(q) /\ Working(r)
    BY <1>1 DEF CreateUnlocked, Working
  <2>2. q = r
    BY <2>1 DEF Serial
  <2>q. QED BY <1>1, <2>2 DEF CreateUnlocked
<1>q. QED BY <1>1, Growth

\* Every step keeps a report, once it stores, on a host that knows its device.
LEMMA BegunStep ==
    ASSUME TypeOK, Asking, Serial, Tables, [Next]_vars
    PROVE  Begun'
<1>0. Begun /\ Rooted
  BY DEF Tables
<1>1. SUFFICES ASSUME NEW r \in Reports
               PROVE  /\ pc'[r] = "storing" /\ target'[r] \in Live' => Device[r] \in touched'[target'[r]]
                      /\ \A x \in seen'[r] : TrueRow(x) /\ (x.host \in Live' => Device[x.by] \in touched'[x.host])
  BY DEF Begun, TrueRow
<1>2. ASSUME pc'[r] = "storing", target'[r] \in Live' PROVE Device[r] \in touched'[target'[r]]
  <2>1. CASE CreateUnlocked(r)
    BY <2>1 DEF CreateUnlocked, TypeOK
  <2>2. CASE pc[r] = "storing" /\ target'[r] = target[r]
    <3>1. target[r] \in Live
      BY <1>2, <2>2, NobodyCreates
    <3>2. Device[r] \in touched[target[r]]
      BY <1>0, <2>2, <3>1 DEF Begun
    <3>q. QED BY <1>2, <2>2, <3>1, <3>2, Growth
  <2>q. QED BY <1>2, <2>1, <2>2, StoringCases
<1>3. ASSUME NEW x \in seen[r]
      PROVE  TrueRow(x) /\ (x.host \in Live' => Device[x.by] \in touched'[x.host])
  <2>1. pc[r] = "storing"
    BY <1>3 DEF Serial
  <2>2. x.host \in Live' => x.host \in Live
    BY <2>1, NobodyCreates
  <2>q. QED BY <1>0, <1>3, <2>2, Growth DEF Begun
<1>4. ASSUME NEW x \in rows, UNCHANGED <<hosts, touched>>
      PROVE  TrueRow(x) /\ (x.host \in Live' => Device[x.by] \in touched'[x.host])
  BY <1>0, <1>4 DEF Rooted
<1>5. ASSUME NEW x \in seen'[r]
      PROVE  TrueRow(x) /\ (x.host \in Live' => Device[x.by] \in touched'[x.host])
  <2>1. CASE seen'[r] \subseteq seen[r]
    BY <1>3, <1>5, <2>1
  <2>2. ASSUME NEW p \in Brought[r], UNCHANGED <<hosts, touched>>,
               seen'[r] = {z \in seen[r] : ~ \E w \in Standing(r, p) : SameId(z.by, z, w)} \union Standing(r, p)
        PROVE  TrueRow(x) /\ (x.host \in Live' => Device[x.by] \in touched'[x.host])
    BY <1>3, <1>4, <1>5, <2>2, StandingRows
  <2>q. QED BY <2>1, <2>2, SeenCases
<1>q. QED BY <1>2, <1>5

\* What a step does to the rows a request has still to look at.
LEMMA LeftCases ==
    ASSUME TypeOK, Moving, [Next]_vars, NEW u \in Users
    PROVE  \/ left'[u] = {}
           \/ /\ left'[u] \subseteq left[u] /\ upc[u] = "moving"
              /\ upc'[u] = upc[u] /\ request'[u] = request[u]
           \/ /\ ReadOther(u) /\ left'[u] = RowsOf(request[u][2])
              /\ upc'[u] = "moving" /\ UNCHANGED <<request, hosts, rows, touched>>
<1> DEFINE Goal == \/ left'[u] = {}
                   \/ /\ left'[u] \subseteq left[u] /\ upc[u] = "moving"
                      /\ upc'[u] = upc[u] /\ request'[u] = request[u]
                   \/ /\ ReadOther(u) /\ left'[u] = RowsOf(request[u][2])
                      /\ upc'[u] = "moving" /\ UNCHANGED <<request, hosts, rows, touched>>
<1>0. UserTypes /\ (upc[u] # "moving" => left[u] = {})
  BY TypeParts DEF Moving
<1>1. CASE left'[u] = left[u] /\ upc'[u] = upc[u] /\ request'[u] = request[u]
  BY <1>0, <1>1
<1>2. CASE left'[u] = left[u] /\ upc[u] # "moving"
  BY <1>0, <1>2
<1>3. CASE UNCHANGED vars
  BY <1>1, <1>3 DEF vars
<1>4. ASSUME NEW r \in Reports, Report(r) PROVE Goal
  BY <1>1, <1>4 DEF Report, Match, Matched, CreateUnlocked, StoreAddress, Release,
     ReportFails, Retry,
     userVars
<1>5. ASSUME NEW w \in Users, Ends(w) PROVE Goal
  <2>1. CASE w = u
    BY <1>0, <1>5, <2>1 DEF Ends, LetGo, UserTypes
  <2>2. CASE w # u
    BY <1>0, <1>1, <1>5, <2>2 DEF Ends, LetGo, UserTypes
  <2>q. QED BY <2>1, <2>2
<1>6. ASSUME NEW w \in Users, BeginDelete(w) \/ BeginConsolidate(w) PROVE Goal
  <2>1. CASE w = u
    BY <1>2, <1>6, <2>1 DEF BeginDelete, BeginConsolidate
  <2>2. CASE w # u
    BY <1>0, <1>1, <1>6, <2>2 DEF BeginDelete, BeginConsolidate, UserTypes
  <2>q. QED BY <2>1, <2>2
<1>7. ASSUME NEW w \in Users, Lock(w) \/ ReadDest(w) PROVE Goal
  <2>1. CASE w = u
    BY <1>2, <1>7, <2>1 DEF Lock, ReadDest
  <2>2. CASE w # u
    BY <1>0, <1>1, <1>7, <2>2 DEF Lock, ReadDest, UserTypes
  <2>q. QED BY <2>1, <2>2
<1>8. ASSUME NEW w \in Users, ReadOther(w) PROVE Goal
  <2>1. CASE w = u
    BY <1>0, <1>8, <2>1 DEF ReadOther, UserTypes, storeVars
  <2>2. CASE w # u
    BY <1>0, <1>1, <1>8, <2>2 DEF ReadOther, UserTypes
  <2>q. QED BY <2>1, <2>2
<1>9. ASSUME NEW w \in Users, MoveAddress(w) PROVE Goal
  <2>1. upc[w] = "moving"
    BY <1>9, MoveCases
  <2>2. CASE EndRequest(w)
    BY <1>5, <2>2, BothEnd
  <2>3. CASE ~ EndRequest(w)
    <3>1. PICK x \in left[w] : left' = [left EXCEPT ![w] = @ \ {x}] /\ UNCHANGED <<upc, request>>
      BY <1>9, <2>3, MoveCases DEF Moved, Passed
    <3>q. QED BY <1>0, <2>1, <3>1 DEF UserTypes
  <2>q. QED BY <2>2, <2>3
<1>10. ASSUME NEW w \in Users, MergeHost(w) PROVE Goal
  <2>1. CASE w = u
    BY <1>0, <1>10, <2>1 DEF MergeHost
  <2>2. CASE w # u
    BY <1>0, <1>1, <1>10, <2>2 DEF MergeHost, UserTypes
  <2>q. QED BY <2>1, <2>2
<1>11. ASSUME NEW w \in Users, DeleteHostInner(w) PROVE Goal
  BY <1>5, <1>11, BothEnd DEF DeleteHostInner
<1>12. ASSUME NEW w \in Users, RequestFails(w) PROVE Goal
  BY <1>5, <1>12, BothEnd
<1>q. QED BY <1>3, <1>4, <1>6, <1>7, <1>8, <1>9, <1>10, <1>11, <1>12 DEF Next, User

\* The other host of a request that has its guards is not deleted under it.
LEMMA OtherStays ==
    ASSUME TypeOK, Asking, Guarded, [Next]_vars, NEW u \in Users, upc[u] \in {"dest", "other", "moving"},
           NEW h \in {request[u][1], request[u][2]}, h \in Live
    PROVE  h \in Live'
<1>1. SUFFICES ASSUME h \notin Live' PROVE FALSE
  OBVIOUS
<1>2. PICK w \in Users : DeleteHostInner(w) /\ h = request[w][2]
  BY <1>1, Growth
<1>3. w # u /\ upc[w] \in Holding /\ upc[u] \in Holding
  BY <1>2 DEF DeleteHostInner, Holding
<1>4. h \in Hosts
  BY TypeParts, LiveHosts
<1>q. QED BY <1>2, <1>3, <1>4, GuardsExclude

\* Every step keeps what is left to move on the host that the request has locked.
LEMMA MovingStep ==
    ASSUME TypeOK, Asking, Guarded, Tables, [Next]_vars
    PROVE  Moving'
<1>0. Moving /\ Rooted
  BY DEF Tables
<1>1. SUFFICES ASSUME NEW u \in Users
               PROVE  /\ upc'[u] # "moving" => left'[u] = {}
                      /\ \A x \in left'[u] : /\ x.host = request'[u][2] /\ x.host \in Live'
                                             /\ TrueRow(x) /\ Device[x.by] \in touched'[x.host]
  BY DEF Moving, TrueRow
<1>2. CASE left'[u] = {}
  BY <1>2
<1>3. CASE left'[u] \subseteq left[u] /\ upc[u] = "moving" /\ upc'[u] = upc[u] /\ request'[u] = request[u]
  <2>1. SUFFICES ASSUME NEW x \in left[u]
                 PROVE  x.host \in Live' /\ Device[x.by] \in touched'[x.host]
    BY <1>0, <1>3 DEF Moving
  <2>2. x.host = request[u][2] /\ x.host \in Live /\ Device[x.by] \in touched[x.host]
    BY <1>0 DEF Moving
  <2>3. x.host \in Live'
    BY <1>3, <2>2, OtherStays
  <2>q. QED BY <2>2, <2>3, Growth
<1>4. CASE /\ ReadOther(u) /\ left'[u] = RowsOf(request[u][2])
           /\ upc'[u] = "moving" /\ UNCHANGED <<request, hosts, rows, touched>>
  BY <1>0, <1>4 DEF RowsOf, Rooted, Live
<1>q. QED BY <1>0, <1>2, <1>3, <1>4, LeftCases

-----------------------------------------------------------------------------
(***************************************************************************)
(* What was read is still so, unless a report and a request collided.      *)
(***************************************************************************)

\* A report and a request have handled the address at once.
Marked(addr) == \E z \in overtaken : z.addr = addr

\* A row that was read is in the table as it was read, or its address is marked.
Fresh ==
    /\ \A r \in Reports : \A x \in seen[r] : x \in rows \/ Marked(x.addr)
    /\ \A u \in Users : \A x \in left[u] : x \in rows \/ Marked(x.addr)

\* A collision is not forgotten.
LEMMA Noted ==
    ASSUME [Next]_vars
    PROVE  overtaken \subseteq overtaken'
BY DEF Next, vars, Report, Match, Matched, CreateUnlocked, StoreAddress, Release,
   ReportFails, Retry, User,
   BeginDelete, BeginConsolidate, Lock, ReadDest, ReadOther, MoveAddress, MergeHost, DeleteHostInner,
   RequestFails, Collide

\* An address once noted stays noted.
LEMMA MarkStays ==
    ASSUME [Next]_vars, NEW addr, Marked(addr)
    PROVE  Marked(addr)'
BY Noted DEF Marked

\* Whatever a report brings, or is on a host of the request, is noted.
LEMMA CollisionNoted ==
    ASSUME NEW rs, NEW us, Collide(rs, us), NEW r \in rs, NEW u \in us, Overlap(r, u),
           NEW x \in Brought[r] \union RowsOf(request[u][1]) \union RowsOf(request[u][2])
    PROVE  Marked(x.addr)'
<1> DEFINE Both(w) == Brought[w[1]] \union RowsOf(request[w[2]][1]) \union RowsOf(request[w[2]][2])
           w0 == <<r, u>>
           z == [addr |-> x.addr, mac |-> x.mac]
<1>1. overtaken' = overtaken \union UNION {Identities(Both(w)) : w \in {w \in rs \X us : Overlap(w[1], w[2])}}
  BY DEF Collide
<1>2. w0 \in {w \in rs \X us : Overlap(w[1], w[2])}
  OBVIOUS
<1>3. z \in Identities(Both(w0))
  BY DEF Identities
<1> HIDE DEF Both
<1>4. z \in overtaken'
  BY <1>1, <1>2, <1>3
<1>q. QED BY <1>4 DEF Marked

\* How a row can vanish or change.
LEMMA RowLost ==
    ASSUME TypeOK, Serial, [Next]_vars, NEW y \in rows, y \notin rows'
    PROVE  \/ \E r \in Reports : /\ Release(r)
                                 /\ \E x \in seen[r] : x.by = y.by /\ x.addr = y.addr /\ x # y
           \/ \E u \in Users : /\ MoveAddress(u) /\ upc[u] = "moving" /\ Collide(Reports, {u})
                               /\ \E x \in left[u] : /\ Moved(u, x) /\ x.by = y.by /\ x.addr = y.addr
                                                     /\ left' = [left EXCEPT ![u] = @ \ {x}]
           \/ \E u \in Users : /\ DeleteHostInner(u) /\ upc[u] = "delete" /\ Collide(Reports, {u})
                               /\ y.host = request[u][2]
<1> DEFINE Goal == \/ \E r \in Reports : /\ Release(r)
                                         /\ \E x \in seen[r] : x.by = y.by /\ x.addr = y.addr /\ x # y
                   \/ \E u \in Users : /\ MoveAddress(u) /\ upc[u] = "moving" /\ Collide(Reports, {u})
                                       /\ \E x \in left[u] : /\ Moved(u, x) /\ x.by = y.by /\ x.addr = y.addr
                                                             /\ left' = [left EXCEPT ![u] = @ \ {x}]
                   \/ \E u \in Users : /\ DeleteHostInner(u) /\ upc[u] = "delete" /\ Collide(Reports, {u})
                                       /\ y.host = request[u][2]
<1>1. ASSUME NEW r \in Reports, StoreAddress(r) PROVE FALSE
  BY <1>1, StoreCases
<1>2. ASSUME NEW r \in Reports, Release(r) PROVE Goal
  <2>1. PICK x \in seen[r] : x.by = y.by /\ x.addr = y.addr /\ x \in rows'
    BY <1>2, ReleaseCases
  <2>q. QED BY <1>2, <2>1
<1>3. ASSUME NEW u \in Users, MoveAddress(u) PROVE Goal
  <2>1. PICK x \in left[u] : Moved(u, x)
    BY <1>3, MoveCases DEF Passed
  <2>2. SameId(x.by, x, y) /\ left' = [left EXCEPT ![u] = @ \ {x}]
    BY <2>1 DEF Moved
  <2>q. QED BY <1>3, <2>1, <2>2, MoveCases DEF SameId
<1>4. ASSUME NEW u \in Users, DeleteHostInner(u) PROVE Goal
  BY <1>4 DEF DeleteHostInner, RowsOf
<1>q. QED BY <1>1, <1>2, <1>3, <1>4, WhoWrites

\* A row with the id of one that was read: it is that row, or the address is marked.
LEMMA ReadAndStored ==
    ASSUME TypeOK, Tables, Fresh, NEW y \in rows
    PROVE  /\ \A r \in Reports : \A x \in seen[r] : x.by = y.by /\ x.addr = y.addr => x = y \/ Marked(y.addr)
           /\ \A u \in Users : \A x \in left[u] : x.by = y.by /\ x.addr = y.addr => x = y \/ Marked(y.addr)
<1>2. ASSUME NEW x, x \in rows \/ Marked(x.addr), x.by = y.by, x.addr = y.addr PROVE x = y \/ Marked(y.addr)
  <2>1. CASE x \in rows
    BY <1>2, <2>1 DEF Tables, Keys
  <2>2. CASE Marked(x.addr)
    BY <1>2, <2>2
  <2>q. QED BY <1>2, <2>1, <2>2
<1>q. QED BY <1>2 DEF Fresh

\* A row that a report has read is changed by nobody unless it is noted.
LEMMA SeenStays ==
    ASSUME TypeOK, Asking, Serial, Tables, Fresh, [Next]_vars, NEW r \in Reports, NEW y \in seen[r]
    PROVE  y \in rows' \/ Marked(y.addr)'
<1>1. SUFFICES ASSUME y \in rows, y \notin rows' PROVE Marked(y.addr)'
  BY MarkStays DEF Fresh
<1>2. pc[r] = "storing" /\ y.host \in WorksOn(r)
  BY DEF Serial, WorksOn
<1>3. ASSUME NEW u \in Users, Collide(Reports, {u}), upc[u] \in {"moving", "delete"}, y.host = request[u][2]
      PROVE  Marked(y.addr)'
  <2>1. Overlap(r, u)
    BY <1>2, <1>3 DEF Overlap, Working
  <2>2. y \in RowsOf(request[u][2])
    BY <1>1, <1>3 DEF RowsOf
  <2>q. QED BY <1>3, <2>1, <2>2, CollisionNoted
<1>4. ASSUME NEW q \in Reports, NEW x \in seen[q], x.by = y.by, x.addr = y.addr, x # y PROVE Marked(y.addr)'
  <2>1. Marked(y.addr)
    BY <1>1, <1>4, ReadAndStored
  <2>q. QED BY <2>1, MarkStays
<1>5. ASSUME NEW u \in Users, upc[u] = "moving", Collide(Reports, {u}),
             NEW x \in left[u], x.by = y.by, x.addr = y.addr
      PROVE  Marked(y.addr)'
  <2>1. CASE x = y
    BY <1>3, <1>5, <2>1 DEF Moving, Tables
  <2>2. CASE x # y
    <3>1. Marked(y.addr)
      BY <1>1, <1>5, <2>2, ReadAndStored
    <3>q. QED BY <3>1, MarkStays
  <2>q. QED BY <2>1, <2>2
<1>q. QED BY <1>1, <1>3, <1>4, <1>5, RowLost

\* So is a row that a request has still to look at: other requests have no guard
\* for its host.
LEMMA LeftStays ==
    ASSUME TypeOK, Asking, Serial, Guarded, Tables, Fresh, [Next]_vars,
           NEW u \in Users, NEW y \in left[u], y \in left'[u]
    PROVE  y \in rows' \/ Marked(y.addr)'
<1>1. SUFFICES ASSUME y \in rows, y \notin rows' PROVE Marked(y.addr)'
  BY MarkStays DEF Fresh
<1>2. upc[u] = "moving" /\ y.host = request[u][2] /\ y.host \in Hosts
  <2>1. upc[u] = "moving" /\ y.host = request[u][2]
    BY DEF Tables, Moving
  <2>q. QED BY <2>1 DEF TypeOK, Rows
<1>3. ASSUME NEW w \in Users, w # u, upc[w] \in {"moving", "delete"}, y.host = request[w][2] PROVE FALSE
  BY <1>2, <1>3, GuardsExclude DEF Holding
<1>4. ASSUME NEW q \in Reports, NEW x \in seen[q], x.by = y.by, x.addr = y.addr, x # y PROVE Marked(y.addr)'
  <2>1. Marked(y.addr)
    BY <1>1, <1>4, ReadAndStored
  <2>q. QED BY <2>1, MarkStays
<1>5. ASSUME NEW w \in Users, upc[w] = "moving",
             NEW x \in left[w], x.by = y.by, x.addr = y.addr, left' = [left EXCEPT ![w] = @ \ {x}]
      PROVE  Marked(y.addr)'
  <2>1. CASE x = y
    <3>1. w # u
      BY <1>5, <2>1 DEF TypeOK
    <3>2. y.host = request[w][2]
      BY <2>1, <1>5 DEF Tables, Moving
    <3>q. QED BY <1>3, <1>5, <3>1, <3>2
  <2>2. CASE x # y
    <3>1. Marked(y.addr)
      BY <1>1, <1>5, <2>2, ReadAndStored
    <3>q. QED BY <3>1, MarkStays
  <2>q. QED BY <2>1, <2>2
<1>6. ASSUME NEW w \in Users, DeleteHostInner(w), upc[w] = "delete", y.host = request[w][2] PROVE FALSE
  BY <1>2, <1>3, <1>6
<1>q. QED BY <1>1, <1>4, <1>5, <1>6, RowLost

\* Every step keeps what was read true, or the address noted.
LEMMA FreshStep ==
    ASSUME TypeOK, Asking, Serial, Guarded, Tables, Fresh, [Next]_vars
    PROVE  Fresh'
<1>1. ASSUME NEW r \in Reports, NEW x \in seen'[r] PROVE x \in rows' \/ Marked(x.addr)'
  <2>1. CASE x \in seen[r]
    BY <2>1, SeenStays
  <2>2. CASE x \notin seen[r]
    BY <1>1, <2>2, SeenCases, StandingRows
  <2>q. QED BY <2>1, <2>2
<1>2. ASSUME NEW u \in Users, NEW x \in left'[u] PROVE x \in rows' \/ Marked(x.addr)'
  <2>1. CASE x \in left[u]
    BY <1>2, <2>1, LeftStays
  <2>2. CASE x \notin left[u]
    BY <1>2, <2>2, LeftCases DEF RowsOf, Tables
  <2>q. QED BY <2>1, <2>2
<1>q. QED BY <1>1, <1>2 DEF Fresh

-----------------------------------------------------------------------------
(***************************************************************************)
(* The invariant.                                                          *)
(***************************************************************************)
Sound == TypeOK /\ Asking /\ Serial /\ Guarded /\ Tables /\ SeenKeys /\ Fresh

\* Sound holds at the start.
LEMMA SoundInit == Init => Sound
<1>1. SUFFICES ASSUME Init PROVE Sound
  OBVIOUS
<1>2. TypeOK /\ Asking
  BY <1>1, StartTypes
<1>3. hosts = <<>> /\ Live = {}
  BY <1>1, EmptyQueue DEF Init, Live
<1>4. Serial
  <2>1. \A r \in Reports : <<>> \in Seq(Brought[r])
    OBVIOUS
  <2>q. QED BY <1>1, <2>1 DEF Init, Serial, Working
<1>5. Guarded
  BY <1>1 DEF Init, Guarded, Holding
<1>6. Tables
  BY <1>1, <1>3 DEF Init, Tables, Rooted, Keys, Known, Begun, Moving
<1>7. SeenKeys /\ Fresh
  BY <1>1 DEF Init, SeenKeys, Fresh
<1>q. QED BY <1>2, <1>4, <1>5, <1>6, <1>7 DEF Sound

\* Every step keeps it.
LEMMA SoundStep ==
    ASSUME Sound, [Next]_vars
    PROVE  Sound'
<1>1. TypeOK /\ Asking /\ Serial /\ Guarded /\ Tables /\ SeenKeys /\ Fresh
  BY DEF Sound
<1>2. Rooted' /\ Keys' /\ Known' /\ Begun' /\ Moving'
  <2>1. Known
    BY <1>1 DEF Tables
  <2>q. QED BY <1>1, <2>1, RootedStep, KeysStep, KnownStep, BegunStep, MovingStep
<1>3. SeenKeys'
  BY <1>1, SeenKeysStep DEF Tables
<1>q. QED BY <1>1, <1>2, <1>3, TypeStep, AskingStep, SerialStep, GuardedStep,
             FreshStep DEF Sound, Tables
-----------------------------------------------------------------------------
(***************************************************************************)
(* Floating addresses.                                                     *)
(***************************************************************************)

\* A host known from the reports of d only.
Lone(h, d) == touched[h] = {d}

\* No two of them have the address of d, unless it is marked.
Single ==
    \A d \in Floating : \A x, y \in rows :
        x.addr = y.addr /\ x.host # y.host /\ Lone(x.host, d) /\ Lone(y.host, d) => Marked(x.addr)

\* A report of d goes on with the host of d that has its address, or with a
\* host that others have touched.
Pending ==
    \A r \in Reports : Working(r) /\ Device[r] \in Floating =>
        \A p \in Brought[r], y \in rows :
            y.addr = p.addr /\ Lone(y.host, Device[r]) =>
                \/ Marked(p.addr)
                \/ y.host = target[r]
                \/ target[r] \in Live /\ ~ Lone(target[r], Device[r])

\* A host that is known from one device only was so before.
LEMMA LoneBefore ==
    ASSUME Sound, [Next]_vars, NEW h \in Live, h \in Live', NEW d, Lone(h, d)'
    PROVE  Lone(h, d)
<1>1. touched[h] # {} /\ touched[h] \subseteq touched'[h]
  BY Growth DEF Sound, Tables, Known
<1>q. QED BY <1>1 DEF Lone

\* The same of the host of a row that stays.
LEMMA RowLoneBefore ==
    ASSUME Sound, [Next]_vars, NEW x \in rows, x \in rows', NEW d, Lone(x.host, d)'
    PROVE  Lone(x.host, d)
<1>1. x.host \in Live /\ x.host \in Live'
  BY RowsStay DEF Sound, Tables, Rooted
<1>q. QED BY <1>1, LoneBefore

\* A report is matched once and then keeps its host.
LEMMA WorkingCases ==
    ASSUME TypeOK, [Next]_vars, NEW r \in Reports, Working(r)'
    PROVE  \/ Match(r) /\ pc'[r] = "matched"
           \/ Working(r) /\ target'[r] = target[r]
<1> DEFINE Goal == \/ Match(r) /\ pc'[r] = "matched"
                   \/ Working(r) /\ target'[r] = target[r]
<1>0. pc'[r] \in {"matched", "storing"}
  BY DEF Working
<1>1. CASE UNCHANGED <<pc, target>>
  BY <1>0, <1>1 DEF Working
<1>2. CASE UNCHANGED vars
  BY <1>1, <1>2 DEF vars
<1>3. ASSUME NEW u \in Users, User(u) PROVE Goal
  BY <1>1, <1>3 DEF User, BeginDelete, BeginConsolidate, Lock, ReadDest, ReadOther,
     MoveAddress, MergeHost,
     DeleteHostInner, RequestFails, reportVars
<1>4. ASSUME NEW q \in Reports, Abort(q) PROVE Goal
  BY <1>0, <1>4, AbortSeen DEF Working
<1>5. ASSUME NEW q \in Reports, Match(q) PROVE Goal
  <2>1. CASE Abort(q)
    BY <1>4, <2>1
  <2>2. CASE ~ Abort(q)
    <3>1. pc' = [pc EXCEPT ![q] = "matched"] /\ \E h : target' = [target EXCEPT ![q] = h]
      BY <1>5, <2>2 DEF Match, Matched
    <3>2. CASE q = r
      BY <1>5, <3>1, <3>2 DEF TypeOK
    <3>3. CASE q # r
      BY <1>0, <3>1, <3>3 DEF TypeOK, Working
    <3>q. QED BY <3>2, <3>3
  <2>q. QED BY <2>1, <2>2
<1>6. ASSUME NEW q \in Reports, CreateUnlocked(q) PROVE Goal
  <2>1. pc[q] = "matched" /\ pc' = [pc EXCEPT ![q] = "storing"] /\ UNCHANGED target
    BY <1>6 DEF CreateUnlocked
  <2>q. QED BY <1>0, <2>1 DEF TypeOK, Working
<1>7. ASSUME NEW q \in Reports, StoreAddress(q) PROVE Goal
  BY <1>1, <1>4, <1>7 DEF StoreAddress
<1>8. ASSUME NEW q \in Reports, Release(q) PROVE Goal
  <2>1. Abort(q) \/ (pc' = [pc EXCEPT ![q] = "ok"] /\ target' = [target EXCEPT ![q] = Claimed[q]])
    BY <1>8 DEF Release
  <2>2. CASE pc' = [pc EXCEPT ![q] = "ok"] /\ target' = [target EXCEPT ![q] = Claimed[q]]
    BY <1>0, <2>2 DEF TypeOK, Working
  <2>q. QED BY <1>4, <2>1, <2>2
<1>9. ASSUME NEW q \in Reports, ReportFails(q) PROVE Goal
  BY <1>4, <1>9 DEF ReportFails
<1>10. ASSUME NEW q \in Reports, Retry(q) PROVE Goal
  <2>1. pc' = [pc EXCEPT ![q] = "idle"] /\ UNCHANGED target
    BY <1>10 DEF Retry
  <2>q. QED BY <1>0, <2>1 DEF TypeOK, Working
<1>q. QED BY <1>2, <1>3, <1>5, <1>6, <1>7, <1>8, <1>9, <1>10 DEF Next, Report

\* How a row comes to be where it was not.
LEMMA RowGained ==
    ASSUME Sound, [Next]_vars, NEW x \in rows', x \notin rows
    PROVE  \/ \E r \in Reports : \E p \in Brought[r] :
                 /\ StoreAddress(r) /\ pc[r] = "storing" /\ Insertable(r, p) /\ x = NewRow(r, p)
                 /\ x.by = r /\ x.addr = p.addr /\ x.mac = p.mac /\ x.host = target[r]
                 /\ rows' = rows \union {x} /\ UNCHANGED <<hosts, touched>>
           \/ \E r \in Reports : Release(r) /\ x \in seen[r] /\ Marked(x.addr)
           \/ \E u \in Users : \E z \in left[u] :
                 /\ MoveAddress(u) /\ upc[u] = "moving" /\ Moved(u, z) /\ x = [z EXCEPT !.host = request[u][1]]
<1>0. TypeOK /\ Serial /\ Fresh
  BY DEF Sound
<1> DEFINE Goal == 
           \/ \E r \in Reports : \E p \in Brought[r] :
                 /\ StoreAddress(r) /\ pc[r] = "storing" /\ Insertable(r, p) /\ x = NewRow(r, p)
                 /\ x.by = r /\ x.addr = p.addr /\ x.mac = p.mac /\ x.host = target[r]
                 /\ rows' = rows \union {x} /\ UNCHANGED <<hosts, touched>>
           \/ \E r \in Reports : Release(r) /\ x \in seen[r] /\ Marked(x.addr)
           \/ \E u \in Users : \E z \in left[u] :
                 /\ MoveAddress(u) /\ upc[u] = "moving" /\ Moved(u, z) /\ x = [z EXCEPT !.host = request[u][1]]
<1>1. ASSUME NEW r \in Reports, StoreAddress(r) PROVE Goal
  <2>1. PICK p \in Brought[r] : Insertable(r, p) /\ rows' = rows \union {NewRow(r, p)}
    BY <1>0, <1>1, StoreCases
  <2>2. x = NewRow(r, p)
    BY <2>1
  <2>3. pc[r] = "storing" /\ UNCHANGED <<hosts, touched>>
    BY <1>0, <1>1, StoreCases
  <2>4. x.by = r /\ x.addr = p.addr /\ x.mac = p.mac /\ x.host = target[r]
    BY <2>2, NewRowFields
  <2>q. QED BY <1>1, <2>1, <2>2, <2>3, <2>4
<1>2. ASSUME NEW r \in Reports, Release(r) PROVE Goal
  <2>1. x \in seen[r]
    BY <1>2, ReleaseCases
  <2>q. QED BY <1>0, <1>2, <2>1 DEF Fresh
<1>3. ASSUME NEW u \in Users, MoveAddress(u) PROVE Goal
  <2>1. PICK z \in left[u] : Moved(u, z)
    BY <1>3, MoveCases DEF Passed
  <2>2. x = [z EXCEPT !.host = request[u][1]]
    BY <2>1 DEF Moved
  <2>q. QED BY <1>3, <2>1, <2>2, MoveCases
<1>4. ASSUME NEW u \in Users, DeleteHostInner(u) PROVE FALSE
  BY <1>4 DEF DeleteHostInner
<1>q. QED BY <1>1, <1>2, <1>3, <1>4, WhoWrites

\* A row moved to a host of d only came from one.
LEMMA MovedLone ==
    ASSUME Sound, NEW u \in Users, upc[u] = "moving", NEW z \in left[u], Moved(u, z), NEW d,
           touched'[request[u][1]] = {d}
    PROVE  Lone(z.host, d) /\ z.host = request[u][2]
<1>1. TypeOK /\ Asking /\ Moving /\ Known
  BY DEF Sound, Tables
<1>2. z.host = request[u][2] /\ z.host \in Live /\ request[u][1] \in Live
  BY <1>1 DEF Moving, Moved
<1>3. touched'[request[u][1]] = touched[request[u][1]] \union touched[request[u][2]]
  BY <1>1, MovedRow
<1>q. QED BY <1>1, <1>2, <1>3 DEF Lone, Known

\* Every step keeps the floating addresses on one host.
LEMMA SingleStep ==
    ASSUME Sound, Single, Pending, [Next]_vars
    PROVE  Single'
<1>0. TypeOK /\ Asking /\ Serial /\ Rooted /\ Keys /\ Begun /\ Moving /\ Fresh
  BY DEF Sound, Tables
<1>1. SUFFICES ASSUME NEW d \in Floating, NEW x \in rows', NEW y \in rows', x.addr = y.addr, x.host # y.host,
                      Lone(x.host, d)', Lone(y.host, d)'
               PROVE  Marked(x.addr)'
  BY DEF Single, Lone
<1>2. ASSUME NEW v \in rows', NEW w \in rows', v \notin rows, v.addr = w.addr, v.host # w.host,
             Lone(v.host, d)', Lone(w.host, d)'
      PROVE  Marked(v.addr)'
  <2>1. ASSUME NEW r \in Reports, NEW p \in Brought[r], pc[r] = "storing", Insertable(r, p),
               v.by = r, v.addr = p.addr, v.host = target[r],
               rows' = rows \union {v}, UNCHANGED <<hosts, touched>>
        PROVE  Marked(v.addr)'
    <3>1. w \in rows /\ Lone(w.host, d) /\ Lone(target[r], d) /\ target[r] \in Live
      BY <1>2, <2>1 DEF Lone, Insertable
    <3>2. Device[r] = d
      BY <1>0, <2>1, <3>1 DEF Begun, Lone
    <3>3. Marked(p.addr)
      BY <1>2, <2>1, <3>1, <3>2 DEF Pending, Working
    <3>q. QED BY <2>1, <3>3, MarkStays
  <2>2. ASSUME NEW u \in Users, NEW z \in left[u], upc[u] = "moving", Moved(u, z),
               v = [z EXCEPT !.host = request[u][1]]
        PROVE  Marked(v.addr)'
    <3>1. /\ v.by = z.by /\ v.addr = z.addr /\ v.host = request[u][1]
          /\ \A h \in Hosts : h # request[u][1] => touched'[h] = touched[h]
      BY <1>0, <2>2, MovedRow
    <3>2. Lone(z.host, d)
      BY <1>2, <2>2, <3>1, MovedLone DEF Lone
    <3>3. w \in rows /\ ~ SameId(z.by, z, w)
      BY <1>2, <2>2, <3>1 DEF Moved
    <3>4. Lone(w.host, d)
      BY <1>2, <3>3, RowLoneBefore
    <3>5. CASE Marked(z.addr)
      BY <3>1, <3>5, MarkStays
    <3>6. CASE z \in rows
      <4>1. z.host # w.host
        BY <1>0, <1>2, <3>1, <3>3, <3>6 DEF Keys, SameId
      <4>2. Marked(z.addr)
        BY <1>2, <3>1, <3>2, <3>3, <3>4, <3>6, <4>1 DEF Single
      <4>q. QED BY <3>1, <4>2, MarkStays
    <3>q. QED BY <1>0, <3>5, <3>6 DEF Fresh
  <2>q. QED BY <1>2, <2>1, <2>2, RowGained, MarkStays
<1>3. CASE x \in rows /\ y \in rows
  <2>1. Marked(x.addr)
    BY <1>1, <1>3, RowLoneBefore DEF Single
  <2>q. QED BY <2>1, MarkStays
<1>4. CASE x \notin rows
  BY <1>1, <1>2, <1>4
<1>5. CASE y \notin rows
  BY <1>1, <1>2, <1>5
<1>q. QED BY <1>3, <1>4, <1>5

\* A report of d finds the host of d that has its address.
LEMMA MatchFindsLone ==
    ASSUME FloatingAlone, Sound, NEW r \in Reports, Device[r] \in Floating,
           NEW p \in Brought[r], NEW y \in rows, y.addr = p.addr, Lone(y.host, Device[r])
    PROVE  SelectMatchingHost(r) \in FloatingMatches(r)
<1>0. TypeOK /\ Rooted
  BY DEF Sound, Tables
<1>1. ~ Physical(r)
  BY DEF FloatingAlone, Physical, Skipped
<1>2. y.host \in Live /\ p.addr \notin Loopbacks /\ Virtual(p)
  BY <1>0 DEF Rooted, FloatingAlone
<1>3. ASSUME NEW x \in RowsOf(y.host) PROVE ~ Real(x)
  <2>1. x \in rows /\ x.by \in Reports /\ TrueRow(x) /\ Device[x.by] = Device[r]
    BY <1>0 DEF RowsOf, Rooted, Lone, TypeOK, Rows
  <2>2. PICK s \in Brought[x.by] : s.mac = x.mac
    BY <2>1 DEF TrueRow
  <2>3. Virtual(s)
    BY <2>1 DEF FloatingAlone
  <2>q. QED BY <2>2, <2>3 DEF Real, Virtual
<1>4. y.host \in FloatingMatches(r)
  BY <1>2, <1>3 DEF FloatingMatches, RowsOf
<1>q. QED BY <1>0, <1>1, <1>4, SelectsMatch

\* Every step keeps the report of a floating address on the host that has it.
LEMMA PendingStep ==
    ASSUME FloatingAlone, Sound, Single, Pending, [Next]_vars
    PROVE  Pending'
<1>0. TypeOK /\ Asking /\ Serial /\ Rooted /\ Begun /\ Moving /\ Fresh
  BY DEF Sound, Tables
<1>1. SUFFICES ASSUME NEW r \in Reports, Working(r)', Device[r] \in Floating,
                      NEW p \in Brought[r], NEW y \in rows', y.addr = p.addr, Lone(y.host, Device[r])'
               PROVE  \/ Marked(p.addr)'
                      \/ y.host = target'[r]
                      \/ target'[r] \in Live' /\ ~ Lone(target[r], Device[r])'
  BY DEF Pending, Lone
<1> DEFINE Goal == \/ Marked(p.addr)'
                   \/ y.host = target'[r]
                   \/ target'[r] \in Live' /\ ~ Lone(target[r], Device[r])'
<1>2. CASE Match(r) /\ pc'[r] = "matched"
  <2>1. UNCHANGED <<hosts, rows, touched>>
    BY <1>2 DEF Match, Matched, storeVars
  <2>2. y \in rows /\ Lone(y.host, Device[r])
    BY <1>1, <2>1 DEF Lone
  <2>3. SelectMatchingHost(r) \in FloatingMatches(r)
    BY <1>1, <2>2, MatchFindsLone
  <2> DEFINE k == SelectMatchingHost(r)
  <2>4. k \in Live /\ k # None
    <3>1. k \in Live
      BY <2>3 DEF FloatingMatches
    <3>q. QED BY <1>0, <3>1, TypeParts, LiveHosts, ReportsAssumption
  <2>5. target'[r] = k
    <3>1. ~ Abort(r)
      BY <1>0, <1>2, AbortSeen
    <3>2. target' = [target EXCEPT ![r] = IF k = None THEN Claimed[r] ELSE k]
      BY <1>2, <3>1 DEF Match, Matched
    <3>q. QED BY <1>0, <2>4, <3>2 DEF TypeOK
  <2>6. PICK s \in Brought[r], x \in RowsOf(k) : x.addr = s.addr
    BY <2>3 DEF FloatingMatches
  <2>7. x \in rows /\ x.host = k /\ x.addr = p.addr
    BY <1>1, <2>6 DEF RowsOf, FloatingAlone
  <2>8. CASE y.host # k /\ Lone(k, Device[r])
    <3>1. Marked(p.addr)
      BY <1>1, <2>2, <2>7, <2>8 DEF Single
    <3>q. QED BY <3>1, MarkStays
  <2> HIDE DEF k
  <2>9. CASE ~ Lone(k, Device[r])
    BY <2>1, <2>4, <2>5, <2>9 DEF Lone, Live
  <2>q. QED BY <2>5, <2>8, <2>9
<1>3. CASE Working(r) /\ target'[r] = target[r]
  <2>1. ASSUME NEW u \in Users, Collide(Reports, {u}), upc[u] \in {"moving", "delete"},
               target[r] = request[u][2]
        PROVE  Marked(p.addr)'
    <3>1. Overlap(r, u)
      BY <1>3, <2>1 DEF Overlap, WorksOn
    <3>q. QED BY <2>1, <3>1, CollisionNoted
  <2>2. ASSUME target[r] \in Live, ~ Lone(target[r], Device[r]) PROVE Goal
    <3>1. CASE target[r] \in Live'
      <4>1. ~ touched'[target[r]] = {Device[r]}
        BY <2>2, <3>1, LoneBefore DEF Lone
      <4>q. QED BY <1>3, <3>1, <4>1 DEF Lone
    <3>2. CASE target[r] \notin Live'
      <4>1. PICK u \in Users : DeleteHostInner(u) /\ target[r] = request[u][2]
        BY <1>0, <2>2, <3>2, Growth
      <4>q. QED BY <2>1, <4>1 DEF DeleteHostInner
    <3>q. QED BY <3>1, <3>2
  <2>3. ASSUME NEW x \in rows, x.addr = p.addr, Lone(x.host, Device[r]), x.host # target[r] PROVE Goal
    <3>1. CASE Marked(p.addr)
      BY <3>1, MarkStays
    <3>2. CASE target[r] \in Live /\ ~ Lone(target[r], Device[r])
      BY <2>2, <3>2
    <3>q. QED BY <1>1, <1>3, <2>3, <3>1, <3>2 DEF Pending
  <2>4. CASE y \in rows
    <3>1. Lone(y.host, Device[r])
      BY <1>1, <2>4, RowLoneBefore
    <3>q. QED BY <1>1, <1>3, <2>3, <2>4, <3>1
  <2>5. CASE y \notin rows
    <3>1. ASSUME NEW q \in Reports, pc[q] = "storing", y.host = target[q] PROVE Goal
      <4>1. q = r
        BY <1>0, <1>3, <3>1 DEF Serial, Working
      <4>q. QED BY <1>3, <3>1, <4>1
    <3>2. CASE Marked(y.addr)
      BY <1>1, <3>2, MarkStays
    <3>3. ASSUME NEW u \in Users, NEW z \in left[u], MoveAddress(u), upc[u] = "moving", Moved(u, z),
                 y = [z EXCEPT !.host = request[u][1]]
          PROVE  Goal
      <4>1. y.addr = z.addr /\ y.host = request[u][1]
        BY <1>0, <3>3, MovedRow
      <4>2. Lone(z.host, Device[r]) /\ z.host = request[u][2]
        BY <1>1, <3>3, <4>1, MovedLone DEF Lone
      <4>3. CASE z \notin rows
        <5>1. Marked(p.addr)
          BY <1>0, <1>1, <4>1, <4>3 DEF Fresh
        <5>q. QED BY <5>1, MarkStays
      <4>4. CASE z \in rows /\ z.host # target[r]
        BY <1>1, <2>3, <4>1, <4>2, <4>4
      <4>5. CASE z.host = target[r]
        BY <2>1, <3>3, <4>2, <4>5, MoveCases
      <4>q. QED BY <4>3, <4>4, <4>5
    <3>q. QED BY <2>5, <3>1, <3>2, <3>3, RowGained
  <2>q. QED BY <2>4, <2>5
<1>q. QED BY <1>0, <1>1, <1>2, <1>3, WorkingCases

\* A floating address is one host however many requests, reports and failures
\* there are, if its reports bring it alone: two hosts that only its reports have
\* touched have it only if a report ran into a request (OneFloatingHost;
\* select_matching_host pass 2, under the HostDedup lock).
THEOREM FloatingHostOnce ==
    ASSUME FloatingAlone
    PROVE  Spec => []OneFloatingHost
<1> DEFINE Inv == Sound /\ Single /\ Pending
<1>1. Init => Inv
  BY SoundInit DEF Init, Single, Pending, Working
<1>2. Inv /\ [Next]_vars => Inv'
  BY SoundStep, SingleStep, PendingStep
<1>3. Inv => OneFloatingHost
  BY DEF Single, Lone, Marked, OneFloatingHost, Torn, Among
<1>q. QED BY <1>1, <1>2, <1>3, PTL DEF Spec
-----------------------------------------------------------------------------
(***************************************************************************)
(* The routers of a redundancy group.                                      *)
(***************************************************************************)
Machine(d) == d \notin Floating

\* No two of the devices are machines; and none but d.
Apart(S) == \A d, e \in S : Machine(d) /\ Machine(e) => d = e
Fits(S, d) == \A e \in S : Machine(e) => e = d

\* A request has ended.
Over == \E u \in Users : upc[u] = "over"

Finite == \A h \in Hosts : IsFiniteSet(touched[h])

Distinct == \A h \in Live : Apart(touched[h])

\* The host that has the id a report carries is its device's.
Owned ==
    \A r \in Reports : Machine(Device[r]) /\ Claimed[r] \in Live => Fits(touched[Claimed[r]], Device[r])

\* The host that a report goes on with is its device's, and so is the id.
Bound ==
    \A r \in Reports : Machine(Device[r]) /\ Working(r) =>
        /\ target[r] \in Live => Fits(touched[target[r]], Device[r])
        /\ \A q \in Reports : Machine(Device[q]) /\ Claimed[q] = target[r] => Device[q] = Device[r]

\* Until a request has ended a host is known from the device that its id was made for,
\* and a host that was found is there.
Traced ==
    ~ Over =>
        /\ \A r \in Reports : Machine(Device[r]) /\ Claimed[r] \in Live => Device[r] \in touched[Claimed[r]]
        /\ \A r \in Reports : Machine(Device[r]) /\ Working(r) /\ target[r] \in Live =>
              Device[r] \in touched[target[r]]
        /\ \A r \in Reports : Working(r) /\ target[r] # Claimed[r] => target[r] \in Live

\* Until then the hosts of the request are there and one machine.
Mergeable ==
    ~ Over => \A u \in Users : upc[u] \notin {"idle", "failed"} =>
        /\ request[u][2] \in Live
        /\ request[u][1] # None =>
              request[u][1] \in Live /\ Apart(touched[request[u][1]] \union touched[request[u][2]])

Peers == Finite /\ Distinct /\ Owned /\ Bound /\ Traced /\ Mergeable

\* What the person sees is the same as what the reports say.
LEMMA OneMachineApart ==
    ASSUME NEW S, IsFiniteSet(S)
    PROVE  Cardinality(S \ Floating) <= 1 => Apart(S)
<1> DEFINE T == S \ Floating
<1>1. SUFFICES ASSUME Cardinality(T) <= 1, NEW d \in T, NEW e \in T, d # e PROVE FALSE
  BY DEF Apart, Machine
<1>2. IsFiniteSet(T) /\ {d, e} \in SUBSET T
  <2>1. T \in SUBSET S
    OBVIOUS
  <2>q. QED BY <2>1, FS_Subset
<1>3. Cardinality({d} \union {e}) = 2
  <2>1. IsFiniteSet({d}) /\ Cardinality({d}) = 1 /\ e \notin {d}
    BY <1>1, FS_Singleton
  <2>2. Cardinality({d} \union {e}) = Cardinality({d}) + 1
    BY <2>1, FS_AddElement
  <2>q. QED BY <2>1, <2>2
<1>4. {d} \union {e} \in SUBSET T
  BY <1>2
<1> HIDE DEF T
<1>5. Cardinality({d} \union {e}) <= Cardinality(T) /\ Cardinality(T) \in Nat
  BY <1>2, <1>4, FS_Subset, FS_CardinalityType
<1>q. QED BY <1>1, <1>3, <1>5

\* Devices apart from one another are one machine at most.
LEMMA ApartOneMachine ==
    ASSUME NEW S, Apart(S)
    PROVE  Cardinality(S \ Floating) <= 1
<1>1. CASE S \ Floating = {}
  BY <1>1, FS_EmptySet
<1>2. CASE S \ Floating # {}
  <2>1. PICK d : d \in S \ Floating
    BY <1>2
  <2>2. S \ Floating = {d}
    BY <2>1 DEF Apart, Machine
  <2>q. QED BY <2>2, FS_Singleton
<1>q. QED BY <1>1, <1>2

\* Pass 1 finds hosts of the report's own device.
LEMMA MatchIsOwn ==
    ASSUME DevicesApart, TypeOK, Rooted, NEW r \in Reports, NEW h \in PhysicalMatches(r)
    PROVE  h \in Live /\ Device[r] \in touched[h]
<1> DEFINE payload == {p \in Brought[r] : ~ Skipped(p)}
<1>1. PICK p \in payload, x \in RowsOf(h) : ~ Skipped(x) /\ AddressesMatch(r, p, x, payload)
  BY DEF PhysicalMatches
<1>2. x \in rows /\ x.by \in Reports /\ x.host = h /\ TrueRow(x) /\ Device[x.by] \in touched[h]
  BY DEF RowsOf, Rooted, TypeOK, Rows
<1>3. PICK s \in Brought[x.by] : s.addr = x.addr /\ s.mac = x.mac
  BY <1>2 DEF TrueRow
<1>4. ~ Skipped(s)
  BY <1>1, <1>3 DEF Skipped, Virtual
<1>5. p.addr = s.addr \/ (p.mac = s.mac /\ p.mac # NoMac)
  BY <1>1, <1>3 DEF AddressesMatch, SameId, UniqueMac
<1>6. Device[x.by] = Device[r]
  BY <1>1, <1>2, <1>3, <1>4, <1>5 DEF DevicesApart
<1>q. QED BY <1>2, <1>6 DEF PhysicalMatches

\* Every step leaves finitely many devices on a host.
LEMMA FiniteStep ==
    ASSUME TypeOK, Asking, Finite, [Next]_vars
    PROVE  Finite'
<1>0. StoreTypes /\ ReportTypes
  BY TypeParts
<1>1. CASE UNCHANGED touched
  BY <1>1 DEF Finite
<1>2. CASE UNCHANGED vars
  BY <1>1, <1>2 DEF vars
<1>3. ASSUME NEW r \in Reports, CreateUnlocked(r) PROVE Finite'
  <2>1. target[r] \in Hosts
    BY <1>0 DEF ReportTypes
  <2>2. IsFiniteSet({Device[r]}) /\ IsFiniteSet(touched[target[r]] \union {Device[r]})
    BY <2>1, FS_Singleton, FS_AddElement DEF Finite
  <2>q. QED BY <1>0, <1>3, <2>1, <2>2 DEF CreateUnlocked, Finite, StoreTypes
<1>4. ASSUME NEW r \in Reports, Report(r), ~ CreateUnlocked(r) PROVE Finite'
  BY <1>1, <1>4 DEF Report, Match, Matched, StoreAddress, Release, ReportFails, Retry,
     storeVars
<1>5. ASSUME NEW u \in Users,
             \/ BeginDelete(u) \/ BeginConsolidate(u) \/ Lock(u) \/ ReadDest(u) \/ ReadOther(u)
             \/ RequestFails(u)
      PROVE  Finite'
  BY <1>1, <1>5 DEF BeginDelete, BeginConsolidate, Lock, ReadDest, ReadOther, RequestFails,
     storeVars
<1>6. ASSUME NEW u \in Users, MoveAddress(u) \/ MergeHost(u) PROVE Finite'
  <2>1. request[u][1] \in Hosts /\ request[u][2] \in Hosts
    BY <1>6 DEF MoveAddress, MergeHost, Asking
  <2>2. IsFiniteSet(touched[request[u][1]] \union touched[request[u][2]])
    BY <2>1, FS_Union DEF Finite
  <2>3. \/ UNCHANGED touched
        \/ touched' = [touched EXCEPT ![request[u][1]] = @ \union touched[request[u][2]]]
    BY <1>6 DEF MoveAddress, MergeHost
  <2>q. QED BY <1>0, <2>1, <2>2, <2>3 DEF Finite, StoreTypes
<1>7. ASSUME NEW u \in Users, DeleteHostInner(u) PROVE Finite'
  BY <1>0, <1>7, FS_EmptySet DEF DeleteHostInner, Finite, StoreTypes
<1>q. QED BY <1>2, <1>3, <1>4, <1>5, <1>6, <1>7 DEF Next, Report, User

\* A step that makes, removes and touches no host, while the requests and the
\* reports go on with theirs.
LEMMA PeersCalm ==
    ASSUME Peers, UNCHANGED <<hosts, touched, upc, request>>,
           \A r \in Reports : Working(r)' => Working(r) /\ target'[r] = target[r]
    PROVE  Distinct' /\ Owned' /\ Bound' /\ Traced' /\ Mergeable'
<1>1. UNCHANGED Live
  BY DEF Live
<1>2. Distinct' /\ Owned'
  BY <1>1 DEF Peers, Distinct, Owned
<1>3. Bound'
  BY <1>1 DEF Peers, Bound
<1>4. Traced'
  BY <1>1 DEF Peers, Traced, Over
<1>5. Mergeable'
  BY <1>1 DEF Peers, Mergeable, Over
<1>q. QED BY <1>2, <1>3, <1>4, <1>5

\* The match.
LEMMA PeersMatch ==
    ASSUME DevicesApart, Sound, Peers, NEW r \in Reports, Match(r), pc'[r] = "matched",
           \A q \in Reports : q # r /\ Working(q)' => Working(q) /\ target'[q] = target[q]
    PROVE  Distinct' /\ Owned' /\ Bound' /\ Traced' /\ Mergeable'
<1>0. /\ TypeOK /\ Rooted
      /\ Distinct /\ Owned /\ Bound /\ Traced /\ Mergeable
  BY DEF Sound, Tables, Peers
<1>1. UNCHANGED <<hosts, touched, upc, request>> /\ UNCHANGED Live
  BY DEF Match, Matched, storeVars, userVars, Live
<1> DEFINE k == SelectMatchingHost(r)
<1>2. target'[r] = IF k = None THEN Claimed[r] ELSE k
  <2>1. ~ Abort(r)
    BY <1>0, AbortSeen
  <2>2. target' = [target EXCEPT ![r] = IF k = None THEN Claimed[r] ELSE k]
    BY <2>1 DEF Match, Matched
  <2>q. QED BY <1>0, <2>2 DEF TypeOK
<1>3. k \in Live \union {None}
  BY <1>0, SelectsMatch
<1>4. Machine(Device[r]) /\ k # None => Device[r] \in touched[k]
  <2>1. SUFFICES ASSUME Machine(Device[r]), k # None PROVE Device[r] \in touched[k]
    OBVIOUS
  <2>2. Physical(r)
    BY <2>1 DEF DevicesApart, Machine
  <2>3. k \in PhysicalMatches(r)
    BY <1>0, <2>1, <2>2, SelectsMatch
  <2>q. QED BY <1>0, <2>3, MatchIsOwn
<1> HIDE DEF k
<1>5. Distinct' /\ Owned'
  BY <1>0, <1>1 DEF Distinct, Owned
<1>6. Machine(Device[r]) => /\ target'[r] \in Live => Fits(touched[target'[r]], Device[r])
                            /\ \A q \in Reports : Machine(Device[q]) /\ Claimed[q] = target'[r] =>
                                  Device[q] = Device[r]
  <2>1. CASE k = None
    BY <1>0, <1>2, <2>1 DEF Owned, DevicesApart
  <2>2. CASE k # None
    BY <1>0, <1>2, <1>3, <1>4, <2>2 DEF Owned, Distinct, Apart, Fits
  <2>q. QED BY <2>1, <2>2
<1>7. Bound'
  <2>1. SUFFICES ASSUME NEW q \in Reports, Machine(Device[q]), Working(q)'
                 PROVE  /\ target'[q] \in Live => Fits(touched[target'[q]], Device[q])
                        /\ \A s \in Reports : Machine(Device[s]) /\ Claimed[s] = target'[q] =>
                              Device[s] = Device[q]
    BY <1>1 DEF Bound
  <2>2. CASE q = r
    BY <1>6, <2>1, <2>2
  <2>3. CASE q # r
    BY <1>0, <2>1, <2>3 DEF Bound
  <2>q. QED BY <2>2, <2>3
<1>8. Traced'
  <2>1. SUFFICES ASSUME ~ Over
                 PROVE  /\ \A q \in Reports : Machine(Device[q]) /\ Claimed[q] \in Live =>
                              Device[q] \in touched[Claimed[q]]
                        /\ \A q \in Reports : Machine(Device[q]) /\ Working(q)' /\ target'[q] \in Live =>
                              Device[q] \in touched[target'[q]]
                        /\ \A q \in Reports : Working(q)' /\ target'[q] # Claimed[q] => target'[q] \in Live
    BY <1>1 DEF Traced, Over
  <2>2. ASSUME NEW q \in Reports, Working(q)'
        PROVE  /\ Machine(Device[q]) /\ target'[q] \in Live => Device[q] \in touched[target'[q]]
               /\ target'[q] # Claimed[q] => target'[q] \in Live
    <3>1. CASE q = r
      BY <1>0, <1>2, <1>3, <1>4, <2>1, <3>1 DEF Traced
    <3>2. CASE q # r
      BY <1>0, <2>1, <2>2, <3>2 DEF Traced
    <3>q. QED BY <3>1, <3>2
  <2>q. QED BY <1>0, <2>1, <2>2 DEF Traced
<1>9. Mergeable'
  BY <1>0, <1>1 DEF Mergeable, Over
<1>q. QED BY <1>5, <1>7, <1>8, <1>9

\* The host is made or updated.
LEMMA PeersCreate ==
    ASSUME DevicesApart, Sound, Peers, NEW r \in Reports, CreateUnlocked(r)
    PROVE  Distinct' /\ Owned' /\ Bound' /\ Traced' /\ Mergeable'
<1>0. /\ TypeOK /\ Serial
      /\ Distinct /\ Owned /\ Bound /\ Traced /\ Mergeable
  BY DEF Sound, Peers
<1> DEFINE h == target[r]
           D == Device[r]
<1>1. pc[r] = "matched" /\ Working(r) /\ h \in Hosts /\ UNCHANGED <<target, upc, request>>
  BY <1>0 DEF CreateUnlocked, Working, TypeOK, userVars
<1>2. Live' = Live \union {h}
  <2>1. CASE h \in Live
    BY <2>1 DEF CreateUnlocked, Live
  <2>2. CASE h \notin Live
    <3>1. hosts' = Append(hosts, h)
      BY <2>2 DEF CreateUnlocked
    <3>q. QED BY <1>0, <1>1, <3>1, PushMembers DEF Live, TypeOK
  <2>q. QED BY <2>1, <2>2
<1>3. touched'[h] = IF h \in Live THEN touched[h] \union {D} ELSE {D}
  BY <1>0, <1>1 DEF CreateUnlocked, TypeOK
<1>4. \A k \in Live : k # h => touched'[k] = touched[k]
  <2>1. Live \subseteq Hosts
    BY <1>0, TypeParts, LiveHosts
  <2>q. QED BY <1>0, <2>1 DEF CreateUnlocked, TypeOK
<1>5. ASSUME NEW q \in Reports, Working(q)' PROVE q = r
  <2>1. CASE q # r
    <3>1. pc'[q] = pc[q]
      BY <1>0, <2>1 DEF CreateUnlocked, TypeOK
    <3>2. Working(q)
      BY <1>5, <3>1 DEF Working
    <3>q. QED BY <1>0, <1>1, <3>2 DEF Serial
  <2>q. QED BY <2>1
<1>6. Machine(D) => Fits(touched'[h], D) /\ \A q \in Reports : Machine(Device[q]) /\ Claimed[q] = h => Device[q] = D
  BY <1>0, <1>1, <1>3 DEF Bound, Fits
<1> HIDE DEF h, D
<1>7. Distinct'
  <2>1. Apart(touched'[h])
    <3>1. CASE Machine(D)
      BY <1>6, <3>1 DEF Apart, Fits
    <3>2. CASE ~ Machine(D)
      BY <1>0, <1>3, <3>2 DEF Apart, Distinct
    <3>q. QED BY <3>1, <3>2
  <2>q. QED BY <1>0, <1>2, <1>4, <2>1 DEF Distinct
<1>8. Owned'
  <2>1. SUFFICES ASSUME NEW q \in Reports, Machine(Device[q]), Claimed[q] \in Live'
                 PROVE  Fits(touched'[Claimed[q]], Device[q])
    BY DEF Owned
  <2>2. CASE Claimed[q] = h /\ Machine(D)
    BY <1>6, <2>1, <2>2
  <2>3. CASE Claimed[q] = h /\ ~ Machine(D)
    BY <1>0, <1>3, <2>1, <2>3 DEF Owned, Fits
  <2>4. CASE Claimed[q] # h
    BY <1>0, <1>2, <1>4, <2>1, <2>4 DEF Owned
  <2>q. QED BY <2>2, <2>3, <2>4
<1>9. Bound'
  BY <1>1, <1>5, <1>6 DEF Bound, h, D
<1>10. Traced'
  <2>1. SUFFICES ASSUME ~ Over
                 PROVE  /\ \A q \in Reports : Machine(Device[q]) /\ Claimed[q] \in Live' =>
                              Device[q] \in touched'[Claimed[q]]
                        /\ Device[r] \in touched'[target[r]]
                        /\ target[r] \in Live'
    BY <1>1, <1>5 DEF Traced, Over
  <2>2. ASSUME NEW q \in Reports, Machine(Device[q]), Claimed[q] \in Live'
        PROVE  Device[q] \in touched'[Claimed[q]]
    <3>1. CASE Claimed[q] # h
      BY <1>0, <1>2, <1>4, <2>1, <2>2, <3>1 DEF Traced
    <3>2. CASE Claimed[q] = h /\ h \in Live
      BY <1>0, <1>3, <2>1, <2>2, <3>2 DEF Traced
    <3>3. CASE Claimed[q] = h /\ h \notin Live
      <4>1. Claimed[r] = h
        BY <1>0, <1>1, <2>1, <3>3 DEF Traced, h
      <4>2. Device[q] = D
        BY <3>3, <4>1 DEF DevicesApart, D
      <4>q. QED BY <1>3, <3>3, <4>2
    <3>q. QED BY <3>1, <3>2, <3>3
  <2>q. QED BY <1>2, <1>3, <2>2 DEF h, D
<1>11. Mergeable'
  <2>1. SUFFICES ASSUME ~ Over, NEW u \in Users, upc[u] \notin {"idle", "failed"}
                 PROVE  /\ request[u][2] \in Live'
                        /\ request[u][1] # None =>
                              /\ request[u][1] \in Live'
                              /\ Apart(touched'[request[u][1]] \union touched'[request[u][2]])
    BY <1>1 DEF Mergeable, Over
  <2>2. /\ request[u][2] \in Live
        /\ request[u][1] # None =>
              request[u][1] \in Live /\ Apart(touched[request[u][1]] \union touched[request[u][2]])
    BY <1>0, <2>1 DEF Mergeable
  <2>3. ASSUME NEW k \in Live, NEW e \in touched'[k], Machine(e) PROVE e \in touched[k]
    <3>1. CASE k # h
      BY <1>4, <2>3, <3>1
    <3>2. CASE k = h /\ e = D
      BY <1>0, <1>1, <2>1, <2>3, <3>2 DEF Traced, h, D
    <3>3. CASE k = h /\ e # D
      BY <1>3, <2>3, <3>3
    <3>q. QED BY <3>1, <3>2, <3>3
  <2>q. QED BY <1>2, <2>2, <2>3 DEF Apart
<1>q. QED BY <1>7, <1>8, <1>9, <1>10, <1>11

\* What belonged to the removed host becomes part of the kept one.
LEMMA PeersMerge ==
    ASSUME OneRequest, Sound, Peers, NEW u \in Users, upc[u] = "moving", request[u][1] \in Live,
           touched' = [touched EXCEPT ![request[u][1]] = @ \union touched[request[u][2]]],
           upc'[u] # "over", UNCHANGED <<hosts, request, pc, target>>
    PROVE  Distinct' /\ Owned' /\ Bound' /\ Traced' /\ Mergeable'
<1>0. /\ TypeOK
      /\ Distinct /\ Owned /\ Bound /\ Traced /\ Mergeable
  BY DEF Sound, Peers
<1> DEFINE keep == request[u][1]
           drop == request[u][2]
<1>1. ~ Over /\ ~ Over' /\ \A w \in Users : w = u
  BY DEF Over, OneRequest
<1>2. UNCHANGED Live /\ \A r \in Reports : UNCHANGED Working(r)
  BY DEF Live, Working
<1>3. keep \in Hosts /\ keep # None /\ keep \in Live /\ drop \in Live
  <2>1. keep \in Hosts
    BY <1>0, TypeParts, LiveHosts
  <2>q. QED BY <1>0, <1>1, <2>1, ReportsAssumption DEF Mergeable
<1>4. /\ touched'[keep] = touched[keep] \union touched[drop]
      /\ \A k \in Live : k # keep => touched'[k] = touched[k]
      /\ Apart(touched[keep] \union touched[drop])
  <2>1. Live \subseteq Hosts
    BY <1>0, TypeParts, LiveHosts
  <2>q. QED BY <1>0, <1>1, <1>3, <2>1 DEF TypeOK, Mergeable
<1>5. UNCHANGED <<keep, drop, target>>
  OBVIOUS
<1> HIDE DEF keep, drop
<1>6. Distinct'
  BY <1>0, <1>2, <1>4 DEF Distinct
<1>7. ASSUME NEW d, d \in touched[keep] PROVE Machine(d) => Fits(touched'[keep], d)
  BY <1>4, <1>7 DEF Apart, Fits
<1>8. Owned'
  <2>1. SUFFICES ASSUME NEW r \in Reports, Machine(Device[r]), Claimed[r] \in Live
                 PROVE  Fits(touched'[Claimed[r]], Device[r])
    BY <1>2 DEF Owned
  <2>2. CASE Claimed[r] = keep
    BY <1>0, <1>1, <1>7, <2>1, <2>2 DEF Traced
  <2>3. CASE Claimed[r] # keep
    BY <1>0, <1>4, <2>1, <2>3 DEF Owned
  <2>q. QED BY <2>2, <2>3
<1>9. Bound'
  <2>1. SUFFICES ASSUME NEW r \in Reports, Machine(Device[r]), Working(r)
                 PROVE  /\ target[r] \in Live => Fits(touched'[target[r]], Device[r])
                        /\ \A q \in Reports : Machine(Device[q]) /\ Claimed[q] = target[r] => Device[q] = Device[r]
    BY <1>2 DEF Bound
  <2>2. CASE target[r] = keep
    BY <1>0, <1>1, <1>3, <1>7, <2>1, <2>2 DEF Traced, Bound
  <2>3. CASE target[r] # keep
    BY <1>0, <1>4, <2>1, <2>3 DEF Bound
  <2>q. QED BY <2>2, <2>3
<1>10. Traced'
  <2>1. \A k \in Live : touched[k] \subseteq touched'[k]
    BY <1>4
  <2>q. QED BY <1>0, <1>1, <1>2, <1>5, <2>1 DEF Traced
<1>11. Mergeable'
  <2>1. SUFFICES /\ drop \in Live /\ keep \in Live
                 /\ Apart(touched'[keep] \union touched'[drop])
    BY <1>1, <1>2, <1>5 DEF Mergeable, keep, drop
  <2>2. touched'[keep] \union touched'[drop] = touched[keep] \union touched[drop]
    BY <1>3, <1>4
  <2>q. QED BY <1>3, <1>4, <2>2
<1>q. QED BY <1>6, <1>8, <1>9, <1>10, <1>11

\* The request ends, having removed a host or not.
LEMMA PeersEnd ==
    ASSUME Sound, Peers, NEW u \in Users, EndRequest(u), Live' \subseteq Live,
           \A h \in Live' : touched'[h] = touched[h], UNCHANGED <<pc, target>>
    PROVE  Distinct' /\ Owned' /\ Bound' /\ Traced' /\ Mergeable'
<1>0. TypeOK /\ Distinct /\ Owned /\ Bound
  BY DEF Sound, Peers
<1>1. Over'
  BY <1>0 DEF EndRequest, Over, TypeOK
<1>2. Distinct' /\ Owned'
  BY <1>0 DEF Distinct, Owned
<1>3. \A r \in Reports : UNCHANGED Working(r)
  BY DEF Working
<1>4. Bound'
  BY <1>0, <1>3 DEF Bound
<1>q. QED BY <1>1, <1>2, <1>4 DEF Traced, Mergeable

\* The request begins.
LEMMA PeersBegin ==
    ASSUME OneRequest, Sound, Peers, NEW u \in Users, BeginDelete(u) \/ BeginConsolidate(u)
    PROVE  Distinct' /\ Owned' /\ Bound' /\ Traced' /\ Mergeable'
<1>0. /\ TypeOK /\ Finite
      /\ Distinct /\ Owned /\ Bound /\ Traced /\ Mergeable
  BY DEF Sound, Peers
<1>1. /\ UNCHANGED <<hosts, touched, pc, target>> /\ UNCHANGED Live
      /\ upc' = [upc EXCEPT ![u] = "lock"] /\ upc[u] \in {"idle", "failed"}
  BY DEF BeginDelete, BeginConsolidate, storeVars, reportVars, Live
<1>2. ~ Over /\ \A w \in Users : w = u
  BY <1>1 DEF Over, OneRequest
<1>3. \A r \in Reports : UNCHANGED Working(r)
  BY <1>1 DEF Working
<1>4. Distinct' /\ Owned'
  BY <1>0, <1>1 DEF Distinct, Owned
<1>5. Bound'
  BY <1>0, <1>1, <1>3 DEF Bound
<1>6. Traced'
  BY <1>0, <1>1, <1>2, <1>3 DEF Traced
<1>7. /\ request'[u][2] \in Live
      /\ request'[u][1] # None =>
            request'[u][1] \in Live /\ Apart(touched[request'[u][1]] \union touched[request'[u][2]])
  <2>1. CASE BeginDelete(u)
    BY <1>0, <2>1 DEF BeginDelete, TypeOK
  <2>2. CASE BeginConsolidate(u)
    <3>1. PICK h \in Live, k \in Live : OneMachine(h, k) /\ request' = [request EXCEPT ![u] = <<h, k>>]
      BY <2>2 DEF BeginConsolidate
    <3>2. h \in Hosts /\ k \in Hosts
      BY <1>0, TypeParts, LiveHosts
    <3>3. IsFiniteSet(touched[h] \union touched[k])
      BY <1>0, <3>2, FS_Union DEF Finite
    <3>4. Apart(touched[h] \union touched[k])
      BY <3>1, <3>3, OneMachineApart DEF OneMachine
    <3>5. request'[u] = <<h, k>>
      BY <1>0, <3>1 DEF TypeOK
    <3>q. QED BY <3>4, <3>5
  <2>q. QED BY <2>1, <2>2
<1>8. Mergeable'
  <2>1. SUFFICES ASSUME NEW w \in Users
                 PROVE  /\ request'[w][2] \in Live'
                        /\ request'[w][1] # None =>
                              /\ request'[w][1] \in Live'
                              /\ Apart(touched'[request'[w][1]] \union touched'[request'[w][2]])
    BY DEF Mergeable
  <2>q. QED BY <1>1, <1>2, <1>7
<1>q. QED BY <1>4, <1>5, <1>6, <1>8

\* The request goes on.
LEMMA PeersGoOn ==
    ASSUME OneRequest, Sound, Peers, NEW u \in Users, upc[u] \notin {"idle", "failed", "over"}, upc'[u] # "over",
           UNCHANGED <<hosts, touched, request, pc, target>>
    PROVE  Distinct' /\ Owned' /\ Bound' /\ Traced' /\ Mergeable'
<1>0. Distinct /\ Owned /\ Bound /\ Traced /\ Mergeable
  BY DEF Peers
<1>1. UNCHANGED Live /\ \A r \in Reports : UNCHANGED Working(r)
  BY DEF Live, Working
<1>2. ~ Over /\ ~ Over' /\ \A w \in Users : w = u
  BY DEF Over, OneRequest
<1>3. Distinct' /\ Owned'
  BY <1>0, <1>1 DEF Distinct, Owned
<1>4. Bound'
  BY <1>0, <1>1 DEF Bound
<1>5. Traced'
  BY <1>0, <1>1, <1>2 DEF Traced
<1>6. Mergeable'
  BY <1>0, <1>1, <1>2 DEF Mergeable
<1>q. QED BY <1>3, <1>4, <1>5, <1>6

\* The request fails, with what it has merged so far.
LEMMA PeersFail ==
    ASSUME OneRequest, Sound, Peers, NEW u \in Users, RequestFails(u)
    PROVE  Distinct' /\ Owned' /\ Bound' /\ Traced' /\ Mergeable'
<1>0. TypeOK /\ Distinct /\ Owned /\ Bound /\ Traced
  BY DEF Sound, Peers
<1>1. UNCHANGED <<hosts, touched, pc, target>>
  BY DEF RequestFails, storeVars, reportVars
<1>2. UNCHANGED Live /\ \A r \in Reports : UNCHANGED Working(r)
  BY <1>1 DEF Live, Working
<1>3. ~ Over /\ \A w \in Users : w = u /\ upc'[w] = "failed"
  BY <1>0 DEF RequestFails, Over, OneRequest, TypeOK
<1>4. Distinct' /\ Owned'
  BY <1>0, <1>1, <1>2 DEF Distinct, Owned
<1>5. Bound'
  BY <1>0, <1>1, <1>2 DEF Bound
<1>6. Traced'
  BY <1>0, <1>1, <1>2, <1>3 DEF Traced
<1>7. Mergeable'
  BY <1>3 DEF Mergeable
<1>q. QED BY <1>4, <1>5, <1>6, <1>7

\* Every step keeps the machines apart, with one request.
LEMMA PeersStep ==
    ASSUME DevicesApart, OneRequest, Sound, Peers, [Next]_vars
    PROVE  Peers'
<1>0. TypeOK /\ Asking /\ Finite /\ Serial /\ Guarded
  BY DEF Sound, Peers
<1> DEFINE Goal == Distinct' /\ Owned' /\ Bound' /\ Traced' /\ Mergeable'
<1>1. ASSUME UNCHANGED vars PROVE Goal
  BY <1>1, PeersCalm DEF vars, Working
<1>2. ASSUME NEW r \in Reports, Match(r) PROVE Goal
  <2>1. ASSUME NEW q \in Reports, q # r, Working(q)' PROVE Working(q) /\ target'[q] = target[q]
    <3>1. pc'[q] = pc[q]
      <4>1. CASE Abort(r)
        BY <1>0, <2>1, <4>1, AbortSeen
      <4>2. CASE ~ Abort(r)
        BY <1>0, <1>2, <2>1, <4>2 DEF Match, Matched, TypeOK
      <4>q. QED BY <4>1, <4>2
    <3>2. Working(q) /\ dedup = None
      BY <1>2, <2>1, <3>1 DEF Working, Match
    <3>q. QED BY <1>0, <3>2, ReportsAssumption DEF Serial
  <2>2. CASE pc'[r] = "matched"
    BY <1>2, <2>1, <2>2, PeersMatch
  <2>3. CASE pc'[r] # "matched"
    <3>1. Abort(r)
      BY <1>0, <1>2, <2>3 DEF Match, Matched, TypeOK
    <3>2. ~ Working(r)'
      BY <1>0, <3>1, AbortSeen DEF Working
    <3>q. QED BY <1>2, <2>1, <3>2, PeersCalm DEF Match, Matched, storeVars, userVars
  <2>q. QED BY <2>2, <2>3
<1>3. ASSUME NEW r \in Reports, CreateUnlocked(r) PROVE Goal
  BY <1>3, PeersCreate
<1>4. ASSUME NEW r \in Reports, StoreAddress(r) \/ Release(r) \/ ReportFails(r) \/ Retry(r) PROVE Goal
  <2>1. UNCHANGED <<hosts, touched, upc, request>>
    BY <1>4 DEF StoreAddress, Release, ReportFails, Retry, storeVars, userVars
  <2>2. ASSUME NEW q \in Reports, Working(q)' PROVE Working(q) /\ target'[q] = target[q]
    <3>1. CASE ~ (Match(q) /\ pc'[q] = "matched")
      BY <1>0, <2>2, <3>1, WorkingCases
    <3>2. ASSUME Match(q), pc'[q] = "matched" PROVE FALSE
      <4>1. pc[q] = "idle"
        BY <3>2 DEF Match
      <4>2. CASE Abort(r)
        BY <1>0, <3>2, <4>1, <4>2, AbortSeen
      <4>3. CASE ~ Abort(r)
        <5>1. UNCHANGED pc \/ pc' = [pc EXCEPT ![r] = "ok"] \/ pc' = [pc EXCEPT ![r] = "idle"]
          BY <1>4, <4>3 DEF StoreAddress, Release, ReportFails, Retry
        <5>q. QED BY <1>0, <3>2, <4>1, <5>1 DEF TypeOK
      <4>q. QED BY <4>2, <4>3
    <3>q. QED BY <3>1, <3>2
  <2>q. QED BY <2>1, <2>2, PeersCalm
<1>5. ASSUME NEW u \in Users, BeginDelete(u) \/ BeginConsolidate(u) PROVE Goal
  BY <1>5, PeersBegin
<1>6. ASSUME NEW u \in Users, Lock(u) \/ ReadDest(u) \/ ReadOther(u) PROVE Goal
  <2>1. upc[u] \notin {"idle", "failed", "over"} /\ upc'[u] # "over"
    BY <1>0, <1>6 DEF Lock, ReadDest, ReadOther, TypeOK
  <2>q. QED BY <1>6, <2>1, PeersGoOn DEF Lock, ReadDest, ReadOther, storeVars, reportVars
<1>7. ASSUME NEW u \in Users, MoveAddress(u) PROVE Goal
  <2>1. upc[u] = "moving" /\ UNCHANGED <<hosts, pc, target>>
    BY <1>7, MoveCases DEF reportVars
  <2>2. PICK x \in left[u] : \/ Passed(u, x)
                             \/ Moved(u, x)
                             \/ EndRequest(u) /\ UNCHANGED <<rows, touched>>
    BY <1>7, MoveCases
  <2>3. CASE Passed(u, x)
    BY <2>1, <2>3, PeersGoOn DEF Passed
  <2>4. CASE Moved(u, x)
    BY <2>1, <2>4, PeersMerge DEF Moved
  <2>5. CASE EndRequest(u) /\ UNCHANGED <<rows, touched>>
    BY <2>1, <2>5, PeersEnd DEF Live
  <2>q. QED BY <2>2, <2>3, <2>4, <2>5
<1>8. ASSUME NEW u \in Users, MergeHost(u) PROVE Goal
  <2>1. /\ upc[u] = "moving" /\ upc'[u] = "delete" /\ UNCHANGED <<hosts, request, pc, target>>
    BY <1>0, <1>8 DEF MergeHost, reportVars, TypeOK
  <2>2. CASE request[u][1] \in Live
    BY <1>8, <2>1, <2>2, PeersMerge DEF MergeHost
  <2>3. CASE request[u][1] \notin Live
    BY <1>8, <2>1, <2>3, PeersGoOn DEF MergeHost
  <2>q. QED BY <2>2, <2>3
<1>9. ASSUME NEW u \in Users, DeleteHostInner(u) PROVE Goal
  <2>1. EndRequest(u) /\ UNCHANGED <<pc, target>> /\ hosts' = Retain(hosts, {request[u][2]})
        /\ touched' = [touched EXCEPT ![request[u][2]] = {}]
    BY <1>9 DEF DeleteHostInner, reportVars
  <2>2. Live' = Live \ {request[u][2]} /\ Live \subseteq Hosts
    BY <1>0, <2>1, TypeParts, LiveHosts, RetainMembers DEF Live, TypeOK
  <2>3. \A h \in Live' : touched'[h] = touched[h]
    BY <1>0, <2>1, <2>2 DEF TypeOK
  <2>q. QED BY <2>1, <2>2, <2>3, PeersEnd
<1>10. ASSUME NEW u \in Users, RequestFails(u) PROVE Goal
  BY <1>10, PeersFail
<1>q. QED BY <1>0, <1>1, <1>2, <1>3, <1>4, <1>5, <1>6, <1>7, <1>8, <1>9, <1>10, FiniteStep
          DEF Peers, Next, Report, User

\* No host is known from two machines, whatever a redundancy group shares and
\* whenever a person deletes or consolidates, as long as there is one request
\* (PeersApart; select_matching_host pass 1).
THEOREM RoutersStayApart ==
    ASSUME DevicesApart, OneRequest
    PROVE  Spec => []PeersApart
<1> DEFINE Inv == Sound /\ Peers
<1>1. Init => Inv
  <2>1. SUFFICES ASSUME Init PROVE Peers
    BY SoundInit
  <2>2. Live = {} /\ \A h \in Hosts : IsFiniteSet({})
    BY <2>1, EmptyQueue, FS_EmptySet DEF Init, Live
  <2>3. Finite
    BY <2>1, <2>2 DEF Init, Finite
  <2>4. \A r \in Reports : ~ Working(r)
    BY <2>1 DEF Init, Working
  <2>5. \A u \in Users : upc[u] = "idle"
    BY <2>1 DEF Init
  <2>q. QED BY <2>2, <2>3, <2>4, <2>5 DEF Peers, Distinct, Owned, Bound, Traced, Mergeable
<1>2. Inv /\ [Next]_vars => Inv'
  BY SoundStep, PeersStep
<1>3. Inv => PeersApart
  BY ApartOneMachine DEF Peers, Distinct, PeersApart
<1>q. QED BY <1>1, <1>2, <1>3, PTL DEF Spec
-----------------------------------------------------------------------------
(***************************************************************************)
(* The addresses of one device.                                            *)
(***************************************************************************)

\* A row of an address that belongs to one device.
OwnRow(x) == x \in rows /\ ~ Skipped(x)

\* A row of an own address comes from a report that brings it as its own.
LEMMA OwnRowBrought ==
    ASSUME TypeOK, Rooted, NEW x, OwnRow(x)
    PROVE  /\ x.by \in Reports /\ x.addr \in OwnAddresses(x.by)
           /\ \E s \in Brought[x.by] : s.addr = x.addr /\ s.mac = x.mac /\ ~ Skipped(s)
<1>1. x.by \in Reports /\ TrueRow(x)
  BY DEF OwnRow, Rooted, TypeOK, Rows
<1>2. PICK s \in Brought[x.by] : s.addr = x.addr /\ s.mac = x.mac
  BY <1>1 DEF TrueRow
<1>3. ~ Skipped(s)
  BY <1>2 DEF OwnRow, Skipped, Virtual
<1>q. QED BY <1>1, <1>2, <1>3 DEF OwnAddresses

\* The host that pass 1 finds has a row of the device.
LEMMA FoundHasOwnRow ==
    ASSUME DevicesApart, TypeOK, Rooted, NEW r \in Reports, NEW h \in PhysicalMatches(r)
    PROVE  \E x : OwnRow(x) /\ x.host = h /\ Device[x.by] = Device[r]
<1> DEFINE payload == {p \in Brought[r] : ~ Skipped(p)}
<1>1. PICK p \in payload, x \in RowsOf(h) : ~ Skipped(x) /\ AddressesMatch(r, p, x, payload)
  BY DEF PhysicalMatches
<1>2. OwnRow(x) /\ x.host = h
  BY <1>1 DEF RowsOf, OwnRow
<1>3. x.by \in Reports /\ \E s \in Brought[x.by] : s.addr = x.addr /\ s.mac = x.mac /\ ~ Skipped(s)
  BY <1>2, OwnRowBrought
<1>4. PICK s \in Brought[x.by] : s.addr = x.addr /\ s.mac = x.mac /\ ~ Skipped(s)
  BY <1>3
<1>5. p.addr = s.addr \/ (p.mac = s.mac /\ p.mac # NoMac)
  BY <1>1, <1>4 DEF AddressesMatch, SameId, UniqueMac
<1>6. Device[x.by] = Device[r]
  BY <1>1, <1>3, <1>4, <1>5 DEF DevicesApart
<1>q. QED BY <1>2, <1>6

\* A report of the device finds a host if one has an address it brings.
LEMMA OwnRowFound ==
    ASSUME TypeOK, Rooted, NEW r \in Reports, NEW y, OwnRow(y), y.addr \in OwnAddresses(r)
    PROVE  SelectMatchingHost(r) \in PhysicalMatches(r)
<1>1. PICK p \in Brought[r] : ~ Skipped(p) /\ p.addr = y.addr
  BY DEF OwnAddresses
<1>2. Physical(r)
  BY <1>1 DEF Physical
<1>3. y.host \in Live /\ y \in RowsOf(y.host)
  BY DEF OwnRow, Rooted, RowsOf
<1>4. y.host \in PhysicalMatches(r)
  BY <1>1, <1>3 DEF PhysicalMatches, AddressesMatch, OwnRow
<1>q. QED BY <1>2, <1>4, SelectsMatch

\* No own address is on two hosts, unless it is marked.
OneHost ==
    \A x, y : OwnRow(x) /\ OwnRow(y) /\ x.addr = y.addr /\ x.host # y.host => Marked(x.addr)

\* A report goes on with the host that has the address of its device.
Directed ==
    \A r \in Reports : Working(r) =>
        \A y : OwnRow(y) /\ y.addr \in OwnAddresses(r) => Marked(y.addr) \/ y.host = target[r]

\* A moved row was on the removed host, as it was read, or the address is noted.
LEMMA MovedOwn ==
    ASSUME Sound, NEW u \in Users, upc[u] = "moving", NEW z \in left[u], Moved(u, z),
           NEW x, x = [z EXCEPT !.host = request[u][1]]
    PROVE  /\ x.addr = z.addr /\ x.mac = z.mac /\ x.by = z.by /\ x.host = request[u][1]
           /\ z.host = request[u][2]
           /\ z \in rows \/ Marked(z.addr)
           /\ ~ Skipped(x) => ~ Skipped(z)
<1>1. TypeOK /\ Asking /\ Moving /\ Fresh
  BY DEF Sound, Tables
<1>2. x.addr = z.addr /\ x.mac = z.mac /\ x.by = z.by /\ x.host = request[u][1]
  BY <1>1, MovedRow
<1>3. z.host = request[u][2] /\ (z \in rows \/ Marked(z.addr))
  BY <1>1 DEF Moving, Fresh
<1>4. ~ Skipped(x) => ~ Skipped(z)
  BY <1>2 DEF Skipped, Virtual
<1>q. QED BY <1>2, <1>3, <1>4

\* Every step keeps the addresses of a device on one host.
LEMMA OneHostStep ==
    ASSUME Sound, OneHost, Directed, [Next]_vars
    PROVE  OneHost'
<1>0. TypeOK /\ Asking /\ Serial /\ Rooted /\ Keys /\ Fresh
  BY DEF Sound, Tables
<1>1. ASSUME NEW v \in rows', NEW w \in rows', v \notin rows, v.addr = w.addr, v.host # w.host,
             ~ Skipped(v), ~ Skipped(w)
      PROVE  Marked(v.addr)'
  <2>1. ASSUME NEW r \in Reports, NEW p \in Brought[r], pc[r] = "storing",
               v.addr = p.addr, v.mac = p.mac, v.host = target[r], rows' = rows \union {v}
        PROVE  Marked(v.addr)'
    <3>1. OwnRow(w)
      BY <1>1, <2>1 DEF OwnRow
    <3>2. ~ Skipped(p)
      BY <1>1, <2>1 DEF Skipped, Virtual
    <3>3. w.addr \in OwnAddresses(r) /\ Working(r)
      BY <1>1, <2>1, <3>2 DEF OwnAddresses, Working
    <3>4. Marked(w.addr)
      BY <1>1, <2>1, <3>1, <3>3 DEF Directed
    <3>q. QED BY <1>1, <3>4, MarkStays
  <2>2. ASSUME NEW u \in Users, NEW z \in left[u], upc[u] = "moving", Moved(u, z),
               v = [z EXCEPT !.host = request[u][1]]
        PROVE  Marked(v.addr)'
    <3>1. /\ v.by = z.by /\ v.addr = z.addr /\ ~ Skipped(z)
          /\ z \in rows \/ Marked(z.addr)
      BY <1>1, <2>2, MovedOwn
    <3>2. w \in rows /\ ~ SameId(z.by, z, w)
      BY <1>1, <2>2 DEF Moved
    <3>3. CASE Marked(z.addr)
      BY <3>1, <3>3, MarkStays
    <3>4. CASE z \in rows
      <4>1. z.host # w.host
        BY <1>0, <1>1, <3>1, <3>2, <3>4 DEF Keys, SameId
      <4>2. Marked(z.addr)
        BY <1>1, <3>1, <3>2, <3>4, <4>1 DEF OneHost, OwnRow
      <4>q. QED BY <3>1, <4>2, MarkStays
    <3>q. QED BY <3>1, <3>3, <3>4
  <2>q. QED BY <1>1, <2>1, <2>2, RowGained, MarkStays
<1>2. SUFFICES ASSUME NEW x \in rows', NEW y \in rows', ~ Skipped(x), ~ Skipped(y),
                      x.addr = y.addr, x.host # y.host
               PROVE  Marked(x.addr)'
  BY DEF OneHost, OwnRow
<1>3. CASE x \in rows /\ y \in rows
  <2>1. Marked(x.addr)
    BY <1>2, <1>3 DEF OneHost, OwnRow
  <2>q. QED BY <2>1, MarkStays
<1>4. CASE x \notin rows
  BY <1>1, <1>2, <1>4
<1>5. CASE y \notin rows
  BY <1>1, <1>2, <1>5
<1>q. QED BY <1>3, <1>4, <1>5

\* Every step keeps a report on the host that has the address of its device.
LEMMA DirectedStep ==
    ASSUME DevicesApart, OneOwnAddress, Sound, OneHost, Directed, [Next]_vars
    PROVE  Directed'
<1>0. TypeOK /\ Asking /\ Serial /\ Rooted
  BY DEF Sound, Tables
<1>1. SUFFICES ASSUME NEW r \in Reports, Working(r)', NEW y \in rows', ~ Skipped(y),
                      y.addr \in OwnAddresses(r)
               PROVE  Marked(y.addr)' \/ y.host = target'[r]
  BY DEF Directed, OwnRow
<1>2. CASE Match(r) /\ pc'[r] = "matched"
  <2>1. OwnRow(y)
    BY <1>1, <1>2 DEF Match, Matched, storeVars, OwnRow
  <2> DEFINE k == SelectMatchingHost(r)
  <2>2. k \in PhysicalMatches(r)
    BY <1>0, <1>1, <2>1, OwnRowFound
  <2>3. k # None
    <3>1. k \in Live
      BY <2>2 DEF PhysicalMatches
    <3>q. QED BY <1>0, <3>1, TypeParts, LiveHosts, ReportsAssumption
  <2>4. target'[r] = k
    <3>1. ~ Abort(r)
      BY <1>0, <1>2, AbortSeen
    <3>2. target' = [target EXCEPT ![r] = IF k = None THEN Claimed[r] ELSE k]
      BY <1>2, <3>1 DEF Match, Matched
    <3>q. QED BY <1>0, <2>3, <3>2 DEF TypeOK
  <2>5. PICK x : OwnRow(x) /\ x.host = k /\ Device[x.by] = Device[r]
    BY <1>0, <2>2, FoundHasOwnRow
  <2>6. x.addr = y.addr
    BY <1>0, <1>1, <2>5, OwnRowBrought DEF OneOwnAddress
  <2> HIDE DEF k
  <2>7. CASE y.host # k
    <3>1. Marked(y.addr)
      BY <2>1, <2>5, <2>6, <2>7 DEF OneHost
    <3>q. QED BY <3>1, MarkStays
  <2>q. QED BY <2>4, <2>7
<1>3. CASE Working(r) /\ target'[r] = target[r]
  <2>1. ASSUME NEW z \in rows, ~ Skipped(z), z.addr = y.addr, z.host # target[r] PROVE Marked(y.addr)'
    <3>1. Marked(z.addr)
      BY <1>1, <1>3, <2>1 DEF Directed, OwnRow
    <3>q. QED BY <2>1, <3>1, MarkStays
  <2>2. CASE y \in rows
    BY <1>1, <1>3, <2>1, <2>2
  <2>3. CASE y \notin rows
    <3>1. ASSUME NEW q \in Reports, pc[q] = "storing", y.host = target[q] PROVE y.host = target'[r]
      <4>1. q = r
        BY <1>0, <1>3, <3>1 DEF Serial, Working
      <4>q. QED BY <1>3, <3>1, <4>1
    <3>2. CASE Marked(y.addr)
      BY <3>2, MarkStays
    <3>3. ASSUME NEW u \in Users, NEW z \in left[u], MoveAddress(u), upc[u] = "moving", Moved(u, z),
                 y = [z EXCEPT !.host = request[u][1]]
          PROVE  Marked(y.addr)'
      <4>1. /\ y.addr = z.addr /\ ~ Skipped(z) /\ z.host = request[u][2]
            /\ z \in rows \/ Marked(z.addr)
        BY <1>1, <3>3, MovedOwn
      <4>2. CASE Marked(z.addr)
        BY <4>1, <4>2, MarkStays
      <4>3. CASE z \in rows /\ z.host # target[r]
        BY <2>1, <4>1, <4>3
      <4>4. CASE z.host = target[r]
        <5>1. Overlap(r, u)
          BY <1>3, <3>3, <4>1, <4>4 DEF Overlap, WorksOn
        <5>2. PICK p \in Brought[r] : p.addr = y.addr
          BY <1>1 DEF OwnAddresses
        <5>3. Marked(p.addr)'
          BY <3>3, <5>1, CollisionNoted, MoveCases
        <5>q. QED BY <5>2, <5>3 DEF Marked
      <4>q. QED BY <4>1, <4>2, <4>3, <4>4
    <3>q. QED BY <2>3, <3>1, <3>2, <3>3, RowGained
  <2>q. QED BY <2>2, <2>3
<1>q. QED BY <1>0, <1>1, <1>2, <1>3, WorkingCases

\* The reports of a device with one address make one host, whatever
\* fails and whatever people delete and consolidate: the address is on two hosts only
\* if a report ran into a request on its host.  A consolidation of such hosts that
\* fails half-way leaves nothing on both (OneHostPerAddress, and OneHost, which
\* does without its exemption; create_with_children under the HostDedup lock).
THEOREM AddressOnOneHost ==
    ASSUME DevicesApart, OneOwnAddress
    PROVE  Spec => [](OneHostPerAddress /\ OneHost)
<1> DEFINE Inv == Sound /\ OneHost /\ Directed
<1>1. Init => Inv
  BY SoundInit DEF Init, OneHost, OwnRow, Directed, Working
<1>2. Inv /\ [Next]_vars => Inv'
  BY SoundStep, OneHostStep, DirectedStep
<1>3. Inv => OneHostPerAddress
  BY DEF OneHost, OwnRow, Marked, OneHostPerAddress, Torn, Among
<1>q. QED BY <1>1, <1>2, <1>3, PTL DEF Spec

\* Nobody has asked to delete or to consolidate anything yet.
Quiet == \A u \in Users : upc[u] = "idle"

\* All the addresses of one device are on one host.
OneHostPerDevice ==
    \A x, y \in rows :
        ~ Skipped(x) /\ ~ Skipped(y) /\ Device[x.by] = Device[y.by] => x.host = y.host

\* Until someone asks, there is no collision, and a report goes on with the host of its device.
Undisturbed ==
    Quiet =>
        /\ overtaken = {}
        /\ OneHostPerDevice
        /\ \A r \in Reports : Working(r) =>
              \A y : OwnRow(y) /\ Device[y.by] = Device[r] => y.host = target[r]

\* Until then every step is a report's.
LEMMA QuietBefore ==
    ASSUME TypeOK, [Next]_vars, Quiet'
    PROVE  Quiet /\ \A u \in Users : ~ User(u)
<1>1. ASSUME NEW u \in Users, User(u) PROVE FALSE
  <2>1. upc'[u] = "idle" /\ UserTypes
    BY TypeParts DEF Quiet
  <2>2. CASE BeginDelete(u) \/ BeginConsolidate(u) \/ Lock(u) \/ ReadDest(u) \/ ReadOther(u) \/ MergeHost(u)
    BY <2>1, <2>2 DEF UserTypes, BeginDelete, BeginConsolidate, Lock, ReadDest, ReadOther,
       MergeHost
  <2>3. CASE EndRequest(u) \/ RequestFails(u)
    BY <2>1, <2>3 DEF UserTypes, EndRequest, RequestFails
  <2>4. CASE MoveAddress(u)
    BY <2>1, <2>3, <2>4 DEF MoveAddress
  <2>5. CASE DeleteHostInner(u)
    BY <2>3, <2>5 DEF DeleteHostInner
  <2>q. QED BY <1>1, <2>2, <2>3, <2>4, <2>5 DEF User
<1>2. UNCHANGED upc
  <2>1. CASE UNCHANGED vars
    BY <2>1 DEF vars
  <2>2. ASSUME NEW r \in Reports, Report(r) PROVE UNCHANGED upc
    BY <2>2 DEF Report, Match, Matched, CreateUnlocked, StoreAddress, Release, ReportFails,
       Retry, userVars
  <2>q. QED BY <1>1, <2>1, <2>2 DEF Next
<1>q. QED BY <1>1, <1>2 DEF Quiet

\* Without requests nothing runs into one.
LEMMA QuietNoCollision ==
    ASSUME [Next]_vars, Quiet, \A u \in Users : ~ User(u)
    PROVE  overtaken' = overtaken
<1>1. ASSUME NEW r \in Reports, Collide({r}, Users) PROVE overtaken' = overtaken
  <2>1. {w \in {r} \X Users : Overlap(w[1], w[2])} = {}
    BY DEF Overlap, Quiet
  <2>q. QED BY <1>1, <2>1 DEF Collide
<1>q. QED BY <1>1 DEF Next, vars, Report, Match, Matched, CreateUnlocked, StoreAddress,
             Release, ReportFails, Retry

\* Every step keeps it until somebody asks to delete or to consolidate.
LEMMA UndisturbedStep ==
    ASSUME DevicesApart, SameOwnAddresses, Sound, Undisturbed, [Next]_vars
    PROVE  Undisturbed'
<1>0. TypeOK /\ Serial /\ Rooted
  BY DEF Sound, Tables
<1>1. SUFFICES ASSUME Quiet' PROVE /\ overtaken' = {}
                                   /\ OneHostPerDevice'
                                   /\ \A r \in Reports : Working(r)' =>
                                         \A y : OwnRow(y)' /\ Device[y.by] = Device[r] => y.host = target'[r]
  BY DEF Undisturbed
<1>2. /\ Quiet /\ \A u \in Users : ~ User(u)
      /\ overtaken = {} /\ overtaken' = {}
      /\ OneHostPerDevice
      /\ \A r \in Reports : Working(r) => \A y : OwnRow(y) /\ Device[y.by] = Device[r] => y.host = target[r]
  BY <1>0, <1>1, QuietBefore, QuietNoCollision DEF Undisturbed
<1>3. ASSUME NEW x \in rows', x \notin rows
      PROVE  \E r \in Reports : Working(r) /\ x.by = r /\ x.host = target[r] /\ rows' = rows \union {x}
  <2>1. ASSUME NEW u \in Users, MoveAddress(u) PROVE FALSE
    BY <1>2, <2>1 DEF User
  <2>2. ~ Marked(x.addr)
    BY <1>2 DEF Marked
  <2>q. QED BY <1>3, <2>1, <2>2, RowGained DEF Working
<1>4. OneHostPerDevice'
  <2>1. SUFFICES ASSUME NEW x \in rows', NEW y \in rows', ~ Skipped(x), ~ Skipped(y), Device[x.by] = Device[y.by]
                 PROVE  x.host = y.host
    BY DEF OneHostPerDevice
  <2>2. ASSUME NEW v \in rows', NEW w \in rows', v \notin rows, ~ Skipped(w), Device[v.by] = Device[w.by]
        PROVE  v.host = w.host
    <3>1. PICK r \in Reports : Working(r) /\ v.by = r /\ v.host = target[r] /\ rows' = rows \union {v}
      BY <1>3, <2>2
    <3>2. CASE w \in rows
      BY <1>2, <2>2, <3>1, <3>2 DEF OwnRow
    <3>q. QED BY <3>1, <3>2
  <2>3. CASE x \in rows /\ y \in rows
    BY <1>2, <2>1, <2>3 DEF OneHostPerDevice
  <2>q. QED BY <2>1, <2>2, <2>3
<1>5. ASSUME NEW r \in Reports, Working(r)', NEW y, OwnRow(y)', Device[y.by] = Device[r]
      PROVE  y.host = target'[r]
  <2>1. y \in rows' /\ ~ Skipped(y)
    BY <1>5 DEF OwnRow
  <2>2. CASE Match(r) /\ pc'[r] = "matched"
    <3>1. OwnRow(y)
      BY <2>1, <2>2 DEF Match, Matched, storeVars, OwnRow
    <3> DEFINE k == SelectMatchingHost(r)
    <3>2. y.addr \in OwnAddresses(r)
      BY <1>0, <1>5, <3>1, OwnRowBrought DEF SameOwnAddresses
    <3>3. k \in PhysicalMatches(r)
      BY <1>0, <3>1, <3>2, OwnRowFound
    <3>4. k # None
      <4>1. k \in Live
        BY <3>3 DEF PhysicalMatches
      <4>q. QED BY <1>0, <4>1, TypeParts, LiveHosts, ReportsAssumption
    <3>5. target'[r] = k
      <4>1. ~ Abort(r)
        BY <1>0, <2>2, AbortSeen
      <4>2. target' = [target EXCEPT ![r] = IF k = None THEN Claimed[r] ELSE k]
        BY <2>2, <4>1 DEF Match, Matched
      <4>q. QED BY <1>0, <3>4, <4>2 DEF TypeOK
    <3>6. PICK x : OwnRow(x) /\ x.host = k /\ Device[x.by] = Device[r]
      BY <1>0, <3>3, FoundHasOwnRow
    <3>7. x.host = y.host
      BY <1>2, <1>5, <3>1, <3>6 DEF OneHostPerDevice, OwnRow
    <3>q. QED BY <3>5, <3>6, <3>7
  <2>3. CASE Working(r) /\ target'[r] = target[r]
    <3>1. CASE y \in rows
      BY <1>2, <1>5, <2>1, <2>3, <3>1 DEF OwnRow
    <3>2. CASE y \notin rows
      <4>1. PICK q \in Reports : Working(q) /\ y.host = target[q]
        BY <1>3, <2>1, <3>2
      <4>2. q = r
        BY <1>0, <2>3, <4>1 DEF Serial
      <4>q. QED BY <2>3, <4>1, <4>2
    <3>q. QED BY <3>1, <3>2
  <2>q. QED BY <1>0, <1>5, <2>2, <2>3, WorkingCases
<1>q. QED BY <1>2, <1>4, <1>5

\* Concurrent reports of one device, repeated and failing as they may, make one host
\* as long as nobody deletes or consolidates, however many addresses the device
\* has, if all of its reports bring them.
THEOREM DeviceOnOneHost ==
    ASSUME DevicesApart, SameOwnAddresses
    PROVE  Spec => [](Quiet => OneHostPerDevice)
<1> DEFINE Inv == Sound /\ Undisturbed
<1>1. Init => Inv
  BY SoundInit DEF Init, Undisturbed, OneHostPerDevice, Working
<1>2. Inv /\ [Next]_vars => Inv'
  BY SoundStep, UndisturbedStep
<1>3. Inv => (Quiet => OneHostPerDevice)
  BY DEF Undisturbed
<1>q. QED BY <1>1, <1>2, <1>3, PTL DEF Spec
-----------------------------------------------------------------------------
(***************************************************************************)
(* A consolidation loses no address.                                       *)
(***************************************************************************)

\* A consolidation that has begun to read.
Joining(u) == upc[u] \in {"other", "moving", "delete"} /\ request[u][1] # None

\* The rows of the kept host, as a consolidation has read them, are there.
DestFresh ==
    \A u \in Users : Joining(u) =>
        \A d \in destRows[u] : d.host = request[u][1] /\ (d \in rows \/ Marked(d.addr))

\* The kept host had the card of the address, when each had one address on it.
SameCard(u, y) ==
    \E d \in destRows[u] : d.mac = y.mac /\ UniqueMac(d, destRows[u]) /\ UniqueMac(y, otherRows[u])

\* A row of the host to be removed will be looked at, or the kept host has
\* its address or its card.
Covered(u, y) ==
    \/ upc[u] = "moving" /\ y \in left[u]
    \/ Marked(y.addr)
    \/ \E d \in rows : d.addr = y.addr /\ d.host = request[u][1]
    \/ SameCard(u, y)

Relocated ==
    \A u \in Users : upc[u] \in {"moving", "delete"} /\ request[u][1] # None =>
        \A y \in rows : y.host = request[u][2] => Covered(u, y)

\* A request's hosts are its own while it has its guards: a row of one of them
\* is lost to nobody else unless it is marked.
LEMMA GuardedRowLost ==
    ASSUME Sound, [Next]_vars, NEW u \in Users, upc[u] \in Holding,
           NEW y \in rows, y \notin rows', y.host \in {request[u][1], request[u][2]}
    PROVE  \/ Marked(y.addr)
           \/ MoveAddress(u) /\ y \in left[u] /\ Moved(u, y)
           \/ DeleteHostInner(u) /\ y.host = request[u][2]
<1>0. TypeOK /\ Asking /\ Serial /\ Guarded /\ Tables /\ Fresh /\ Moving
  BY DEF Sound, Tables
<1>1. y.host \in Hosts
  BY <1>0 DEF TypeOK, Rows
<1>2. ASSUME NEW w \in Users, w # u, upc[w] \in {"moving", "delete"}, y.host = request[w][2] PROVE FALSE
  BY <1>0, <1>1, <1>2, GuardsExclude DEF Holding
<1>3. ASSUME NEW r \in Reports, NEW x \in seen[r], x.by = y.by, x.addr = y.addr, x # y PROVE Marked(y.addr)
  BY <1>0, <1>3, ReadAndStored
<1>4. ASSUME NEW w \in Users, MoveAddress(w), upc[w] = "moving", NEW x \in left[w], Moved(w, x),
             x.by = y.by, x.addr = y.addr
      PROVE  Marked(y.addr) \/ (w = u /\ x = y)
  <2>1. CASE x # y
    BY <1>0, <1>4, <2>1, ReadAndStored
  <2>2. CASE x = y /\ w # u
    BY <1>0, <1>2, <1>4, <2>2 DEF Moving
  <2>q. QED BY <2>1, <2>2
<1>5. ASSUME NEW w \in Users, DeleteHostInner(w), upc[w] = "delete", y.host = request[w][2] PROVE w = u
  BY <1>2, <1>5
<1>q. QED BY <1>0, <1>3, <1>4, <1>5, RowLost

\* What a step does to what a request has read of its kept host.
LEMMA DestCases ==
    ASSUME TypeOK, [Next]_vars, NEW u \in Users, Joining(u)'
    PROVE  \/ /\ ReadDest(u) /\ destRows'[u] = RowsOf(request[u][1]) /\ UNCHANGED <<rows, request>>
           \/ /\ Joining(u) /\ destRows'[u] = destRows[u] /\ request'[u] = request[u]
              /\ ~ DeleteHostInner(u)
<1> DEFINE Goal == \/ /\ ReadDest(u) /\ destRows'[u] = RowsOf(request[u][1]) /\ UNCHANGED <<rows, request>>
                   \/ /\ Joining(u) /\ destRows'[u] = destRows[u] /\ request'[u] = request[u]
                      /\ ~ DeleteHostInner(u)
<1>0. UserTypes
  BY TypeParts
<1>1. ~ DeleteHostInner(u) /\ ~ Ends(u)
  BY <1>0 DEF EndRequest, Ends, DeleteHostInner, Joining, UserTypes
<1>2. CASE upc'[u] = upc[u] /\ destRows'[u] = destRows[u] /\ request'[u] = request[u]
  BY <1>1, <1>2 DEF Joining
<1>3. CASE UNCHANGED vars
  BY <1>2, <1>3 DEF vars
<1>4. ASSUME NEW r \in Reports, Report(r) PROVE Goal
  BY <1>2, <1>4 DEF Report, Match, Matched, CreateUnlocked, StoreAddress, Release,
     ReportFails, Retry,
     userVars
<1>5. ASSUME NEW w \in Users, w # u, Ends(w) PROVE Goal
  BY <1>0, <1>2, <1>5 DEF Ends, LetGo, UserTypes
<1>6. ASSUME NEW w \in Users, w # u, User(w) PROVE Goal
  <2>1. CASE BeginDelete(w) \/ BeginConsolidate(w) \/ Lock(w) \/ ReadDest(w) \/ ReadOther(w) \/ MergeHost(w)
    BY <1>0, <1>2, <1>6, <2>1
       DEF UserTypes, BeginDelete, BeginConsolidate, Lock, ReadDest, ReadOther, MergeHost
  <2>2. CASE MoveAddress(w)
    BY <1>2, <1>5, <1>6, <2>2, BothEnd DEF MoveAddress
  <2>3. CASE DeleteHostInner(w) \/ RequestFails(w)
    BY <1>5, <1>6, <2>3, BothEnd DEF DeleteHostInner
  <2>q. QED BY <1>6, <2>1, <2>2, <2>3 DEF User
<1>7. CASE User(u)
  <2>1. CASE BeginDelete(u) \/ BeginConsolidate(u) \/ Lock(u)
    BY <1>0, <2>1 DEF UserTypes, BeginDelete, BeginConsolidate, Lock, Joining
  <2>2. CASE ReadDest(u)
    BY <1>0, <2>2 DEF UserTypes, ReadDest, storeVars
  <2>3. CASE ReadOther(u) \/ MergeHost(u)
    BY <1>0, <1>1, <2>3 DEF UserTypes, ReadOther, MergeHost, Joining
  <2>4. CASE MoveAddress(u)
    BY <1>1, <1>2, <2>4, BothEnd DEF MoveAddress
  <2>5. ~ RequestFails(u)
    BY <1>1, BothEnd
  <2>q. QED BY <1>1, <1>7, <2>1, <2>2, <2>3, <2>4, <2>5 DEF User
<1>q. QED BY <1>3, <1>4, <1>6, <1>7 DEF Next

\* Every step keeps what was read of the kept host true, or the address noted.
LEMMA DestFreshStep ==
    ASSUME Sound, DestFresh, [Next]_vars
    PROVE  DestFresh'
<1>0. TypeOK /\ Asking /\ Moving
  BY DEF Sound, Tables
<1>1. SUFFICES ASSUME NEW u \in Users, Joining(u)', NEW d \in destRows'[u]
               PROVE  d.host = request'[u][1] /\ (d \in rows' \/ Marked(d.addr)')
  BY DEF DestFresh
<1>2. CASE ReadDest(u) /\ destRows'[u] = RowsOf(request[u][1]) /\ UNCHANGED <<rows, request>>
  BY <1>1, <1>2 DEF RowsOf
<1>3. CASE /\ Joining(u) /\ destRows'[u] = destRows[u] /\ request'[u] = request[u]
           /\ ~ DeleteHostInner(u)
  <2>1. d.host = request[u][1] /\ (d \in rows \/ Marked(d.addr))
    BY <1>1, <1>3 DEF DestFresh
  <2>2. d \in rows' \/ Marked(d.addr)'
    <3>1. CASE Marked(d.addr)
      BY <3>1, MarkStays
    <3>2. CASE d \in rows /\ d \notin rows'
      <4>1. d \notin left[u] /\ upc[u] \in Holding
        BY <1>0, <1>3, <2>1 DEF Moving, Asking, Joining, Holding
      <4>2. Marked(d.addr)
        BY <1>3, <2>1, <3>2, <4>1, GuardedRowLost
      <4>q. QED BY <4>2, MarkStays
    <3>q. QED BY <2>1, <3>1, <3>2
  <2>q. QED BY <1>3, <2>1, <2>2
<1>q. QED BY <1>0, <1>1, <1>2, <1>3, DestCases

\* Why an address of the other host is passed over.
LEMMA PassedReason ==
    ASSUME NEW u \in Users, MoveAddress(u)
    PROVE  \E x \in left[u] :
              \/ Passed(u, x) /\ (Conflict(u, x) \/ ~ \E y \in rows : SameId(x.by, x, y))
              \/ Moved(u, x)
              \/ EndRequest(u)
BY DEF MoveAddress, Moved, Passed

\* How a request comes to move, or to delete what it has moved from.
LEMMA ConsolidatingCases ==
    ASSUME TypeOK, [Next]_vars, NEW u \in Users, upc'[u] \in {"moving", "delete"}, request'[u][1] # None
    PROVE  \/ /\ ReadOther(u) /\ left'[u] = RowsOf(request[u][2])
              /\ upc'[u] = "moving" /\ UNCHANGED <<rows, request>>
           \/ /\ upc[u] \in {"moving", "delete"} /\ request'[u] = request[u]
              /\ destRows'[u] = destRows[u] /\ otherRows'[u] = otherRows[u]
              /\ ~ Ends(u) /\ ~ DeleteHostInner(u)
              /\ \/ left'[u] = left[u] /\ upc'[u] = upc[u] /\ ~ MoveAddress(u)
                 \/ left'[u] = left[u] /\ left[u] = {} /\ MergeHost(u)
                 \/ MoveAddress(u)
<1> DEFINE Goal == \/ /\ ReadOther(u) /\ left'[u] = RowsOf(request[u][2])
                      /\ upc'[u] = "moving" /\ UNCHANGED <<rows, request>>
                   \/ /\ upc[u] \in {"moving", "delete"} /\ request'[u] = request[u]
                      /\ destRows'[u] = destRows[u] /\ otherRows'[u] = otherRows[u]
                      /\ ~ Ends(u) /\ ~ DeleteHostInner(u)
                      /\ \/ left'[u] = left[u] /\ upc'[u] = upc[u] /\ ~ MoveAddress(u)
                         \/ left'[u] = left[u] /\ left[u] = {} /\ MergeHost(u)
                         \/ MoveAddress(u)
<1>0. UserTypes
  BY TypeParts
<1>1. ~ Ends(u) /\ ~ DeleteHostInner(u)
  BY <1>0 DEF EndRequest, Ends, DeleteHostInner, UserTypes
<1>2. CASE /\ upc'[u] = upc[u] /\ left'[u] = left[u] /\ request'[u] = request[u]
           /\ destRows'[u] = destRows[u] /\ otherRows'[u] = otherRows[u]
  BY <1>1, <1>2
<1>3. CASE UNCHANGED vars
  BY <1>2, <1>3 DEF vars
<1>4. ASSUME NEW r \in Reports, Report(r) PROVE Goal
  BY <1>2, <1>4 DEF Report, Match, Matched, CreateUnlocked, StoreAddress, Release,
     ReportFails, Retry,
     userVars
<1>5. ASSUME NEW w \in Users, w # u, Ends(w) PROVE Goal
  BY <1>0, <1>2, <1>5 DEF Ends, LetGo, UserTypes
<1>6. ASSUME NEW w \in Users, w # u, User(w) PROVE Goal
  <2>1. CASE BeginDelete(w) \/ BeginConsolidate(w) \/ Lock(w) \/ ReadDest(w) \/ ReadOther(w) \/ MergeHost(w)
    BY <1>0, <1>2, <1>6, <2>1
       DEF UserTypes, BeginDelete, BeginConsolidate, Lock, ReadDest, ReadOther, MergeHost
  <2>2. CASE MoveAddress(w)
    <3>1. PICK x \in left[w] : Passed(w, x) \/ Moved(w, x) \/ EndRequest(w)
      BY <2>2, MoveCases
    <3>2. CASE Passed(w, x) \/ Moved(w, x)
      BY <1>0, <1>2, <1>6, <3>2 DEF Passed, Moved, UserTypes
    <3>q. QED BY <1>5, <1>6, <3>1, <3>2, BothEnd
  <2>3. CASE DeleteHostInner(w) \/ RequestFails(w)
    BY <1>5, <1>6, <2>3, BothEnd DEF DeleteHostInner
  <2>q. QED BY <1>6, <2>1, <2>2, <2>3 DEF User
<1>7. CASE User(u)
  <2>1. CASE BeginDelete(u) \/ BeginConsolidate(u) \/ Lock(u) \/ ReadDest(u)
    BY <1>0, <2>1 DEF UserTypes, BeginDelete, BeginConsolidate, Lock, ReadDest
  <2>2. CASE ReadOther(u)
    BY <1>0, <2>2 DEF UserTypes, ReadOther, storeVars
  <2>3. CASE MergeHost(u)
    BY <1>0, <1>1, <2>3 DEF UserTypes, MergeHost
  <2>4. CASE MoveAddress(u)
    BY <1>1, <2>4, BothEnd DEF MoveAddress
  <2>5. ~ RequestFails(u)
    BY <1>1, BothEnd
  <2>q. QED BY <1>1, <1>7, <2>1, <2>2, <2>3, <2>4, <2>5 DEF User
<1>q. QED BY <1>3, <1>4, <1>6, <1>7 DEF Next

\* Every step keeps the rows of a host that is about to go covered.
LEMMA RelocatedStep ==
    ASSUME Sound, DestFresh, Relocated, [Next]_vars
    PROVE  Relocated'
<1>0. TypeOK /\ Asking /\ Serial /\ Guarded /\ Rooted /\ Moving /\ Fresh
  BY DEF Sound, Tables
<1>1. SUFFICES ASSUME NEW u \in Users, upc'[u] \in {"moving", "delete"}, request'[u][1] # None
               PROVE  \A y \in rows' : y.host = request'[u][2] => Covered(u, y)'
  BY DEF Relocated
<1>2. CASE /\ ReadOther(u) /\ left'[u] = RowsOf(request[u][2])
           /\ upc'[u] = "moving" /\ UNCHANGED <<rows, request>>
  BY <1>2 DEF Covered, RowsOf
<1>3. CASE /\ upc[u] \in {"moving", "delete"} /\ request'[u] = request[u]
           /\ destRows'[u] = destRows[u] /\ otherRows'[u] = otherRows[u]
           /\ ~ Ends(u) /\ ~ DeleteHostInner(u)
           /\ \/ left'[u] = left[u] /\ upc'[u] = upc[u] /\ ~ MoveAddress(u)
              \/ left'[u] = left[u] /\ left[u] = {} /\ MergeHost(u)
              \/ MoveAddress(u)
  <2> DEFINE keep == request[u][1]
             drop == request[u][2]
  <2>0. keep # None /\ keep # drop /\ keep \in Hosts /\ drop \in Hosts /\ upc[u] \in Holding
    BY <1>0, <1>1, <1>3 DEF Asking, Holding, TypeOK
  <2>1. ASSUME NEW addr, Marked(addr) \/ \E d \in rows : d.addr = addr /\ d.host = keep
        PROVE  Marked(addr)' \/ \E d \in rows' : d.addr = addr /\ d.host = keep
    <3>1. CASE Marked(addr)
      BY <3>1, MarkStays
    <3>2. ASSUME NEW d \in rows, d.addr = addr, d.host = keep, d \notin rows' PROVE Marked(addr)'
      <4>1. d \notin left[u]
        BY <1>0, <2>0, <3>2 DEF Moving
      <4>2. Marked(d.addr)
        BY <1>3, <2>0, <3>2, <4>1, GuardedRowLost
      <4>q. QED BY <3>2, <4>2, MarkStays
    <3>q. QED BY <2>1, <3>1, <3>2
  <2>2. ASSUME NEW y \in rows', y.host = drop PROVE Covered(u, y)'
    <3>1. SUFFICES \/ upc'[u] = "moving" /\ y \in left'[u]
                   \/ Marked(y.addr)'
                   \/ \E d \in rows' : d.addr = y.addr /\ d.host = keep
                   \/ SameCard(u, y)
      BY <1>3 DEF Covered, SameCard, UniqueMac
    <3>2. CASE y \in rows
      <4>1. Covered(u, y)
        BY <1>1, <1>3, <2>2, <3>2 DEF Relocated
      <4>2. CASE Marked(y.addr) \/ \E d \in rows : d.addr = y.addr /\ d.host = keep
        BY <2>1, <4>2
      <4>3. CASE upc[u] = "moving" /\ y \in left[u] /\ y \notin left'[u]
        <5>1. MoveAddress(u)
          BY <1>3, <4>3
        <5>2. PICK x \in left[u] :
                \/ Passed(u, x) /\ (Conflict(u, x) \/ ~ \E z \in rows : SameId(x.by, x, z))
                \/ Moved(u, x)
          BY <1>3, <5>1, BothEnd, PassedReason
        <5>3. x = y
          BY <1>0, <4>3, <5>2 DEF Passed, Moved, TypeOK
        <5>4. ~ Moved(u, x)
          <6>1. SUFFICES ASSUME Moved(u, y) PROVE FALSE
            BY <5>3
          <6>2. [y EXCEPT !.host = keep].host = keep
            BY <1>0, <4>3, <6>1, MovedRow
          <6>3. y = [y EXCEPT !.host = keep]
            BY <2>2, <6>1 DEF Moved, SameId
          <6>q. QED BY <2>0, <2>2, <6>2, <6>3
        <5>5. Conflict(u, y)
          BY <3>2, <5>2, <5>3, <5>4 DEF SameId
        <5>6. Joining(u)
          BY <2>0, <4>3 DEF Joining
        <5>7. SameCard(u, y) \/ \E d \in destRows[u] : d.addr = y.addr
          BY <5>5 DEF Conflict, SameCard
        <5>8. ASSUME NEW d \in destRows[u], d.addr = y.addr
              PROVE  Marked(y.addr) \/ \E e \in rows : e.addr = y.addr /\ e.host = keep
          BY <5>6, <5>8 DEF DestFresh
        <5>q. QED BY <2>1, <5>7, <5>8
      <4>4. CASE upc[u] = "moving" /\ y \in left[u] /\ y \in left'[u]
        <5>1. ~ MergeHost(u)
          BY <4>4 DEF MergeHost
        <5>2. upc'[u] = upc[u]
          BY <1>3, <5>1, BothEnd, PassedReason DEF Passed, Moved
        <5>q. QED BY <4>4, <5>2
      <4>q. QED BY <4>1, <4>2, <4>3, <4>4 DEF Covered
    <3>3. CASE y \notin rows
      <4>1. ASSUME NEW r \in Reports, NEW p \in Brought[r], StoreAddress(r), pc[r] = "storing",
                   y.addr = p.addr, y.host = target[r]
            PROVE  Marked(y.addr)'
        <5>1. Overlap(r, u)
          BY <1>3, <2>2, <4>1 DEF Overlap, Working, WorksOn
        <5>2. Collide({r}, Users)
          BY <4>1 DEF StoreAddress
        <5>3. Marked(p.addr)'
          BY <5>1, <5>2, CollisionNoted
        <5>q. QED BY <4>1, <5>3 DEF Marked
      <4>2. CASE Marked(y.addr)
        BY <4>2, MarkStays
      <4>3. ASSUME NEW w \in Users, NEW z \in left[w], upc[w] = "moving", Moved(w, z),
                   y = [z EXCEPT !.host = request[w][1]]
            PROVE  FALSE
        <5>1. y.host = request[w][1]
          BY <1>0, <4>3, MovedRow
        <5>2. w # u
          BY <2>0, <2>2, <5>1
        <5>q. QED BY <1>0, <2>0, <2>2, <4>3, <5>1, <5>2, GuardsExclude DEF Holding
      <4>q. QED BY <3>3, <4>1, <4>2, <4>3, RowGained
    <3>q. QED BY <3>2, <3>3
  <2>q. QED BY <1>3, <2>2
<1>q. QED BY <1>0, <1>1, <1>2, <1>3, ConsolidatingCases

\* A consolidation that ends has lost no address of the host it removes, whatever
\* the addresses and MACs of the network are, whatever failed before, and however
\* many requests and reports there are: the kept host has it, or has the card that
\* it was the only address of, unless a report ran into the request
\* (ConsolidationKeeps; consolidate_hosts).
THEOREM ConsolidationKeepsAddresses == Spec => ConsolidationKeeps
<1> DEFINE Inv == Sound /\ DestFresh /\ Relocated
<1>1. Init => Inv
  BY SoundInit DEF Init, DestFresh, Joining, Relocated
<1>2. Inv /\ [Next]_vars => Inv'
  BY SoundStep, DestFreshStep, RelocatedStep
<1>3. ASSUME Inv, [Next]_vars, NEW u \in Users, upc[u] = "delete", upc'[u] = "over", request[u][1] # None,
             NEW x \in RowsOf(request[u][2])
      PROVE  \/ Torn(x)
             \/ \E d \in rows' : d.host = request[u][1] /\ d.addr = x.addr
             \/ \E d \in destRows[u] :
                   /\ d.mac = x.mac /\ UniqueMac(d, destRows[u]) /\ UniqueMac(x, otherRows[u])
                   /\ d \in rows' \/ Torn(d)
  <2>0. Asking /\ Moving /\ Joining(u) /\ upc[u] \in Holding
    BY <1>3 DEF Sound, Tables, Joining, Holding
  <2>1. ASSUME NEW y, Marked(y.addr) PROVE Torn(y)
    BY <2>1 DEF Marked, Torn, Among
  <2>2. ASSUME NEW d \in rows, d.host = request[u][1] PROVE d \in rows' \/ Marked(d.addr)
    <3>1. d \notin left[u] /\ d.host # request[u][2]
      BY <1>3, <2>0, <2>2 DEF Moving, Asking
    <3>q. QED BY <1>3, <2>0, <2>2, <3>1, GuardedRowLost
  <2>3. Covered(u, x) /\ x \notin left[u]
    BY <1>3, <2>0 DEF Relocated, RowsOf, Moving
  <2>4. CASE Marked(x.addr)
    BY <2>1, <2>4
  <2>5. ASSUME NEW d \in rows, d.addr = x.addr, d.host = request[u][1]
        PROVE  Torn(x) \/ \E e \in rows' : e.host = request[u][1] /\ e.addr = x.addr
    <3>1. CASE Marked(d.addr)
      BY <2>1, <2>5, <3>1
    <3>2. CASE d \in rows'
      BY <2>5, <3>2
    <3>q. QED BY <2>2, <2>5, <3>1, <3>2
  <2>6. ASSUME NEW d \in destRows[u] PROVE d \in rows' \/ Torn(d)
    <3>1. d.host = request[u][1] /\ (d \in rows \/ Marked(d.addr))
      BY <1>3, <2>0 DEF DestFresh
    <3>q. QED BY <2>1, <2>2, <3>1
  <2>q. QED BY <2>3, <2>4, <2>5, <2>6 DEF Covered, SameCard
<1>4. Inv /\ [Next]_vars =>
        [\A u \in Users : upc[u] = "delete" /\ upc'[u] = "over" /\ request[u][1] # None =>
            \A x \in RowsOf(request[u][2]) :
               \/ Torn(x)
               \/ \E d \in rows' : d.host = request[u][1] /\ d.addr = x.addr
               \/ \E d \in destRows[u] :
                     /\ d.mac = x.mac /\ UniqueMac(d, destRows[u]) /\ UniqueMac(x, otherRows[u])
                     /\ d \in rows' \/ Torn(d)]_vars
  BY <1>3
<1>q. QED BY <1>1, <1>2, <1>4, PTL DEF Spec, ConsolidationKeeps
=============================================================================
