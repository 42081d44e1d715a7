------------------------ MODULE EntityHandoffProofs ------------------------
(***************************************************************************)
(* Proofs about EntityHandoff, for any hosts, subnets, calls, sessions and *)
(* number of faults: what is confirmed is stored, what is returned is      *)
(* stored, and the scanned ids of a session are exact.                     *)
(***************************************************************************)
EXTENDS EntityHandoff, TLAPS

\* The entities of a message are stored, with the children it names.
Backed(actual) == \A a \in actual : a[1] \in stored /\ a[2] \subseteq kept[a[1]]

\* So is what the answers to posted requests name, and what was posted.
Answers ==
    \A c \in Calls : pc[c] = "answered" =>
        /\ Target[c] \in stored
        /\ reply[c] \subseteq kept[Target[c]]
        /\ c \in kept[Target[c]]

\* And the entities of the confirmations on their way.
Messages == Backed(confirm) /\ Backed(late) /\ Answers

\* A call waits in one mode and posts in the other.
CallModes ==
    /\ \A c \in Calls : pc[c] = "waiting" => mode = "server_poll"
    /\ \A c \in Calls : pc[c] \in {"posting", "answered"} => mode = "daemon_poll"

\* The calls of the session made so far.
Made(c) == Session[c] = session /\ pc[c] # "idle"

\* Only early reports outlive the scan, and later sessions have made no call.
Lifetimes ==
    /\ \A c \in Calls : InProgress(c) /\ c \notin Early => Session[c] = session /\ phase = "scanning"
    /\ \A c \in Calls : Session[c] > session => pc[c] = "idle"

\* A host that was reported early is touched again only after the report.
EarlyFirst ==
    \A c, d \in Calls :
        d \in Early /\ c # d /\ Target[c] = Target[d] /\ pc[c] # "idle" => pc[d] = "ok"

\* The buffer holds entities of this session's calls, all of them until it is
\* emptied.
Owned == \A e \in Entities : entry[e] # "none" => \E c \in Calls : Made(c) /\ Target[c] = e

Present ==
    phase \in {"scanning", "subnets", "hosts", "clear"} =>
        \A c \in Calls : Made(c) => entry[Target[c]] # "none"

Emptied ==
    /\ phase \in {"cleared", "over"} => \A e \in Hosts : entry[e] = "none"
    /\ phase = "over" => \A e \in Subnets : entry[e] = "none"

Buffer == Owned /\ Present /\ Emptied

\* A call whose entity the terminal payload has to name.
Counts(c) == Session[c] = session /\ pc[c] = "ok" /\ c \notin Early /\ ~ Disturbed(c)

\* Its entity is Created in the buffer until it is read, and named after that.
Unread ==
    phase \in {"scanning", "subnets", "hosts"} =>
        \A c \in Calls : Counts(c) => entry[Target[c]] = "created"

Read ==
    /\ phase = "hosts" => \A c \in Calls : Counts(c) /\ Target[c] \in Subnets => Target[c] \in scanned
    /\ phase \in {"clear", "cleared", "over"} => \A c \in Calls : Counts(c) => Target[c] \in scanned

Reading == Unread /\ Read

\* What is named was confirmed, and by this session.
Named == \A e \in scanned : e \in stored /\ \E c \in Calls : Made(c) /\ Target[c] = e

IInv ==
    /\ TypeOK /\ Messages /\ CallModes /\ ConfirmedIsStored /\ ReturnedIsStored
    /\ Lifetimes /\ EarlyFirst /\ Buffer /\ Reading /\ Named


\* TypeOK, in parts.
BufferTypes ==
    /\ entry \in [Entities -> {"none", "pending", "created"}]
    /\ children \in [Entities -> SUBSET Calls]

CallTypes == pc \in [Calls -> CallStates] /\ reply \in [Calls -> SUBSET Calls]

SessionTypes ==
    /\ cancel \in SUBSET (1 .. MaxSessions)
    /\ session \in 1 .. MaxSessions
    /\ phase \in {"scanning", "subnets", "hosts", "clear", "cleared", "over"}
    /\ scanned \in SUBSET Entities

StoreTypes == stored \in SUBSET Entities /\ kept \in [Entities -> SUBSET Calls]

PollTypes ==
    /\ loop \in {"idle", "polled", "served", "confirming", "subnets", "hosts"}
    /\ batch \in SUBSET Carried
    /\ confirm \in SUBSET Carried
    /\ late \in SUBSET Carried

OtherTypes == mode \in AllModes /\ faults \in 0 .. MaxFaults

\* TypeOK and its parts.
LEMMA TypeParts ==
    ASSUME TypeOK
    PROVE  BufferTypes /\ CallTypes /\ SessionTypes /\ StoreTypes /\ PollTypes /\ OtherTypes
BY DEF TypeOK, BufferTypes, CallTypes, SessionTypes, StoreTypes, PollTypes, OtherTypes

\* The parts in the next state.
LEMMA TypePartsPrimed ==
    ASSUME BufferTypes', CallTypes', SessionTypes', StoreTypes', PollTypes', OtherTypes'
    PROVE  TypeOK'
BY DEF TypeOK, BufferTypes, CallTypes, SessionTypes, StoreTypes, PollTypes, OtherTypes

\* What marking does to an entity: nothing, or it makes it Created with the
\* children of one of the message's pairs.
LEMMA MarkEffect ==
    ASSUME BufferTypes, NEW actual \in SUBSET Carried, MarkCreated(actual), NEW e \in Entities
    PROVE  \/ /\ entry'[e] = entry[e] /\ children'[e] = children[e]
              /\ \A a \in actual : a[1] = e => ~ Markable(e)
           \/ /\ Markable(e) /\ entry'[e] = "created"
              /\ \E a \in actual : a[1] = e /\ children'[e] = a[2]
<1> DEFINE marked == {a \in actual : Markable(a[1])}
<1>1. entry' = [x \in Entities |-> IF \E a \in marked : a[1] = x THEN "created" ELSE entry[x]]
  BY DEF MarkCreated
<1>2. children' = [x \in Entities |->
                     IF \E a \in marked : a[1] = x
                     THEN (CHOOSE a \in marked : a[1] = x)[2] ELSE children[x]]
  BY DEF MarkCreated
<1>3. \A a \in marked : a \in actual /\ Markable(a[1])
  OBVIOUS
<1>4. \A a \in actual : Markable(a[1]) => a \in marked
  OBVIOUS
<1> HIDE DEF marked
<1>5. CASE \E a \in marked : a[1] = e
  <2>1. PICK a \in marked : a = CHOOSE b \in marked : b[1] = e
    BY <1>5
  <2>2. a[1] = e
    BY <1>5, <2>1
  <2>3. entry'[e] = "created" /\ children'[e] = a[2]
    BY <1>1, <1>2, <1>5, <2>1
  <2>q. QED BY <1>3, <2>2, <2>3
<1>6. CASE ~ \E a \in marked : a[1] = e
  <2>1. entry'[e] = entry[e] /\ children'[e] = children[e]
    BY <1>1, <1>2, <1>6
  <2>2. \A a \in actual : a[1] = e => ~ Markable(e)
    BY <1>4, <1>6
  <2>q. QED BY <2>1, <2>2
<1>q. QED BY <1>5, <1>6

\* Marking keeps the types.
LEMMA MarkTypes ==
    ASSUME BufferTypes, NEW actual \in SUBSET Carried, MarkCreated(actual)
    PROVE  BufferTypes'
<1>1. DOMAIN entry' = Entities /\ DOMAIN children' = Entities
  BY DEF MarkCreated
<1>2. entry' = [x \in Entities |-> entry'[x]] /\ children' = [x \in Entities |-> children'[x]]
  BY DEF MarkCreated
<1>3. ASSUME NEW e \in Entities
      PROVE  entry'[e] \in {"none", "pending", "created"} /\ children'[e] \in SUBSET Calls
  BY <1>3, MarkEffect DEF BufferTypes, Carried
<1>q. QED BY <1>2, <1>3 DEF BufferTypes

\* Every step keeps the types.
LEMMA TypeStep ==
    ASSUME TypeOK, [Next]_vars
    PROVE  TypeOK'
<1>1. CASE UNCHANGED vars
  BY <1>1 DEF TypeOK, vars
<1>2. ASSUME NEW c \in Calls, Create(c) PROVE TypeOK'
  <2>0. BufferTypes /\ CallTypes /\ SessionTypes /\ StoreTypes /\ PollTypes /\ OtherTypes
    BY TypeParts
  <2>1. BufferTypes'
    BY <1>2, <2>0, CallsAssumption DEF BufferTypes, Create, bufferVars, PushEntity
  <2>2. CallTypes'
    BY <1>2, <2>0 DEF CallTypes, Create, CallStates
  <2>3. SessionTypes'
    BY <1>2, <2>0 DEF SessionTypes, Create, sessionVars
  <2>4. StoreTypes'
    BY <1>2, <2>0 DEF StoreTypes, Create, serverVars
  <2>5. PollTypes'
    BY <1>2, <2>0 DEF PollTypes, Create, pollVars
  <2>6. OtherTypes'
    BY <1>2, <2>0 DEF OtherTypes, Create
  <2>q. QED BY <2>1, <2>2, <2>3, <2>4, <2>5, <2>6, TypePartsPrimed
<1>3. ASSUME NEW c \in Calls, AwaitFinds(c) PROVE TypeOK'
  <2>0. BufferTypes /\ CallTypes /\ SessionTypes /\ StoreTypes /\ PollTypes /\ OtherTypes
    BY TypeParts
  <2>1. BufferTypes'
    BY <1>3, <2>0 DEF BufferTypes, AwaitFinds, bufferVars
  <2>2. CallTypes'
    BY <1>3, <2>0 DEF CallTypes, AwaitFinds, CallStates
  <2>3. SessionTypes'
    BY <1>3, <2>0 DEF SessionTypes, AwaitFinds, sessionVars
  <2>4. StoreTypes'
    BY <1>3, <2>0 DEF StoreTypes, AwaitFinds, serverVars
  <2>5. PollTypes'
    BY <1>3, <2>0 DEF PollTypes, AwaitFinds, pollVars
  <2>6. OtherTypes'
    BY <1>3, <2>0 DEF OtherTypes, AwaitFinds
  <2>q. QED BY <2>1, <2>2, <2>3, <2>4, <2>5, <2>6, TypePartsPrimed
<1>4. ASSUME NEW c \in Calls, AwaitEnds(c) PROVE TypeOK'
  <2>0. BufferTypes /\ CallTypes /\ SessionTypes /\ StoreTypes /\ PollTypes /\ OtherTypes
    BY TypeParts
  <2>1. BufferTypes'
    BY <1>4, <2>0 DEF BufferTypes, AwaitEnds, bufferVars
  <2>2. CallTypes'
    BY <1>4, <2>0 DEF CallTypes, AwaitEnds, CallStates
  <2>3. SessionTypes'
    BY <1>4, <2>0 DEF SessionTypes, AwaitEnds, sessionVars
  <2>4. StoreTypes'
    BY <1>4, <2>0 DEF StoreTypes, AwaitEnds, serverVars
  <2>5. PollTypes'
    BY <1>4, <2>0 DEF PollTypes, AwaitEnds, pollVars
  <2>6. OtherTypes'
    BY <1>4, <2>0 DEF OtherTypes, AwaitEnds
  <2>q. QED BY <2>1, <2>2, <2>3, <2>4, <2>5, <2>6, TypePartsPrimed
<1>5. ASSUME NEW c \in Calls, PostArrives(c) PROVE TypeOK'
  <2>0. BufferTypes /\ CallTypes /\ SessionTypes /\ StoreTypes /\ PollTypes /\ OtherTypes
    BY TypeParts
  <2>1. BufferTypes'
    BY <1>5, <2>0 DEF BufferTypes, PostArrives, bufferVars
  <2>2. CallTypes'
    BY <1>5, <2>0, CallsAssumption DEF CallTypes, PostArrives, CallStates, Store, StoreTypes
  <2>3. SessionTypes'
    BY <1>5, <2>0 DEF SessionTypes, PostArrives, sessionVars
  <2>4. StoreTypes'
    BY <1>5, <2>0, CallsAssumption DEF StoreTypes, PostArrives, serverVars, Store
  <2>5. PollTypes'
    BY <1>5, <2>0 DEF PollTypes, PostArrives, pollVars
  <2>6. OtherTypes'
    BY <1>5, <2>0, BoundsAssumption DEF OtherTypes, PostArrives, Fault
  <2>q. QED BY <2>1, <2>2, <2>3, <2>4, <2>5, <2>6, TypePartsPrimed
<1>6. ASSUME NEW c \in Calls, PostFails(c) PROVE TypeOK'
  <2>0. BufferTypes /\ CallTypes /\ SessionTypes /\ StoreTypes /\ PollTypes /\ OtherTypes
    BY TypeParts
  <2>1. BufferTypes'
    BY <1>6, <2>0 DEF BufferTypes, PostFails, bufferVars
  <2>2. CallTypes'
    BY <1>6, <2>0 DEF CallTypes, PostFails, CallStates
  <2>3. SessionTypes'
    BY <1>6, <2>0 DEF SessionTypes, PostFails, sessionVars
  <2>4. StoreTypes'
    BY <1>6, <2>0 DEF StoreTypes, PostFails, serverVars
  <2>5. PollTypes'
    BY <1>6, <2>0 DEF PollTypes, PostFails, pollVars
  <2>6. OtherTypes'
    BY <1>6, <2>0, BoundsAssumption DEF OtherTypes, PostFails, Fault
  <2>q. QED BY <2>1, <2>2, <2>3, <2>4, <2>5, <2>6, TypePartsPrimed
<1>7. ASSUME NEW c \in Calls, PostReturns(c) PROVE TypeOK'
  <2>0. BufferTypes /\ CallTypes /\ SessionTypes /\ StoreTypes /\ PollTypes /\ OtherTypes
    BY TypeParts
  <2>1. BufferTypes'
    <3>1. {<<Target[c], reply[c]>>} \in SUBSET Carried
      BY <2>0, CallsAssumption DEF Carried, CallTypes
    <3>2. CASE UNCHANGED bufferVars BY <2>0, <3>2 DEF BufferTypes, bufferVars
    <3>3. CASE MarkCreated({<<Target[c], reply[c]>>}) BY <2>0, <3>1, <3>3, MarkTypes
    <3>q. QED BY <1>7, <3>2, <3>3 DEF PostReturns
  <2>2. CallTypes'
    BY <1>7, <2>0 DEF CallTypes, PostReturns, CallStates
  <2>3. SessionTypes'
    BY <1>7, <2>0 DEF SessionTypes, PostReturns, sessionVars
  <2>4. StoreTypes'
    BY <1>7, <2>0 DEF StoreTypes, PostReturns, serverVars
  <2>5. PollTypes'
    BY <1>7, <2>0 DEF PollTypes, PostReturns, pollVars
  <2>6. OtherTypes'
    BY <1>7, <2>0 DEF OtherTypes, PostReturns
  <2>q. QED BY <2>1, <2>2, <2>3, <2>4, <2>5, <2>6, TypePartsPrimed
<1>8. ASSUME CancelSession PROVE TypeOK'
  <2>0. BufferTypes /\ CallTypes /\ SessionTypes /\ StoreTypes /\ PollTypes /\ OtherTypes
    BY TypeParts
  <2>1. BufferTypes'
    BY <1>8, <2>0 DEF BufferTypes, CancelSession, bufferVars
  <2>2. CallTypes'
    BY <1>8, <2>0 DEF CallTypes, CancelSession
  <2>3. SessionTypes'
    BY <1>8, <2>0 DEF SessionTypes, CancelSession, sessionVars
  <2>4. StoreTypes'
    BY <1>8, <2>0 DEF StoreTypes, CancelSession, serverVars
  <2>5. PollTypes'
    BY <1>8, <2>0 DEF PollTypes, CancelSession, pollVars
  <2>6. OtherTypes'
    BY <1>8, <2>0 DEF OtherTypes, CancelSession
  <2>q. QED BY <2>1, <2>2, <2>3, <2>4, <2>5, <2>6, TypePartsPrimed
<1>9. ASSUME EndScan PROVE TypeOK'
  <2>0. BufferTypes /\ CallTypes /\ SessionTypes /\ StoreTypes /\ PollTypes /\ OtherTypes
    BY TypeParts
  <2>1. BufferTypes'
    BY <1>9, <2>0 DEF BufferTypes, EndScan, bufferVars
  <2>2. CallTypes'
    BY <1>9, <2>0 DEF CallTypes, EndScan, CallStates
  <2>3. SessionTypes'
    BY <1>9, <2>0 DEF SessionTypes, EndScan, sessionVars
  <2>4. StoreTypes'
    BY <1>9, <2>0 DEF StoreTypes, EndScan, serverVars
  <2>5. PollTypes'
    BY <1>9, <2>0 DEF PollTypes, EndScan, pollVars
  <2>6. OtherTypes'
    BY <1>9, <2>0 DEF OtherTypes, EndScan
  <2>q. QED BY <2>1, <2>2, <2>3, <2>4, <2>5, <2>6, TypePartsPrimed
<1>10. ASSUME ReadScannedSubnets PROVE TypeOK'
  <2>0. BufferTypes /\ CallTypes /\ SessionTypes /\ StoreTypes /\ PollTypes /\ OtherTypes
    BY TypeParts
  <2>1. BufferTypes'
    BY <1>10, <2>0 DEF BufferTypes, ReadScannedSubnets, bufferVars
  <2>2. CallTypes'
    BY <1>10, <2>0 DEF CallTypes, ReadScannedSubnets
  <2>3. SessionTypes'
    BY <1>10, <2>0 DEF SessionTypes, ReadScannedSubnets, sessionVars, ScannedIds, Entities
  <2>4. StoreTypes'
    BY <1>10, <2>0 DEF StoreTypes, ReadScannedSubnets, serverVars
  <2>5. PollTypes'
    BY <1>10, <2>0 DEF PollTypes, ReadScannedSubnets, pollVars
  <2>6. OtherTypes'
    BY <1>10, <2>0 DEF OtherTypes, ReadScannedSubnets
  <2>q. QED BY <2>1, <2>2, <2>3, <2>4, <2>5, <2>6, TypePartsPrimed
<1>11. ASSUME ReadScannedHosts PROVE TypeOK'
  <2>0. BufferTypes /\ CallTypes /\ SessionTypes /\ StoreTypes /\ PollTypes /\ OtherTypes
    BY TypeParts
  <2>1. BufferTypes'
    BY <1>11, <2>0 DEF BufferTypes, ReadScannedHosts, bufferVars
  <2>2. CallTypes'
    BY <1>11, <2>0 DEF CallTypes, ReadScannedHosts
  <2>3. SessionTypes'
    BY <1>11, <2>0 DEF SessionTypes, ReadScannedHosts, sessionVars, ScannedIds, Entities
  <2>4. StoreTypes'
    BY <1>11, <2>0 DEF StoreTypes, ReadScannedHosts, serverVars
  <2>5. PollTypes'
    BY <1>11, <2>0 DEF PollTypes, ReadScannedHosts, pollVars
  <2>6. OtherTypes'
    BY <1>11, <2>0 DEF OtherTypes, ReadScannedHosts
  <2>q. QED BY <2>1, <2>2, <2>3, <2>4, <2>5, <2>6, TypePartsPrimed
<1>12. ASSUME ClearHosts PROVE TypeOK'
  <2>0. BufferTypes /\ CallTypes /\ SessionTypes /\ StoreTypes /\ PollTypes /\ OtherTypes
    BY TypeParts
  <2>1. BufferTypes'
    BY <1>12, <2>0 DEF BufferTypes, ClearHosts, bufferVars, Clear
  <2>2. CallTypes'
    BY <1>12, <2>0 DEF CallTypes, ClearHosts
  <2>3. SessionTypes'
    BY <1>12, <2>0 DEF SessionTypes, ClearHosts, sessionVars
  <2>4. StoreTypes'
    BY <1>12, <2>0 DEF StoreTypes, ClearHosts, serverVars
  <2>5. PollTypes'
    BY <1>12, <2>0 DEF PollTypes, ClearHosts, pollVars
  <2>6. OtherTypes'
    BY <1>12, <2>0 DEF OtherTypes, ClearHosts
  <2>q. QED BY <2>1, <2>2, <2>3, <2>4, <2>5, <2>6, TypePartsPrimed
<1>13. ASSUME ClearSubnets PROVE TypeOK'
  <2>0. BufferTypes /\ CallTypes /\ SessionTypes /\ StoreTypes /\ PollTypes /\ OtherTypes
    BY TypeParts
  <2>1. BufferTypes'
    BY <1>13, <2>0 DEF BufferTypes, ClearSubnets, bufferVars, Clear
  <2>2. CallTypes'
    BY <1>13, <2>0 DEF CallTypes, ClearSubnets
  <2>3. SessionTypes'
    BY <1>13, <2>0 DEF SessionTypes, ClearSubnets, sessionVars
  <2>4. StoreTypes'
    BY <1>13, <2>0 DEF StoreTypes, ClearSubnets, serverVars
  <2>5. PollTypes'
    BY <1>13, <2>0 DEF PollTypes, ClearSubnets, pollVars
  <2>6. OtherTypes'
    BY <1>13, <2>0 DEF OtherTypes, ClearSubnets
  <2>q. QED BY <2>1, <2>2, <2>3, <2>4, <2>5, <2>6, TypePartsPrimed
<1>14. ASSUME NextSession PROVE TypeOK'
  <2>0. BufferTypes /\ CallTypes /\ SessionTypes /\ StoreTypes /\ PollTypes /\ OtherTypes
    BY TypeParts
  <2>1. BufferTypes'
    BY <1>14, <2>0 DEF BufferTypes, NextSession, bufferVars
  <2>2. CallTypes'
    BY <1>14, <2>0 DEF CallTypes, NextSession
  <2>3. SessionTypes'
    BY <1>14, <2>0, BoundsAssumption DEF SessionTypes, NextSession, sessionVars
  <2>4. StoreTypes'
    BY <1>14, <2>0 DEF StoreTypes, NextSession, serverVars
  <2>5. PollTypes'
    BY <1>14, <2>0 DEF PollTypes, NextSession, pollVars
  <2>6. OtherTypes'
    BY <1>14, <2>0 DEF OtherTypes, NextSession
  <2>q. QED BY <2>1, <2>2, <2>3, <2>4, <2>5, <2>6, TypePartsPrimed
<1>15. ASSUME PollHosts PROVE TypeOK'
  <2>0. BufferTypes /\ CallTypes /\ SessionTypes /\ StoreTypes /\ PollTypes /\ OtherTypes
    BY TypeParts
  <2>1. BufferTypes'
    BY <1>15, <2>0 DEF BufferTypes, PollHosts, bufferVars
  <2>2. CallTypes'
    BY <1>15, <2>0 DEF CallTypes, PollHosts
  <2>3. SessionTypes'
    BY <1>15, <2>0 DEF SessionTypes, PollHosts, sessionVars
  <2>4. StoreTypes'
    BY <1>15, <2>0 DEF StoreTypes, PollHosts, serverVars
  <2>5. PollTypes'
    BY <1>15, <2>0 DEF PollTypes, PollHosts, pollVars, GetPending, Carried, BufferTypes,
       Entities
  <2>6. OtherTypes'
    BY <1>15, <2>0 DEF OtherTypes, PollHosts
  <2>q. QED BY <2>1, <2>2, <2>3, <2>4, <2>5, <2>6, TypePartsPrimed
<1>16. ASSUME PollSubnets PROVE TypeOK'
  <2>0. BufferTypes /\ CallTypes /\ SessionTypes /\ StoreTypes /\ PollTypes /\ OtherTypes
    BY TypeParts
  <2>1. BufferTypes'
    BY <1>16, <2>0 DEF BufferTypes, PollSubnets, bufferVars
  <2>2. CallTypes'
    BY <1>16, <2>0 DEF CallTypes, PollSubnets
  <2>3. SessionTypes'
    BY <1>16, <2>0 DEF SessionTypes, PollSubnets, sessionVars
  <2>4. StoreTypes'
    BY <1>16, <2>0 DEF StoreTypes, PollSubnets, serverVars
  <2>5. PollTypes'
    BY <1>16, <2>0 DEF PollTypes, PollSubnets, pollVars, GetPending, Carried, BufferTypes,
       Entities
  <2>6. OtherTypes'
    BY <1>16, <2>0 DEF OtherTypes, PollSubnets
  <2>q. QED BY <2>1, <2>2, <2>3, <2>4, <2>5, <2>6, TypePartsPrimed
<1>17. ASSUME PollLost PROVE TypeOK'
  <2>0. BufferTypes /\ CallTypes /\ SessionTypes /\ StoreTypes /\ PollTypes /\ OtherTypes
    BY TypeParts
  <2>1. BufferTypes'
    BY <1>17, <2>0 DEF BufferTypes, PollLost, bufferVars
  <2>2. CallTypes'
    BY <1>17, <2>0 DEF CallTypes, PollLost
  <2>3. SessionTypes'
    BY <1>17, <2>0 DEF SessionTypes, PollLost, sessionVars
  <2>4. StoreTypes'
    BY <1>17, <2>0 DEF StoreTypes, PollLost, serverVars
  <2>5. PollTypes'
    BY <1>17, <2>0 DEF PollTypes, PollLost, pollVars
  <2>6. OtherTypes'
    BY <1>17, <2>0, BoundsAssumption DEF OtherTypes, PollLost, Fault
  <2>q. QED BY <2>1, <2>2, <2>3, <2>4, <2>5, <2>6, TypePartsPrimed
<1>18. ASSUME ProcessEntities PROVE TypeOK'
  <2>0. BufferTypes /\ CallTypes /\ SessionTypes /\ StoreTypes /\ PollTypes /\ OtherTypes
    BY TypeParts
  <2>1. BufferTypes'
    BY <1>18, <2>0 DEF BufferTypes, ProcessEntities, bufferVars
  <2>2. CallTypes'
    BY <1>18, <2>0 DEF CallTypes, ProcessEntities
  <2>3. SessionTypes'
    BY <1>18, <2>0 DEF SessionTypes, ProcessEntities, sessionVars
  <2>4. StoreTypes'
    <3>1. PICK done \in SUBSET batch :
            /\ stored' = stored \union {b[1] : b \in done}
            /\ kept' = [e \in Entities |-> kept[e] \union UNION {b[2] : b \in {x \in done : x[1] = e}}]
            /\ confirm' = {<<b[1], kept'[b[1]]>> : b \in done}
      BY <1>18 DEF ProcessEntities
    <3>2. \A b \in done : b[1] \in Entities /\ b[2] \in SUBSET Calls
      BY <2>0 DEF PollTypes, Carried
    <3>q. QED BY <2>0, <3>1, <3>2 DEF StoreTypes
  <2>5. PollTypes'
    <3>1. PICK done \in SUBSET batch :
            /\ stored' = stored \union {b[1] : b \in done}
            /\ kept' = [e \in Entities |-> kept[e] \union UNION {b[2] : b \in {x \in done : x[1] = e}}]
            /\ confirm' = {<<b[1], kept'[b[1]]>> : b \in done}
      BY <1>18 DEF ProcessEntities
    <3>2. \A b \in done : b[1] \in Entities /\ b[2] \in SUBSET Calls
      BY <2>0 DEF PollTypes, Carried
    <3>3. kept' \in [Entities -> SUBSET Calls]
      BY <2>0, <3>1, <3>2 DEF StoreTypes
    <3>4. confirm' \in SUBSET Carried
      BY <3>1, <3>2, <3>3 DEF Carried
    <3>q. QED BY <1>18, <2>0, <3>4 DEF PollTypes, ProcessEntities
  <2>6. OtherTypes'
    BY <1>18, <2>0, BoundsAssumption DEF OtherTypes, ProcessEntities, Fault
  <2>q. QED BY <2>1, <2>2, <2>3, <2>4, <2>5, <2>6, TypePartsPrimed
<1>19. ASSUME ConfirmSubnets PROVE TypeOK'
  <2>0. BufferTypes /\ CallTypes /\ SessionTypes /\ StoreTypes /\ PollTypes /\ OtherTypes
    BY TypeParts
  <2>1. BufferTypes'
    <3>1. OfKind(confirm, Subnets) \in SUBSET Carried
      BY <2>0 DEF OfKind, PollTypes
    <3>q. QED BY <1>19, <2>0, <3>1, MarkTypes DEF ConfirmSubnets
  <2>2. CallTypes'
    BY <1>19, <2>0 DEF CallTypes, ConfirmSubnets
  <2>3. SessionTypes'
    BY <1>19, <2>0 DEF SessionTypes, ConfirmSubnets, sessionVars
  <2>4. StoreTypes'
    BY <1>19, <2>0 DEF StoreTypes, ConfirmSubnets, serverVars
  <2>5. PollTypes'
    BY <1>19, <2>0 DEF PollTypes, ConfirmSubnets, pollVars
  <2>6. OtherTypes'
    BY <1>19, <2>0 DEF OtherTypes, ConfirmSubnets
  <2>q. QED BY <2>1, <2>2, <2>3, <2>4, <2>5, <2>6, TypePartsPrimed
<1>20. ASSUME ConfirmHosts PROVE TypeOK'
  <2>0. BufferTypes /\ CallTypes /\ SessionTypes /\ StoreTypes /\ PollTypes /\ OtherTypes
    BY TypeParts
  <2>1. BufferTypes'
    <3>1. OfKind(confirm, Hosts) \in SUBSET Carried
      BY <2>0 DEF OfKind, PollTypes
    <3>q. QED BY <1>20, <2>0, <3>1, MarkTypes DEF ConfirmHosts
  <2>2. CallTypes'
    BY <1>20, <2>0 DEF CallTypes, ConfirmHosts
  <2>3. SessionTypes'
    BY <1>20, <2>0 DEF SessionTypes, ConfirmHosts, sessionVars
  <2>4. StoreTypes'
    BY <1>20, <2>0 DEF StoreTypes, ConfirmHosts, serverVars
  <2>5. PollTypes'
    BY <1>20, <2>0 DEF PollTypes, ConfirmHosts, pollVars
  <2>6. OtherTypes'
    BY <1>20, <2>0, BoundsAssumption DEF OtherTypes, ConfirmHosts, Fault
  <2>q. QED BY <2>1, <2>2, <2>3, <2>4, <2>5, <2>6, TypePartsPrimed
<1>21. ASSUME ConfirmGivenUp PROVE TypeOK'
  <2>0. BufferTypes /\ CallTypes /\ SessionTypes /\ StoreTypes /\ PollTypes /\ OtherTypes
    BY TypeParts
  <2>1. BufferTypes'
    BY <1>21, <2>0 DEF BufferTypes, ConfirmGivenUp, bufferVars
  <2>2. CallTypes'
    BY <1>21, <2>0 DEF CallTypes, ConfirmGivenUp
  <2>3. SessionTypes'
    BY <1>21, <2>0 DEF SessionTypes, ConfirmGivenUp, sessionVars
  <2>4. StoreTypes'
    BY <1>21, <2>0 DEF StoreTypes, ConfirmGivenUp, serverVars
  <2>5. PollTypes'
    BY <1>21, <2>0 DEF PollTypes, ConfirmGivenUp, pollVars
  <2>6. OtherTypes'
    BY <1>21, <2>0, BoundsAssumption DEF OtherTypes, ConfirmGivenUp, Fault
  <2>q. QED BY <2>1, <2>2, <2>3, <2>4, <2>5, <2>6, TypePartsPrimed
<1>22. ASSUME ConfirmLate PROVE TypeOK'
  <2>0. BufferTypes /\ CallTypes /\ SessionTypes /\ StoreTypes /\ PollTypes /\ OtherTypes
    BY TypeParts
  <2>1. BufferTypes'
    <3>1. PICK part \in SUBSET late : MarkCreated(part)
      BY <1>22 DEF ConfirmLate, OfKind
    <3>q. QED BY <2>0, <3>1, MarkTypes DEF PollTypes
  <2>2. CallTypes'
    BY <1>22, <2>0 DEF CallTypes, ConfirmLate
  <2>3. SessionTypes'
    BY <1>22, <2>0 DEF SessionTypes, ConfirmLate, sessionVars
  <2>4. StoreTypes'
    BY <1>22, <2>0 DEF StoreTypes, ConfirmLate, serverVars
  <2>5. PollTypes'
    BY <1>22, <2>0 DEF PollTypes, ConfirmLate, pollVars, OfKind
  <2>6. OtherTypes'
    BY <1>22, <2>0 DEF OtherTypes, ConfirmLate
  <2>q. QED BY <2>1, <2>2, <2>3, <2>4, <2>5, <2>6, TypePartsPrimed
<1>q. QED BY <1>1, <1>2, <1>3, <1>4, <1>5, <1>6, <1>7, <1>8, <1>9, <1>10, <1>11, <1>12,
             <1>13, <1>14, <1>15, <1>16, <1>17, <1>18, <1>19, <1>20, <1>21, <1>22 DEF Next,
             Call, Finish, Poll

\* The server forgets nothing.
Grow ==
    /\ \A e \in stored : e \in stored'
    /\ \A e \in Entities : kept[e] \subseteq kept'[e]

\* The server's rows are never taken back.
LEMMA Grows ==
    ASSUME TypeOK, [Next]_vars
    PROVE  Grow
<1>1. CASE UNCHANGED vars
  BY <1>1 DEF Grow, vars, serverVars
<1>2. ASSUME NEW c \in Calls, Create(c) PROVE Grow
  BY <1>2 DEF Grow, Create, serverVars
<1>3. ASSUME NEW c \in Calls, AwaitFinds(c) PROVE Grow
  BY <1>3 DEF Grow, AwaitFinds, serverVars
<1>4. ASSUME NEW c \in Calls, AwaitEnds(c) PROVE Grow
  BY <1>4 DEF Grow, AwaitEnds, serverVars
<1>5. ASSUME NEW c \in Calls, PostArrives(c) PROVE Grow
  BY <1>5, CallsAssumption DEF Grow, PostArrives, Store, TypeOK
<1>6. ASSUME NEW c \in Calls, PostFails(c) PROVE Grow
  BY <1>6 DEF Grow, PostFails, serverVars
<1>7. ASSUME NEW c \in Calls, PostReturns(c) PROVE Grow
  BY <1>7 DEF Grow, PostReturns, serverVars
<1>8. ASSUME CancelSession PROVE Grow
  BY <1>8 DEF Grow, CancelSession, serverVars
<1>9. ASSUME EndScan PROVE Grow
  BY <1>9 DEF Grow, EndScan, serverVars
<1>10. ASSUME ReadScannedSubnets PROVE Grow
  BY <1>10 DEF Grow, ReadScannedSubnets, serverVars
<1>11. ASSUME ReadScannedHosts PROVE Grow
  BY <1>11 DEF Grow, ReadScannedHosts, serverVars
<1>12. ASSUME ClearHosts PROVE Grow
  BY <1>12 DEF Grow, ClearHosts, serverVars
<1>13. ASSUME ClearSubnets PROVE Grow
  BY <1>13 DEF Grow, ClearSubnets, serverVars
<1>14. ASSUME NextSession PROVE Grow
  BY <1>14 DEF Grow, NextSession, serverVars
<1>15. ASSUME PollHosts PROVE Grow
  BY <1>15 DEF Grow, PollHosts, serverVars
<1>16. ASSUME PollSubnets PROVE Grow
  BY <1>16 DEF Grow, PollSubnets, serverVars
<1>17. ASSUME PollLost PROVE Grow
  BY <1>17 DEF Grow, PollLost, serverVars
<1>18. ASSUME ProcessEntities PROVE Grow
  BY <1>18 DEF Grow, ProcessEntities
<1>19. ASSUME ConfirmSubnets PROVE Grow
  BY <1>19 DEF Grow, ConfirmSubnets, serverVars
<1>20. ASSUME ConfirmHosts PROVE Grow
  BY <1>20 DEF Grow, ConfirmHosts, serverVars
<1>21. ASSUME ConfirmGivenUp PROVE Grow
  BY <1>21 DEF Grow, ConfirmGivenUp, serverVars
<1>22. ASSUME ConfirmLate PROVE Grow
  BY <1>22 DEF Grow, ConfirmLate, serverVars
<1>q. QED BY <1>1, <1>2, <1>3, <1>4, <1>5, <1>6, <1>7, <1>8, <1>9, <1>10, <1>11, <1>12,
             <1>13, <1>14, <1>15, <1>16, <1>17, <1>18, <1>19, <1>20, <1>21, <1>22 DEF Next,
             Call, Finish, Poll

\* What is stored stays stored.
LEMMA BackedStays ==
    ASSUME NEW S \in SUBSET Carried, Backed(S), Grow
    PROVE  \A a \in S : a[1] \in stored' /\ a[2] \subseteq kept'[a[1]]
BY DEF Backed, Grow, Carried

\* A message names what is stored, and what is stored stays.
LEMMA MessagesStep ==
    ASSUME TypeOK, Messages, [Next]_vars
    PROVE  Messages'
<1>1. CASE UNCHANGED vars
  BY <1>1 DEF Messages, Answers, Backed, vars
<1>2. ASSUME NEW c \in Calls, Create(c) PROVE Messages'
  <2>0. Grow /\ BufferTypes /\ CallTypes /\ SessionTypes /\ StoreTypes /\ PollTypes /\ OtherTypes
    BY <1>2, Grows, TypeParts DEF Next, Call, Finish, Poll
  <2>1. Backed(confirm)'
    BY <1>2, <2>0, BackedStays DEF Messages, PollTypes, Backed, Create, pollVars
  <2>2. Backed(late)'
    BY <1>2, <2>0, BackedStays DEF Messages, PollTypes, Backed, Create, pollVars
  <2>3. Answers'
    BY <1>2, <2>0, CallsAssumption DEF Messages, Answers, Grow, CallTypes, Create
  <2>q. QED BY <2>1, <2>2, <2>3 DEF Messages
<1>3. ASSUME NEW c \in Calls, AwaitFinds(c) PROVE Messages'
  <2>0. Grow /\ BufferTypes /\ CallTypes /\ SessionTypes /\ StoreTypes /\ PollTypes /\ OtherTypes
    BY <1>3, Grows, TypeParts DEF Next, Call, Finish, Poll
  <2>1. Backed(confirm)'
    BY <1>3, <2>0, BackedStays DEF Messages, PollTypes, Backed, AwaitFinds, pollVars
  <2>2. Backed(late)'
    BY <1>3, <2>0, BackedStays DEF Messages, PollTypes, Backed, AwaitFinds, pollVars
  <2>3. Answers'
    BY <1>3, <2>0, CallsAssumption DEF Messages, Answers, Grow, CallTypes, AwaitFinds
  <2>q. QED BY <2>1, <2>2, <2>3 DEF Messages
<1>4. ASSUME NEW c \in Calls, AwaitEnds(c) PROVE Messages'
  <2>0. Grow /\ BufferTypes /\ CallTypes /\ SessionTypes /\ StoreTypes /\ PollTypes /\ OtherTypes
    BY <1>4, Grows, TypeParts DEF Next, Call, Finish, Poll
  <2>1. Backed(confirm)'
    BY <1>4, <2>0, BackedStays DEF Messages, PollTypes, Backed, AwaitEnds, pollVars
  <2>2. Backed(late)'
    BY <1>4, <2>0, BackedStays DEF Messages, PollTypes, Backed, AwaitEnds, pollVars
  <2>3. Answers'
    BY <1>4, <2>0, CallsAssumption DEF Messages, Answers, Grow, CallTypes, AwaitEnds
  <2>q. QED BY <2>1, <2>2, <2>3 DEF Messages
<1>5. ASSUME NEW c \in Calls, PostArrives(c) PROVE Messages'
  <2>0. Grow /\ BufferTypes /\ CallTypes /\ SessionTypes /\ StoreTypes /\ PollTypes /\ OtherTypes
    BY <1>5, Grows, TypeParts DEF Next, Call, Finish, Poll
  <2>1. Backed(confirm)'
    BY <1>5, <2>0, BackedStays DEF Messages, PollTypes, Backed, PostArrives, pollVars
  <2>2. Backed(late)'
    BY <1>5, <2>0, BackedStays DEF Messages, PollTypes, Backed, PostArrives, pollVars
  <2>3. Answers'
    BY <1>5, <2>0, CallsAssumption DEF Messages, Answers, Grow, CallTypes, StoreTypes,
       PostArrives, Store
  <2>q. QED BY <2>1, <2>2, <2>3 DEF Messages
<1>6. ASSUME NEW c \in Calls, PostFails(c) PROVE Messages'
  <2>0. Grow /\ BufferTypes /\ CallTypes /\ SessionTypes /\ StoreTypes /\ PollTypes /\ OtherTypes
    BY <1>6, Grows, TypeParts DEF Next, Call, Finish, Poll
  <2>1. Backed(confirm)'
    BY <1>6, <2>0, BackedStays DEF Messages, PollTypes, Backed, PostFails, pollVars
  <2>2. Backed(late)'
    BY <1>6, <2>0, BackedStays DEF Messages, PollTypes, Backed, PostFails, pollVars
  <2>3. Answers'
    BY <1>6, <2>0, CallsAssumption DEF Messages, Answers, Grow, CallTypes, PostFails
  <2>q. QED BY <2>1, <2>2, <2>3 DEF Messages
<1>7. ASSUME NEW c \in Calls, PostReturns(c) PROVE Messages'
  <2>0. Grow /\ BufferTypes /\ CallTypes /\ SessionTypes /\ StoreTypes /\ PollTypes /\ OtherTypes
    BY <1>7, Grows, TypeParts DEF Next, Call, Finish, Poll
  <2>1. Backed(confirm)'
    BY <1>7, <2>0, BackedStays DEF Messages, PollTypes, Backed, PostReturns, pollVars
  <2>2. Backed(late)'
    BY <1>7, <2>0, BackedStays DEF Messages, PollTypes, Backed, PostReturns, pollVars
  <2>3. Answers'
    BY <1>7, <2>0, CallsAssumption DEF Messages, Answers, Grow, CallTypes, PostReturns
  <2>q. QED BY <2>1, <2>2, <2>3 DEF Messages
<1>8. ASSUME CancelSession PROVE Messages'
  <2>0. Grow /\ BufferTypes /\ CallTypes /\ SessionTypes /\ StoreTypes /\ PollTypes /\ OtherTypes
    BY <1>8, Grows, TypeParts DEF Next, Call, Finish, Poll
  <2>1. Backed(confirm)'
    BY <1>8, <2>0, BackedStays DEF Messages, PollTypes, Backed, CancelSession, pollVars
  <2>2. Backed(late)'
    BY <1>8, <2>0, BackedStays DEF Messages, PollTypes, Backed, CancelSession, pollVars
  <2>3. Answers'
    BY <1>8, <2>0, CallsAssumption DEF Messages, Answers, Grow, CallTypes, CancelSession
  <2>q. QED BY <2>1, <2>2, <2>3 DEF Messages
<1>9. ASSUME EndScan PROVE Messages'
  <2>0. Grow /\ BufferTypes /\ CallTypes /\ SessionTypes /\ StoreTypes /\ PollTypes /\ OtherTypes
    BY <1>9, Grows, TypeParts DEF Next, Call, Finish, Poll
  <2>1. Backed(confirm)'
    BY <1>9, <2>0, BackedStays DEF Messages, PollTypes, Backed, EndScan, pollVars
  <2>2. Backed(late)'
    BY <1>9, <2>0, BackedStays DEF Messages, PollTypes, Backed, EndScan, pollVars
  <2>3. Answers'
    BY <1>9, <2>0, CallsAssumption DEF Messages, Answers, Grow, CallTypes, EndScan,
       InProgress, serverVars
  <2>q. QED BY <2>1, <2>2, <2>3 DEF Messages
<1>10. ASSUME ReadScannedSubnets PROVE Messages'
  <2>0. Grow /\ BufferTypes /\ CallTypes /\ SessionTypes /\ StoreTypes /\ PollTypes /\ OtherTypes
    BY <1>10, Grows, TypeParts DEF Next, Call, Finish, Poll
  <2>1. Backed(confirm)'
    BY <1>10, <2>0, BackedStays DEF Messages, PollTypes, Backed, ReadScannedSubnets,
       pollVars
  <2>2. Backed(late)'
    BY <1>10, <2>0, BackedStays DEF Messages, PollTypes, Backed, ReadScannedSubnets,
       pollVars
  <2>3. Answers'
    BY <1>10, <2>0, CallsAssumption DEF Messages, Answers, Grow, CallTypes,
       ReadScannedSubnets
  <2>q. QED BY <2>1, <2>2, <2>3 DEF Messages
<1>11. ASSUME ReadScannedHosts PROVE Messages'
  <2>0. Grow /\ BufferTypes /\ CallTypes /\ SessionTypes /\ StoreTypes /\ PollTypes /\ OtherTypes
    BY <1>11, Grows, TypeParts DEF Next, Call, Finish, Poll
  <2>1. Backed(confirm)'
    BY <1>11, <2>0, BackedStays DEF Messages, PollTypes, Backed, ReadScannedHosts, pollVars
  <2>2. Backed(late)'
    BY <1>11, <2>0, BackedStays DEF Messages, PollTypes, Backed, ReadScannedHosts, pollVars
  <2>3. Answers'
    BY <1>11, <2>0, CallsAssumption DEF Messages, Answers, Grow, CallTypes, ReadScannedHosts
  <2>q. QED BY <2>1, <2>2, <2>3 DEF Messages
<1>12. ASSUME ClearHosts PROVE Messages'
  <2>0. Grow /\ BufferTypes /\ CallTypes /\ SessionTypes /\ StoreTypes /\ PollTypes /\ OtherTypes
    BY <1>12, Grows, TypeParts DEF Next, Call, Finish, Poll
  <2>1. Backed(confirm)'
    BY <1>12, <2>0, BackedStays DEF Messages, PollTypes, Backed, ClearHosts, pollVars
  <2>2. Backed(late)'
    BY <1>12, <2>0, BackedStays DEF Messages, PollTypes, Backed, ClearHosts, pollVars
  <2>3. Answers'
    BY <1>12, <2>0, CallsAssumption DEF Messages, Answers, Grow, CallTypes, ClearHosts
  <2>q. QED BY <2>1, <2>2, <2>3 DEF Messages
<1>13. ASSUME ClearSubnets PROVE Messages'
  <2>0. Grow /\ BufferTypes /\ CallTypes /\ SessionTypes /\ StoreTypes /\ PollTypes /\ OtherTypes
    BY <1>13, Grows, TypeParts DEF Next, Call, Finish, Poll
  <2>1. Backed(confirm)'
    BY <1>13, <2>0, BackedStays DEF Messages, PollTypes, Backed, ClearSubnets, pollVars
  <2>2. Backed(late)'
    BY <1>13, <2>0, BackedStays DEF Messages, PollTypes, Backed, ClearSubnets, pollVars
  <2>3. Answers'
    BY <1>13, <2>0, CallsAssumption DEF Messages, Answers, Grow, CallTypes, ClearSubnets
  <2>q. QED BY <2>1, <2>2, <2>3 DEF Messages
<1>14. ASSUME NextSession PROVE Messages'
  <2>0. Grow /\ BufferTypes /\ CallTypes /\ SessionTypes /\ StoreTypes /\ PollTypes /\ OtherTypes
    BY <1>14, Grows, TypeParts DEF Next, Call, Finish, Poll
  <2>1. Backed(confirm)'
    BY <1>14, <2>0, BackedStays DEF Messages, PollTypes, Backed, NextSession, pollVars
  <2>2. Backed(late)'
    BY <1>14, <2>0, BackedStays DEF Messages, PollTypes, Backed, NextSession, pollVars
  <2>3. Answers'
    BY <1>14, <2>0, CallsAssumption DEF Messages, Answers, Grow, CallTypes, NextSession
  <2>q. QED BY <2>1, <2>2, <2>3 DEF Messages
<1>15. ASSUME PollHosts PROVE Messages'
  <2>0. Grow /\ BufferTypes /\ CallTypes /\ SessionTypes /\ StoreTypes /\ PollTypes /\ OtherTypes
    BY <1>15, Grows, TypeParts DEF Next, Call, Finish, Poll
  <2>1. Backed(confirm)'
    BY <1>15, <2>0, BackedStays DEF Messages, PollTypes, Backed, PollHosts, pollVars
  <2>2. Backed(late)'
    BY <1>15, <2>0, BackedStays DEF Messages, PollTypes, Backed, PollHosts, pollVars
  <2>3. Answers'
    BY <1>15, <2>0, CallsAssumption DEF Messages, Answers, Grow, CallTypes, PollHosts
  <2>q. QED BY <2>1, <2>2, <2>3 DEF Messages
<1>16. ASSUME PollSubnets PROVE Messages'
  <2>0. Grow /\ BufferTypes /\ CallTypes /\ SessionTypes /\ StoreTypes /\ PollTypes /\ OtherTypes
    BY <1>16, Grows, TypeParts DEF Next, Call, Finish, Poll
  <2>1. Backed(confirm)'
    BY <1>16, <2>0, BackedStays DEF Messages, PollTypes, Backed, PollSubnets, pollVars
  <2>2. Backed(late)'
    BY <1>16, <2>0, BackedStays DEF Messages, PollTypes, Backed, PollSubnets, pollVars
  <2>3. Answers'
    BY <1>16, <2>0, CallsAssumption DEF Messages, Answers, Grow, CallTypes, PollSubnets
  <2>q. QED BY <2>1, <2>2, <2>3 DEF Messages
<1>17. ASSUME PollLost PROVE Messages'
  <2>0. Grow /\ BufferTypes /\ CallTypes /\ SessionTypes /\ StoreTypes /\ PollTypes /\ OtherTypes
    BY <1>17, Grows, TypeParts DEF Next, Call, Finish, Poll
  <2>1. Backed(confirm)'
    BY <1>17, <2>0, BackedStays DEF Messages, PollTypes, Backed, PollLost, pollVars
  <2>2. Backed(late)'
    BY <1>17, <2>0, BackedStays DEF Messages, PollTypes, Backed, PollLost, pollVars
  <2>3. Answers'
    BY <1>17, <2>0, CallsAssumption DEF Messages, Answers, Grow, CallTypes, PollLost
  <2>q. QED BY <2>1, <2>2, <2>3 DEF Messages
<1>18. ASSUME ProcessEntities PROVE Messages'
  <2>0. Grow /\ BufferTypes /\ CallTypes /\ SessionTypes /\ StoreTypes /\ PollTypes /\ OtherTypes
    BY <1>18, Grows, TypeParts DEF Next, Call, Finish, Poll
  <2>1. Backed(confirm)'
    <3>1. PICK done \in SUBSET batch :
            /\ stored' = stored \union {b[1] : b \in done}
            /\ kept' = [e \in Entities |-> kept[e] \union UNION {b[2] : b \in {x \in done : x[1] = e}}]
            /\ confirm' = {<<b[1], kept'[b[1]]>> : b \in done}
      BY <1>18 DEF ProcessEntities
    <3>2. \A b \in done : b[1] \in Entities /\ b[2] \in SUBSET Calls
      BY <2>0 DEF PollTypes, Carried
    <3>3. ASSUME NEW a \in confirm' PROVE a[1] \in stored' /\ a[2] \subseteq kept'[a[1]]
      <4>1. PICK b \in done : a = <<b[1], kept'[b[1]]>>
        BY <3>1, <3>3
      <4>2. a[1] = b[1] /\ a[2] = kept'[b[1]] /\ b[1] \in stored'
        BY <3>1, <4>1
      <4>q. QED BY <4>2
    <3>q. QED BY <3>3 DEF Backed
  <2>2. Backed(late)'
    BY <1>18, <2>0, BackedStays DEF Messages, PollTypes, Backed, ProcessEntities, pollVars
  <2>3. Answers'
    BY <1>18, <2>0, CallsAssumption DEF Messages, Answers, Grow, CallTypes, ProcessEntities
  <2>q. QED BY <2>1, <2>2, <2>3 DEF Messages
<1>19. ASSUME ConfirmSubnets PROVE Messages'
  <2>0. Grow /\ BufferTypes /\ CallTypes /\ SessionTypes /\ StoreTypes /\ PollTypes /\ OtherTypes
    BY <1>19, Grows, TypeParts DEF Next, Call, Finish, Poll
  <2>1. Backed(confirm)'
    BY <1>19, <2>0, BackedStays DEF Messages, PollTypes, Backed, ConfirmSubnets, pollVars
  <2>2. Backed(late)'
    BY <1>19, <2>0, BackedStays DEF Messages, PollTypes, Backed, ConfirmSubnets, pollVars
  <2>3. Answers'
    BY <1>19, <2>0, CallsAssumption DEF Messages, Answers, Grow, CallTypes, ConfirmSubnets
  <2>q. QED BY <2>1, <2>2, <2>3 DEF Messages
<1>20. ASSUME ConfirmHosts PROVE Messages'
  <2>0. Grow /\ BufferTypes /\ CallTypes /\ SessionTypes /\ StoreTypes /\ PollTypes /\ OtherTypes
    BY <1>20, Grows, TypeParts DEF Next, Call, Finish, Poll
  <2>1. Backed(confirm)'
    BY <1>20, <2>0, BackedStays DEF Messages, PollTypes, Backed, ConfirmHosts, pollVars
  <2>2. Backed(late)'
    BY <1>20, <2>0, BackedStays DEF Messages, PollTypes, Backed, ConfirmHosts, pollVars
  <2>3. Answers'
    BY <1>20, <2>0, CallsAssumption DEF Messages, Answers, Grow, CallTypes, ConfirmHosts
  <2>q. QED BY <2>1, <2>2, <2>3 DEF Messages
<1>21. ASSUME ConfirmGivenUp PROVE Messages'
  <2>0. Grow /\ BufferTypes /\ CallTypes /\ SessionTypes /\ StoreTypes /\ PollTypes /\ OtherTypes
    BY <1>21, Grows, TypeParts DEF Next, Call, Finish, Poll
  <2>1. Backed(confirm)'
    BY <1>21, <2>0, BackedStays DEF Messages, PollTypes, Backed, ConfirmGivenUp, pollVars
  <2>2. Backed(late)'
    BY <1>21, <2>0, BackedStays DEF Messages, PollTypes, Backed, ConfirmGivenUp, pollVars
  <2>3. Answers'
    BY <1>21, <2>0, CallsAssumption DEF Messages, Answers, Grow, CallTypes, ConfirmGivenUp
  <2>q. QED BY <2>1, <2>2, <2>3 DEF Messages
<1>22. ASSUME ConfirmLate PROVE Messages'
  <2>0. Grow /\ BufferTypes /\ CallTypes /\ SessionTypes /\ StoreTypes /\ PollTypes /\ OtherTypes
    BY <1>22, Grows, TypeParts DEF Next, Call, Finish, Poll
  <2>1. Backed(confirm)'
    BY <1>22, <2>0, BackedStays DEF Messages, PollTypes, Backed, ConfirmLate, pollVars
  <2>2. Backed(late)'
    BY <1>22, <2>0, BackedStays DEF Messages, PollTypes, Backed, ConfirmLate, pollVars,
       OfKind
  <2>3. Answers'
    BY <1>22, <2>0, CallsAssumption DEF Messages, Answers, Grow, CallTypes, ConfirmLate
  <2>q. QED BY <2>1, <2>2, <2>3 DEF Messages
<1>q. QED BY <1>1, <1>2, <1>3, <1>4, <1>5, <1>6, <1>7, <1>8, <1>9, <1>10, <1>11, <1>12,
             <1>13, <1>14, <1>15, <1>16, <1>17, <1>18, <1>19, <1>20, <1>21, <1>22 DEF Next,
             Call, Finish, Poll

\* The mode never changes.
LEMMA CallModesStep ==
    ASSUME TypeOK, CallModes, [Next]_vars
    PROVE  CallModes'
<1>1. CASE UNCHANGED vars
  BY <1>1 DEF CallModes, vars
<1>2. ASSUME NEW c \in Calls, Create(c) PROVE CallModes'
  BY <1>2 DEF CallModes, TypeOK, AllModes, CallStates, Create
<1>3. ASSUME NEW c \in Calls, AwaitFinds(c) PROVE CallModes'
  BY <1>3 DEF CallModes, TypeOK, AllModes, CallStates, AwaitFinds
<1>4. ASSUME NEW c \in Calls, AwaitEnds(c) PROVE CallModes'
  BY <1>4 DEF CallModes, TypeOK, AllModes, CallStates, AwaitEnds
<1>5. ASSUME NEW c \in Calls, PostArrives(c) PROVE CallModes'
  BY <1>5 DEF CallModes, TypeOK, AllModes, CallStates, PostArrives
<1>6. ASSUME NEW c \in Calls, PostFails(c) PROVE CallModes'
  BY <1>6 DEF CallModes, TypeOK, AllModes, CallStates, PostFails
<1>7. ASSUME NEW c \in Calls, PostReturns(c) PROVE CallModes'
  BY <1>7 DEF CallModes, TypeOK, AllModes, CallStates, PostReturns
<1>8. ASSUME CancelSession PROVE CallModes'
  BY <1>8 DEF CallModes, TypeOK, AllModes, CallStates, CancelSession
<1>9. ASSUME EndScan PROVE CallModes'
  BY <1>9 DEF CallModes, TypeOK, AllModes, CallStates, EndScan, InProgress
<1>10. ASSUME ReadScannedSubnets PROVE CallModes'
  BY <1>10 DEF CallModes, TypeOK, AllModes, CallStates, ReadScannedSubnets
<1>11. ASSUME ReadScannedHosts PROVE CallModes'
  BY <1>11 DEF CallModes, TypeOK, AllModes, CallStates, ReadScannedHosts
<1>12. ASSUME ClearHosts PROVE CallModes'
  BY <1>12 DEF CallModes, TypeOK, AllModes, CallStates, ClearHosts
<1>13. ASSUME ClearSubnets PROVE CallModes'
  BY <1>13 DEF CallModes, TypeOK, AllModes, CallStates, ClearSubnets
<1>14. ASSUME NextSession PROVE CallModes'
  BY <1>14 DEF CallModes, TypeOK, AllModes, CallStates, NextSession
<1>15. ASSUME PollHosts PROVE CallModes'
  BY <1>15 DEF CallModes, TypeOK, AllModes, CallStates, PollHosts
<1>16. ASSUME PollSubnets PROVE CallModes'
  BY <1>16 DEF CallModes, TypeOK, AllModes, CallStates, PollSubnets
<1>17. ASSUME PollLost PROVE CallModes'
  BY <1>17 DEF CallModes, TypeOK, AllModes, CallStates, PollLost
<1>18. ASSUME ProcessEntities PROVE CallModes'
  BY <1>18 DEF CallModes, TypeOK, AllModes, CallStates, ProcessEntities
<1>19. ASSUME ConfirmSubnets PROVE CallModes'
  BY <1>19 DEF CallModes, TypeOK, AllModes, CallStates, ConfirmSubnets
<1>20. ASSUME ConfirmHosts PROVE CallModes'
  BY <1>20 DEF CallModes, TypeOK, AllModes, CallStates, ConfirmHosts
<1>21. ASSUME ConfirmGivenUp PROVE CallModes'
  BY <1>21 DEF CallModes, TypeOK, AllModes, CallStates, ConfirmGivenUp
<1>22. ASSUME ConfirmLate PROVE CallModes'
  BY <1>22 DEF CallModes, TypeOK, AllModes, CallStates, ConfirmLate
<1>q. QED BY <1>1, <1>2, <1>3, <1>4, <1>5, <1>6, <1>7, <1>8, <1>9, <1>10, <1>11, <1>12,
             <1>13, <1>14, <1>15, <1>16, <1>17, <1>18, <1>19, <1>20, <1>21, <1>22 DEF Next,
             Call, Finish, Poll

\* Only what a message names is marked.
LEMMA ConfirmedStep ==
    ASSUME TypeOK, Messages, ConfirmedIsStored, [Next]_vars
    PROVE  ConfirmedIsStored'
<1>1. CASE UNCHANGED vars
  BY <1>1 DEF ConfirmedIsStored, vars
<1>2. ASSUME NEW c \in Calls, Create(c) PROVE ConfirmedIsStored'
  <2>0. Grow /\ BufferTypes /\ CallTypes /\ SessionTypes /\ StoreTypes /\ PollTypes /\ OtherTypes
    BY <1>2, Grows, TypeParts DEF Next, Call, Finish, Poll
  <2>q. QED BY <1>2, <2>0, CallsAssumption DEF ConfirmedIsStored, Grow, BufferTypes,
               bufferVars, Create, PushEntity
<1>3. ASSUME NEW c \in Calls, AwaitFinds(c) PROVE ConfirmedIsStored'
  <2>0. Grow /\ BufferTypes /\ CallTypes /\ SessionTypes /\ StoreTypes /\ PollTypes /\ OtherTypes
    BY <1>3, Grows, TypeParts DEF Next, Call, Finish, Poll
  <2>q. QED BY <1>3, <2>0 DEF ConfirmedIsStored, Grow, BufferTypes, bufferVars, AwaitFinds
<1>4. ASSUME NEW c \in Calls, AwaitEnds(c) PROVE ConfirmedIsStored'
  <2>0. Grow /\ BufferTypes /\ CallTypes /\ SessionTypes /\ StoreTypes /\ PollTypes /\ OtherTypes
    BY <1>4, Grows, TypeParts DEF Next, Call, Finish, Poll
  <2>q. QED BY <1>4, <2>0 DEF ConfirmedIsStored, Grow, BufferTypes, bufferVars, AwaitEnds
<1>5. ASSUME NEW c \in Calls, PostArrives(c) PROVE ConfirmedIsStored'
  <2>0. Grow /\ BufferTypes /\ CallTypes /\ SessionTypes /\ StoreTypes /\ PollTypes /\ OtherTypes
    BY <1>5, Grows, TypeParts DEF Next, Call, Finish, Poll
  <2>q. QED BY <1>5, <2>0 DEF ConfirmedIsStored, Grow, BufferTypes, bufferVars, PostArrives
<1>6. ASSUME NEW c \in Calls, PostFails(c) PROVE ConfirmedIsStored'
  <2>0. Grow /\ BufferTypes /\ CallTypes /\ SessionTypes /\ StoreTypes /\ PollTypes /\ OtherTypes
    BY <1>6, Grows, TypeParts DEF Next, Call, Finish, Poll
  <2>q. QED BY <1>6, <2>0 DEF ConfirmedIsStored, Grow, BufferTypes, bufferVars, PostFails
<1>7. ASSUME NEW c \in Calls, PostReturns(c) PROVE ConfirmedIsStored'
  <2>0. Grow /\ BufferTypes /\ CallTypes /\ SessionTypes /\ StoreTypes /\ PollTypes /\ OtherTypes
    BY <1>7, Grows, TypeParts DEF Next, Call, Finish, Poll
  <2>1. CASE UNCHANGED bufferVars
    BY <2>0, <2>1 DEF ConfirmedIsStored, Grow, bufferVars
  <2>2. ASSUME NEW S \in SUBSET Carried, Backed(S), MarkCreated(S) PROVE ConfirmedIsStored'
    <3>1. ASSUME NEW e \in Entities, entry'[e] = "created" PROVE e \in stored' /\ children'[e] \subseteq kept'[e]
      BY <2>0, <2>2, <3>1, MarkEffect, BackedStays DEF ConfirmedIsStored, Grow
    <3>q. QED BY <3>1 DEF ConfirmedIsStored
  <2>3. {<<Target[c], reply[c]>>} \in SUBSET Carried
    BY <2>0, CallsAssumption DEF Carried, CallTypes
  <2>4. Backed({<<Target[c], reply[c]>>})
    BY <1>7, <2>0 DEF Backed, Messages, Answers, PostReturns
  <2>q. QED BY <1>7, <2>1, <2>2, <2>3, <2>4 DEF PostReturns
<1>8. ASSUME CancelSession PROVE ConfirmedIsStored'
  <2>0. Grow /\ BufferTypes /\ CallTypes /\ SessionTypes /\ StoreTypes /\ PollTypes /\ OtherTypes
    BY <1>8, Grows, TypeParts DEF Next, Call, Finish, Poll
  <2>q. QED BY <1>8, <2>0 DEF ConfirmedIsStored, Grow, BufferTypes, bufferVars,
               CancelSession
<1>9. ASSUME EndScan PROVE ConfirmedIsStored'
  <2>0. Grow /\ BufferTypes /\ CallTypes /\ SessionTypes /\ StoreTypes /\ PollTypes /\ OtherTypes
    BY <1>9, Grows, TypeParts DEF Next, Call, Finish, Poll
  <2>q. QED BY <1>9, <2>0 DEF ConfirmedIsStored, Grow, BufferTypes, bufferVars, EndScan
<1>10. ASSUME ReadScannedSubnets PROVE ConfirmedIsStored'
  <2>0. Grow /\ BufferTypes /\ CallTypes /\ SessionTypes /\ StoreTypes /\ PollTypes /\ OtherTypes
    BY <1>10, Grows, TypeParts DEF Next, Call, Finish, Poll
  <2>q. QED BY <1>10, <2>0 DEF ConfirmedIsStored, Grow, BufferTypes, bufferVars,
               ReadScannedSubnets
<1>11. ASSUME ReadScannedHosts PROVE ConfirmedIsStored'
  <2>0. Grow /\ BufferTypes /\ CallTypes /\ SessionTypes /\ StoreTypes /\ PollTypes /\ OtherTypes
    BY <1>11, Grows, TypeParts DEF Next, Call, Finish, Poll
  <2>q. QED BY <1>11, <2>0 DEF ConfirmedIsStored, Grow, BufferTypes, bufferVars,
               ReadScannedHosts
<1>12. ASSUME ClearHosts PROVE ConfirmedIsStored'
  <2>0. Grow /\ BufferTypes /\ CallTypes /\ SessionTypes /\ StoreTypes /\ PollTypes /\ OtherTypes
    BY <1>12, Grows, TypeParts DEF Next, Call, Finish, Poll
  <2>q. QED BY <1>12, <2>0 DEF ConfirmedIsStored, Grow, BufferTypes, bufferVars,
               ClearHosts, Clear
<1>13. ASSUME ClearSubnets PROVE ConfirmedIsStored'
  <2>0. Grow /\ BufferTypes /\ CallTypes /\ SessionTypes /\ StoreTypes /\ PollTypes /\ OtherTypes
    BY <1>13, Grows, TypeParts DEF Next, Call, Finish, Poll
  <2>q. QED BY <1>13, <2>0 DEF ConfirmedIsStored, Grow, BufferTypes, bufferVars,
               ClearSubnets, Clear
<1>14. ASSUME NextSession PROVE ConfirmedIsStored'
  <2>0. Grow /\ BufferTypes /\ CallTypes /\ SessionTypes /\ StoreTypes /\ PollTypes /\ OtherTypes
    BY <1>14, Grows, TypeParts DEF Next, Call, Finish, Poll
  <2>q. QED BY <1>14, <2>0 DEF ConfirmedIsStored, Grow, BufferTypes, bufferVars, NextSession
<1>15. ASSUME PollHosts PROVE ConfirmedIsStored'
  <2>0. Grow /\ BufferTypes /\ CallTypes /\ SessionTypes /\ StoreTypes /\ PollTypes /\ OtherTypes
    BY <1>15, Grows, TypeParts DEF Next, Call, Finish, Poll
  <2>q. QED BY <1>15, <2>0 DEF ConfirmedIsStored, Grow, BufferTypes, bufferVars, PollHosts
<1>16. ASSUME PollSubnets PROVE ConfirmedIsStored'
  <2>0. Grow /\ BufferTypes /\ CallTypes /\ SessionTypes /\ StoreTypes /\ PollTypes /\ OtherTypes
    BY <1>16, Grows, TypeParts DEF Next, Call, Finish, Poll
  <2>q. QED BY <1>16, <2>0 DEF ConfirmedIsStored, Grow, BufferTypes, bufferVars, PollSubnets
<1>17. ASSUME PollLost PROVE ConfirmedIsStored'
  <2>0. Grow /\ BufferTypes /\ CallTypes /\ SessionTypes /\ StoreTypes /\ PollTypes /\ OtherTypes
    BY <1>17, Grows, TypeParts DEF Next, Call, Finish, Poll
  <2>q. QED BY <1>17, <2>0 DEF ConfirmedIsStored, Grow, BufferTypes, bufferVars, PollLost
<1>18. ASSUME ProcessEntities PROVE ConfirmedIsStored'
  <2>0. Grow /\ BufferTypes /\ CallTypes /\ SessionTypes /\ StoreTypes /\ PollTypes /\ OtherTypes
    BY <1>18, Grows, TypeParts DEF Next, Call, Finish, Poll
  <2>q. QED BY <1>18, <2>0 DEF ConfirmedIsStored, Grow, BufferTypes, bufferVars,
               ProcessEntities
<1>19. ASSUME ConfirmSubnets PROVE ConfirmedIsStored'
  <2>0. Grow /\ BufferTypes /\ CallTypes /\ SessionTypes /\ StoreTypes /\ PollTypes /\ OtherTypes
    BY <1>19, Grows, TypeParts DEF Next, Call, Finish, Poll
  <2>1. CASE UNCHANGED bufferVars
    BY <2>0, <2>1 DEF ConfirmedIsStored, Grow, bufferVars
  <2>2. ASSUME NEW S \in SUBSET Carried, Backed(S), MarkCreated(S) PROVE ConfirmedIsStored'
    <3>1. ASSUME NEW e \in Entities, entry'[e] = "created" PROVE e \in stored' /\ children'[e] \subseteq kept'[e]
      BY <2>0, <2>2, <3>1, MarkEffect, BackedStays DEF ConfirmedIsStored, Grow
    <3>q. QED BY <3>1 DEF ConfirmedIsStored
  <2>3. OfKind(confirm, Subnets) \in SUBSET Carried /\ Backed(OfKind(confirm, Subnets))
    BY <2>0 DEF OfKind, PollTypes, Messages, Backed
  <2>q. QED BY <1>19, <2>2, <2>3 DEF ConfirmSubnets
<1>20. ASSUME ConfirmHosts PROVE ConfirmedIsStored'
  <2>0. Grow /\ BufferTypes /\ CallTypes /\ SessionTypes /\ StoreTypes /\ PollTypes /\ OtherTypes
    BY <1>20, Grows, TypeParts DEF Next, Call, Finish, Poll
  <2>1. CASE UNCHANGED bufferVars
    BY <2>0, <2>1 DEF ConfirmedIsStored, Grow, bufferVars
  <2>2. ASSUME NEW S \in SUBSET Carried, Backed(S), MarkCreated(S) PROVE ConfirmedIsStored'
    <3>1. ASSUME NEW e \in Entities, entry'[e] = "created" PROVE e \in stored' /\ children'[e] \subseteq kept'[e]
      BY <2>0, <2>2, <3>1, MarkEffect, BackedStays DEF ConfirmedIsStored, Grow
    <3>q. QED BY <3>1 DEF ConfirmedIsStored
  <2>3. OfKind(confirm, Hosts) \in SUBSET Carried /\ Backed(OfKind(confirm, Hosts))
    BY <2>0 DEF OfKind, PollTypes, Messages, Backed
  <2>q. QED BY <1>20, <2>2, <2>3 DEF ConfirmHosts
<1>21. ASSUME ConfirmGivenUp PROVE ConfirmedIsStored'
  <2>0. Grow /\ BufferTypes /\ CallTypes /\ SessionTypes /\ StoreTypes /\ PollTypes /\ OtherTypes
    BY <1>21, Grows, TypeParts DEF Next, Call, Finish, Poll
  <2>q. QED BY <1>21, <2>0 DEF ConfirmedIsStored, Grow, BufferTypes, bufferVars,
               ConfirmGivenUp
<1>22. ASSUME ConfirmLate PROVE ConfirmedIsStored'
  <2>0. Grow /\ BufferTypes /\ CallTypes /\ SessionTypes /\ StoreTypes /\ PollTypes /\ OtherTypes
    BY <1>22, Grows, TypeParts DEF Next, Call, Finish, Poll
  <2>1. CASE UNCHANGED bufferVars
    BY <2>0, <2>1 DEF ConfirmedIsStored, Grow, bufferVars
  <2>2. ASSUME NEW S \in SUBSET Carried, Backed(S), MarkCreated(S) PROVE ConfirmedIsStored'
    <3>1. ASSUME NEW e \in Entities, entry'[e] = "created" PROVE e \in stored' /\ children'[e] \subseteq kept'[e]
      BY <2>0, <2>2, <3>1, MarkEffect, BackedStays DEF ConfirmedIsStored, Grow
    <3>q. QED BY <3>1 DEF ConfirmedIsStored
  <2>3. PICK part \in SUBSET late : MarkCreated(part)
    BY <1>22 DEF ConfirmLate, OfKind
  <2>q. QED BY <2>0, <2>2, <2>3 DEF Messages, Backed, PollTypes
<1>q. QED BY <1>1, <1>2, <1>3, <1>4, <1>5, <1>6, <1>7, <1>8, <1>9, <1>10, <1>11, <1>12,
             <1>13, <1>14, <1>15, <1>16, <1>17, <1>18, <1>19, <1>20, <1>21, <1>22 DEF Next,
             Call, Finish, Poll

\* A call returns Ok on a confirmation or on an answer.
LEMMA ReturnedStep ==
    ASSUME TypeOK, Messages, CallModes, ConfirmedIsStored, ReturnedIsStored, [Next]_vars
    PROVE  ReturnedIsStored'
<1>1. CASE UNCHANGED vars
  BY <1>1 DEF ReturnedIsStored, vars
<1>2. ASSUME NEW c \in Calls, Create(c) PROVE ReturnedIsStored'
  <2>0. Grow /\ BufferTypes /\ CallTypes /\ SessionTypes /\ StoreTypes /\ PollTypes /\ OtherTypes
    BY <1>2, Grows, TypeParts DEF Next, Call, Finish, Poll
  <2>q. QED BY <1>2, <2>0, CallsAssumption DEF ReturnedIsStored, Grow, CallTypes, Create
<1>3. ASSUME NEW c \in Calls, AwaitFinds(c) PROVE ReturnedIsStored'
  <2>0. Grow /\ BufferTypes /\ CallTypes /\ SessionTypes /\ StoreTypes /\ PollTypes /\ OtherTypes
    BY <1>3, Grows, TypeParts DEF Next, Call, Finish, Poll
  <2>q. QED BY <1>3, <2>0, CallsAssumption DEF ReturnedIsStored, Grow, CallTypes,
               AwaitFinds, CallModes, ConfirmedIsStored
<1>4. ASSUME NEW c \in Calls, AwaitEnds(c) PROVE ReturnedIsStored'
  <2>0. Grow /\ BufferTypes /\ CallTypes /\ SessionTypes /\ StoreTypes /\ PollTypes /\ OtherTypes
    BY <1>4, Grows, TypeParts DEF Next, Call, Finish, Poll
  <2>q. QED BY <1>4, <2>0, CallsAssumption DEF ReturnedIsStored, Grow, CallTypes, AwaitEnds
<1>5. ASSUME NEW c \in Calls, PostArrives(c) PROVE ReturnedIsStored'
  <2>0. Grow /\ BufferTypes /\ CallTypes /\ SessionTypes /\ StoreTypes /\ PollTypes /\ OtherTypes
    BY <1>5, Grows, TypeParts DEF Next, Call, Finish, Poll
  <2>q. QED BY <1>5, <2>0, CallsAssumption DEF ReturnedIsStored, Grow, CallTypes,
               PostArrives
<1>6. ASSUME NEW c \in Calls, PostFails(c) PROVE ReturnedIsStored'
  <2>0. Grow /\ BufferTypes /\ CallTypes /\ SessionTypes /\ StoreTypes /\ PollTypes /\ OtherTypes
    BY <1>6, Grows, TypeParts DEF Next, Call, Finish, Poll
  <2>q. QED BY <1>6, <2>0, CallsAssumption DEF ReturnedIsStored, Grow, CallTypes, PostFails
<1>7. ASSUME NEW c \in Calls, PostReturns(c) PROVE ReturnedIsStored'
  <2>0. Grow /\ BufferTypes /\ CallTypes /\ SessionTypes /\ StoreTypes /\ PollTypes /\ OtherTypes
    BY <1>7, Grows, TypeParts DEF Next, Call, Finish, Poll
  <2>q. QED BY <1>7, <2>0, CallsAssumption DEF ReturnedIsStored, Grow, CallTypes,
               PostReturns, Messages, Answers
<1>8. ASSUME CancelSession PROVE ReturnedIsStored'
  <2>0. Grow /\ BufferTypes /\ CallTypes /\ SessionTypes /\ StoreTypes /\ PollTypes /\ OtherTypes
    BY <1>8, Grows, TypeParts DEF Next, Call, Finish, Poll
  <2>q. QED BY <1>8, <2>0, CallsAssumption DEF ReturnedIsStored, Grow, CallTypes,
               CancelSession
<1>9. ASSUME EndScan PROVE ReturnedIsStored'
  <2>0. Grow /\ BufferTypes /\ CallTypes /\ SessionTypes /\ StoreTypes /\ PollTypes /\ OtherTypes
    BY <1>9, Grows, TypeParts DEF Next, Call, Finish, Poll
  <2>q. QED BY <1>9, <2>0, CallsAssumption DEF ReturnedIsStored, Grow, CallTypes, EndScan,
               InProgress
<1>10. ASSUME ReadScannedSubnets PROVE ReturnedIsStored'
  <2>0. Grow /\ BufferTypes /\ CallTypes /\ SessionTypes /\ StoreTypes /\ PollTypes /\ OtherTypes
    BY <1>10, Grows, TypeParts DEF Next, Call, Finish, Poll
  <2>q. QED BY <1>10, <2>0, CallsAssumption DEF ReturnedIsStored, Grow, CallTypes,
               ReadScannedSubnets
<1>11. ASSUME ReadScannedHosts PROVE ReturnedIsStored'
  <2>0. Grow /\ BufferTypes /\ CallTypes /\ SessionTypes /\ StoreTypes /\ PollTypes /\ OtherTypes
    BY <1>11, Grows, TypeParts DEF Next, Call, Finish, Poll
  <2>q. QED BY <1>11, <2>0, CallsAssumption DEF ReturnedIsStored, Grow, CallTypes,
               ReadScannedHosts
<1>12. ASSUME ClearHosts PROVE ReturnedIsStored'
  <2>0. Grow /\ BufferTypes /\ CallTypes /\ SessionTypes /\ StoreTypes /\ PollTypes /\ OtherTypes
    BY <1>12, Grows, TypeParts DEF Next, Call, Finish, Poll
  <2>q. QED BY <1>12, <2>0, CallsAssumption DEF ReturnedIsStored, Grow, CallTypes,
               ClearHosts
<1>13. ASSUME ClearSubnets PROVE ReturnedIsStored'
  <2>0. Grow /\ BufferTypes /\ CallTypes /\ SessionTypes /\ StoreTypes /\ PollTypes /\ OtherTypes
    BY <1>13, Grows, TypeParts DEF Next, Call, Finish, Poll
  <2>q. QED BY <1>13, <2>0, CallsAssumption DEF ReturnedIsStored, Grow, CallTypes,
               ClearSubnets
<1>14. ASSUME NextSession PROVE ReturnedIsStored'
  <2>0. Grow /\ BufferTypes /\ CallTypes /\ SessionTypes /\ StoreTypes /\ PollTypes /\ OtherTypes
    BY <1>14, Grows, TypeParts DEF Next, Call, Finish, Poll
  <2>q. QED BY <1>14, <2>0, CallsAssumption DEF ReturnedIsStored, Grow, CallTypes,
               NextSession
<1>15. ASSUME PollHosts PROVE ReturnedIsStored'
  <2>0. Grow /\ BufferTypes /\ CallTypes /\ SessionTypes /\ StoreTypes /\ PollTypes /\ OtherTypes
    BY <1>15, Grows, TypeParts DEF Next, Call, Finish, Poll
  <2>q. QED BY <1>15, <2>0, CallsAssumption DEF ReturnedIsStored, Grow, CallTypes, PollHosts
<1>16. ASSUME PollSubnets PROVE ReturnedIsStored'
  <2>0. Grow /\ BufferTypes /\ CallTypes /\ SessionTypes /\ StoreTypes /\ PollTypes /\ OtherTypes
    BY <1>16, Grows, TypeParts DEF Next, Call, Finish, Poll
  <2>q. QED BY <1>16, <2>0, CallsAssumption DEF ReturnedIsStored, Grow, CallTypes,
               PollSubnets
<1>17. ASSUME PollLost PROVE ReturnedIsStored'
  <2>0. Grow /\ BufferTypes /\ CallTypes /\ SessionTypes /\ StoreTypes /\ PollTypes /\ OtherTypes
    BY <1>17, Grows, TypeParts DEF Next, Call, Finish, Poll
  <2>q. QED BY <1>17, <2>0, CallsAssumption DEF ReturnedIsStored, Grow, CallTypes, PollLost
<1>18. ASSUME ProcessEntities PROVE ReturnedIsStored'
  <2>0. Grow /\ BufferTypes /\ CallTypes /\ SessionTypes /\ StoreTypes /\ PollTypes /\ OtherTypes
    BY <1>18, Grows, TypeParts DEF Next, Call, Finish, Poll
  <2>q. QED BY <1>18, <2>0, CallsAssumption DEF ReturnedIsStored, Grow, CallTypes,
               ProcessEntities
<1>19. ASSUME ConfirmSubnets PROVE ReturnedIsStored'
  <2>0. Grow /\ BufferTypes /\ CallTypes /\ SessionTypes /\ StoreTypes /\ PollTypes /\ OtherTypes
    BY <1>19, Grows, TypeParts DEF Next, Call, Finish, Poll
  <2>q. QED BY <1>19, <2>0, CallsAssumption DEF ReturnedIsStored, Grow, CallTypes,
               ConfirmSubnets
<1>20. ASSUME ConfirmHosts PROVE ReturnedIsStored'
  <2>0. Grow /\ BufferTypes /\ CallTypes /\ SessionTypes /\ StoreTypes /\ PollTypes /\ OtherTypes
    BY <1>20, Grows, TypeParts DEF Next, Call, Finish, Poll
  <2>q. QED BY <1>20, <2>0, CallsAssumption DEF ReturnedIsStored, Grow, CallTypes,
               ConfirmHosts
<1>21. ASSUME ConfirmGivenUp PROVE ReturnedIsStored'
  <2>0. Grow /\ BufferTypes /\ CallTypes /\ SessionTypes /\ StoreTypes /\ PollTypes /\ OtherTypes
    BY <1>21, Grows, TypeParts DEF Next, Call, Finish, Poll
  <2>q. QED BY <1>21, <2>0, CallsAssumption DEF ReturnedIsStored, Grow, CallTypes,
               ConfirmGivenUp
<1>22. ASSUME ConfirmLate PROVE ReturnedIsStored'
  <2>0. Grow /\ BufferTypes /\ CallTypes /\ SessionTypes /\ StoreTypes /\ PollTypes /\ OtherTypes
    BY <1>22, Grows, TypeParts DEF Next, Call, Finish, Poll
  <2>q. QED BY <1>22, <2>0, CallsAssumption DEF ReturnedIsStored, Grow, CallTypes,
               ConfirmLate
<1>q. QED BY <1>1, <1>2, <1>3, <1>4, <1>5, <1>6, <1>7, <1>8, <1>9, <1>10, <1>11, <1>12,
             <1>13, <1>14, <1>15, <1>16, <1>17, <1>18, <1>19, <1>20, <1>21, <1>22 DEF Next,
             Call, Finish, Poll

\* The calls of a session end with its scan.
LEMMA LifetimesStep ==
    ASSUME TypeOK, Lifetimes, [Next]_vars
    PROVE  Lifetimes'
<1>1. CASE UNCHANGED vars
  BY <1>1 DEF Lifetimes, InProgress, vars
<1>2. ASSUME NEW c \in Calls, Create(c) PROVE Lifetimes'
  <2>0. BufferTypes /\ CallTypes /\ SessionTypes /\ StoreTypes /\ PollTypes /\ OtherTypes
    BY TypeParts
  <2>q. QED BY <1>2, <2>0, CallsAssumption, BoundsAssumption DEF Lifetimes, InProgress,
               CallTypes, CallStates, SessionTypes, Create, sessionVars
<1>3. ASSUME NEW c \in Calls, AwaitFinds(c) PROVE Lifetimes'
  <2>0. BufferTypes /\ CallTypes /\ SessionTypes /\ StoreTypes /\ PollTypes /\ OtherTypes
    BY TypeParts
  <2>q. QED BY <1>3, <2>0, CallsAssumption, BoundsAssumption DEF Lifetimes, InProgress,
               CallTypes, CallStates, SessionTypes, AwaitFinds, sessionVars
<1>4. ASSUME NEW c \in Calls, AwaitEnds(c) PROVE Lifetimes'
  <2>0. BufferTypes /\ CallTypes /\ SessionTypes /\ StoreTypes /\ PollTypes /\ OtherTypes
    BY TypeParts
  <2>q. QED BY <1>4, <2>0, CallsAssumption, BoundsAssumption DEF Lifetimes, InProgress,
               CallTypes, CallStates, SessionTypes, AwaitEnds, sessionVars
<1>5. ASSUME NEW c \in Calls, PostArrives(c) PROVE Lifetimes'
  <2>0. BufferTypes /\ CallTypes /\ SessionTypes /\ StoreTypes /\ PollTypes /\ OtherTypes
    BY TypeParts
  <2>q. QED BY <1>5, <2>0, CallsAssumption, BoundsAssumption DEF Lifetimes, InProgress,
               CallTypes, CallStates, SessionTypes, PostArrives, sessionVars
<1>6. ASSUME NEW c \in Calls, PostFails(c) PROVE Lifetimes'
  <2>0. BufferTypes /\ CallTypes /\ SessionTypes /\ StoreTypes /\ PollTypes /\ OtherTypes
    BY TypeParts
  <2>q. QED BY <1>6, <2>0, CallsAssumption, BoundsAssumption DEF Lifetimes, InProgress,
               CallTypes, CallStates, SessionTypes, PostFails, sessionVars
<1>7. ASSUME NEW c \in Calls, PostReturns(c) PROVE Lifetimes'
  <2>0. BufferTypes /\ CallTypes /\ SessionTypes /\ StoreTypes /\ PollTypes /\ OtherTypes
    BY TypeParts
  <2>q. QED BY <1>7, <2>0, CallsAssumption, BoundsAssumption DEF Lifetimes, InProgress,
               CallTypes, CallStates, SessionTypes, PostReturns, sessionVars
<1>8. ASSUME CancelSession PROVE Lifetimes'
  <2>0. BufferTypes /\ CallTypes /\ SessionTypes /\ StoreTypes /\ PollTypes /\ OtherTypes
    BY TypeParts
  <2>q. QED BY <1>8, <2>0, CallsAssumption, BoundsAssumption DEF Lifetimes, InProgress,
               CallTypes, CallStates, SessionTypes, CancelSession, sessionVars
<1>9. ASSUME EndScan PROVE Lifetimes'
  <2>0. BufferTypes /\ CallTypes /\ SessionTypes /\ StoreTypes /\ PollTypes /\ OtherTypes
    BY TypeParts
  <2>q. QED BY <1>9, <2>0, CallsAssumption, BoundsAssumption DEF Lifetimes, InProgress,
               CallTypes, CallStates, SessionTypes, EndScan, sessionVars
<1>10. ASSUME ReadScannedSubnets PROVE Lifetimes'
  <2>0. BufferTypes /\ CallTypes /\ SessionTypes /\ StoreTypes /\ PollTypes /\ OtherTypes
    BY TypeParts
  <2>q. QED BY <1>10, <2>0, CallsAssumption, BoundsAssumption DEF Lifetimes, InProgress,
               CallTypes, CallStates, SessionTypes, ReadScannedSubnets, sessionVars
<1>11. ASSUME ReadScannedHosts PROVE Lifetimes'
  <2>0. BufferTypes /\ CallTypes /\ SessionTypes /\ StoreTypes /\ PollTypes /\ OtherTypes
    BY TypeParts
  <2>q. QED BY <1>11, <2>0, CallsAssumption, BoundsAssumption DEF Lifetimes, InProgress,
               CallTypes, CallStates, SessionTypes, ReadScannedHosts, sessionVars
<1>12. ASSUME ClearHosts PROVE Lifetimes'
  <2>0. BufferTypes /\ CallTypes /\ SessionTypes /\ StoreTypes /\ PollTypes /\ OtherTypes
    BY TypeParts
  <2>q. QED BY <1>12, <2>0, CallsAssumption, BoundsAssumption DEF Lifetimes, InProgress,
               CallTypes, CallStates, SessionTypes, ClearHosts, sessionVars
<1>13. ASSUME ClearSubnets PROVE Lifetimes'
  <2>0. BufferTypes /\ CallTypes /\ SessionTypes /\ StoreTypes /\ PollTypes /\ OtherTypes
    BY TypeParts
  <2>q. QED BY <1>13, <2>0, CallsAssumption, BoundsAssumption DEF Lifetimes, InProgress,
               CallTypes, CallStates, SessionTypes, ClearSubnets, sessionVars
<1>14. ASSUME NextSession PROVE Lifetimes'
  <2>0. BufferTypes /\ CallTypes /\ SessionTypes /\ StoreTypes /\ PollTypes /\ OtherTypes
    BY TypeParts
  <2>q. QED BY <1>14, <2>0, CallsAssumption, BoundsAssumption DEF Lifetimes, InProgress,
               CallTypes, CallStates, SessionTypes, NextSession, sessionVars
<1>15. ASSUME PollHosts PROVE Lifetimes'
  <2>0. BufferTypes /\ CallTypes /\ SessionTypes /\ StoreTypes /\ PollTypes /\ OtherTypes
    BY TypeParts
  <2>q. QED BY <1>15, <2>0, CallsAssumption, BoundsAssumption DEF Lifetimes, InProgress,
               CallTypes, CallStates, SessionTypes, PollHosts, sessionVars
<1>16. ASSUME PollSubnets PROVE Lifetimes'
  <2>0. BufferTypes /\ CallTypes /\ SessionTypes /\ StoreTypes /\ PollTypes /\ OtherTypes
    BY TypeParts
  <2>q. QED BY <1>16, <2>0, CallsAssumption, BoundsAssumption DEF Lifetimes, InProgress,
               CallTypes, CallStates, SessionTypes, PollSubnets, sessionVars
<1>17. ASSUME PollLost PROVE Lifetimes'
  <2>0. BufferTypes /\ CallTypes /\ SessionTypes /\ StoreTypes /\ PollTypes /\ OtherTypes
    BY TypeParts
  <2>q. QED BY <1>17, <2>0, CallsAssumption, BoundsAssumption DEF Lifetimes, InProgress,
               CallTypes, CallStates, SessionTypes, PollLost, sessionVars
<1>18. ASSUME ProcessEntities PROVE Lifetimes'
  <2>0. BufferTypes /\ CallTypes /\ SessionTypes /\ StoreTypes /\ PollTypes /\ OtherTypes
    BY TypeParts
  <2>q. QED BY <1>18, <2>0, CallsAssumption, BoundsAssumption DEF Lifetimes, InProgress,
               CallTypes, CallStates, SessionTypes, ProcessEntities, sessionVars
<1>19. ASSUME ConfirmSubnets PROVE Lifetimes'
  <2>0. BufferTypes /\ CallTypes /\ SessionTypes /\ StoreTypes /\ PollTypes /\ OtherTypes
    BY TypeParts
  <2>q. QED BY <1>19, <2>0, CallsAssumption, BoundsAssumption DEF Lifetimes, InProgress,
               CallTypes, CallStates, SessionTypes, ConfirmSubnets, sessionVars
<1>20. ASSUME ConfirmHosts PROVE Lifetimes'
  <2>0. BufferTypes /\ CallTypes /\ SessionTypes /\ StoreTypes /\ PollTypes /\ OtherTypes
    BY TypeParts
  <2>q. QED BY <1>20, <2>0, CallsAssumption, BoundsAssumption DEF Lifetimes, InProgress,
               CallTypes, CallStates, SessionTypes, ConfirmHosts, sessionVars
<1>21. ASSUME ConfirmGivenUp PROVE Lifetimes'
  <2>0. BufferTypes /\ CallTypes /\ SessionTypes /\ StoreTypes /\ PollTypes /\ OtherTypes
    BY TypeParts
  <2>q. QED BY <1>21, <2>0, CallsAssumption, BoundsAssumption DEF Lifetimes, InProgress,
               CallTypes, CallStates, SessionTypes, ConfirmGivenUp, sessionVars
<1>22. ASSUME ConfirmLate PROVE Lifetimes'
  <2>0. BufferTypes /\ CallTypes /\ SessionTypes /\ StoreTypes /\ PollTypes /\ OtherTypes
    BY TypeParts
  <2>q. QED BY <1>22, <2>0, CallsAssumption, BoundsAssumption DEF Lifetimes, InProgress,
               CallTypes, CallStates, SessionTypes, ConfirmLate, sessionVars
<1>q. QED BY <1>1, <1>2, <1>3, <1>4, <1>5, <1>6, <1>7, <1>8, <1>9, <1>10, <1>11, <1>12,
             <1>13, <1>14, <1>15, <1>16, <1>17, <1>18, <1>19, <1>20, <1>21, <1>22 DEF Next,
             Call, Finish, Poll

\* Nothing touches the host of an early report before the report is over.
LEMMA EarlyFirstStep ==
    ASSUME TypeOK, EarlyFirst, [Next]_vars
    PROVE  EarlyFirst'
<1>1. CASE UNCHANGED vars
  BY <1>1 DEF EarlyFirst, vars
<1>2. ASSUME NEW c \in Calls, Create(c) PROVE EarlyFirst'
  <2>0. BufferTypes /\ CallTypes /\ SessionTypes /\ StoreTypes /\ PollTypes /\ OtherTypes
    BY TypeParts
  <2>1. ASSUME NEW x \in Calls, NEW d \in Calls, d \in Early, x # d, Target[x] = Target[d], pc'[x] # "idle"
        PROVE  pc'[d] = "ok"
    <3>1. CASE x = c
      <4>1. After[c] = d /\ After[c] # None
        BY <2>1, <3>1, CallsAssumption, BoundsAssumption
      <4>q. QED BY <1>2, <2>0, <2>1, <3>1, <4>1 DEF Create, CallTypes
    <3>2. CASE x # c
      BY <1>2, <2>0, <2>1, <3>2 DEF EarlyFirst, Create, CallTypes
    <3>q. QED BY <3>1, <3>2
  <2>q. QED BY <2>1 DEF EarlyFirst
<1>3. ASSUME NEW c \in Calls, AwaitFinds(c) PROVE EarlyFirst'
  <2>0. BufferTypes /\ CallTypes /\ SessionTypes /\ StoreTypes /\ PollTypes /\ OtherTypes
    BY TypeParts
  <2>q. QED BY <1>3, <2>0 DEF EarlyFirst, CallTypes, AwaitFinds
<1>4. ASSUME NEW c \in Calls, AwaitEnds(c) PROVE EarlyFirst'
  <2>0. BufferTypes /\ CallTypes /\ SessionTypes /\ StoreTypes /\ PollTypes /\ OtherTypes
    BY TypeParts
  <2>q. QED BY <1>4, <2>0 DEF EarlyFirst, CallTypes, AwaitEnds
<1>5. ASSUME NEW c \in Calls, PostArrives(c) PROVE EarlyFirst'
  <2>0. BufferTypes /\ CallTypes /\ SessionTypes /\ StoreTypes /\ PollTypes /\ OtherTypes
    BY TypeParts
  <2>q. QED BY <1>5, <2>0 DEF EarlyFirst, CallTypes, PostArrives
<1>6. ASSUME NEW c \in Calls, PostFails(c) PROVE EarlyFirst'
  <2>0. BufferTypes /\ CallTypes /\ SessionTypes /\ StoreTypes /\ PollTypes /\ OtherTypes
    BY TypeParts
  <2>q. QED BY <1>6, <2>0 DEF EarlyFirst, CallTypes, PostFails
<1>7. ASSUME NEW c \in Calls, PostReturns(c) PROVE EarlyFirst'
  <2>0. BufferTypes /\ CallTypes /\ SessionTypes /\ StoreTypes /\ PollTypes /\ OtherTypes
    BY TypeParts
  <2>q. QED BY <1>7, <2>0 DEF EarlyFirst, CallTypes, PostReturns
<1>8. ASSUME CancelSession PROVE EarlyFirst'
  <2>0. BufferTypes /\ CallTypes /\ SessionTypes /\ StoreTypes /\ PollTypes /\ OtherTypes
    BY TypeParts
  <2>q. QED BY <1>8, <2>0 DEF EarlyFirst, CallTypes, CancelSession
<1>9. ASSUME EndScan PROVE EarlyFirst'
  <2>0. BufferTypes /\ CallTypes /\ SessionTypes /\ StoreTypes /\ PollTypes /\ OtherTypes
    BY TypeParts
  <2>q. QED BY <1>9, <2>0 DEF EarlyFirst, CallTypes, EndScan, InProgress
<1>10. ASSUME ReadScannedSubnets PROVE EarlyFirst'
  <2>0. BufferTypes /\ CallTypes /\ SessionTypes /\ StoreTypes /\ PollTypes /\ OtherTypes
    BY TypeParts
  <2>q. QED BY <1>10, <2>0 DEF EarlyFirst, CallTypes, ReadScannedSubnets
<1>11. ASSUME ReadScannedHosts PROVE EarlyFirst'
  <2>0. BufferTypes /\ CallTypes /\ SessionTypes /\ StoreTypes /\ PollTypes /\ OtherTypes
    BY TypeParts
  <2>q. QED BY <1>11, <2>0 DEF EarlyFirst, CallTypes, ReadScannedHosts
<1>12. ASSUME ClearHosts PROVE EarlyFirst'
  <2>0. BufferTypes /\ CallTypes /\ SessionTypes /\ StoreTypes /\ PollTypes /\ OtherTypes
    BY TypeParts
  <2>q. QED BY <1>12, <2>0 DEF EarlyFirst, CallTypes, ClearHosts
<1>13. ASSUME ClearSubnets PROVE EarlyFirst'
  <2>0. BufferTypes /\ CallTypes /\ SessionTypes /\ StoreTypes /\ PollTypes /\ OtherTypes
    BY TypeParts
  <2>q. QED BY <1>13, <2>0 DEF EarlyFirst, CallTypes, ClearSubnets
<1>14. ASSUME NextSession PROVE EarlyFirst'
  <2>0. BufferTypes /\ CallTypes /\ SessionTypes /\ StoreTypes /\ PollTypes /\ OtherTypes
    BY TypeParts
  <2>q. QED BY <1>14, <2>0 DEF EarlyFirst, CallTypes, NextSession
<1>15. ASSUME PollHosts PROVE EarlyFirst'
  <2>0. BufferTypes /\ CallTypes /\ SessionTypes /\ StoreTypes /\ PollTypes /\ OtherTypes
    BY TypeParts
  <2>q. QED BY <1>15, <2>0 DEF EarlyFirst, CallTypes, PollHosts
<1>16. ASSUME PollSubnets PROVE EarlyFirst'
  <2>0. BufferTypes /\ CallTypes /\ SessionTypes /\ StoreTypes /\ PollTypes /\ OtherTypes
    BY TypeParts
  <2>q. QED BY <1>16, <2>0 DEF EarlyFirst, CallTypes, PollSubnets
<1>17. ASSUME PollLost PROVE EarlyFirst'
  <2>0. BufferTypes /\ CallTypes /\ SessionTypes /\ StoreTypes /\ PollTypes /\ OtherTypes
    BY TypeParts
  <2>q. QED BY <1>17, <2>0 DEF EarlyFirst, CallTypes, PollLost
<1>18. ASSUME ProcessEntities PROVE EarlyFirst'
  <2>0. BufferTypes /\ CallTypes /\ SessionTypes /\ StoreTypes /\ PollTypes /\ OtherTypes
    BY TypeParts
  <2>q. QED BY <1>18, <2>0 DEF EarlyFirst, CallTypes, ProcessEntities
<1>19. ASSUME ConfirmSubnets PROVE EarlyFirst'
  <2>0. BufferTypes /\ CallTypes /\ SessionTypes /\ StoreTypes /\ PollTypes /\ OtherTypes
    BY TypeParts
  <2>q. QED BY <1>19, <2>0 DEF EarlyFirst, CallTypes, ConfirmSubnets
<1>20. ASSUME ConfirmHosts PROVE EarlyFirst'
  <2>0. BufferTypes /\ CallTypes /\ SessionTypes /\ StoreTypes /\ PollTypes /\ OtherTypes
    BY TypeParts
  <2>q. QED BY <1>20, <2>0 DEF EarlyFirst, CallTypes, ConfirmHosts
<1>21. ASSUME ConfirmGivenUp PROVE EarlyFirst'
  <2>0. BufferTypes /\ CallTypes /\ SessionTypes /\ StoreTypes /\ PollTypes /\ OtherTypes
    BY TypeParts
  <2>q. QED BY <1>21, <2>0 DEF EarlyFirst, CallTypes, ConfirmGivenUp
<1>22. ASSUME ConfirmLate PROVE EarlyFirst'
  <2>0. BufferTypes /\ CallTypes /\ SessionTypes /\ StoreTypes /\ PollTypes /\ OtherTypes
    BY TypeParts
  <2>q. QED BY <1>22, <2>0 DEF EarlyFirst, CallTypes, ConfirmLate
<1>q. QED BY <1>1, <1>2, <1>3, <1>4, <1>5, <1>6, <1>7, <1>8, <1>9, <1>10, <1>11, <1>12,
             <1>13, <1>14, <1>15, <1>16, <1>17, <1>18, <1>19, <1>20, <1>21, <1>22 DEF Next,
             Call, Finish, Poll

\* No step but a Create puts an entity into the buffer, and what is there
\* stays, Created if it was, until it is cleared.
Stays ==
    \A e \in Entities :
        /\ entry[e] = "none" => entry'[e] = "none"
        /\ entry[e] # "none" => entry'[e] # "none"
        /\ entry[e] = "created" => entry'[e] = "created"

\* Marking is such a step.
LEMMA MarkStays ==
    ASSUME BufferTypes, NEW S \in SUBSET Carried, MarkCreated(S)
    PROVE  Stays
<1>1. ASSUME NEW e \in Entities
      PROVE  /\ entry[e] = "none" => entry'[e] = "none"
             /\ entry[e] # "none" => entry'[e] # "none"
             /\ entry[e] = "created" => entry'[e] = "created"
  BY MarkEffect DEF Markable
<1>q. QED BY <1>1 DEF Stays

\* So are the steps that mark.
LEMMA MarkersStay ==
    ASSUME TypeOK, (\E c \in Calls : PostReturns(c)) \/ ConfirmSubnets \/ ConfirmHosts \/ ConfirmLate
    PROVE  Stays
<1>1. ASSUME NEW c \in Calls, PostReturns(c) PROVE Stays
  <2>0. BufferTypes /\ CallTypes /\ SessionTypes /\ StoreTypes /\ PollTypes /\ OtherTypes
    BY TypeParts
  <2>1. CASE UNCHANGED bufferVars BY <2>1 DEF Stays, bufferVars
  <2>2. {<<Target[c], reply[c]>>} \in SUBSET Carried
    BY <2>0, CallsAssumption DEF Carried, CallTypes
  <2>q. QED BY <1>1, <2>0, <2>1, <2>2, MarkStays DEF PostReturns
<1>2. ASSUME ConfirmSubnets PROVE Stays
  <2>0. BufferTypes /\ CallTypes /\ SessionTypes /\ StoreTypes /\ PollTypes /\ OtherTypes
    BY TypeParts
  <2>1. OfKind(confirm, Subnets) \in SUBSET Carried
    BY <2>0 DEF OfKind, PollTypes
  <2>q. QED BY <1>2, <2>0, <2>1, MarkStays DEF ConfirmSubnets
<1>3. ASSUME ConfirmHosts PROVE Stays
  <2>0. BufferTypes /\ CallTypes /\ SessionTypes /\ StoreTypes /\ PollTypes /\ OtherTypes
    BY TypeParts
  <2>1. OfKind(confirm, Hosts) \in SUBSET Carried
    BY <2>0 DEF OfKind, PollTypes
  <2>q. QED BY <1>3, <2>0, <2>1, MarkStays DEF ConfirmHosts
<1>4. ASSUME ConfirmLate PROVE Stays
  <2>0. BufferTypes /\ CallTypes /\ SessionTypes /\ StoreTypes /\ PollTypes /\ OtherTypes
    BY TypeParts
  <2>1. PICK part \in SUBSET late : MarkCreated(part)
    BY <1>4 DEF ConfirmLate, OfKind
  <2>q. QED BY <2>0, <2>1, MarkStays DEF PollTypes
<1>q. QED BY <1>1, <1>2, <1>3, <1>4

\* The buffer is filled by this session's calls only, and emptied at its end.
LEMMA BufferStep ==
    ASSUME TypeOK, Lifetimes, Buffer, [Next]_vars
    PROVE  Buffer'
<1>1. CASE UNCHANGED vars
  BY <1>1 DEF Buffer, Owned, Present, Emptied, Made, vars
<1>2. ASSUME NEW c \in Calls, Create(c) PROVE Buffer'
  <2>0. BufferTypes /\ CallTypes /\ SessionTypes /\ StoreTypes /\ PollTypes /\ OtherTypes
    BY TypeParts
  <2>1. Owned'
    BY <1>2, <2>0, CallsAssumption DEF Buffer, Made, BufferTypes, CallTypes, CallStates,
       SessionTypes, Create, sessionVars, PushEntity, Owned
  <2>2. Present'
    BY <1>2, <2>0, CallsAssumption DEF Buffer, Made, BufferTypes, CallTypes, CallStates,
       SessionTypes, Create, sessionVars, PushEntity, Present
  <2>3. Emptied'
    BY <1>2, <2>0 DEF Buffer, Made, BufferTypes, CallTypes, CallStates, SessionTypes,
       Create, sessionVars, PushEntity, Emptied, Entities
  <2>q. QED BY <2>1, <2>2, <2>3 DEF Buffer
<1>3. ASSUME NEW c \in Calls, AwaitFinds(c) PROVE Buffer'
  <2>0. BufferTypes /\ CallTypes /\ SessionTypes /\ StoreTypes /\ PollTypes /\ OtherTypes
    BY TypeParts
  <2>s. Stays
    BY <1>3 DEF Stays, AwaitFinds, bufferVars
  <2>1. Owned'
    BY <1>3, <2>0, <2>s, CallsAssumption DEF Buffer, Made, BufferTypes, CallTypes,
       CallStates, SessionTypes, AwaitFinds, sessionVars, Stays, Owned
  <2>2. Present'
    BY <1>3, <2>0, <2>s, CallsAssumption DEF Buffer, Made, BufferTypes, CallTypes,
       CallStates, SessionTypes, AwaitFinds, sessionVars, Stays, Present
  <2>3. Emptied'
    BY <1>3, <2>0, <2>s DEF Buffer, Made, BufferTypes, CallTypes, CallStates, SessionTypes,
       AwaitFinds, sessionVars, Stays, Emptied, Entities
  <2>q. QED BY <2>1, <2>2, <2>3 DEF Buffer
<1>4. ASSUME NEW c \in Calls, AwaitEnds(c) PROVE Buffer'
  <2>0. BufferTypes /\ CallTypes /\ SessionTypes /\ StoreTypes /\ PollTypes /\ OtherTypes
    BY TypeParts
  <2>s. Stays
    BY <1>4 DEF Stays, AwaitEnds, bufferVars
  <2>1. Owned'
    BY <1>4, <2>0, <2>s, CallsAssumption DEF Buffer, Made, BufferTypes, CallTypes,
       CallStates, SessionTypes, AwaitEnds, sessionVars, Stays, Owned
  <2>2. Present'
    BY <1>4, <2>0, <2>s, CallsAssumption DEF Buffer, Made, BufferTypes, CallTypes,
       CallStates, SessionTypes, AwaitEnds, sessionVars, Stays, Present
  <2>3. Emptied'
    BY <1>4, <2>0, <2>s DEF Buffer, Made, BufferTypes, CallTypes, CallStates, SessionTypes,
       AwaitEnds, sessionVars, Stays, Emptied, Entities
  <2>q. QED BY <2>1, <2>2, <2>3 DEF Buffer
<1>5. ASSUME NEW c \in Calls, PostArrives(c) PROVE Buffer'
  <2>0. BufferTypes /\ CallTypes /\ SessionTypes /\ StoreTypes /\ PollTypes /\ OtherTypes
    BY TypeParts
  <2>s. Stays
    BY <1>5 DEF Stays, PostArrives, bufferVars
  <2>1. Owned'
    BY <1>5, <2>0, <2>s, CallsAssumption DEF Buffer, Made, BufferTypes, CallTypes,
       CallStates, SessionTypes, PostArrives, sessionVars, Stays, Owned
  <2>2. Present'
    BY <1>5, <2>0, <2>s, CallsAssumption DEF Buffer, Made, BufferTypes, CallTypes,
       CallStates, SessionTypes, PostArrives, sessionVars, Stays, Present
  <2>3. Emptied'
    BY <1>5, <2>0, <2>s DEF Buffer, Made, BufferTypes, CallTypes, CallStates, SessionTypes,
       PostArrives, sessionVars, Stays, Emptied, Entities
  <2>q. QED BY <2>1, <2>2, <2>3 DEF Buffer
<1>6. ASSUME NEW c \in Calls, PostFails(c) PROVE Buffer'
  <2>0. BufferTypes /\ CallTypes /\ SessionTypes /\ StoreTypes /\ PollTypes /\ OtherTypes
    BY TypeParts
  <2>s. Stays
    BY <1>6 DEF Stays, PostFails, bufferVars
  <2>1. Owned'
    BY <1>6, <2>0, <2>s, CallsAssumption DEF Buffer, Made, BufferTypes, CallTypes,
       CallStates, SessionTypes, PostFails, sessionVars, Stays, Owned
  <2>2. Present'
    BY <1>6, <2>0, <2>s, CallsAssumption DEF Buffer, Made, BufferTypes, CallTypes,
       CallStates, SessionTypes, PostFails, sessionVars, Stays, Present
  <2>3. Emptied'
    BY <1>6, <2>0, <2>s DEF Buffer, Made, BufferTypes, CallTypes, CallStates, SessionTypes,
       PostFails, sessionVars, Stays, Emptied, Entities
  <2>q. QED BY <2>1, <2>2, <2>3 DEF Buffer
<1>7. ASSUME NEW c \in Calls, PostReturns(c) PROVE Buffer'
  <2>0. BufferTypes /\ CallTypes /\ SessionTypes /\ StoreTypes /\ PollTypes /\ OtherTypes
    BY TypeParts
  <2>s. Stays
    BY <1>7, MarkersStay
  <2>1. Owned'
    BY <1>7, <2>0, <2>s, CallsAssumption DEF Buffer, Made, BufferTypes, CallTypes,
       CallStates, SessionTypes, PostReturns, sessionVars, Stays, Owned
  <2>2. Present'
    BY <1>7, <2>0, <2>s, CallsAssumption DEF Buffer, Made, BufferTypes, CallTypes,
       CallStates, SessionTypes, PostReturns, sessionVars, Stays, Present
  <2>3. Emptied'
    BY <1>7, <2>0, <2>s DEF Buffer, Made, BufferTypes, CallTypes, CallStates, SessionTypes,
       PostReturns, sessionVars, Stays, Emptied, Entities
  <2>q. QED BY <2>1, <2>2, <2>3 DEF Buffer
<1>8. ASSUME CancelSession PROVE Buffer'
  <2>0. BufferTypes /\ CallTypes /\ SessionTypes /\ StoreTypes /\ PollTypes /\ OtherTypes
    BY TypeParts
  <2>s. Stays
    BY <1>8 DEF Stays, CancelSession, bufferVars
  <2>1. Owned'
    BY <1>8, <2>0, <2>s, CallsAssumption DEF Buffer, Made, BufferTypes, CallTypes,
       CallStates, SessionTypes, CancelSession, sessionVars, Stays, Owned
  <2>2. Present'
    BY <1>8, <2>0, <2>s, CallsAssumption DEF Buffer, Made, BufferTypes, CallTypes,
       CallStates, SessionTypes, CancelSession, sessionVars, Stays, Present
  <2>3. Emptied'
    BY <1>8, <2>0, <2>s DEF Buffer, Made, BufferTypes, CallTypes, CallStates, SessionTypes,
       CancelSession, sessionVars, Stays, Emptied, Entities
  <2>q. QED BY <2>1, <2>2, <2>3 DEF Buffer
<1>9. ASSUME EndScan PROVE Buffer'
  <2>0. BufferTypes /\ CallTypes /\ SessionTypes /\ StoreTypes /\ PollTypes /\ OtherTypes
    BY TypeParts
  <2>s. Stays
    BY <1>9 DEF Stays, EndScan, bufferVars
  <2>1. Owned'
    BY <1>9, <2>0, <2>s, CallsAssumption DEF Buffer, Made, BufferTypes, CallTypes,
       CallStates, SessionTypes, EndScan, sessionVars, Stays, InProgress, Owned
  <2>2. Present'
    BY <1>9, <2>0, <2>s, CallsAssumption DEF Buffer, Made, BufferTypes, CallTypes,
       CallStates, SessionTypes, EndScan, sessionVars, Stays, InProgress, Present
  <2>3. Emptied'
    BY <1>9, <2>0, <2>s DEF Buffer, Made, BufferTypes, CallTypes, CallStates, SessionTypes,
       EndScan, sessionVars, Stays, InProgress, Emptied, Entities
  <2>q. QED BY <2>1, <2>2, <2>3 DEF Buffer
<1>10. ASSUME ReadScannedSubnets PROVE Buffer'
  <2>0. BufferTypes /\ CallTypes /\ SessionTypes /\ StoreTypes /\ PollTypes /\ OtherTypes
    BY TypeParts
  <2>s. Stays
    BY <1>10 DEF Stays, ReadScannedSubnets, bufferVars
  <2>1. Owned'
    BY <1>10, <2>0, <2>s, CallsAssumption DEF Buffer, Made, BufferTypes, CallTypes,
       CallStates, SessionTypes, ReadScannedSubnets, sessionVars, Stays, Owned
  <2>2. Present'
    BY <1>10, <2>0, <2>s, CallsAssumption DEF Buffer, Made, BufferTypes, CallTypes,
       CallStates, SessionTypes, ReadScannedSubnets, sessionVars, Stays, Present
  <2>3. Emptied'
    BY <1>10, <2>0, <2>s DEF Buffer, Made, BufferTypes, CallTypes, CallStates,
       SessionTypes, ReadScannedSubnets, sessionVars, Stays, Emptied, Entities
  <2>q. QED BY <2>1, <2>2, <2>3 DEF Buffer
<1>11. ASSUME ReadScannedHosts PROVE Buffer'
  <2>0. BufferTypes /\ CallTypes /\ SessionTypes /\ StoreTypes /\ PollTypes /\ OtherTypes
    BY TypeParts
  <2>s. Stays
    BY <1>11 DEF Stays, ReadScannedHosts, bufferVars
  <2>1. Owned'
    BY <1>11, <2>0, <2>s, CallsAssumption DEF Buffer, Made, BufferTypes, CallTypes,
       CallStates, SessionTypes, ReadScannedHosts, sessionVars, Stays, Owned
  <2>2. Present'
    BY <1>11, <2>0, <2>s, CallsAssumption DEF Buffer, Made, BufferTypes, CallTypes,
       CallStates, SessionTypes, ReadScannedHosts, sessionVars, Stays, Present
  <2>3. Emptied'
    BY <1>11, <2>0, <2>s DEF Buffer, Made, BufferTypes, CallTypes, CallStates,
       SessionTypes, ReadScannedHosts, sessionVars, Stays, Emptied, Entities
  <2>q. QED BY <2>1, <2>2, <2>3 DEF Buffer
<1>12. ASSUME ClearHosts PROVE Buffer'
  <2>0. BufferTypes /\ CallTypes /\ SessionTypes /\ StoreTypes /\ PollTypes /\ OtherTypes
    BY TypeParts
  <2>1. Owned'
    BY <1>12, <2>0, CallsAssumption DEF Buffer, Made, BufferTypes, CallTypes, CallStates,
       SessionTypes, ClearHosts, sessionVars, Clear, Owned, Entities
  <2>2. Present'
    BY <1>12, <2>0, CallsAssumption DEF Buffer, Made, BufferTypes, CallTypes, CallStates,
       SessionTypes, ClearHosts, sessionVars, Clear, Present
  <2>3. Emptied'
    BY <1>12, <2>0 DEF Buffer, Made, BufferTypes, CallTypes, CallStates, SessionTypes,
       ClearHosts, sessionVars, Clear, Emptied, Entities
  <2>q. QED BY <2>1, <2>2, <2>3 DEF Buffer
<1>13. ASSUME ClearSubnets PROVE Buffer'
  <2>0. BufferTypes /\ CallTypes /\ SessionTypes /\ StoreTypes /\ PollTypes /\ OtherTypes
    BY TypeParts
  <2>1. Owned'
    BY <1>13, <2>0, CallsAssumption DEF Buffer, Made, BufferTypes, CallTypes, CallStates,
       SessionTypes, ClearSubnets, sessionVars, Clear, Owned, Entities
  <2>2. Present'
    BY <1>13, <2>0, CallsAssumption DEF Buffer, Made, BufferTypes, CallTypes, CallStates,
       SessionTypes, ClearSubnets, sessionVars, Clear, Present
  <2>3. Emptied'
    BY <1>13, <2>0 DEF Buffer, Made, BufferTypes, CallTypes, CallStates, SessionTypes,
       ClearSubnets, sessionVars, Clear, Emptied, Entities
  <2>q. QED BY <2>1, <2>2, <2>3 DEF Buffer
<1>14. ASSUME NextSession PROVE Buffer'
  <2>0. BufferTypes /\ CallTypes /\ SessionTypes /\ StoreTypes /\ PollTypes /\ OtherTypes
    BY TypeParts
  <2>s. Stays
    BY <1>14 DEF Stays, NextSession, bufferVars
  <2>1. Owned'
    BY <1>14, <2>0, <2>s, CallsAssumption DEF Buffer, Made, BufferTypes, CallTypes,
       CallStates, SessionTypes, NextSession, sessionVars, Stays, Owned, Emptied, Entities
  <2>2. Present'
    BY <1>14, <2>0, <2>s, CallsAssumption, BoundsAssumption DEF Buffer, Made, BufferTypes,
       CallTypes, CallStates, SessionTypes, NextSession, sessionVars, Stays, Present,
       Lifetimes
  <2>3. Emptied'
    BY <1>14, <2>0, <2>s DEF Buffer, Made, BufferTypes, CallTypes, CallStates,
       SessionTypes, NextSession, sessionVars, Stays, Emptied, Entities
  <2>q. QED BY <2>1, <2>2, <2>3 DEF Buffer
<1>15. ASSUME PollHosts PROVE Buffer'
  <2>0. BufferTypes /\ CallTypes /\ SessionTypes /\ StoreTypes /\ PollTypes /\ OtherTypes
    BY TypeParts
  <2>s. Stays
    BY <1>15 DEF Stays, PollHosts, bufferVars
  <2>1. Owned'
    BY <1>15, <2>0, <2>s, CallsAssumption DEF Buffer, Made, BufferTypes, CallTypes,
       CallStates, SessionTypes, PollHosts, sessionVars, Stays, Owned
  <2>2. Present'
    BY <1>15, <2>0, <2>s, CallsAssumption DEF Buffer, Made, BufferTypes, CallTypes,
       CallStates, SessionTypes, PollHosts, sessionVars, Stays, Present
  <2>3. Emptied'
    BY <1>15, <2>0, <2>s DEF Buffer, Made, BufferTypes, CallTypes, CallStates,
       SessionTypes, PollHosts, sessionVars, Stays, Emptied, Entities
  <2>q. QED BY <2>1, <2>2, <2>3 DEF Buffer
<1>16. ASSUME PollSubnets PROVE Buffer'
  <2>0. BufferTypes /\ CallTypes /\ SessionTypes /\ StoreTypes /\ PollTypes /\ OtherTypes
    BY TypeParts
  <2>s. Stays
    BY <1>16 DEF Stays, PollSubnets, bufferVars
  <2>1. Owned'
    BY <1>16, <2>0, <2>s, CallsAssumption DEF Buffer, Made, BufferTypes, CallTypes,
       CallStates, SessionTypes, PollSubnets, sessionVars, Stays, Owned
  <2>2. Present'
    BY <1>16, <2>0, <2>s, CallsAssumption DEF Buffer, Made, BufferTypes, CallTypes,
       CallStates, SessionTypes, PollSubnets, sessionVars, Stays, Present
  <2>3. Emptied'
    BY <1>16, <2>0, <2>s DEF Buffer, Made, BufferTypes, CallTypes, CallStates,
       SessionTypes, PollSubnets, sessionVars, Stays, Emptied, Entities
  <2>q. QED BY <2>1, <2>2, <2>3 DEF Buffer
<1>17. ASSUME PollLost PROVE Buffer'
  <2>0. BufferTypes /\ CallTypes /\ SessionTypes /\ StoreTypes /\ PollTypes /\ OtherTypes
    BY TypeParts
  <2>s. Stays
    BY <1>17 DEF Stays, PollLost, bufferVars
  <2>1. Owned'
    BY <1>17, <2>0, <2>s, CallsAssumption DEF Buffer, Made, BufferTypes, CallTypes,
       CallStates, SessionTypes, PollLost, sessionVars, Stays, Owned
  <2>2. Present'
    BY <1>17, <2>0, <2>s, CallsAssumption DEF Buffer, Made, BufferTypes, CallTypes,
       CallStates, SessionTypes, PollLost, sessionVars, Stays, Present
  <2>3. Emptied'
    BY <1>17, <2>0, <2>s DEF Buffer, Made, BufferTypes, CallTypes, CallStates,
       SessionTypes, PollLost, sessionVars, Stays, Emptied, Entities
  <2>q. QED BY <2>1, <2>2, <2>3 DEF Buffer
<1>18. ASSUME ProcessEntities PROVE Buffer'
  <2>0. BufferTypes /\ CallTypes /\ SessionTypes /\ StoreTypes /\ PollTypes /\ OtherTypes
    BY TypeParts
  <2>s. Stays
    BY <1>18 DEF Stays, ProcessEntities, bufferVars
  <2>1. Owned'
    BY <1>18, <2>0, <2>s, CallsAssumption DEF Buffer, Made, BufferTypes, CallTypes,
       CallStates, SessionTypes, ProcessEntities, sessionVars, Stays, Owned
  <2>2. Present'
    BY <1>18, <2>0, <2>s, CallsAssumption DEF Buffer, Made, BufferTypes, CallTypes,
       CallStates, SessionTypes, ProcessEntities, sessionVars, Stays, Present
  <2>3. Emptied'
    BY <1>18, <2>0, <2>s DEF Buffer, Made, BufferTypes, CallTypes, CallStates,
       SessionTypes, ProcessEntities, sessionVars, Stays, Emptied, Entities
  <2>q. QED BY <2>1, <2>2, <2>3 DEF Buffer
<1>19. ASSUME ConfirmSubnets PROVE Buffer'
  <2>0. BufferTypes /\ CallTypes /\ SessionTypes /\ StoreTypes /\ PollTypes /\ OtherTypes
    BY TypeParts
  <2>s. Stays
    BY <1>19, MarkersStay
  <2>1. Owned'
    BY <1>19, <2>0, <2>s, CallsAssumption DEF Buffer, Made, BufferTypes, CallTypes,
       CallStates, SessionTypes, ConfirmSubnets, sessionVars, Stays, Owned
  <2>2. Present'
    BY <1>19, <2>0, <2>s, CallsAssumption DEF Buffer, Made, BufferTypes, CallTypes,
       CallStates, SessionTypes, ConfirmSubnets, sessionVars, Stays, Present
  <2>3. Emptied'
    BY <1>19, <2>0, <2>s DEF Buffer, Made, BufferTypes, CallTypes, CallStates,
       SessionTypes, ConfirmSubnets, sessionVars, Stays, Emptied, Entities
  <2>q. QED BY <2>1, <2>2, <2>3 DEF Buffer
<1>20. ASSUME ConfirmHosts PROVE Buffer'
  <2>0. BufferTypes /\ CallTypes /\ SessionTypes /\ StoreTypes /\ PollTypes /\ OtherTypes
    BY TypeParts
  <2>s. Stays
    BY <1>20, MarkersStay
  <2>1. Owned'
    BY <1>20, <2>0, <2>s, CallsAssumption DEF Buffer, Made, BufferTypes, CallTypes,
       CallStates, SessionTypes, ConfirmHosts, sessionVars, Stays, Owned
  <2>2. Present'
    BY <1>20, <2>0, <2>s, CallsAssumption DEF Buffer, Made, BufferTypes, CallTypes,
       CallStates, SessionTypes, ConfirmHosts, sessionVars, Stays, Present
  <2>3. Emptied'
    BY <1>20, <2>0, <2>s DEF Buffer, Made, BufferTypes, CallTypes, CallStates,
       SessionTypes, ConfirmHosts, sessionVars, Stays, Emptied, Entities
  <2>q. QED BY <2>1, <2>2, <2>3 DEF Buffer
<1>21. ASSUME ConfirmGivenUp PROVE Buffer'
  <2>0. BufferTypes /\ CallTypes /\ SessionTypes /\ StoreTypes /\ PollTypes /\ OtherTypes
    BY TypeParts
  <2>s. Stays
    BY <1>21 DEF Stays, ConfirmGivenUp, bufferVars
  <2>1. Owned'
    BY <1>21, <2>0, <2>s, CallsAssumption DEF Buffer, Made, BufferTypes, CallTypes,
       CallStates, SessionTypes, ConfirmGivenUp, sessionVars, Stays, Owned
  <2>2. Present'
    BY <1>21, <2>0, <2>s, CallsAssumption DEF Buffer, Made, BufferTypes, CallTypes,
       CallStates, SessionTypes, ConfirmGivenUp, sessionVars, Stays, Present
  <2>3. Emptied'
    BY <1>21, <2>0, <2>s DEF Buffer, Made, BufferTypes, CallTypes, CallStates,
       SessionTypes, ConfirmGivenUp, sessionVars, Stays, Emptied, Entities
  <2>q. QED BY <2>1, <2>2, <2>3 DEF Buffer
<1>22. ASSUME ConfirmLate PROVE Buffer'
  <2>0. BufferTypes /\ CallTypes /\ SessionTypes /\ StoreTypes /\ PollTypes /\ OtherTypes
    BY TypeParts
  <2>s. Stays
    BY <1>22, MarkersStay
  <2>1. Owned'
    BY <1>22, <2>0, <2>s, CallsAssumption DEF Buffer, Made, BufferTypes, CallTypes,
       CallStates, SessionTypes, ConfirmLate, sessionVars, Stays, Owned
  <2>2. Present'
    BY <1>22, <2>0, <2>s, CallsAssumption DEF Buffer, Made, BufferTypes, CallTypes,
       CallStates, SessionTypes, ConfirmLate, sessionVars, Stays, Present
  <2>3. Emptied'
    BY <1>22, <2>0, <2>s DEF Buffer, Made, BufferTypes, CallTypes, CallStates,
       SessionTypes, ConfirmLate, sessionVars, Stays, Emptied, Entities
  <2>q. QED BY <2>1, <2>2, <2>3 DEF Buffer
<1>q. QED BY <1>1, <1>2, <1>3, <1>4, <1>5, <1>6, <1>7, <1>8, <1>9, <1>10, <1>11, <1>12,
             <1>13, <1>14, <1>15, <1>16, <1>17, <1>18, <1>19, <1>20, <1>21, <1>22 DEF Next,
             Call, Finish, Poll

\* The scanned ids are read from the buffer.
LEMMA NamedStep ==
    ASSUME TypeOK, ConfirmedIsStored, Buffer, Named, [Next]_vars
    PROVE  Named'
<1>1. CASE UNCHANGED vars
  BY <1>1 DEF Named, Made, vars
<1>2. ASSUME NEW c \in Calls, Create(c) PROVE Named'
  <2>0. Grow /\ BufferTypes /\ CallTypes /\ SessionTypes /\ StoreTypes /\ PollTypes /\ OtherTypes
    BY <1>2, Grows, TypeParts DEF Next, Call, Finish, Poll
  <2>q. QED BY <1>2, <2>0 DEF Named, Made, Grow, CallTypes, CallStates, Create, sessionVars
<1>3. ASSUME NEW c \in Calls, AwaitFinds(c) PROVE Named'
  <2>0. Grow /\ BufferTypes /\ CallTypes /\ SessionTypes /\ StoreTypes /\ PollTypes /\ OtherTypes
    BY <1>3, Grows, TypeParts DEF Next, Call, Finish, Poll
  <2>q. QED BY <1>3, <2>0 DEF Named, Made, Grow, CallTypes, CallStates, AwaitFinds,
               sessionVars
<1>4. ASSUME NEW c \in Calls, AwaitEnds(c) PROVE Named'
  <2>0. Grow /\ BufferTypes /\ CallTypes /\ SessionTypes /\ StoreTypes /\ PollTypes /\ OtherTypes
    BY <1>4, Grows, TypeParts DEF Next, Call, Finish, Poll
  <2>q. QED BY <1>4, <2>0 DEF Named, Made, Grow, CallTypes, CallStates, AwaitEnds,
               sessionVars
<1>5. ASSUME NEW c \in Calls, PostArrives(c) PROVE Named'
  <2>0. Grow /\ BufferTypes /\ CallTypes /\ SessionTypes /\ StoreTypes /\ PollTypes /\ OtherTypes
    BY <1>5, Grows, TypeParts DEF Next, Call, Finish, Poll
  <2>q. QED BY <1>5, <2>0 DEF Named, Made, Grow, CallTypes, CallStates, PostArrives,
               sessionVars
<1>6. ASSUME NEW c \in Calls, PostFails(c) PROVE Named'
  <2>0. Grow /\ BufferTypes /\ CallTypes /\ SessionTypes /\ StoreTypes /\ PollTypes /\ OtherTypes
    BY <1>6, Grows, TypeParts DEF Next, Call, Finish, Poll
  <2>q. QED BY <1>6, <2>0 DEF Named, Made, Grow, CallTypes, CallStates, PostFails,
               sessionVars
<1>7. ASSUME NEW c \in Calls, PostReturns(c) PROVE Named'
  <2>0. Grow /\ BufferTypes /\ CallTypes /\ SessionTypes /\ StoreTypes /\ PollTypes /\ OtherTypes
    BY <1>7, Grows, TypeParts DEF Next, Call, Finish, Poll
  <2>q. QED BY <1>7, <2>0 DEF Named, Made, Grow, CallTypes, CallStates, PostReturns,
               sessionVars
<1>8. ASSUME CancelSession PROVE Named'
  <2>0. Grow /\ BufferTypes /\ CallTypes /\ SessionTypes /\ StoreTypes /\ PollTypes /\ OtherTypes
    BY <1>8, Grows, TypeParts DEF Next, Call, Finish, Poll
  <2>q. QED BY <1>8, <2>0 DEF Named, Made, Grow, CallTypes, CallStates, CancelSession,
               sessionVars
<1>9. ASSUME EndScan PROVE Named'
  <2>0. Grow /\ BufferTypes /\ CallTypes /\ SessionTypes /\ StoreTypes /\ PollTypes /\ OtherTypes
    BY <1>9, Grows, TypeParts DEF Next, Call, Finish, Poll
  <2>q. QED BY <1>9, <2>0 DEF Named, Made, Grow, CallTypes, CallStates, EndScan,
               sessionVars, InProgress
<1>10. ASSUME ReadScannedSubnets PROVE Named'
  <2>0. Grow /\ BufferTypes /\ CallTypes /\ SessionTypes /\ StoreTypes /\ PollTypes /\ OtherTypes
    BY <1>10, Grows, TypeParts DEF Next, Call, Finish, Poll
  <2>q. QED BY <1>10, <2>0 DEF Named, Made, Grow, CallTypes, CallStates,
               ReadScannedSubnets, sessionVars, ScannedIds, ConfirmedIsStored, Buffer,
               Owned, Entities
<1>11. ASSUME ReadScannedHosts PROVE Named'
  <2>0. Grow /\ BufferTypes /\ CallTypes /\ SessionTypes /\ StoreTypes /\ PollTypes /\ OtherTypes
    BY <1>11, Grows, TypeParts DEF Next, Call, Finish, Poll
  <2>q. QED BY <1>11, <2>0 DEF Named, Made, Grow, CallTypes, CallStates, ReadScannedHosts,
               sessionVars, ScannedIds, ConfirmedIsStored, Buffer, Owned, Entities
<1>12. ASSUME ClearHosts PROVE Named'
  <2>0. Grow /\ BufferTypes /\ CallTypes /\ SessionTypes /\ StoreTypes /\ PollTypes /\ OtherTypes
    BY <1>12, Grows, TypeParts DEF Next, Call, Finish, Poll
  <2>q. QED BY <1>12, <2>0 DEF Named, Made, Grow, CallTypes, CallStates, ClearHosts,
               sessionVars
<1>13. ASSUME ClearSubnets PROVE Named'
  <2>0. Grow /\ BufferTypes /\ CallTypes /\ SessionTypes /\ StoreTypes /\ PollTypes /\ OtherTypes
    BY <1>13, Grows, TypeParts DEF Next, Call, Finish, Poll
  <2>q. QED BY <1>13, <2>0 DEF Named, Made, Grow, CallTypes, CallStates, ClearSubnets,
               sessionVars
<1>14. ASSUME NextSession PROVE Named'
  <2>0. Grow /\ BufferTypes /\ CallTypes /\ SessionTypes /\ StoreTypes /\ PollTypes /\ OtherTypes
    BY <1>14, Grows, TypeParts DEF Next, Call, Finish, Poll
  <2>q. QED BY <1>14, <2>0 DEF Named, Made, Grow, CallTypes, CallStates, NextSession,
               sessionVars
<1>15. ASSUME PollHosts PROVE Named'
  <2>0. Grow /\ BufferTypes /\ CallTypes /\ SessionTypes /\ StoreTypes /\ PollTypes /\ OtherTypes
    BY <1>15, Grows, TypeParts DEF Next, Call, Finish, Poll
  <2>q. QED BY <1>15, <2>0 DEF Named, Made, Grow, CallTypes, CallStates, PollHosts,
               sessionVars
<1>16. ASSUME PollSubnets PROVE Named'
  <2>0. Grow /\ BufferTypes /\ CallTypes /\ SessionTypes /\ StoreTypes /\ PollTypes /\ OtherTypes
    BY <1>16, Grows, TypeParts DEF Next, Call, Finish, Poll
  <2>q. QED BY <1>16, <2>0 DEF Named, Made, Grow, CallTypes, CallStates, PollSubnets,
               sessionVars
<1>17. ASSUME PollLost PROVE Named'
  <2>0. Grow /\ BufferTypes /\ CallTypes /\ SessionTypes /\ StoreTypes /\ PollTypes /\ OtherTypes
    BY <1>17, Grows, TypeParts DEF Next, Call, Finish, Poll
  <2>q. QED BY <1>17, <2>0 DEF Named, Made, Grow, CallTypes, CallStates, PollLost,
               sessionVars
<1>18. ASSUME ProcessEntities PROVE Named'
  <2>0. Grow /\ BufferTypes /\ CallTypes /\ SessionTypes /\ StoreTypes /\ PollTypes /\ OtherTypes
    BY <1>18, Grows, TypeParts DEF Next, Call, Finish, Poll
  <2>q. QED BY <1>18, <2>0 DEF Named, Made, Grow, CallTypes, CallStates, ProcessEntities,
               sessionVars
<1>19. ASSUME ConfirmSubnets PROVE Named'
  <2>0. Grow /\ BufferTypes /\ CallTypes /\ SessionTypes /\ StoreTypes /\ PollTypes /\ OtherTypes
    BY <1>19, Grows, TypeParts DEF Next, Call, Finish, Poll
  <2>q. QED BY <1>19, <2>0 DEF Named, Made, Grow, CallTypes, CallStates, ConfirmSubnets,
               sessionVars
<1>20. ASSUME ConfirmHosts PROVE Named'
  <2>0. Grow /\ BufferTypes /\ CallTypes /\ SessionTypes /\ StoreTypes /\ PollTypes /\ OtherTypes
    BY <1>20, Grows, TypeParts DEF Next, Call, Finish, Poll
  <2>q. QED BY <1>20, <2>0 DEF Named, Made, Grow, CallTypes, CallStates, ConfirmHosts,
               sessionVars
<1>21. ASSUME ConfirmGivenUp PROVE Named'
  <2>0. Grow /\ BufferTypes /\ CallTypes /\ SessionTypes /\ StoreTypes /\ PollTypes /\ OtherTypes
    BY <1>21, Grows, TypeParts DEF Next, Call, Finish, Poll
  <2>q. QED BY <1>21, <2>0 DEF Named, Made, Grow, CallTypes, CallStates, ConfirmGivenUp,
               sessionVars
<1>22. ASSUME ConfirmLate PROVE Named'
  <2>0. Grow /\ BufferTypes /\ CallTypes /\ SessionTypes /\ StoreTypes /\ PollTypes /\ OtherTypes
    BY <1>22, Grows, TypeParts DEF Next, Call, Finish, Poll
  <2>q. QED BY <1>22, <2>0 DEF Named, Made, Grow, CallTypes, CallStates, ConfirmLate,
               sessionVars
<1>q. QED BY <1>1, <1>2, <1>3, <1>4, <1>5, <1>6, <1>7, <1>8, <1>9, <1>10, <1>11, <1>12,
             <1>13, <1>14, <1>15, <1>16, <1>17, <1>18, <1>19, <1>20, <1>21, <1>22 DEF Next,
             Call, Finish, Poll

\* What a call got confirmed is read before the buffer is emptied.
LEMMA ReadingStep ==
    ASSUME TypeOK, Lifetimes, EarlyFirst, Buffer, Reading, [Next]_vars
    PROVE  Reading'
<1>1. CASE UNCHANGED vars
  BY <1>1 DEF Reading, Unread, Read, Counts, Disturbed, vars
<1>2. ASSUME NEW c \in Calls, Create(c) PROVE Reading'
  <2>0. BufferTypes /\ CallTypes /\ SessionTypes /\ StoreTypes /\ PollTypes /\ OtherTypes
    BY TypeParts
  <2>1. ASSUME NEW x \in Calls, Counts(x)', Target[x] # Target[c] PROVE Counts(x)
    BY <1>2, <2>0, <2>1 DEF Counts, Disturbed, CallTypes, Create, sessionVars
  <2>2. ASSUME NEW x \in Calls, Counts(x)' PROVE Target[x] # Target[c]
    BY <1>2, <2>0, <2>2 DEF Counts, Disturbed, CallTypes, Create, sessionVars
  <2>3. Unread'
    BY <1>2, <2>0, <2>1, <2>2, CallsAssumption DEF Reading, Unread, BufferTypes, Create,
       PushEntity, sessionVars
  <2>4. Read'
    BY <1>2, <2>0 DEF Read, Create, sessionVars
  <2>q. QED BY <2>3, <2>4 DEF Reading
<1>3. ASSUME NEW c \in Calls, AwaitFinds(c) PROVE Reading'
  <2>0. BufferTypes /\ CallTypes /\ SessionTypes /\ StoreTypes /\ PollTypes /\ OtherTypes
    BY TypeParts
  <2>s. Stays
    BY <1>3 DEF Stays, AwaitFinds, bufferVars
  <2>1. ASSUME NEW x \in Calls, Counts(x)', Target[x] # Target[c] PROVE Counts(x)
    BY <1>3, <2>0, <2>1 DEF Counts, Disturbed, CallTypes, AwaitFinds, sessionVars
  <2>2. ASSUME NEW x \in Calls, Counts(x)', Target[x] = Target[c]
        PROVE  phase = "scanning" /\ c \notin Early /\ Session[c] = session
    <3>1. c \notin Early
      BY <1>3, <2>0, <2>2 DEF EarlyFirst, Counts, CallTypes, AwaitFinds
    <3>q. QED BY <1>3, <3>1 DEF Lifetimes, InProgress, AwaitFinds
  <2>3. ASSUME NEW x \in Calls, Counts(x)', Target[x] = Target[c] PROVE entry'[Target[x]] = "created"
    BY <1>3, <2>3 DEF AwaitFinds, bufferVars
  <2>4. Unread'
    BY <1>3, <2>0, <2>s, <2>1, <2>3, CallsAssumption DEF Reading, Unread, Stays,
       AwaitFinds, sessionVars
  <2>5. Read'
    BY <1>3, <2>0, <2>1, <2>2 DEF Reading, Read, AwaitFinds, sessionVars
  <2>q. QED BY <2>4, <2>5 DEF Reading
<1>4. ASSUME NEW c \in Calls, AwaitEnds(c) PROVE Reading'
  <2>0. BufferTypes /\ CallTypes /\ SessionTypes /\ StoreTypes /\ PollTypes /\ OtherTypes
    BY TypeParts
  <2>s. Stays
    BY <1>4 DEF Stays, AwaitEnds, bufferVars
  <2>1. ASSUME NEW x \in Calls, Counts(x)', Target[x] # Target[c] PROVE Counts(x)
    BY <1>4, <2>0, <2>1 DEF Counts, Disturbed, CallTypes, AwaitEnds, sessionVars
  <2>2. ASSUME NEW x \in Calls, Counts(x)' PROVE Counts(x)
    BY <1>4, <2>0, <2>2 DEF Counts, Disturbed, CallTypes, AwaitEnds, sessionVars
  <2>3. Unread'
    BY <1>4, <2>0, <2>s, <2>2, CallsAssumption DEF Reading, Unread, Stays, AwaitEnds,
       sessionVars
  <2>4. Read'
    BY <1>4, <2>0, <2>2 DEF Reading, Read, AwaitEnds, sessionVars
  <2>q. QED BY <2>3, <2>4 DEF Reading
<1>5. ASSUME NEW c \in Calls, PostArrives(c) PROVE Reading'
  <2>0. BufferTypes /\ CallTypes /\ SessionTypes /\ StoreTypes /\ PollTypes /\ OtherTypes
    BY TypeParts
  <2>s. Stays
    BY <1>5 DEF Stays, PostArrives, bufferVars
  <2>1. ASSUME NEW x \in Calls, Counts(x)', Target[x] # Target[c] PROVE Counts(x)
    BY <1>5, <2>0, <2>1 DEF Counts, Disturbed, CallTypes, PostArrives, sessionVars
  <2>2. ASSUME NEW x \in Calls, Counts(x)' PROVE Counts(x)
    BY <1>5, <2>0, <2>2 DEF Counts, Disturbed, CallTypes, PostArrives, sessionVars
  <2>3. Unread'
    BY <1>5, <2>0, <2>s, <2>2, CallsAssumption DEF Reading, Unread, Stays, PostArrives,
       sessionVars
  <2>4. Read'
    BY <1>5, <2>0, <2>2 DEF Reading, Read, PostArrives, sessionVars
  <2>q. QED BY <2>3, <2>4 DEF Reading
<1>6. ASSUME NEW c \in Calls, PostFails(c) PROVE Reading'
  <2>0. BufferTypes /\ CallTypes /\ SessionTypes /\ StoreTypes /\ PollTypes /\ OtherTypes
    BY TypeParts
  <2>s. Stays
    BY <1>6 DEF Stays, PostFails, bufferVars
  <2>1. ASSUME NEW x \in Calls, Counts(x)', Target[x] # Target[c] PROVE Counts(x)
    BY <1>6, <2>0, <2>1 DEF Counts, Disturbed, CallTypes, PostFails, sessionVars
  <2>2. ASSUME NEW x \in Calls, Counts(x)' PROVE Counts(x)
    BY <1>6, <2>0, <2>2 DEF Counts, Disturbed, CallTypes, PostFails, sessionVars
  <2>3. Unread'
    BY <1>6, <2>0, <2>s, <2>2, CallsAssumption DEF Reading, Unread, Stays, PostFails,
       sessionVars
  <2>4. Read'
    BY <1>6, <2>0, <2>2 DEF Reading, Read, PostFails, sessionVars
  <2>q. QED BY <2>3, <2>4 DEF Reading
<1>7. ASSUME NEW c \in Calls, PostReturns(c) PROVE Reading'
  <2>0. BufferTypes /\ CallTypes /\ SessionTypes /\ StoreTypes /\ PollTypes /\ OtherTypes
    BY TypeParts
  <2>s. Stays
    BY <1>7, MarkersStay
  <2>1. ASSUME NEW x \in Calls, Counts(x)', Target[x] # Target[c] PROVE Counts(x)
    BY <1>7, <2>0, <2>1 DEF Counts, Disturbed, CallTypes, PostReturns, sessionVars
  <2>2. ASSUME NEW x \in Calls, Counts(x)', Target[x] = Target[c]
        PROVE  phase = "scanning" /\ c \notin Early /\ Session[c] = session
    <3>1. c \notin Early
      BY <1>7, <2>0, <2>2 DEF EarlyFirst, Counts, CallTypes, PostReturns
    <3>q. QED BY <1>7, <3>1 DEF Lifetimes, InProgress, PostReturns
  <2>3. ASSUME NEW x \in Calls, Counts(x)', Target[x] = Target[c] PROVE entry'[Target[x]] = "created"
    <3>1. {<<Target[c], reply[c]>>} \in SUBSET Carried
      BY <2>0, CallsAssumption DEF Carried, CallTypes
    <3>2. MarkCreated({<<Target[c], reply[c]>>})
      BY <1>7, <2>2, <2>3 DEF PostReturns
    <3>3. Target[c] \in Entities /\ entry[Target[c]] \in {"pending", "created"}
      BY <1>7, <2>0, <2>2, <2>3, CallsAssumption DEF Buffer, Present, Made, BufferTypes,
         PostReturns
    <3>4. entry'[Target[c]] = "created"
      BY <2>0, <3>1, <3>2, <3>3, MarkEffect DEF Markable
    <3>q. QED BY <2>3, <3>4
  <2>4. Unread'
    BY <1>7, <2>0, <2>s, <2>1, <2>3, CallsAssumption DEF Reading, Unread, Stays,
       PostReturns, sessionVars
  <2>5. Read'
    BY <1>7, <2>0, <2>1, <2>2 DEF Reading, Read, PostReturns, sessionVars
  <2>q. QED BY <2>4, <2>5 DEF Reading
<1>8. ASSUME CancelSession PROVE Reading'
  <2>0. BufferTypes /\ CallTypes /\ SessionTypes /\ StoreTypes /\ PollTypes /\ OtherTypes
    BY TypeParts
  <2>s. Stays
    BY <1>8 DEF Stays, CancelSession, bufferVars
  <2>1. ASSUME NEW x \in Calls, Counts(x)' PROVE Counts(x)
    BY <1>8, <2>0, <2>1 DEF Counts, Disturbed, CallTypes, CancelSession, sessionVars
  <2>2. Unread'
    BY <1>8, <2>0, <2>s, <2>1, CallsAssumption DEF Reading, Unread, CancelSession,
       sessionVars, Stays
  <2>3. Read'
    BY <1>8, <2>0, <2>1, CallsAssumption DEF Reading, Read, CancelSession, sessionVars
  <2>q. QED BY <2>2, <2>3 DEF Reading
<1>9. ASSUME EndScan PROVE Reading'
  <2>0. BufferTypes /\ CallTypes /\ SessionTypes /\ StoreTypes /\ PollTypes /\ OtherTypes
    BY TypeParts
  <2>s. Stays
    BY <1>9 DEF Stays, EndScan, bufferVars
  <2>1. ASSUME NEW x \in Calls, Counts(x)' PROVE Counts(x)
    BY <1>9, <2>0, <2>1 DEF Counts, Disturbed, CallTypes, EndScan, sessionVars, InProgress
  <2>2. Unread'
    BY <1>9, <2>0, <2>s, <2>1, CallsAssumption DEF Reading, Unread, EndScan, sessionVars,
       Stays
  <2>3. Read'
    BY <1>9, <2>0, <2>1, CallsAssumption DEF Reading, Read, EndScan, sessionVars
  <2>q. QED BY <2>2, <2>3 DEF Reading
<1>10. ASSUME ReadScannedSubnets PROVE Reading'
  <2>0. BufferTypes /\ CallTypes /\ SessionTypes /\ StoreTypes /\ PollTypes /\ OtherTypes
    BY TypeParts
  <2>s. Stays
    BY <1>10 DEF Stays, ReadScannedSubnets, bufferVars
  <2>1. ASSUME NEW x \in Calls, Counts(x)' PROVE Counts(x)
    BY <1>10, <2>0, <2>1 DEF Counts, Disturbed, CallTypes, ReadScannedSubnets, sessionVars
  <2>2. Unread'
    BY <1>10, <2>0, <2>s, <2>1, CallsAssumption DEF Reading, Unread, ReadScannedSubnets,
       sessionVars, Stays
  <2>3. Read'
    BY <1>10, <2>0, <2>1, CallsAssumption DEF Reading, Read, ReadScannedSubnets,
       sessionVars, Unread, ScannedIds, Entities
  <2>q. QED BY <2>2, <2>3 DEF Reading
<1>11. ASSUME ReadScannedHosts PROVE Reading'
  <2>0. BufferTypes /\ CallTypes /\ SessionTypes /\ StoreTypes /\ PollTypes /\ OtherTypes
    BY TypeParts
  <2>s. Stays
    BY <1>11 DEF Stays, ReadScannedHosts, bufferVars
  <2>1. ASSUME NEW x \in Calls, Counts(x)' PROVE Counts(x)
    BY <1>11, <2>0, <2>1 DEF Counts, Disturbed, CallTypes, ReadScannedHosts, sessionVars
  <2>2. Unread'
    BY <1>11, <2>0, <2>s, <2>1, CallsAssumption DEF Reading, Unread, ReadScannedHosts,
       sessionVars, Stays
  <2>3. Read'
    BY <1>11, <2>0, <2>1, CallsAssumption DEF Reading, Read, ReadScannedHosts, sessionVars,
       Unread, ScannedIds, Entities
  <2>q. QED BY <2>2, <2>3 DEF Reading
<1>12. ASSUME ClearHosts PROVE Reading'
  <2>0. BufferTypes /\ CallTypes /\ SessionTypes /\ StoreTypes /\ PollTypes /\ OtherTypes
    BY TypeParts
  <2>1. ASSUME NEW x \in Calls, Counts(x)' PROVE Counts(x)
    BY <1>12, <2>0, <2>1 DEF Counts, Disturbed, CallTypes, ClearHosts, sessionVars
  <2>2. Unread'
    BY <1>12, <2>0, <2>1, CallsAssumption DEF Reading, Unread, ClearHosts, sessionVars
  <2>3. Read'
    BY <1>12, <2>0, <2>1, CallsAssumption DEF Reading, Read, ClearHosts, sessionVars
  <2>q. QED BY <2>2, <2>3 DEF Reading
<1>13. ASSUME ClearSubnets PROVE Reading'
  <2>0. BufferTypes /\ CallTypes /\ SessionTypes /\ StoreTypes /\ PollTypes /\ OtherTypes
    BY TypeParts
  <2>1. ASSUME NEW x \in Calls, Counts(x)' PROVE Counts(x)
    BY <1>13, <2>0, <2>1 DEF Counts, Disturbed, CallTypes, ClearSubnets, sessionVars
  <2>2. Unread'
    BY <1>13, <2>0, <2>1, CallsAssumption DEF Reading, Unread, ClearSubnets, sessionVars
  <2>3. Read'
    BY <1>13, <2>0, <2>1, CallsAssumption DEF Reading, Read, ClearSubnets, sessionVars
  <2>q. QED BY <2>2, <2>3 DEF Reading
<1>14. ASSUME NextSession PROVE Reading'
  <2>0. BufferTypes /\ CallTypes /\ SessionTypes /\ StoreTypes /\ PollTypes /\ OtherTypes
    BY TypeParts
  <2>s. Stays
    BY <1>14 DEF Stays, NextSession, bufferVars
  <2>1. \A x \in Calls : ~ Counts(x)'
    BY <1>14, <2>0, CallsAssumption, BoundsAssumption DEF Counts, Lifetimes, SessionTypes,
       NextSession
  <2>q. QED BY <2>1 DEF Reading, Unread, Read
<1>15. ASSUME PollHosts PROVE Reading'
  <2>0. BufferTypes /\ CallTypes /\ SessionTypes /\ StoreTypes /\ PollTypes /\ OtherTypes
    BY TypeParts
  <2>s. Stays
    BY <1>15 DEF Stays, PollHosts, bufferVars
  <2>1. ASSUME NEW x \in Calls, Counts(x)' PROVE Counts(x)
    BY <1>15, <2>0, <2>1 DEF Counts, Disturbed, CallTypes, PollHosts, sessionVars
  <2>2. Unread'
    BY <1>15, <2>0, <2>s, <2>1, CallsAssumption DEF Reading, Unread, PollHosts,
       sessionVars, Stays
  <2>3. Read'
    BY <1>15, <2>0, <2>1, CallsAssumption DEF Reading, Read, PollHosts, sessionVars
  <2>q. QED BY <2>2, <2>3 DEF Reading
<1>16. ASSUME PollSubnets PROVE Reading'
  <2>0. BufferTypes /\ CallTypes /\ SessionTypes /\ StoreTypes /\ PollTypes /\ OtherTypes
    BY TypeParts
  <2>s. Stays
    BY <1>16 DEF Stays, PollSubnets, bufferVars
  <2>1. ASSUME NEW x \in Calls, Counts(x)' PROVE Counts(x)
    BY <1>16, <2>0, <2>1 DEF Counts, Disturbed, CallTypes, PollSubnets, sessionVars
  <2>2. Unread'
    BY <1>16, <2>0, <2>s, <2>1, CallsAssumption DEF Reading, Unread, PollSubnets,
       sessionVars, Stays
  <2>3. Read'
    BY <1>16, <2>0, <2>1, CallsAssumption DEF Reading, Read, PollSubnets, sessionVars
  <2>q. QED BY <2>2, <2>3 DEF Reading
<1>17. ASSUME PollLost PROVE Reading'
  <2>0. BufferTypes /\ CallTypes /\ SessionTypes /\ StoreTypes /\ PollTypes /\ OtherTypes
    BY TypeParts
  <2>s. Stays
    BY <1>17 DEF Stays, PollLost, bufferVars
  <2>1. ASSUME NEW x \in Calls, Counts(x)' PROVE Counts(x)
    BY <1>17, <2>0, <2>1 DEF Counts, Disturbed, CallTypes, PollLost, sessionVars
  <2>2. Unread'
    BY <1>17, <2>0, <2>s, <2>1, CallsAssumption DEF Reading, Unread, PollLost, sessionVars,
       Stays
  <2>3. Read'
    BY <1>17, <2>0, <2>1, CallsAssumption DEF Reading, Read, PollLost, sessionVars
  <2>q. QED BY <2>2, <2>3 DEF Reading
<1>18. ASSUME ProcessEntities PROVE Reading'
  <2>0. BufferTypes /\ CallTypes /\ SessionTypes /\ StoreTypes /\ PollTypes /\ OtherTypes
    BY TypeParts
  <2>s. Stays
    BY <1>18 DEF Stays, ProcessEntities, bufferVars
  <2>1. ASSUME NEW x \in Calls, Counts(x)' PROVE Counts(x)
    BY <1>18, <2>0, <2>1 DEF Counts, Disturbed, CallTypes, ProcessEntities, sessionVars
  <2>2. Unread'
    BY <1>18, <2>0, <2>s, <2>1, CallsAssumption DEF Reading, Unread, ProcessEntities,
       sessionVars, Stays
  <2>3. Read'
    BY <1>18, <2>0, <2>1, CallsAssumption DEF Reading, Read, ProcessEntities, sessionVars
  <2>q. QED BY <2>2, <2>3 DEF Reading
<1>19. ASSUME ConfirmSubnets PROVE Reading'
  <2>0. BufferTypes /\ CallTypes /\ SessionTypes /\ StoreTypes /\ PollTypes /\ OtherTypes
    BY TypeParts
  <2>s. Stays
    BY <1>19, MarkersStay
  <2>1. ASSUME NEW x \in Calls, Counts(x)' PROVE Counts(x)
    BY <1>19, <2>0, <2>1 DEF Counts, Disturbed, CallTypes, ConfirmSubnets, sessionVars
  <2>2. Unread'
    BY <1>19, <2>0, <2>s, <2>1, CallsAssumption DEF Reading, Unread, ConfirmSubnets,
       sessionVars, Stays
  <2>3. Read'
    BY <1>19, <2>0, <2>1, CallsAssumption DEF Reading, Read, ConfirmSubnets, sessionVars
  <2>q. QED BY <2>2, <2>3 DEF Reading
<1>20. ASSUME ConfirmHosts PROVE Reading'
  <2>0. BufferTypes /\ CallTypes /\ SessionTypes /\ StoreTypes /\ PollTypes /\ OtherTypes
    BY TypeParts
  <2>s. Stays
    BY <1>20, MarkersStay
  <2>1. ASSUME NEW x \in Calls, Counts(x)' PROVE Counts(x)
    BY <1>20, <2>0, <2>1 DEF Counts, Disturbed, CallTypes, ConfirmHosts, sessionVars
  <2>2. Unread'
    BY <1>20, <2>0, <2>s, <2>1, CallsAssumption DEF Reading, Unread, ConfirmHosts,
       sessionVars, Stays
  <2>3. Read'
    BY <1>20, <2>0, <2>1, CallsAssumption DEF Reading, Read, ConfirmHosts, sessionVars
  <2>q. QED BY <2>2, <2>3 DEF Reading
<1>21. ASSUME ConfirmGivenUp PROVE Reading'
  <2>0. BufferTypes /\ CallTypes /\ SessionTypes /\ StoreTypes /\ PollTypes /\ OtherTypes
    BY TypeParts
  <2>s. Stays
    BY <1>21 DEF Stays, ConfirmGivenUp, bufferVars
  <2>1. ASSUME NEW x \in Calls, Counts(x)' PROVE Counts(x)
    BY <1>21, <2>0, <2>1 DEF Counts, Disturbed, CallTypes, ConfirmGivenUp, sessionVars
  <2>2. Unread'
    BY <1>21, <2>0, <2>s, <2>1, CallsAssumption DEF Reading, Unread, ConfirmGivenUp,
       sessionVars, Stays
  <2>3. Read'
    BY <1>21, <2>0, <2>1, CallsAssumption DEF Reading, Read, ConfirmGivenUp, sessionVars
  <2>q. QED BY <2>2, <2>3 DEF Reading
<1>22. ASSUME ConfirmLate PROVE Reading'
  <2>0. BufferTypes /\ CallTypes /\ SessionTypes /\ StoreTypes /\ PollTypes /\ OtherTypes
    BY TypeParts
  <2>s. Stays
    BY <1>22, MarkersStay
  <2>1. ASSUME NEW x \in Calls, Counts(x)' PROVE Counts(x)
    BY <1>22, <2>0, <2>1 DEF Counts, Disturbed, CallTypes, ConfirmLate, sessionVars
  <2>2. Unread'
    BY <1>22, <2>0, <2>s, <2>1, CallsAssumption DEF Reading, Unread, ConfirmLate,
       sessionVars, Stays
  <2>3. Read'
    BY <1>22, <2>0, <2>1, CallsAssumption DEF Reading, Read, ConfirmLate, sessionVars
  <2>q. QED BY <2>2, <2>3 DEF Reading
<1>q. QED BY <1>1, <1>2, <1>3, <1>4, <1>5, <1>6, <1>7, <1>8, <1>9, <1>10, <1>11, <1>12,
             <1>13, <1>14, <1>15, <1>16, <1>17, <1>18, <1>19, <1>20, <1>21, <1>22 DEF Next,
             Call, Finish, Poll

\* The initial states.
LEMMA InitInv ==
    ASSUME Init
    PROVE  IInv
<1>1. TypeOK
  BY ModesAssumption, BoundsAssumption DEF Init, TypeOK, CallStates, Carried
<1>2. Messages /\ CallModes /\ ConfirmedIsStored /\ ReturnedIsStored
  BY CallsAssumption DEF Init, Messages, Answers, Backed, CallModes, ConfirmedIsStored,
     ReturnedIsStored
<1>3. Lifetimes /\ EarlyFirst
  BY DEF Init, Lifetimes, EarlyFirst, InProgress
<1>4. Buffer
  BY CallsAssumption DEF Init, Buffer, Owned, Present, Emptied, Made, Entities
<1>5. Reading /\ Named
  BY DEF Init, Reading, Unread, Read, Counts, Named
<1>q. QED BY <1>1, <1>2, <1>3, <1>4, <1>5 DEF IInv

\* Every step keeps the invariant.
LEMMA StepInv ==
    ASSUME IInv, [Next]_vars
    PROVE  IInv'
<1>1. TypeOK' /\ Messages' /\ CallModes'
  BY TypeStep, MessagesStep, CallModesStep DEF IInv
<1>2. ConfirmedIsStored' /\ ReturnedIsStored'
  BY ConfirmedStep, ReturnedStep DEF IInv
<1>3. Lifetimes' /\ EarlyFirst' /\ Buffer'
  BY LifetimesStep, EarlyFirstStep, BufferStep DEF IInv
<1>4. Reading' /\ Named'
  BY ReadingStep, NamedStep DEF IInv
<1>q. QED BY <1>1, <1>2, <1>3, <1>4 DEF IInv

\* The inductive invariant.
THEOREM Invariance == Spec => []IInv
<1>1. Init => IInv
  BY InitInv
<1>2. IInv /\ [Next]_vars => IInv'
  BY StepInv
<1>q. QED BY <1>1, <1>2, PTL DEF Spec

\* The buffer, the calls, the session, the server and the messages keep their
\* types, in both modes and with any number of faults.
THEOREM TypeCorrect == Spec => []TypeOK
<1>1. IInv => TypeOK
  BY DEF IInv
<1>q. QED BY <1>1, Invariance, PTL

\* What mark_host_created and mark_subnet_created mark is stored at the server
\* with the children the buffer then holds, whatever is lost or late.
THEOREM ConfirmedStored == Spec => []ConfirmedIsStored
<1>1. IInv => ConfirmedIsStored
  BY DEF IInv
<1>q. QED BY <1>1, Invariance, PTL

\* A create_host or create_subnet that returned Ok has its entity stored, and in
\* DaemonPoll what its request carried.
THEOREM ReturnedStored == Spec => []ReturnedIsStored
<1>1. IInv => ReturnedIsStored
  BY DEF IInv
<1>q. QED BY <1>1, Invariance, PTL

\* The terminal payload of finish_session names what this session had confirmed
\* and nothing else, early reports that outlive earlier sessions included.
THEOREM ScannedExact == Spec => []ScannedIsExact
<1>1. IInv => ScannedIsExact
  BY DEF IInv, ScannedIsExact, Named, Made, Reading, Read, Counts
<1>q. QED BY <1>1, Invariance, PTL

=============================================================================
