------------------------ MODULE DiscoveryLocksProofs ------------------------
(***************************************************************************)
(* Proofs about the locks of the DiscoveryService, for any number of tasks *)
(* and any set of methods: the methods keep the order OrderKept, and those *)
(* that keep it never deadlock.                                            *)
(***************************************************************************)
EXTENDS DiscoveryLocks, TLAPS

\* What the RwLocks themselves promise: the guards alive at any moment are
\* compatible with each other.
GuardsCompatible ==
    \A t, u \in Tasks :
        t # u => \A g \in Held(t), h \in Held(u) : Compatible(g, h)

\* Who waits for a lock wants a guard of it next.
QueuedWants ==
    \A l \in Locks : \A i \in 1 .. Len(queue[l]) :
        \E g \in Wanted(queue[l][i]) : g[1] = l

\* A task waits for one lock at a time, once.
OneRequest ==
    \A l, m \in Locks : \A i \in 1 .. Len(queue[l]), j \in 1 .. Len(queue[m]) :
        queue[l][i] = queue[m][j] => l = m /\ i = j

\* The inductive invariant.
LockInv == TypeOK /\ GuardsCompatible /\ QueuedWants /\ OneRequest

\* Every program, the idle one included, is a non-empty sequence of sets of
\* guards whose steps add at most one guard.
LEMMA ProgramShape ==
    ASSUME NEW p \in Programs \union {Idle}
    PROVE  /\ p \in Seq(SUBSET Guards)
           /\ Len(p) > 0 /\ p[1] = {}
           /\ \A i \in 1 .. Len(p) - 1 : \A g, h \in p[i + 1] \ p[i] : g = h
  <1>1. CASE p \in Programs
    BY <1>1, ProgramsAssumption
  <1>2. CASE p = Idle
    <2>1. {} \in SUBSET Guards
      OBVIOUS
    <2>2. Idle \in Seq(SUBSET Guards) /\ Len(Idle) = 1 /\ Idle[1] = {}
      BY <2>1 DEF Idle
    <2> QED BY <1>2, <2>2
  <1> QED BY <1>1, <1>2

\* What a task holds and wants are guards; it wants at most one.
LEMMA GuardShape ==
    ASSUME TypeOK, NEW t \in Tasks
    PROVE  /\ Held(t) \in SUBSET Guards
           /\ Wanted(t) \in SUBSET Guards
           /\ \A g, h \in Wanted(t) : g = h
           /\ \A g \in Wanted(t) : pc[t] < Len(prog[t])
  <1>1. prog[t] \in Programs \union {Idle} /\ pc[t] \in Nat /\ pc[t] \in 1 .. Len(prog[t])
    BY DEF TypeOK
  <1>2. /\ prog[t] \in Seq(SUBSET Guards)
        /\ \A i \in 1 .. Len(prog[t]) - 1 :
              \A g, h \in prog[t][i + 1] \ prog[t][i] : g = h
    BY <1>1, ProgramShape
  <1>3. Held(t) \in SUBSET Guards
    BY <1>1, <1>2 DEF Held
  <1>4. CASE pc[t] < Len(prog[t])
    <2>1. pc[t] + 1 \in 1 .. Len(prog[t]) /\ pc[t] \in 1 .. Len(prog[t]) - 1
      BY <1>1, <1>2, <1>4
    <2>2. Upcoming(t) \in SUBSET Guards
      BY <1>2, <2>1 DEF Upcoming
    <2>3. \A g, h \in Upcoming(t) \ Held(t) : g = h
      BY <1>2, <2>1 DEF Upcoming, Held
    <2> QED BY <1>3, <1>4, <2>2, <2>3 DEF Wanted
  <1>5. CASE ~ (pc[t] < Len(prog[t]))
    BY <1>3, <1>5 DEF Wanted
  <1> QED BY <1>4, <1>5

\* The initial state satisfies the inductive invariant.
LEMMA InitLockInv == Init => LockInv
  <1> SUFFICES ASSUME Init PROVE LockInv
    OBVIOUS
  <1>1. Len(Idle) = 1 /\ Idle[1] = {}
    BY DEF Idle
  <1>2. TypeOK
    <2>1. \A t \in Tasks : pc[t] \in 1 .. Len(prog[t])
      BY <1>1 DEF Init
    <2>2. queue \in [Locks -> Seq(Tasks)]
      BY DEF Init
    <2> QED BY <2>1, <2>2 DEF Init, TypeOK
  <1>3. \A t \in Tasks : Held(t) = {}
    BY <1>1 DEF Init, Held
  <1>4. GuardsCompatible
    BY <1>3 DEF GuardsCompatible
  <1>5. \A l \in Locks : Len(queue[l]) = 0
    BY DEF Init
  <1>6. QueuedWants /\ OneRequest
    BY <1>5 DEF QueuedWants, OneRequest
  <1> QED BY <1>2, <1>4, <1>6 DEF LockInv

\* A task whose program and position do not change holds and wants the same.
LEMMA SameTask ==
    ASSUME NEW u \in Tasks, prog'[u] = prog[u], pc'[u] = pc[u]
    PROVE  Held(u)' = Held(u) /\ Wanted(u)' = Wanted(u)
  BY DEF Held, Wanted, Upcoming

\* A task that waits is not the one whose program starts, moves on or ends.
LEMMA MoverNotQueued ==
    ASSUME LockInv, NEW t \in Tasks, Wanted(t) = {}
    PROVE  \A l \in Locks : \A i \in 1 .. Len(queue[l]) : queue[l][i] # t
  BY DEF LockInv, QueuedWants

\* A step of one task that adds nothing to what it holds and changes no queue
\* keeps the invariant.
LEMMA QuietStep ==
    ASSUME LockInv, TypeOK', NEW t \in Tasks, Wanted(t) = {}, queue' = queue,
           Held(t)' \subseteq Held(t),
           \A u \in Tasks \ {t} : prog'[u] = prog[u] /\ pc'[u] = pc[u]
    PROVE  LockInv'
  <1>1. \A u \in Tasks \ {t} : Held(u)' = Held(u) /\ Wanted(u)' = Wanted(u)
    BY SameTask
  <1>2. GuardsCompatible'
    <2>1. \A u \in Tasks : Held(u)' \subseteq Held(u)
      BY <1>1
    <2> QED BY <2>1 DEF LockInv, GuardsCompatible, Compatible
  <1>3. QueuedWants'
    <2> SUFFICES ASSUME NEW l \in Locks, NEW i \in 1 .. Len(queue[l])
                 PROVE  \E g \in Wanted(queue[l][i])' : g[1] = l
      BY DEF QueuedWants
    <2>1. queue[l][i] \in Tasks \ {t}
      <3>1. queue[l] \in Seq(Tasks)
        BY DEF LockInv, TypeOK
      <3>2. queue[l][i] # t
        BY MoverNotQueued
      <3> QED BY <3>1, <3>2
    <2>2. \E g \in Wanted(queue[l][i]) : g[1] = l
      BY DEF LockInv, QueuedWants
    <2> QED BY <1>1, <2>1, <2>2
  <1>4. OneRequest'
    BY DEF LockInv, OneRequest
  <1> QED BY <1>2, <1>3, <1>4 DEF LockInv

\* A call starts with nothing held.
LEMMA CallKeeps ==
    ASSUME LockInv, NEW t \in Tasks, Call(t) PROVE LockInv'
  <1> USE DEF LockInv
  <1>1. PICK p \in Programs : prog' = [prog EXCEPT ![t] = p]
    BY DEF Call
  <1>2. p \in Seq(SUBSET Guards) /\ Len(p) > 0 /\ p[1] = {} /\ Len(p) \in Nat
    BY ProgramShape
  <1>3. prog'[t] = p /\ pc'[t] = 1
    BY <1>1 DEF Call, TypeOK
  <1>4. \A u \in Tasks \ {t} : prog'[u] = prog[u] /\ pc'[u] = pc[u]
    BY <1>1 DEF Call, TypeOK
  <1>5. Wanted(t) = {}
    <2>1. Len(Idle) = 1
      BY DEF Idle
    <2> QED BY <2>1 DEF Call, TypeOK, Wanted
  <1>6. TypeOK'
    <2>1. prog' \in [Tasks -> Programs \union {Idle}] /\ pc' \in [Tasks -> Nat]
      BY <1>1 DEF Call, TypeOK
    <2>2. \A u \in Tasks : pc'[u] \in 1 .. Len(prog'[u])
      <3> SUFFICES ASSUME NEW u \in Tasks PROVE pc'[u] \in 1 .. Len(prog'[u])
        OBVIOUS
      <3>1. CASE u = t
        BY <1>2, <1>3, <3>1
      <3>2. CASE u # t
        BY <1>4, <3>2 DEF TypeOK
      <3> QED BY <3>1, <3>2
    <2> QED BY <2>1, <2>2 DEF Call, TypeOK
  <1>7. Held(t)' \subseteq Held(t)
    BY <1>2, <1>3 DEF Held
  <1>8. queue' = queue
    BY DEF Call
  <1> HIDE DEF LockInv
  <1> QED BY <1>4, <1>5, <1>6, <1>7, <1>8, QuietStep

\* Dropping guards leaves fewer of them.
LEMMA DropKeeps ==
    ASSUME LockInv, NEW t \in Tasks, Drop(t) PROVE LockInv'
  <1>1. TypeOK
    BY DEF LockInv
  <1>2. prog[t] \in Programs \union {Idle} /\ pc[t] \in Nat
    BY <1>1 DEF TypeOK
  <1>3. prog[t] \in Seq(SUBSET Guards) /\ Len(prog[t]) \in Nat
    BY <1>2, ProgramShape
  <1>4. prog' = prog /\ pc'[t] = pc[t] + 1 /\ queue' = queue
    BY <1>1 DEF Drop, TypeOK
  <1>5. \A u \in Tasks \ {t} : prog'[u] = prog[u] /\ pc'[u] = pc[u]
    BY <1>1 DEF Drop, TypeOK
  <1>6. TypeOK'
    <2>1. pc' \in [Tasks -> Nat]
      BY <1>1, <1>2 DEF Drop, TypeOK
    <2>2. \A u \in Tasks : pc'[u] \in 1 .. Len(prog[u])
      <3> SUFFICES ASSUME NEW u \in Tasks PROVE pc'[u] \in 1 .. Len(prog[u])
        OBVIOUS
      <3>1. CASE u = t
        BY <1>2, <1>3, <1>4, <3>1 DEF Drop
      <3>2. CASE u # t
        BY <1>1, <1>5, <3>2 DEF TypeOK
      <3> QED BY <3>1, <3>2
    <2> QED BY <1>1, <1>4, <2>1, <2>2 DEF TypeOK
  <1>7. Wanted(t) = {}
    BY DEF Drop
  <1>8. Held(t)' \subseteq Held(t)
    <2>1. Held(t)' = Upcoming(t)
      BY <1>4 DEF Held, Upcoming
    <2> QED BY <1>7, <2>1 DEF Drop, Wanted
  <1> QED BY <1>4, <1>5, <1>6, <1>7, <1>8, QuietStep

\* A method that returns holds nothing any more.
LEMMA ReturnKeeps ==
    ASSUME LockInv, NEW t \in Tasks, Return(t) PROVE LockInv'
  <1>1. TypeOK
    BY DEF LockInv
  <1>2. Len(Idle) = 1 /\ Idle[1] = {}
    BY DEF Idle
  <1>3. prog'[t] = Idle /\ pc'[t] = 1 /\ queue' = queue
    BY <1>1 DEF Return, TypeOK
  <1>4. \A u \in Tasks \ {t} : prog'[u] = prog[u] /\ pc'[u] = pc[u]
    BY <1>1 DEF Return, TypeOK
  <1>5. TypeOK'
    <2>1. prog' \in [Tasks -> Programs \union {Idle}] /\ pc' \in [Tasks -> Nat]
      BY <1>1 DEF Return, TypeOK
    <2>2. \A u \in Tasks : pc'[u] \in 1 .. Len(prog'[u])
      <3> SUFFICES ASSUME NEW u \in Tasks PROVE pc'[u] \in 1 .. Len(prog'[u])
        OBVIOUS
      <3>1. CASE u = t
        <4>1. pc'[u] = 1 /\ Len(prog'[u]) = 1
          BY <1>2, <1>3, <3>1
        <4> QED BY <4>1
      <3>2. CASE u # t
        BY <1>1, <1>4, <3>2 DEF TypeOK
      <3> QED BY <3>1, <3>2
    <2> QED BY <1>1, <1>3, <2>1, <2>2 DEF TypeOK
  <1>6. Wanted(t) = {}
    <2>1. pc[t] = Len(prog[t]) /\ pc[t] \in Nat
      BY <1>1 DEF Return, TypeOK
    <2> QED BY <2>1 DEF Wanted
  <1>7. Held(t)' \subseteq Held(t)
    BY <1>2, <1>3 DEF Held
  <1> QED BY <1>3, <1>4, <1>5, <1>6, <1>7, QuietStep

\* A request joins a queue the task is not in yet.
LEMMA AwaitKeeps ==
    ASSUME LockInv, NEW t \in Tasks, Await(t) PROVE LockInv'
  <1>1. TypeOK
    BY DEF LockInv
  <1>2. PICK g \in Wanted(t) : queue' = [queue EXCEPT ![g[1]] = Append(@, t)]
    BY DEF Await
  <1>3. g \in Guards /\ g[1] \in Locks
    BY <1>1, GuardShape DEF Guards
  <1>4. \A l \in Locks : queue[l] \in Seq(Tasks)
    BY <1>1 DEF TypeOK
  <1>5. queue'[g[1]] = Append(queue[g[1]], t) /\ \A l \in Locks \ {g[1]} : queue'[l] = queue[l]
    BY <1>1, <1>2, <1>3 DEF TypeOK
  <1>6. prog' = prog /\ pc' = pc
    BY DEF Await
  <1>7. TypeOK'
    <2>1. Append(queue[g[1]], t) \in Seq(Tasks)
      BY <1>3, <1>4
    <2>2. queue' \in [Locks -> Seq(Tasks)]
      BY <1>1, <1>2, <2>1 DEF TypeOK
    <2> QED BY <1>1, <1>6, <2>2 DEF TypeOK
  <1>8. \A u \in Tasks : Held(u)' = Held(u) /\ Wanted(u)' = Wanted(u)
    BY <1>6 DEF Held, Wanted, Upcoming
  <1>9. GuardsCompatible'
    BY <1>8 DEF LockInv, GuardsCompatible
  <1>10. \A l \in Locks : \A i \in 1 .. Len(queue[l]) : queue[l][i] # t
    BY DEF Await, Waiting, Queued
  \* A request of the new queue is an old one, or the new one at the end.
  <1>11. \A l \in Locks : \A i \in 1 .. Len(queue'[l]) :
            \/ i \in 1 .. Len(queue[l]) /\ queue'[l][i] = queue[l][i]
            \/ l = g[1] /\ i = Len(queue[l]) + 1 /\ queue'[l][i] = t
    <2> SUFFICES ASSUME NEW l \in Locks, NEW i \in 1 .. Len(queue'[l])
                 PROVE  \/ i \in 1 .. Len(queue[l]) /\ queue'[l][i] = queue[l][i]
                        \/ l = g[1] /\ i = Len(queue[l]) + 1 /\ queue'[l][i] = t
      OBVIOUS
    <2>1. CASE l = g[1]
      BY <1>4, <1>5, <2>1
    <2>2. CASE l # g[1]
      BY <1>5, <2>2
    <2> QED BY <2>1, <2>2
  <1>12. QueuedWants'
    <2> SUFFICES ASSUME NEW l \in Locks, NEW i \in 1 .. Len(queue'[l])
                 PROVE  \E h \in Wanted(queue[l][i])' : h[1] = l
      BY DEF QueuedWants
    <2>1. CASE i \in 1 .. Len(queue[l]) /\ queue'[l][i] = queue[l][i]
      <3>1. queue[l][i] \in Tasks
        BY <1>4, <2>1
      <3>2. \E h \in Wanted(queue[l][i]) : h[1] = l
        BY <2>1 DEF LockInv, QueuedWants
      <3> QED BY <1>8, <2>1, <3>1, <3>2, <1>6 DEF Wanted, Held, Upcoming
    <2>2. CASE l = g[1] /\ queue'[l][i] = t
      BY <2>2, <1>6 DEF Wanted, Held, Upcoming
    <2> QED BY <1>11, <2>1, <2>2
  <1>13. OneRequest'
    <2> SUFFICES ASSUME NEW l \in Locks, NEW m \in Locks,
                        NEW i \in 1 .. Len(queue'[l]), NEW j \in 1 .. Len(queue'[m]),
                        queue'[l][i] = queue'[m][j]
                 PROVE  l = m /\ i = j
      BY DEF OneRequest
    <2>1. CASE /\ i \in 1 .. Len(queue[l]) /\ queue'[l][i] = queue[l][i]
               /\ j \in 1 .. Len(queue[m]) /\ queue'[m][j] = queue[m][j]
      <3>1. queue[l][i] = queue[m][j]
        BY <2>1
      <3> QED BY <2>1, <3>1 DEF LockInv, OneRequest
    <2>2. CASE queue'[l][i] = t
      <3>1. l = g[1] /\ i = Len(queue[l]) + 1
        BY <1>10, <1>11, <2>2
      <3>2. m = g[1] /\ j = Len(queue[m]) + 1
        BY <1>10, <1>11, <2>2
      <3> QED BY <3>1, <3>2
    <2>3. CASE queue'[l][i] # t
      <3>1. i \in 1 .. Len(queue[l]) /\ queue'[l][i] = queue[l][i]
        BY <1>11, <2>3
      <3>2. j \in 1 .. Len(queue[m]) /\ queue'[m][j] = queue[m][j]
        BY <1>11, <2>3
      <3> QED BY <2>1, <3>1, <3>2
    <2> QED BY <2>2, <2>3
  <1> QED BY <1>7, <1>9, <1>12, <1>13 DEF LockInv

\* A granted guard is compatible with the guards of every other task.
LEMMA GrantKeeps ==
    ASSUME LockInv, NEW t \in Tasks, Grant(t) PROVE LockInv'
  <1>1. TypeOK
    BY DEF LockInv
  <1>2. PICK g \in Wanted(t) :
            /\ queue[g[1]] # << >> /\ Head(queue[g[1]]) = t /\ Grantable(t, g)
            /\ queue' = [queue EXCEPT ![g[1]] = Tail(@)]
    BY DEF Grant
  <1>3. g[1] \in Locks /\ pc[t] < Len(prog[t]) /\ \A h \in Wanted(t) : h = g
    BY <1>1, GuardShape DEF Guards
  <1>4. \A l \in Locks : queue[l] \in Seq(Tasks)
    BY <1>1 DEF TypeOK
  <1>5. queue'[g[1]] = Tail(queue[g[1]]) /\ \A l \in Locks \ {g[1]} : queue'[l] = queue[l]
    BY <1>1, <1>2, <1>3 DEF TypeOK
  <1>6. prog' = prog /\ pc'[t] = pc[t] + 1 /\ \A u \in Tasks \ {t} : pc'[u] = pc[u]
    BY <1>1 DEF Grant, TypeOK
  <1>7. TypeOK'
    <2>1. Tail(queue[g[1]]) \in Seq(Tasks)
      BY <1>2, <1>3, <1>4
    <2>2. queue' \in [Locks -> Seq(Tasks)]
      BY <1>1, <1>2, <2>1 DEF TypeOK
    <2>3. pc' \in [Tasks -> Nat]
      BY <1>1 DEF Grant, TypeOK
    <2>4. \A u \in Tasks : pc'[u] \in 1 .. Len(prog[u])
      <3> SUFFICES ASSUME NEW u \in Tasks PROVE pc'[u] \in 1 .. Len(prog[u])
        OBVIOUS
      <3>1. CASE u = t
        <4>1. prog[t] \in Seq(SUBSET Guards)
          BY <1>1, ProgramShape DEF TypeOK
        <4>2. pc[t] \in Nat
          BY <1>1 DEF TypeOK
        <4> QED BY <1>3, <1>6, <3>1, <4>1, <4>2
      <3>2. CASE u # t
        BY <1>1, <1>6, <3>2 DEF TypeOK
      <3> QED BY <3>1, <3>2
    <2> QED BY <1>1, <1>6, <2>2, <2>3, <2>4 DEF TypeOK
  <1>8. \A u \in Tasks \ {t} : Held(u)' = Held(u) /\ Wanted(u)' = Wanted(u)
    BY <1>6, SameTask
  <1>9. \A h \in Held(t)' : h \in Held(t) \/ h = g
    <2>1. Held(t)' = Upcoming(t)
      BY <1>6 DEF Held, Upcoming
    <2>2. Wanted(t) = Upcoming(t) \ Held(t)
      BY <1>3 DEF Wanted
    <2> QED BY <1>3, <2>1, <2>2
  <1>10. GuardsCompatible'
    <2> SUFFICES ASSUME NEW u \in Tasks, NEW v \in Tasks, u # v,
                        NEW h \in Held(u)', NEW k \in Held(v)'
                 PROVE  Compatible(h, k)
      BY DEF GuardsCompatible, Compatible
    <2>1. CASE u # t /\ v # t
      BY <1>8, <2>1 DEF LockInv, GuardsCompatible
    <2>2. CASE u = t
      <3>1. k \in Held(v)
        BY <1>8, <2>2
      <3>2. CASE h \in Held(t)
        BY <2>2, <3>1, <3>2 DEF LockInv, GuardsCompatible
      <3>3. CASE h = g
        BY <1>2, <2>2, <3>1, <3>3 DEF Grantable
      <3> QED BY <1>9, <2>2, <3>2, <3>3
    <2>3. CASE v = t
      <3>1. h \in Held(u)
        BY <1>8, <2>3
      <3>2. CASE k \in Held(t)
        BY <2>3, <3>1, <3>2 DEF LockInv, GuardsCompatible
      <3>3. CASE k = g
        BY <1>2, <2>3, <3>1, <3>3 DEF Grantable, Compatible
      <3> QED BY <1>9, <2>3, <3>2, <3>3
    <2> QED BY <2>1, <2>2, <2>3
  \* A request of the new queues was one of the old queues, one place later
  \* in the queue of the granted lock.
  <1>11. \A l \in Locks : \A i \in 1 .. Len(queue'[l]) :
            LET k == IF l = g[1] THEN i + 1 ELSE i
            IN k \in 1 .. Len(queue[l]) /\ queue'[l][i] = queue[l][k]
    <2> SUFFICES ASSUME NEW l \in Locks, NEW i \in 1 .. Len(queue'[l])
                 PROVE  LET k == IF l = g[1] THEN i + 1 ELSE i
                        IN k \in 1 .. Len(queue[l]) /\ queue'[l][i] = queue[l][k]
      OBVIOUS
    <2>1. CASE l = g[1]
      <3>1. queue[l] \in Seq(Tasks) /\ queue[l] # << >> /\ queue'[l] = Tail(queue[l])
        BY <1>2, <1>4, <1>5, <2>1
      <3> QED BY <2>1, <3>1
    <2>2. CASE l # g[1]
      BY <1>5, <2>2
    <2> QED BY <2>1, <2>2
  <1>12. 1 \in 1 .. Len(queue[g[1]]) /\ queue[g[1]][1] = t
    BY <1>2, <1>3, <1>4
  <1>13. \A l \in Locks : \A i \in 1 .. Len(queue'[l]) : queue'[l][i] \in Tasks \ {t}
    <2> SUFFICES ASSUME NEW l \in Locks, NEW i \in 1 .. Len(queue'[l])
                 PROVE  queue'[l][i] \in Tasks \ {t}
      OBVIOUS
    <2> DEFINE k == IF l = g[1] THEN i + 1 ELSE i
    <2>1. k \in 1 .. Len(queue[l]) /\ queue'[l][i] = queue[l][k]
      BY <1>11
    <2>2. l = g[1] => k # 1
      OBVIOUS
    <2>3. queue[l][k] # t
      <3> HIDE DEF k
      <3> QED BY <1>3, <1>12, <2>1, <2>2 DEF LockInv, OneRequest
    <2>4. queue[l][k] \in Tasks
      <3> HIDE DEF k
      <3> QED BY <1>4, <2>1
    <2> HIDE DEF k
    <2> QED BY <2>1, <2>3, <2>4
  <1>14. QueuedWants'
    <2> SUFFICES ASSUME NEW l \in Locks, NEW i \in 1 .. Len(queue'[l])
                 PROVE  \E h \in Wanted(queue[l][i])' : h[1] = l
      BY DEF QueuedWants
    <2> DEFINE k == IF l = g[1] THEN i + 1 ELSE i
    <2>1. k \in 1 .. Len(queue[l]) /\ queue'[l][i] = queue[l][k]
      BY <1>11
    <2> HIDE DEF k
    <2>2. \E h \in Wanted(queue[l][k]) : h[1] = l
      BY <2>1 DEF LockInv, QueuedWants
    <2> DEFINE u == queue'[l][i]
    <2>3. u \in Tasks \ {t} /\ u = queue[l][k]
      BY <1>13, <2>1
    <2>4. prog'[u] = prog[u] /\ pc'[u] = pc[u]
      BY <1>6, <2>3
    <2>5. Wanted(queue[l][i])' = Wanted(queue[l][k])
      BY <2>3, <2>4 DEF Wanted, Upcoming, Held
    <2> QED BY <2>2, <2>5
  <1>15. OneRequest'
    <2> SUFFICES ASSUME NEW l \in Locks, NEW m \in Locks,
                        NEW i \in 1 .. Len(queue'[l]), NEW j \in 1 .. Len(queue'[m]),
                        queue'[l][i] = queue'[m][j]
                 PROVE  l = m /\ i = j
      BY DEF OneRequest
    <2> DEFINE k == IF l = g[1] THEN i + 1 ELSE i
               n == IF m = g[1] THEN j + 1 ELSE j
    <2>1. k \in 1 .. Len(queue[l]) /\ n \in 1 .. Len(queue[m]) /\ queue[l][k] = queue[m][n]
      BY <1>11
    <2>2. l = m /\ k = n
      <3> HIDE DEF k, n
      <3> QED BY <2>1 DEF LockInv, OneRequest
    <2> QED BY <2>2
  <1> QED BY <1>7, <1>10, <1>14, <1>15 DEF LockInv

\* Every step keeps the inductive invariant.
LEMMA NextLockInv == LockInv /\ [Next]_vars => LockInv'
  <1> SUFFICES ASSUME LockInv, [Next]_vars PROVE LockInv'
    OBVIOUS
  <1>1. CASE Next
    <2>1. PICK t \in Tasks : Call(t) \/ Await(t) \/ Grant(t) \/ Drop(t) \/ Return(t)
      BY <1>1 DEF Next, Step
    <2> QED BY <2>1, CallKeeps, AwaitKeeps, GrantKeeps, DropKeeps, ReturnKeeps
  <1>2. CASE UNCHANGED vars
    BY <1>2 DEF vars, LockInv, TypeOK, GuardsCompatible, QueuedWants, OneRequest,
                Held, Wanted, Upcoming
  <1> QED BY <1>1, <1>2

\* LockInv is an invariant of the specification.
LEMMA LockInvariant == Spec => []LockInv
  BY InitLockInv, NextLockInv, PTL DEF Spec

\* A task that waits for a lock wants a guard of it.
LEMMA WaiterWants ==
    ASSUME LockInv, NEW t \in Tasks, NEW l \in Locks, Queued(t, l)
    PROVE  \E g \in Wanted(t) : g[1] = l
  BY DEF LockInv, QueuedWants, Queued

\* Task t holds lock l and wants lock m next.
HoldsAndWants(t, l, m) ==
    (\E h \in Held(t) : h[1] = l) /\ (\E g \in Wanted(t) : g[1] = m)

\* In a state where every method keeps the order, no set of locks is stuck.
\* The holder of an inner lock that waits has the only write guard of
\* sessions, so the inner lock it waits for is held by nobody else who waits.
LEMMA OrderedNotStuck == LockInv /\ OrderKept => NoStuckLocks
  <1> SUFFICES ASSUME LockInv, OrderKept, NEW L \in SUBSET Locks, L # {},
                      \A l \in L : \E m \in L : WaitsFor(l, m)
               PROVE  FALSE
    BY DEF NoStuckLocks
  <1>1. \A l \in L : \E m \in L, t \in Tasks : HoldsAndWants(t, l, m)
    <2> SUFFICES ASSUME NEW l \in L
                 PROVE  \E m \in L, t \in Tasks : HoldsAndWants(t, l, m)
      OBVIOUS
    <2>1. PICK m \in L : WaitsFor(l, m)
      OBVIOUS
    <2>2. PICK t \in Tasks : Queued(t, m) /\ \E h \in Held(t) : h[1] = l
      BY <2>1 DEF WaitsFor
    <2>3. \E g \in Wanted(t) : g[1] = m
      BY <2>2, WaiterWants
    <2> QED BY <2>2, <2>3 DEF HoldsAndWants
  \* What the order says about such a task.
  <1>2. \A t \in Tasks, l, m \in L : HoldsAndWants(t, l, m) =>
            /\ l # m
            /\ l # "running_snapshots" => m \in Inner
            /\ l \in Inner => Write("sessions") \in Held(t)
            /\ \A k \in Held(t) : k[1] # m
    BY DEF HoldsAndWants, OrderKept
  <1>3. \A l \in L : l \notin Inner
    <2> SUFFICES ASSUME NEW l \in L, l \in Inner PROVE FALSE
      OBVIOUS
    <2>1. PICK m \in L, t \in Tasks : HoldsAndWants(t, l, m)
      BY <1>1
    <2>2. Write("sessions") \in Held(t) /\ m \in Inner
      BY <1>2, <2>1 DEF Inner
    <2>3. PICK n \in L, u \in Tasks : HoldsAndWants(u, m, n)
      BY <1>1
    <2>4. Write("sessions") \in Held(u)
      BY <1>2, <2>2, <2>3
    <2>5. u = t
      BY <2>2, <2>4 DEF LockInv, GuardsCompatible, Compatible, Write
    <2> QED BY <1>2, <2>1, <2>3, <2>5 DEF HoldsAndWants
  <1>4. "sessions" \notin L
    BY <1>1, <1>2, <1>3
  <1>5. L = {"running_snapshots"}
    BY <1>3, <1>4 DEF Inner
  <1> QED BY <1>1, <1>2, <1>5

\* Methods that take the maps in the order running_snapshots, sessions, the
\* others (OrderKept) never deadlock, however many of them run at once.
THEOREM OrderPreventsDeadlock == Spec /\ []OrderKept => []NoStuckLocks
  BY LockInvariant, OrderedNotStuck, PTL

-----------------------------------------------------------------------------
(***************************************************************************)
(* The methods of the service keep the order.                              *)
(***************************************************************************)

\* A guard that may be awaited while the guards of held are alive.
MayAwait(held, g) ==
    \A h \in held :
        /\ h[1] # g[1]
        /\ h[1] # "running_snapshots" => g[1] \in Inner
        /\ h[1] \in Inner => Write("sessions") \in held

\* A step of a program from one set of guards to the next.
MayStep(held, next) == \A g \in next \ held : MayAwait(held, g)

\* A piece of a program that may follow where the guards of a are held, and
\* leaves those of b.
Leads(p, a, b) ==
    /\ p \in Seq(SUBSET Guards)
    /\ \A i \in 1 .. Len(p) : MayStep(IF i = 1 THEN a ELSE p[i - 1], p[i])
    /\ b = IF Len(p) = 0 THEN a ELSE p[Len(p)]

\* Pieces follow each other.
LEMMA LeadsConcat ==
    ASSUME NEW a, NEW b, NEW c, NEW p, NEW q, Leads(p, a, b), Leads(q, b, c)
    PROVE  Leads(p \o q, a, c)
  <1> DEFINE r == p \o q
             S == SUBSET Guards
  <1>1. p \in Seq(S) /\ q \in Seq(S) /\ Len(p) \in Nat /\ Len(q) \in Nat
    BY DEF Leads
  <1> HIDE DEF S
  <1>2. /\ r \in Seq(S) /\ Len(r) = Len(p) + Len(q)
        /\ \A i \in 1 .. Len(p) + Len(q) : r[i] = IF i <= Len(p) THEN p[i] ELSE q[i - Len(p)]
    BY <1>1
  <1> HIDE DEF r
  <1>3. ASSUME NEW i \in 1 .. Len(r)
        PROVE  MayStep(IF i = 1 THEN a ELSE r[i - 1], r[i])
    <2>1. CASE i <= Len(p)
      <3>1. i \in 1 .. Len(p) /\ r[i] = p[i] /\ (i # 1 => r[i - 1] = p[i - 1])
        BY <1>1, <1>2, <2>1
      <3>2. MayStep(IF i = 1 THEN a ELSE p[i - 1], p[i])
        BY <3>1 DEF Leads
      <3> QED BY <3>1, <3>2
    <2>2. CASE i > Len(p)
      <3> DEFINE j == i - Len(p)
      <3>1. j \in 1 .. Len(q) /\ r[i] = q[j]
        BY <1>1, <1>2, <2>2
      <3>4. ASSUME j # 1 PROVE i # 1 /\ r[i - 1] = q[j - 1]
        <4>1. i - 1 \in 1 .. Len(p) + Len(q) /\ ~ (i - 1 <= Len(p)) /\ (i - 1) - Len(p) = j - 1
          BY <1>1, <1>2, <2>2, <3>4
        <4>2. r[i - 1] = q[(i - 1) - Len(p)]
          BY <1>2, <4>1
        <4> QED BY <1>1, <4>1, <4>2
      <3>2. j = 1 => b = IF i = 1 THEN a ELSE r[i - 1]
        BY <1>1, <1>2, <2>2 DEF Leads
      <3>3. MayStep(IF j = 1 THEN b ELSE q[j - 1], q[j])
        BY <3>1 DEF Leads
      <3> HIDE DEF j
      <3> QED BY <3>1, <3>2, <3>3, <3>4
    <2> QED BY <1>1, <1>2, <2>1, <2>2
  <1>4. c = IF Len(r) = 0 THEN a ELSE r[Len(r)]
    BY <1>1, <1>2 DEF Leads
  <1> QED BY <1>2, <1>3, <1>4 DEF Leads, r, S

\* The shortest pieces.
LEMMA LeadsNowhere ==
    ASSUME NEW a
    PROVE  Leads(<< >>, a, a)
  BY DEF Leads

\* One step is a piece of a method if it may be taken.
LEMMA LeadsOnce ==
    ASSUME NEW a, NEW b \in SUBSET Guards, MayStep(a, b)
    PROVE  Leads(<< b >>, a, b)
  <1>1. << b >> \in Seq(SUBSET Guards) /\ Len(<< b >>) = 1 /\ << b >>[1] = b
    OBVIOUS
  <1> QED BY <1>1 DEF Leads

\* So are two,
LEMMA LeadsTwice ==
    ASSUME NEW a,
           NEW s1 \in SUBSET Guards, NEW s2 \in SUBSET Guards,
           MayStep(a, s1), MayStep(s1, s2)
    PROVE  Leads(<< s1, s2 >>, a, s2)
  <1> DEFINE p == << s1, s2 >>
  <1>1. /\ p \in Seq(SUBSET Guards) /\ Len(p) = 2
        /\ p[1] = s1 /\ p[2] = s2
    OBVIOUS
  <1> HIDE DEF p
  <1>2. \A i \in 1 .. Len(p) : i \in {1, 2}
    BY <1>1
  <1>3. \A i \in {1, 2} : MayStep(IF i = 1 THEN a ELSE p[i - 1], p[i])
    BY <1>1
  <1> QED BY <1>1, <1>2, <1>3 DEF Leads, p

\* three,
LEMMA LeadsThrice ==
    ASSUME NEW a,
           NEW s1 \in SUBSET Guards, NEW s2 \in SUBSET Guards, NEW s3 \in SUBSET Guards,
           MayStep(a, s1), MayStep(s1, s2), MayStep(s2, s3)
    PROVE  Leads(<< s1, s2, s3 >>, a, s3)
  <1> DEFINE p == << s1, s2, s3 >>
  <1>1. /\ p \in Seq(SUBSET Guards) /\ Len(p) = 3
        /\ p[1] = s1 /\ p[2] = s2 /\ p[3] = s3
    OBVIOUS
  <1> HIDE DEF p
  <1>2. \A i \in 1 .. Len(p) : i \in {1, 2, 3}
    BY <1>1
  <1>3. \A i \in {1, 2, 3} : MayStep(IF i = 1 THEN a ELSE p[i - 1], p[i])
    BY <1>1
  <1> QED BY <1>1, <1>2, <1>3 DEF Leads, p

\* four,
LEMMA LeadsFourTimes ==
    ASSUME NEW a,
           NEW s1 \in SUBSET Guards, NEW s2 \in SUBSET Guards, NEW s3 \in SUBSET Guards,
           NEW s4 \in SUBSET Guards,
           MayStep(a, s1), MayStep(s1, s2), MayStep(s2, s3), MayStep(s3, s4)
    PROVE  Leads(<< s1, s2, s3, s4 >>, a, s4)
  <1> DEFINE p == << s1, s2, s3, s4 >>
  <1>1. /\ p \in Seq(SUBSET Guards) /\ Len(p) = 4
        /\ p[1] = s1 /\ p[2] = s2 /\ p[3] = s3 /\ p[4] = s4
    OBVIOUS
  <1> HIDE DEF p
  <1>2. \A i \in 1 .. Len(p) : i \in {1, 2, 3, 4}
    BY <1>1
  <1>3. \A i \in {1, 2, 3, 4} : MayStep(IF i = 1 THEN a ELSE p[i - 1], p[i])
    BY <1>1
  <1> QED BY <1>1, <1>2, <1>3 DEF Leads, p

\* five,
LEMMA LeadsFiveTimes ==
    ASSUME NEW a,
           NEW s1 \in SUBSET Guards, NEW s2 \in SUBSET Guards, NEW s3 \in SUBSET Guards,
           NEW s4 \in SUBSET Guards, NEW s5 \in SUBSET Guards,
           MayStep(a, s1), MayStep(s1, s2), MayStep(s2, s3), MayStep(s3, s4),
           MayStep(s4, s5)
    PROVE  Leads(<< s1, s2, s3, s4, s5 >>, a, s5)
  <1> DEFINE p == << s1, s2, s3, s4, s5 >>
  <1>1. /\ p \in Seq(SUBSET Guards) /\ Len(p) = 5
        /\ p[1] = s1 /\ p[2] = s2 /\ p[3] = s3 /\ p[4] = s4
        /\ p[5] = s5
    OBVIOUS
  <1> HIDE DEF p
  <1>2. \A i \in 1 .. Len(p) : i \in {1, 2, 3, 4, 5}
    BY <1>1
  <1>3. \A i \in {1, 2, 3, 4, 5} : MayStep(IF i = 1 THEN a ELSE p[i - 1], p[i])
    BY <1>1
  <1> QED BY <1>1, <1>2, <1>3 DEF Leads, p

\* six
LEMMA LeadsSixTimes ==
    ASSUME NEW a,
           NEW s1 \in SUBSET Guards, NEW s2 \in SUBSET Guards, NEW s3 \in SUBSET Guards,
           NEW s4 \in SUBSET Guards, NEW s5 \in SUBSET Guards, NEW s6 \in SUBSET Guards,
           MayStep(a, s1), MayStep(s1, s2), MayStep(s2, s3), MayStep(s3, s4),
           MayStep(s4, s5), MayStep(s5, s6)
    PROVE  Leads(<< s1, s2, s3, s4, s5, s6 >>, a, s6)
  <1> DEFINE p == << s1, s2, s3, s4, s5, s6 >>
  <1>1. /\ p \in Seq(SUBSET Guards) /\ Len(p) = 6
        /\ p[1] = s1 /\ p[2] = s2 /\ p[3] = s3 /\ p[4] = s4
        /\ p[5] = s5 /\ p[6] = s6
    OBVIOUS
  <1> HIDE DEF p
  <1>2. \A i \in 1 .. Len(p) : i \in {1, 2, 3, 4, 5, 6}
    BY <1>1
  <1>3. \A i \in {1, 2, 3, 4, 5, 6} : MayStep(IF i = 1 THEN a ELSE p[i - 1], p[i])
    BY <1>1
  <1> QED BY <1>1, <1>2, <1>3 DEF Leads, p

\* and seven of them.
LEMMA LeadsSevenTimes ==
    ASSUME NEW a,
           NEW s1 \in SUBSET Guards, NEW s2 \in SUBSET Guards, NEW s3 \in SUBSET Guards,
           NEW s4 \in SUBSET Guards, NEW s5 \in SUBSET Guards, NEW s6 \in SUBSET Guards,
           NEW s7 \in SUBSET Guards,
           MayStep(a, s1), MayStep(s1, s2), MayStep(s2, s3), MayStep(s3, s4),
           MayStep(s4, s5), MayStep(s5, s6), MayStep(s6, s7)
    PROVE  Leads(<< s1, s2, s3, s4, s5, s6, s7 >>, a, s7)
  <1> DEFINE p == << s1, s2, s3, s4, s5, s6, s7 >>
  <1>1. /\ p \in Seq(SUBSET Guards) /\ Len(p) = 7
        /\ p[1] = s1 /\ p[2] = s2 /\ p[3] = s3 /\ p[4] = s4
        /\ p[5] = s5 /\ p[6] = s6 /\ p[7] = s7
    OBVIOUS
  <1> HIDE DEF p
  <1>2. \A i \in 1 .. Len(p) : i \in {1, 2, 3, 4, 5, 6, 7}
    BY <1>1
  <1>3. \A i \in {1, 2, 3, 4, 5, 6, 7} : MayStep(IF i = 1 THEN a ELSE p[i - 1], p[i])
    BY <1>1
  <1> QED BY <1>1, <1>2, <1>3 DEF Leads, p

\* Steps that take one more guard, and steps that drop guards.
LEMMA MayTake ==
    ASSUME NEW a, NEW g, MayAwait(a, g)
    PROVE  MayStep(a, a \union {g})
  BY DEF MayStep

\* A step that only drops guards waits for nobody.
LEMMA MayDrop ==
    ASSUME NEW a, NEW b, b \subseteq a
    PROVE  MayStep(a, b)
  BY DEF MayStep

\* A guard taken and dropped again.
LEMMA LeadsAround ==
    ASSUME NEW a \in SUBSET Guards, NEW g \in Guards, MayAwait(a, g)
    PROVE  Leads(<< a \union {g}, a >>, a, a)
  <1>1. MayStep(a, a \union {g}) /\ MayStep(a \union {g}, a)
    BY MayTake, MayDrop
  <1> QED BY <1>1, LeadsTwice

\* Nothing is held before the first guard, so that it may be any.
LEMMA FirstGuard ==
    ASSUME NEW g \in Guards
    PROVE  /\ Leads(<< {} >>, {}, {})
           /\ Leads(<< {g} >>, {}, {g}) /\ Leads(<< {g}, {} >>, {}, {})
           /\ Leads(Single(g), {}, {}) /\ Tail(Single(g)) = << {g}, {} >>
  <1>1. MayStep({}, {g}) /\ MayStep({g}, {}) /\ MayStep({}, {})
    BY DEF MayStep, MayAwait
  <1>2. Leads(<< {} >>, {}, {}) /\ Leads(<< {g} >>, {}, {g})
    BY <1>1, LeadsOnce
  <1>3. Leads(<< {g}, {} >>, {}, {})
    BY <1>1, LeadsTwice
  <1>4. Leads(<< {}, {g}, {} >>, {}, {})
    BY <1>1, LeadsThrice
  <1>5. Tail(Single(g)) = << {g}, {} >>
    BY DEF Single
  <1> QED BY <1>2, <1>3, <1>4, <1>5 DEF Single

\* The locks of DiscoveryService have a read and a write guard.
LEMMA GuardsOf ==
    /\ \A l \in Locks : Read(l) \in Guards /\ Write(l) \in Guards
    /\ {"running_snapshots", "sessions", "session_last_updated", "daemon_sessions",
        "discovery_sessions", "daemon_pull_cancellations", "job_ids"} \subseteq Locks
  BY DEF Guards, Read, Write, Locks

\* The methods, one after the other.
LEMMA SimpleMethods ==
    ASSUME NEW p \in {LookupDiscoveryId, GetSession, PullCancellationForDaemon}
    PROVE  Leads(p, {}, {})
  BY FirstGuard, GuardsOf DEF LookupDiscoveryId, GetSession, PullCancellationForDaemon

\* remove_scheduled_job: job_ids read, dropped, and written.
LEMMA RemoveScheduledJobLeads == Leads(RemoveScheduledJob, {}, {})
  <1> DEFINE r == {Read("job_ids")}
             w == {Write("job_ids")}
             e == {}
  <1>1. r \in SUBSET Guards /\ w \in SUBSET Guards /\ e \in SUBSET Guards
    BY GuardsOf
  <1>2. MayStep(e, e) /\ MayStep(e, r) /\ MayStep(r, e) /\ MayStep(e, w) /\ MayStep(w, e)
    BY DEF MayStep, MayAwait
  <1>3. RemoveScheduledJob = << e, r, e, w, e >>
    BY DEF RemoveScheduledJob
  <1> HIDE DEF r, w
  <1> QED BY <1>1, <1>2, <1>3, LeadsFiveTimes

\* The guards that are taken one after the other under sessions.
LEMMA ClearSessionsForDaemonLeads == Leads(ClearSessionsForDaemon, {}, {})
  <1> DEFINE h1 == {Write("sessions")}
             h2 == h1 \union {Write("daemon_sessions")}
             h3 == h2 \union {Write("session_last_updated")}
             h4 == h3 \union {Write("daemon_pull_cancellations")}
             h5 == h4 \union {Write("discovery_sessions")}
  <1>1. /\ {} \in SUBSET Guards /\ h1 \in SUBSET Guards /\ h2 \in SUBSET Guards
        /\ h3 \in SUBSET Guards /\ h4 \in SUBSET Guards /\ h5 \in SUBSET Guards
    BY GuardsOf
  <1>2. MayStep({}, {}) /\ MayStep({}, h1)
    BY DEF MayStep, MayAwait
  <1>3. MayAwait(h1, Write("daemon_sessions")) /\ MayAwait(h2, Write("session_last_updated"))
    BY DEF MayAwait, Write, Inner, Locks
  <1>4. MayAwait(h3, Write("daemon_pull_cancellations")) /\ MayAwait(h4, Write("discovery_sessions"))
    BY DEF MayAwait, Write, Inner, Locks
  <1>5. MayStep(h1, h2) /\ MayStep(h2, h3) /\ MayStep(h3, h4) /\ MayStep(h4, h5) /\ MayStep(h5, {})
    BY <1>3, <1>4, MayTake, MayDrop
  <1>6. ClearSessionsForDaemon = << {}, h1, h2, h3, h4, h5, {} >>
    BY DEF ClearSessionsForDaemon
  <1> HIDE DEF h1, h2, h3, h4, h5
  <1> QED BY <1>1, <1>2, <1>5, <1>6, LeadsSevenTimes

\* cleanup_old_sessions.
LEMMA CleanupOldSessionsLeads == Leads(CleanupOldSessions, {}, {})
  <1> DEFINE h1 == {Write("sessions")}
             h2 == h1 \union {Write("daemon_sessions")}
             h3 == h2 \union {Write("daemon_pull_cancellations")}
             h4 == h3 \union {Write("discovery_sessions")}
  <1>1. /\ {} \in SUBSET Guards /\ h1 \in SUBSET Guards /\ h2 \in SUBSET Guards
        /\ h3 \in SUBSET Guards /\ h4 \in SUBSET Guards
    BY GuardsOf
  <1>2. MayStep({}, {}) /\ MayStep({}, h1)
    BY DEF MayStep, MayAwait
  <1>3. /\ MayAwait(h1, Write("daemon_sessions")) /\ MayAwait(h2, Write("daemon_pull_cancellations"))
        /\ MayAwait(h3, Write("discovery_sessions"))
    BY DEF MayAwait, Write, Inner, Locks
  <1>4. MayStep(h1, h2) /\ MayStep(h2, h3) /\ MayStep(h3, h4) /\ MayStep(h4, {})
    BY <1>3, MayTake, MayDrop
  <1>5. CleanupOldSessions = << {}, h1, h2, h3, h4, {} >>
    BY DEF CleanupOldSessions
  <1> HIDE DEF h1, h2, h3, h4
  <1> QED BY <1>1, <1>2, <1>4, <1>5, LeadsSixTimes

\* transition_session_to_starting.
LEMMA TransitionSessionToStartingLeads ==
    ASSUME NEW p \in TransitionSessionToStarting
    PROVE  Leads(p, {}, {})
  <1> DEFINE h1 == {Write("sessions")}
             h2 == {Write("sessions"), Write("session_last_updated")}
  <1>1. {} \in SUBSET Guards /\ h1 \in SUBSET Guards /\ h2 \in SUBSET Guards
    BY GuardsOf
  <1>2. MayStep({}, {}) /\ MayStep({}, h1) /\ MayStep(h1, h2) /\ MayStep(h2, {})
    BY DEF MayStep, MayAwait, Write, Inner, Locks
  <1>3. p = << {}, h1, h2, {} >> \/ p = Single(Write("sessions"))
    BY DEF TransitionSessionToStarting
  <1> HIDE DEF h1, h2
  <1>4. Leads(<< {}, h1, h2, {} >>, {}, {})
    BY <1>1, <1>2, LeadsFourTimes
  <1> QED BY <1>3, <1>4, FirstGuard, GuardsOf

\* try_acquire_network_for_snapshot.
LEMMA TryAcquireNetworkForSnapshotLeads == Leads(TryAcquireNetworkForSnapshot, {}, {})
  <1> DEFINE h1 == {Write("running_snapshots")}
             h2 == {Write("running_snapshots"), Read("sessions")}
  <1>1. {} \in SUBSET Guards /\ h1 \in SUBSET Guards /\ h2 \in SUBSET Guards
    BY GuardsOf
  <1>2. MayStep({}, {}) /\ MayStep({}, h1) /\ MayStep(h1, h2) /\ MayStep(h2, {})
    BY DEF MayStep, MayAwait, Read, Write, Inner, Locks
  <1>3. TryAcquireNetworkForSnapshot = << {}, h1, h2, {} >>
    BY DEF TryAcquireNetworkForSnapshot
  <1> HIDE DEF h1, h2
  <1> QED BY <1>1, <1>2, <1>3, LeadsFourTimes

\* release_network_for_snapshot.
LEMMA ReleaseNetworkForSnapshotLeads ==
    ASSUME NEW p \in ReleaseNetworkForSnapshot
    PROVE  Leads(p, {}, {})
  <1> DEFINE n == {Write("running_snapshots")}
             s == {Write("sessions")}
             h == {Write("sessions"), Read("daemon_sessions")}
             k == h \union {Write("session_last_updated")}
             begin == << {}, n, {}, s, h >>
  <1>1. /\ {} \in SUBSET Guards /\ n \in SUBSET Guards /\ s \in SUBSET Guards
        /\ h \in SUBSET Guards /\ k \in SUBSET Guards
    BY GuardsOf
  <1>2. /\ MayStep({}, {}) /\ MayStep({}, n) /\ MayStep(n, {}) /\ MayStep({}, s) /\ MayStep(s, h)
        /\ MayStep(h, k) /\ MayStep(k, h) /\ MayStep(h, {})
    BY DEF MayStep, MayAwait, Read, Write, Inner, Locks
  <1>3. PICK promote \in {<< >>, << k, h >>} : p = begin \o promote \o << {} >>
    BY DEF ReleaseNetworkForSnapshot
  <1> HIDE DEF n, s, h, k
  <1>4. Leads(begin, {}, h)
    BY <1>1, <1>2, LeadsFiveTimes
  <1> HIDE DEF begin
  <1>5. Leads(promote, h, h)
    BY <1>1, <1>2, LeadsNowhere, LeadsTwice
  <1>6. Leads(<< {} >>, h, {})
    BY <1>1, <1>2, LeadsOnce
  <1>7. Leads(begin \o promote, {}, h)
    BY <1>4, <1>5, LeadsConcat
  <1> QED BY <1>3, <1>6, <1>7, LeadsConcat

\* start_session.
LEMMA StartSessionLeads ==
    ASSUME NEW p \in StartSession
    PROVE  Leads(p, {}, {})
  <1> DEFINE r == {Read("running_snapshots")}
             d == {Read("discovery_sessions")}
             w == {Write("discovery_sessions")}
             With(g) == << r \union {g}, r >>
             begin == << {}, d, {}, w, {}, r >>
  <1>1. CASE p = LookupDiscoveryId
    BY <1>1, SimpleMethods
  <1>2. ASSUME NEW pending \in {<< >>, With(Write("session_last_updated"))},
               p = begin \o With(Read("daemon_sessions")) \o pending
                     \o With(Write("sessions")) \o With(Write("daemon_sessions")) \o << {} >>
        PROVE  Leads(p, {}, {})
    <2>1. /\ {} \in SUBSET Guards /\ r \in SUBSET Guards /\ d \in SUBSET Guards /\ w \in SUBSET Guards
      BY GuardsOf
    <2>2. /\ MayStep({}, {}) /\ MayStep({}, d) /\ MayStep(d, {}) /\ MayStep({}, w) /\ MayStep(w, {})
          /\ MayStep({}, r) /\ MayStep(r, {})
      BY DEF MayStep, MayAwait
    <2>3. \A l \in {"session_last_updated", "daemon_sessions", "sessions"} :
              MayAwait(r, Read(l)) /\ MayAwait(r, Write(l))
      BY DEF MayAwait, Read, Write, Inner
    <2>4. \A l \in {"session_last_updated", "daemon_sessions", "sessions"} :
              Leads(With(Read(l)), r, r) /\ Leads(With(Write(l)), r, r)
      BY <2>1, <2>3, GuardsOf, LeadsAround
    <2> HIDE DEF r, d, w
    <2>5. Leads(begin, {}, r)
      BY <2>1, <2>2, LeadsSixTimes
    <2>6. Leads(pending, r, r)
      BY <1>2, <2>4, LeadsNowhere
    <2>7. Leads(<< {} >>, r, {})
      BY <2>1, <2>2, LeadsOnce
    <2> HIDE DEF begin, With
    <2>8. Leads(begin \o With(Read("daemon_sessions")) \o pending, {}, r)
      BY <2>4, <2>5, <2>6, LeadsConcat
    <2>9. Leads(begin \o With(Read("daemon_sessions")) \o pending
                  \o With(Write("sessions")) \o With(Write("daemon_sessions")), {}, r)
      BY <2>4, <2>8, LeadsConcat
    <2> QED BY <1>2, <2>7, <2>9, LeadsConcat
  <1> QED BY <1>1, <1>2 DEF StartSession

\* update_session.
LEMMA UpdateSessionLeads ==
    ASSUME NEW p \in UpdateSession
    PROVE  Leads(p, {}, {})
  <1> DEFINE s == {Write("sessions")}
             h == {Write("sessions"), Write("session_last_updated")}
             With(g) == << h \union {g}, h >>
             create == With(Write("daemon_sessions")) \o With(Write("discovery_sessions"))
             finish == With(Write("daemon_pull_cancellations"))
                         \o With(Read("discovery_sessions"))
                         \o With(Write("daemon_sessions"))
                         \o With(Write("discovery_sessions"))
             lookups == {<< {} >>, LookupDiscoveryId}
             vacants == {<< >>, With(Write("daemon_sessions")), create}
             terminals == {<< >>, finish}
             Body(lookup, vacant, terminal) ==
                 lookup \o << s, h >> \o vacant \o terminal \o << {} >>
  <1>0. UpdateSession = {Body(lookup, vacant, terminal) :
                           lookup \in lookups, vacant \in vacants, terminal \in terminals}
    BY DEF UpdateSession
  <1>1. PICK lookup \in lookups, vacant \in vacants, terminal \in terminals :
          p = Body(lookup, vacant, terminal)
    <2> HIDE DEF Body, lookups, vacants, terminals
    <2> QED BY <1>0
  <1>2. {} \in SUBSET Guards /\ s \in SUBSET Guards /\ h \in SUBSET Guards
    BY GuardsOf
  <1>3. MayStep({}, s) /\ MayStep(s, h) /\ MayStep(h, {})
    BY DEF MayStep, MayAwait, Write, Inner, Locks
  <1>4. \A l \in {"daemon_sessions", "discovery_sessions", "daemon_pull_cancellations"} :
            MayAwait(h, Read(l)) /\ MayAwait(h, Write(l))
    BY DEF MayAwait, Read, Write, Inner, Locks
  <1>5. \A l \in {"daemon_sessions", "discovery_sessions", "daemon_pull_cancellations"} :
            Leads(With(Read(l)), h, h) /\ Leads(With(Write(l)), h, h)
    BY <1>2, <1>4, GuardsOf, LeadsAround
  <1> HIDE DEF s, h, With
  <1>6. Leads(create, h, h)
    BY <1>5, LeadsConcat
  <1>7. Leads(finish, h, h)
    <2>1. Leads(With(Write("daemon_pull_cancellations")) \o With(Read("discovery_sessions")), h, h)
      BY <1>5, LeadsConcat
    <2>2. Leads(With(Write("daemon_pull_cancellations")) \o With(Read("discovery_sessions"))
                  \o With(Write("daemon_sessions")), h, h)
      BY <1>5, <2>1, LeadsConcat
    <2> QED BY <1>5, <2>2, LeadsConcat
  <1> HIDE DEF create, finish
  <1>8. Leads(lookup, {}, {})
    BY FirstGuard, GuardsOf, SimpleMethods
  <1>9. Leads(<< s, h >>, {}, h) /\ Leads(<< {} >>, h, {})
    BY <1>2, <1>3, LeadsTwice, LeadsOnce
  <1>10. Leads(vacant, h, h) /\ Leads(terminal, h, h)
    BY <1>1, <1>5, <1>6, <1>7, LeadsNowhere
  <1>11. Leads(lookup \o << s, h >>, {}, h)
    BY <1>8, <1>9, LeadsConcat
  <1>12. Leads(lookup \o << s, h >> \o vacant \o terminal, {}, h)
    BY <1>10, <1>11, LeadsConcat
  <1> QED BY <1>1, <1>9, <1>12, LeadsConcat

\* cancel_session.
LEMMA CancelSessionLeads ==
    ASSUME NEW p \in CancelSession
    PROVE  Leads(p, {}, {})
  <1> DEFINE s == {Write("sessions")}
             h == {Write("sessions"), Write("daemon_sessions")}
             With(g) == << h \union {g}, h >>
             look == GetSession \o Tail(LookupDiscoveryId)
  <1>1. Leads(look, {}, {})
    <2>1. Leads(Tail(LookupDiscoveryId), {}, {})
      BY FirstGuard, GuardsOf DEF LookupDiscoveryId
    <2> QED BY <2>1, SimpleMethods, LeadsConcat
  <1>2. Leads(Tail(PullCancellationForDaemon), {}, {})
    BY FirstGuard, GuardsOf DEF PullCancellationForDaemon
  <1>3. CASE p = look
    BY <1>1, <1>3
  <1>4. CASE p = look \o Tail(PullCancellationForDaemon)
    BY <1>1, <1>2, <1>4, LeadsConcat
  <1>5. ASSUME NEW promote \in {<< >>, With(Write("session_last_updated"))},
               p = look \o << s, h >> \o promote \o With(Write("discovery_sessions")) \o << {} >>
        PROVE  Leads(p, {}, {})
    <2>1. {} \in SUBSET Guards /\ s \in SUBSET Guards /\ h \in SUBSET Guards
      BY GuardsOf
    <2>2. MayStep({}, s) /\ MayStep(s, h) /\ MayStep(h, {})
      BY DEF MayStep, MayAwait, Write, Inner, Locks
    <2>3. MayAwait(h, Write("session_last_updated")) /\ MayAwait(h, Write("discovery_sessions"))
      BY DEF MayAwait, Write, Inner, Locks
    <2>4. Leads(With(Write("session_last_updated")), h, h) /\ Leads(With(Write("discovery_sessions")), h, h)
      BY <2>1, <2>3, GuardsOf, LeadsAround
    <2> HIDE DEF s, h, With, look
    <2>5. Leads(<< s, h >>, {}, h) /\ Leads(<< {} >>, h, {}) /\ Leads(promote, h, h)
      BY <1>5, <2>1, <2>2, <2>4, LeadsTwice, LeadsOnce, LeadsNowhere
    <2>6. Leads(look \o << s, h >> \o promote, {}, h)
      BY <1>1, <2>5, LeadsConcat
    <2>7. Leads(look \o << s, h >> \o promote \o With(Write("discovery_sessions")), {}, h)
      BY <2>4, <2>6, LeadsConcat
    <2> QED BY <1>5, <2>5, <2>7, LeadsConcat
  <1> QED BY <1>3, <1>4, <1>5 DEF CancelSession

\* cleanup_stalled_sessions.
LEMMA CleanupStalledSessionsLeads ==
    ASSUME NEW p \in CleanupStalledSessions
    PROVE  Leads(p, {}, {})
  <1> DEFINE h1 == {Write("sessions")}
             h2 == h1 \union {Write("session_last_updated")}
             h3 == h2 \union {Write("daemon_sessions")}
             h4 == h3 \union {Write("daemon_pull_cancellations")}
             h5 == h4 \union {Write("discovery_sessions")}
             r1 == {Read("sessions")}
             r2 == {Read("sessions"), Read("session_last_updated")}
             look == << {}, r1, r2, {} >>
             last == << h1, h2, h3, h4, h5, {} >>
  <1>1. p = look \/ p = look \o Tail(LookupDiscoveryId) \o Tail(PullCancellationForDaemon) \o last
    BY DEF CleanupStalledSessions
  <1>2. /\ {} \in SUBSET Guards /\ h1 \in SUBSET Guards /\ h2 \in SUBSET Guards
        /\ h3 \in SUBSET Guards /\ h4 \in SUBSET Guards /\ h5 \in SUBSET Guards
        /\ r1 \in SUBSET Guards /\ r2 \in SUBSET Guards
    BY GuardsOf
  <1>3. /\ MayAwait(h1, Write("session_last_updated")) /\ MayAwait(h2, Write("daemon_sessions"))
    BY DEF MayAwait, Write, Inner, Locks
  <1>4. /\ MayAwait(h3, Write("daemon_pull_cancellations")) /\ MayAwait(h4, Write("discovery_sessions"))
    BY DEF MayAwait, Write, Inner, Locks
  <1>5. MayStep(h1, h2) /\ MayStep(h2, h3) /\ MayStep(h3, h4) /\ MayStep(h4, h5) /\ MayStep(h5, {})
    BY <1>3, <1>4, MayTake, MayDrop
  <1>6. /\ MayStep({}, {}) /\ MayStep({}, h1)
        /\ MayStep({}, r1) /\ MayStep(r1, r2) /\ MayStep(r2, {})
    BY DEF MayStep, MayAwait, Read, Inner, Locks
  <1> HIDE DEF h1, h2, h3, h4, h5, r1, r2
  <1>7. Leads(look, {}, {}) /\ Leads(last, {}, {})
    BY <1>2, <1>5, <1>6, LeadsFourTimes, LeadsSixTimes
  <1> HIDE DEF look, last
  <1>8. Leads(Tail(LookupDiscoveryId), {}, {}) /\ Leads(Tail(PullCancellationForDaemon), {}, {})
    BY FirstGuard, GuardsOf DEF LookupDiscoveryId, PullCancellationForDaemon
  <1>9. Leads(look \o Tail(LookupDiscoveryId), {}, {})
    BY <1>7, <1>8, LeadsConcat
  <1>10. Leads(look \o Tail(LookupDiscoveryId) \o Tail(PullCancellationForDaemon), {}, {})
    BY <1>8, <1>9, LeadsConcat
  <1> QED BY <1>1, <1>7, <1>10, LeadsConcat

\* Every method of OrderedPrograms.
LEMMA MethodsLead ==
    ASSUME NEW p \in OrderedPrograms
    PROVE  Leads(p, {}, {})
  <1>1. CASE p \in {LookupDiscoveryId, GetSession, PullCancellationForDaemon}
    BY <1>1, SimpleMethods
  <1>2. CASE p \in {RemoveScheduledJob, ClearSessionsForDaemon, TryAcquireNetworkForSnapshot,
                    CleanupOldSessions}
    BY <1>2, RemoveScheduledJobLeads, ClearSessionsForDaemonLeads,
       TryAcquireNetworkForSnapshotLeads, CleanupOldSessionsLeads
  <1>3. CASE p \in TransitionSessionToStarting \union ReleaseNetworkForSnapshot
    BY <1>3, TransitionSessionToStartingLeads, ReleaseNetworkForSnapshotLeads
  <1>4. CASE p \in StartSession \union UpdateSession
    BY <1>4, StartSessionLeads, UpdateSessionLeads
  <1>5. CASE p \in CancelSession \union CleanupStalledSessions
    BY <1>5, CancelSessionLeads, CleanupStalledSessionsLeads
  <1> QED BY <1>1, <1>2, <1>3, <1>4, <1>5 DEF OrderedPrograms

\* Tasks that run such methods keep the order.
LEMMA ProgramsKeepOrder ==
    ASSUME Programs \subseteq OrderedPrograms, TypeOK
    PROVE  OrderKept
  <1> SUFFICES ASSUME NEW t \in Tasks, NEW g \in Wanted(t), NEW h \in Held(t)
               PROVE  /\ h[1] # g[1]
                      /\ h[1] # "running_snapshots" => g[1] \in Inner
                      /\ h[1] \in Inner => Write("sessions") \in Held(t)
    BY DEF OrderKept
  <1>1. prog[t] \in Programs \union {Idle} /\ pc[t] \in 1 .. Len(prog[t])
    BY DEF TypeOK
  <1>2. pc[t] < Len(prog[t]) /\ g \in Upcoming(t) \ Held(t)
    BY DEF Wanted
  <1>3. prog[t] # Idle
    <2> SUFFICES ASSUME prog[t] = Idle PROVE FALSE
      OBVIOUS
    <2>1. Len(prog[t]) = 1
      BY DEF Idle
    <2> QED BY <1>1, <1>2, <2>1
  <1>4. Leads(prog[t], {}, {})
    BY <1>1, <1>3, MethodsLead
  <1>5. pc[t] + 1 \in 1 .. Len(prog[t]) /\ pc[t] + 1 # 1 /\ (pc[t] + 1) - 1 = pc[t]
    BY <1>1, <1>2, <1>4 DEF Leads
  <1>6. MayStep(prog[t][pc[t]], prog[t][pc[t] + 1])
    BY <1>4, <1>5 DEF Leads
  <1> QED BY <1>2, <1>6 DEF MayStep, MayAwait, Held, Upcoming

\* The methods of the DiscoveryService, but for get_sessions_for_daemon and
\* has_active_session_for_daemon, keep the order in which the locks are taken,
\* whoever calls them and however the calls interleave.
THEOREM MethodsKeepOrder ==
    ASSUME Programs \subseteq OrderedPrograms
    PROVE  Spec => []OrderKept
  <1>1. LockInv => OrderKept
    BY ProgramsKeepOrder DEF LockInv
  <1> QED BY <1>1, LockInvariant, PTL

\* ... and therefore never deadlock.
THEOREM MethodsNeverStuck ==
    ASSUME Programs \subseteq OrderedPrograms
    PROVE  Spec => []NoStuckLocks
  BY MethodsKeepOrder, OrderPreventsDeadlock, PTL
=============================================================================
