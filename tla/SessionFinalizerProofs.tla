----------------------- MODULE SessionFinalizerProofs -----------------------
(***************************************************************************)
(* Proofs about the event bus and the end of update_session on top of it,  *)
(* for any publishers, subscribers, filters and programs of events, and    *)
(* any number of failing handlers.                                         *)
(***************************************************************************)
EXTENDS SessionFinalizer, SequenceTheorems, TLAPS

(***************************************************************************)
(* Sequences: taking an element at the end, losing a part in the middle.   *)
(***************************************************************************)

\* Events of one publisher appear in the order of their numbers.
Ordered(q) ==
    \A i, j \in 1 .. Len(q) : i < j /\ q[i][1] = q[j][1] => q[i][2] < q[j][2]

\* What Range and IsInjective say of a sequence.
LEMMA SeqRange ==
    ASSUME NEW S, NEW q \in Seq(S)
    PROVE  /\ Range(q) = {q[i] : i \in 1 .. Len(q)}
           /\ Range(q) \subseteq S
           /\ IsInjective(q) <=> \A i, j \in 1 .. Len(q) : q[i] = q[j] => i = j
<1>1. DOMAIN q = 1 .. Len(q) /\ \A i \in 1 .. Len(q) : q[i] \in S
  OBVIOUS
<1> QED
  BY <1>1 DEF Range, IsInjective

\* An event that is new, and later than those of its publisher.
LEMMA AppendNew ==
    ASSUME NEW S, NEW q \in Seq(S), NEW e \in S,
           e \notin Range(q), IsInjective(q), Ordered(q),
           \A x \in Range(q) : x[1] = e[1] => x[2] < e[2]
    PROVE  /\ Append(q, e) \in Seq(S)
           /\ Range(Append(q, e)) = Range(q) \union {e}
           /\ IsInjective(Append(q, e))
           /\ Ordered(Append(q, e))
<1> DEFINE r == Append(q, e)
<1>1. /\ r \in Seq(S) /\ Len(q) \in Nat /\ Len(r) = Len(q) + 1
      /\ \A i \in 1 .. Len(q) : r[i] = q[i]
      /\ r[Len(q) + 1] = e
  BY AppendProperties
<1> HIDE DEF r
<1>2. \A i \in 1 .. Len(q) : q[i] \in Range(q)
  BY SeqRange
<1>3. Range(r) = Range(q) \union {e}
  <2>1. Range(r) = {r[i] : i \in 1 .. Len(q) + 1}
    BY <1>1, SeqRange
  <2>2. Range(q) = {q[i] : i \in 1 .. Len(q)}
    BY SeqRange
  <2>3. Range(r) \subseteq Range(q) \union {e}
    <3> SUFFICES ASSUME NEW i \in 1 .. Len(q) + 1 PROVE r[i] \in Range(q) \union {e}
      BY <2>1
    <3> QED
      BY <1>1, <1>2
  <2>4. Range(q) \subseteq Range(r)
    <3> SUFFICES ASSUME NEW i \in 1 .. Len(q) PROVE q[i] \in Range(r)
      BY <2>2
    <3>1. i \in 1 .. Len(q) + 1 /\ r[i] = q[i]
      BY <1>1
    <3> QED
      BY <2>1, <3>1
  <2>5. e \in Range(r)
    BY <1>1, <2>1
  <2> QED
    BY <2>3, <2>4, <2>5
<1>4. IsInjective(r)
  <2> SUFFICES ASSUME NEW i \in 1 .. Len(r), NEW j \in 1 .. Len(r), r[i] = r[j]
               PROVE  i = j
    BY <1>1, SeqRange
  <2>1. \A a, b \in 1 .. Len(q) : q[a] = q[b] => a = b
    BY SeqRange
  <2> QED
    BY <1>1, <1>2, <2>1
<1>5. Ordered(r)
  <2> SUFFICES ASSUME NEW i \in 1 .. Len(r), NEW j \in 1 .. Len(r), i < j, r[i][1] = r[j][1]
               PROVE  r[i][2] < r[j][2]
    BY DEF Ordered
  <2>1. i \in 1 .. Len(q) /\ r[i] = q[i]
    BY <1>1
  <2>2. CASE j \in 1 .. Len(q)
    BY <1>1, <2>1, <2>2 DEF Ordered
  <2>3. CASE j = Len(q) + 1
    BY <1>1, <1>2, <2>1, <2>3
  <2> QED
    BY <1>1, <2>2, <2>3
<1> QED
  BY <1>1, <1>3, <1>4, <1>5 DEF r

\* The members of a concatenation.
LEMMA ConcatRange ==
    ASSUME NEW S, NEW a \in Seq(S), NEW b \in Seq(S)
    PROVE  Range(a \o b) = Range(a) \union Range(b)
<1> DEFINE r == a \o b
<1>1. /\ r \in Seq(S) /\ Len(r) = Len(a) + Len(b) /\ Len(a) \in Nat /\ Len(b) \in Nat
      /\ \A i \in 1 .. Len(a) + Len(b) : r[i] = IF i <= Len(a) THEN a[i] ELSE b[i - Len(a)]
  BY ConcatProperties
<1> HIDE DEF r
<1>2. /\ Range(r) = {r[i] : i \in 1 .. Len(a) + Len(b)}
      /\ Range(a) = {a[i] : i \in 1 .. Len(a)}
      /\ Range(b) = {b[i] : i \in 1 .. Len(b)}
  <2>1. Range(r) = {r[i] : i \in 1 .. Len(r)}
    BY <1>1, SeqRange
  <2>2. Range(a) = {a[i] : i \in 1 .. Len(a)} /\ Range(b) = {b[i] : i \in 1 .. Len(b)}
    BY SeqRange
  <2> QED
    BY <1>1, <2>1, <2>2
<1>3. ASSUME NEW i \in 1 .. Len(a) + Len(b) PROVE r[i] \in Range(a) \union Range(b)
  <2>1. CASE i <= Len(a)
    BY <1>1, <1>2, <2>1
  <2>2. CASE i > Len(a)
    <3>1. i - Len(a) \in 1 .. Len(b) /\ r[i] = b[i - Len(a)]
      BY <1>1, <2>2
    <3> QED
      BY <1>2, <3>1
  <2> QED
    BY <1>1, <2>1, <2>2
<1>4. ASSUME NEW i \in 1 .. Len(a) PROVE a[i] \in Range(r)
  <2>1. i \in 1 .. Len(a) + Len(b) /\ r[i] = a[i]
    BY <1>1
  <2> QED
    BY <1>2, <2>1
<1>5. ASSUME NEW i \in 1 .. Len(b) PROVE b[i] \in Range(r)
  <2>1. Len(a) + i \in 1 .. Len(a) + Len(b) /\ r[Len(a) + i] = b[i]
    BY <1>1
  <2> QED
    BY <1>2, <2>1
<1> QED
  BY <1>2, <1>3, <1>4, <1>5 DEF r

\* A part that goes out of the middle leaves the rest without repetition and
\* in order, and takes its own members along.
LEMMA CutMiddle ==
    ASSUME NEW S, NEW a \in Seq(S), NEW b \in Seq(S), NEW c \in Seq(S),
           IsInjective(a \o b \o c), Ordered(a \o b \o c)
    PROVE  /\ IsInjective(a \o c) /\ Ordered(a \o c)
           /\ Range(a \o c) \intersect Range(b) = {}
           /\ Range(a \o b \o c) = Range(a \o c) \union Range(b)
<1> DEFINE l == a \o b \o c
           m == a \o c
           Old(i) == IF i <= Len(a) THEN i ELSE i + Len(b)
<1>1. Len(a) \in Nat /\ Len(b) \in Nat /\ Len(c) \in Nat
  OBVIOUS
<1>2. /\ a \o b \in Seq(S) /\ Len(a \o b) = Len(a) + Len(b)
      /\ \A i \in 1 .. Len(a) + Len(b) : (a \o b)[i] = IF i <= Len(a) THEN a[i] ELSE b[i - Len(a)]
  BY ConcatProperties
<1>3. /\ l \in Seq(S) /\ Len(l) = Len(a) + Len(b) + Len(c)
      /\ \A i \in 1 .. Len(a) + Len(b) + Len(c) :
            l[i] = IF i <= Len(a) + Len(b) THEN (a \o b)[i] ELSE c[i - (Len(a) + Len(b))]
  BY <1>2, ConcatProperties
<1>4. /\ m \in Seq(S) /\ Len(m) = Len(a) + Len(c)
      /\ \A i \in 1 .. Len(a) + Len(c) : m[i] = IF i <= Len(a) THEN a[i] ELSE c[i - Len(a)]
  BY ConcatProperties
<1>5. Range(l) = Range(m) \union Range(b)
  <2>1. Range(l) = Range(a \o b) \union Range(c)
    BY <1>2, ConcatRange
  <2>2. Range(a \o b) = Range(a) \union Range(b) /\ Range(m) = Range(a) \union Range(c)
    BY ConcatRange
  <2> QED
    BY <2>1, <2>2
<1> HIDE DEF l, m
<1>6. ASSUME NEW i \in 1 .. Len(m)
      PROVE  Old(i) \in 1 .. Len(l) /\ l[Old(i)] = m[i]
  <2>1. CASE i <= Len(a)
    <3>1. i \in 1 .. Len(a) /\ Old(i) = i /\ m[i] = a[i]
      BY <1>1, <1>4, <2>1
    <3>2. i \in 1 .. Len(a) + Len(b) + Len(c) /\ l[i] = (a \o b)[i] /\ (a \o b)[i] = a[i]
      BY <1>1, <1>2, <1>3, <3>1
    <3> QED
      BY <1>3, <3>1, <3>2
  <2>2. CASE i > Len(a)
    <3>1. i - Len(a) \in 1 .. Len(c) /\ Old(i) = i + Len(b) /\ m[i] = c[i - Len(a)]
      BY <1>1, <1>4, <2>2
    <3>2. /\ i + Len(b) \in 1 .. Len(a) + Len(b) + Len(c)
          /\ ~ (i + Len(b) <= Len(a) + Len(b))
          /\ (i + Len(b)) - (Len(a) + Len(b)) = i - Len(a)
      BY <1>1, <1>4, <2>2
    <3> QED
      BY <1>3, <3>1, <3>2
  <2> QED
    BY <1>1, <1>4, <2>1, <2>2
<1>7. \A i, j \in 1 .. Len(l) : l[i] = l[j] => i = j
  BY <1>3, SeqRange DEF l
<1>8. IsInjective(m)
  <2> SUFFICES ASSUME NEW i \in 1 .. Len(m), NEW j \in 1 .. Len(m), m[i] = m[j] PROVE i = j
    BY <1>4, SeqRange
  <2>1. Old(i) = Old(j)
    BY <1>6, <1>7
  <2> QED
    BY <1>1, <1>4, <2>1
<1>9. Ordered(m)
  <2> SUFFICES ASSUME NEW i \in 1 .. Len(m), NEW j \in 1 .. Len(m), i < j, m[i][1] = m[j][1]
               PROVE  m[i][2] < m[j][2]
    BY DEF Ordered
  <2>1. Old(i) < Old(j) /\ i \in Nat /\ j \in Nat
    BY <1>1, <1>4
  <2>2. /\ Old(i) \in 1 .. Len(l) /\ l[Old(i)] = m[i]
        /\ Old(j) \in 1 .. Len(l) /\ l[Old(j)] = m[j]
    BY <1>6
  <2> HIDE DEF Old
  <2> QED
    BY <2>1, <2>2 DEF Ordered, l
<1>10. Range(m) \intersect Range(b) = {}
  <2> SUFFICES ASSUME NEW i \in 1 .. Len(m), NEW j \in 1 .. Len(b), m[i] = b[j] PROVE FALSE
    BY <1>4, SeqRange
  <2>1. Len(a) + j \in 1 .. Len(l) /\ l[Len(a) + j] = b[j]
    BY <1>1, <1>2, <1>3
  <2>2. Old(i) = Len(a) + j
    BY <1>6, <1>7, <2>1
  <2> QED
    BY <1>1, <1>4, <2>2
<1> QED
  BY <1>5, <1>8, <1>9, <1>10 DEF l, m

-----------------------------------------------------------------------------
(***************************************************************************)
(* The inductive invariant.                                                *)
(***************************************************************************)

\* Only a debounced subscriber has events put aside.
Direct == \A s \in Names \ Debounced : batch[s] = <<>> /\ pending[s] = <<>>

\* A publisher that goes through the subscribers has an event.
Publishing == \A p \in Publishers : at[p] # 0 => count[p] > 0

BusInv == BusTypeOK /\ Direct /\ Publishing /\ DeliveredOnce /\ PublisherOrder

\* The parent goes after the last publication.
DeletedAtEnd == (step = "done" => at[Finalizer] = 0) /\ (~ parent => step = "done")

FinalizerInv == TypeOK /\ BusInv /\ DeletedAtEnd

-----------------------------------------------------------------------------
\* The constants: subscribers have one position each, events are numbered.
LEMMA Positions ==
    /\ Len(Subscribers) \in Nat \ {0}
    /\ \A s \in Names : Position(s) \in 1 .. Len(Subscribers) /\ Subscribers[Position(s)] = s
    /\ \A i \in 1 .. Len(Subscribers) : Subscribers[i] \in Names /\ Position(Subscribers[i]) = i
<1>1. Len(Subscribers) \in Nat /\ DOMAIN Subscribers = 1 .. Len(Subscribers)
  BY SubscribersAssumption
<1>2. Names = {Subscribers[i] : i \in 1 .. Len(Subscribers)}
  BY <1>1 DEF Names, Range
<1>3. \A i, j \in 1 .. Len(Subscribers) : Subscribers[i] = Subscribers[j] => i = j
  BY <1>1, SubscribersAssumption DEF IsInjective
<1>4. ASSUME NEW s \in Names
      PROVE  Position(s) \in 1 .. Len(Subscribers) /\ Subscribers[Position(s)] = s
  <2>1. \E i \in 1 .. Len(Subscribers) : Subscribers[i] = s
    BY <1>2
  <2> QED
    BY <2>1 DEF Position
<1>5. Len(Subscribers) # 0
  BY <1>1, <1>4, FinalizerAssumption
<1> QED
  BY <1>1, <1>2, <1>3, <1>4, <1>5

\* An event is a publisher and a number within its program.
LEMMA EventShape ==
    /\ \A p \in Publishers : Len(Program[p]) \in Nat
    /\ \A e \in Events : /\ e[1] \in Publishers /\ e[2] \in 1 .. Len(Program[e[1]])
                         /\ e = <<e[1], e[2]>>
    /\ \A p \in Publishers : \A n \in 1 .. Len(Program[p]) : <<p, n>> \in Events
<1>1. \A p \in Publishers : Len(Program[p]) \in Nat
  BY ProgramAssumption
<1>2. ASSUME NEW e \in Events
      PROVE  e[1] \in Publishers /\ e[2] \in 1 .. Len(Program[e[1]]) /\ e = <<e[1], e[2]>>
  <2>1. PICK p \in Publishers : e \in {p} \X (1 .. Len(Program[p]))
    BY DEF Events
  <2> QED
    BY <2>1
<1>3. ASSUME NEW p \in Publishers, NEW n \in 1 .. Len(Program[p])
      PROVE  <<p, n>> \in Events
  <2>1. <<p, n>> \in {p} \X (1 .. Len(Program[p]))
    OBVIOUS
  <2> QED
    BY <2>1 DEF Events
<1> QED
  BY <1>1, <1>2, <1>3

\* The type invariant, one function at a time.
LEMMA BusTypes ==
    ASSUME BusTypeOK
    PROVE  /\ count \in [Publishers -> Nat]
           /\ \A p \in Publishers : count[p] \in Nat /\ count[p] <= Len(Program[p])
           /\ at \in [Publishers -> 0 .. Len(Subscribers)]
           /\ pending \in [Names -> Seq(Events)]
           /\ batch \in [Names -> Seq(Events)]
           /\ handled \in [Names -> Seq(Events)]
           /\ dropped \in [Names -> SUBSET Events]
           /\ failures \in 0 .. MaxFailures
BY DEF BusTypeOK

\* The event a publisher is offering, and to whom.
LEMMA OfferingTypes ==
    ASSUME BusTypeOK, Publishing, NEW p \in Publishers, at[p] # 0
    PROVE  /\ Current(p) \in Events /\ Current(p)[1] = p /\ Current(p)[2] = count[p]
           /\ Reached(p) \in Names /\ Position(Reached(p)) = at[p]
           /\ at[p] \in 1 .. Len(Subscribers)
<1>1. count[p] \in 1 .. Len(Program[p]) /\ at[p] \in 1 .. Len(Subscribers)
  BY BusTypes, EventShape, Positions DEF Publishing
<1> QED
  BY <1>1, EventShape, Positions DEF Current, Reached

-----------------------------------------------------------------------------
(***************************************************************************)
(* What has been offered.                                                  *)
(***************************************************************************)

\* A publication that begins has been offered to nobody.
LEMMA OfferedBegin ==
    ASSUME BusInv, NEW p \in Publishers, BeginPublish(p), NEW s \in Names
    PROVE  Offered(s)' = Offered(s)
<1>1. /\ at[p] = 0 /\ count[p] \in Nat
      /\ count' = [count EXCEPT ![p] = count[p] + 1] /\ at' = [at EXCEPT ![p] = 1]
  BY BusTypes DEF BusInv, BeginPublish
<1>2. count \in [Publishers -> Nat] /\ at \in [Publishers -> 0 .. Len(Subscribers)]
  BY BusTypes DEF BusInv
<1>3. Position(s) \in 1 .. Len(Subscribers) /\ Len(Subscribers) \in Nat
  BY Positions
<1>4. ASSUME NEW e \in Events
      PROVE  (\/ e[2] < count'[e[1]]
              \/ e[2] = count'[e[1]] /\ (at'[e[1]] = 0 \/ at'[e[1]] > Position(s)))
             <=>
             (\/ e[2] < count[e[1]]
              \/ e[2] = count[e[1]] /\ (at[e[1]] = 0 \/ at[e[1]] > Position(s)))
  <2>1. e[1] \in Publishers /\ e[2] \in Nat
    BY EventShape
  <2>2. CASE e[1] = p
    <3>1. count'[p] = count[p] + 1 /\ at'[p] = 1
      BY <1>1, <1>2
    <3> QED
      BY <1>1, <1>3, <2>1, <2>2, <3>1
  <2>3. CASE e[1] # p
    BY <1>1, <1>2, <2>1, <2>3
  <2> QED
    BY <2>2, <2>3
<1> QED
  BY <1>4 DEF Offered, Position, Kind

\* An offer adds the event to those offered to that subscriber, if it wants it;
\* it is later than all of the publisher's that the subscriber was offered.
LEMMA OfferedOffer ==
    ASSUME BusInv, NEW p \in Publishers, Offer(p), NEW s \in Names
    PROVE  /\ Offered(s)' = IF s = Reached(p) /\ Matches(p)
                            THEN Offered(s) \union {Current(p)} ELSE Offered(s)
           /\ s = Reached(p) => \A e \in Offered(s) : e[1] = p => e[2] < count[p]
<1>1. /\ at[p] # 0 /\ count' = count
      /\ at' = [at EXCEPT ![p] = IF at[p] = Len(Subscribers) THEN 0 ELSE at[p] + 1]
  BY DEF Offer
<1>2. count \in [Publishers -> Nat] /\ at \in [Publishers -> 0 .. Len(Subscribers)]
  BY BusTypes DEF BusInv
<1>3. /\ Current(p) \in Events /\ Current(p)[1] = p /\ Current(p)[2] = count[p]
      /\ Reached(p) \in Names /\ Position(Reached(p)) = at[p]
      /\ at[p] \in 1 .. Len(Subscribers)
  BY <1>1, OfferingTypes DEF BusInv
<1>4. /\ Position(s) \in 1 .. Len(Subscribers) /\ Len(Subscribers) \in Nat
      /\ s = Reached(p) <=> Position(s) = at[p]
  BY <1>3, Positions DEF Reached
<1> DEFINE Passed(e) == \/ e[2] < count[e[1]]
                        \/ e[2] = count[e[1]] /\ (at[e[1]] = 0 \/ at[e[1]] > Position(s))
           PassedNext(e) == \/ e[2] < count[e[1]]
                            \/ e[2] = count[e[1]] /\ (at'[e[1]] = 0 \/ at'[e[1]] > Position(s))
<1>5. ASSUME NEW e \in Events
      PROVE  PassedNext(e) <=> Passed(e) \/ (s = Reached(p) /\ e = Current(p))
  <2>1. e[1] \in Publishers /\ e[2] \in Nat /\ e = <<e[1], e[2]>>
    BY EventShape
  <2>2. CASE e[1] # p
    <3>1. at'[e[1]] = at[e[1]] /\ e # Current(p)
      BY <1>1, <1>2, <1>3, <2>1, <2>2
    <3> QED
      BY <3>1
  <2>3. CASE e[1] = p
    <3>1. at'[p] = IF at[p] = Len(Subscribers) THEN 0 ELSE at[p] + 1
      BY <1>1, <1>2
    <3>2. e = Current(p) <=> e[2] = count[p]
      BY <2>1, <2>3 DEF Current
    <3>3. at'[p] = 0 \/ at'[p] > Position(s) <=> at[p] = 0 \/ at[p] > Position(s) \/ Position(s) = at[p]
      BY <1>3, <1>4, <3>1
    <3> QED
      BY <1>4, <2>3, <3>2, <3>3
  <2> QED
    BY <2>2, <2>3
<1>6. Offered(s) = {e \in Events : Kind(e) \in Wants[s] /\ Passed(e)}
  BY DEF Offered
<1>7. Offered(s)' = {e \in Events : Kind(e) \in Wants[s] /\ PassedNext(e)}
  BY <1>1 DEF Offered, Kind, Position
<1>8. s = Reached(p) => (Matches(p) <=> Kind(Current(p)) \in Wants[s])
  BY DEF Matches
<1>9. s = Reached(p) => \A e \in Offered(s) : e[1] = p => e[2] < count[p]
  BY <1>3, <1>4, <1>6
<1> HIDE DEF Passed, PassedNext
<1> QED
  BY <1>3, <1>5, <1>6, <1>7, <1>8, <1>9

-----------------------------------------------------------------------------
(***************************************************************************)
(* What a subscriber has got, lost and been offered.                       *)
(***************************************************************************)
Delivered(line, lost, offered) ==
    /\ IsInjective(line) /\ Ordered(line)
    /\ Range(line) \intersect lost = {}
    /\ Range(line) \union lost = offered

\* The two properties are one statement about each subscriber.
LEMMA DeliveredMeans ==
    DeliveredOnce /\ PublisherOrder <=>
        \A s \in Names : Delivered(Line(s), dropped[s], Offered(s))
BY DEF DeliveredOnce, PublisherOrder, Delivered, Ordered

\* The same of the next state.
LEMMA DeliveredNext ==
    ASSUME \A s \in Names : Delivered(Line(s), dropped[s], Offered(s))'
    PROVE  DeliveredOnce' /\ PublisherOrder'
BY DEF DeliveredOnce, PublisherOrder, Delivered, Ordered

\* The line of a subscriber is a list of events.
LEMMA LineType ==
    ASSUME BusTypeOK, NEW s \in Names
    PROVE  /\ handled[s] \in Seq(Events) /\ batch[s] \in Seq(Events) /\ pending[s] \in Seq(Events)
           /\ Line(s) \in Seq(Events) /\ dropped[s] \subseteq Events
BY BusTypes DEF Line

\* A new event joins the line, or is lost at once.
LEMMA JoinsLine ==
    ASSUME NEW q \in Seq(Events), NEW lost, NEW offered, NEW e \in Events,
           Delivered(q, lost, offered),
           \A x \in offered : x[1] = e[1] => x[2] < e[2]
    PROVE  /\ Delivered(Append(q, e), lost, offered \union {e})
           /\ Delivered(q, lost \union {e}, offered \union {e})
<1>1. e[2] \in Nat
  BY EventShape
<1>2. e \notin offered
  BY <1>1
<1>3. Range(q) \subseteq offered /\ lost \subseteq offered
  BY DEF Delivered
<1>4. /\ Range(Append(q, e)) = Range(q) \union {e}
      /\ IsInjective(Append(q, e)) /\ Ordered(Append(q, e))
  BY <1>2, <1>3, AppendNew DEF Delivered
<1> QED
  BY <1>2, <1>3, <1>4 DEF Delivered

\* A batch that fails leaves the line.
LEMMA LeavesLine ==
    ASSUME NEW a \in Seq(Events), NEW b \in Seq(Events), NEW c \in Seq(Events),
           NEW lost, NEW offered, Delivered(a \o b \o c, lost, offered)
    PROVE  Delivered(a \o c, lost \union Range(b), offered)
<1>1. /\ IsInjective(a \o c) /\ Ordered(a \o c)
      /\ Range(a \o c) \intersect Range(b) = {}
      /\ Range(a \o b \o c) = Range(a \o c) \union Range(b)
  BY CutMiddle DEF Delivered
<1> QED
  BY <1>1 DEF Delivered

\* Where an event joins the line.
LEMMA JoinsBehind ==
    ASSUME NEW a \in Seq(Events), NEW b \in Seq(Events), NEW c \in Seq(Events), NEW e \in Events
    PROVE  a \o b \o Append(c, e) = Append(a \o b \o c, e)
<1>1. a \o b \in Seq(Events) /\ <<e>> \in Seq(Events) /\ (a \o b) \o c \in Seq(Events)
  BY ConcatProperties
<1>2. Append(c, e) = c \o <<e>> /\ Append((a \o b) \o c, e) = ((a \o b) \o c) \o <<e>>
  BY <1>1, AppendIsConcat
<1>3. (a \o b) \o (c \o <<e>>) = ((a \o b) \o c) \o <<e>>
  BY <1>1, ConcatAssociative
<1> QED
  BY <1>2, <1>3

\* A new event at the end of an empty line.
LEMMA JoinsAlone ==
    ASSUME NEW a \in Seq(Events), NEW e \in Events
    PROVE  (a \o <<e>>) \o <<>> \o <<>> = Append(a \o <<>> \o <<>>, e)
<1>1. a \o <<e>> \in Seq(Events) /\ <<e>> \in Seq(Events)
  BY ConcatProperties
<1>2. a \o <<>> = a /\ (a \o <<e>>) \o <<>> = a \o <<e>>
  BY <1>1, ConcatEmptySeq
<1>3. Append(a, e) = a \o <<e>>
  BY AppendIsConcat
<1> QED
  BY <1>2, <1>3

-----------------------------------------------------------------------------
(***************************************************************************)
(* One lemma for each operation of the bus.                                *)
(***************************************************************************)
LEMMA BusInitInv ==
    ASSUME BusInit
    PROVE  BusInv
<1>1. BusTypeOK
  BY EventShape, Positions, FailuresAssumption DEF BusInit, BusTypeOK
<1>2. Direct /\ Publishing
  BY <1>1, SubscribersAssumption DEF BusInit, Direct, Publishing
<1>3. ASSUME NEW s \in Names
      PROVE  Delivered(Line(s), dropped[s], Offered(s))
  <2>1. Line(s) = <<>> \o <<>> \o <<>> /\ dropped[s] = {}
    BY DEF BusInit, Line
  <2>2. Line(s) = <<>> /\ <<>> \in Seq(Events) /\ Len(<<>>) = 0
    BY <2>1
  <2>3. Range(<<>>) = {} /\ IsInjective(<<>>) /\ Ordered(<<>>)
    BY <2>2 DEF Ordered, Range, IsInjective
  <2>4. Offered(s) = {}
    <3> SUFFICES ASSUME NEW e \in Offered(s) PROVE FALSE
      OBVIOUS
    <3>1. e \in Events /\ e[1] \in Publishers /\ e[2] \in 1 .. Len(Program[e[1]])
      BY EventShape DEF Offered
    <3>2. count[e[1]] = 0
      BY <3>1 DEF BusInit
    <3>3. e[2] < count[e[1]] \/ e[2] = count[e[1]]
      BY DEF Offered
    <3> QED
      BY <3>1, <3>2, <3>3, EventShape
  <2> QED
    BY <2>1, <2>2, <2>3, <2>4 DEF Delivered
<1> QED
  BY <1>1, <1>2, <1>3, DeliveredMeans DEF BusInv

\* Beginning to publish keeps the invariant of the bus.
LEMMA BeginPublishInv ==
    ASSUME BusInv, NEW p \in Publishers, BeginPublish(p)
    PROVE  BusInv'
<1>1. BusTypeOK'
  BY Positions, EventShape DEF BusInv, BusTypeOK, BeginPublish
<1>2. Direct' /\ Publishing'
  BY BusTypes DEF BusInv, Direct, Publishing, BeginPublish
<1>3. ASSUME NEW s \in Names
      PROVE  Delivered(Line(s), dropped[s], Offered(s))'
  <2>1. Line(s)' = Line(s) /\ dropped'[s] = dropped[s]
    BY DEF Line, BeginPublish
  <2>2. Offered(s)' = Offered(s)
    BY OfferedBegin
  <2>3. Delivered(Line(s), dropped[s], Offered(s))
    BY DeliveredMeans DEF BusInv
  <2> QED
    BY <2>1, <2>2, <2>3 DEF Delivered
<1> QED
  BY <1>1, <1>2, <1>3, DeliveredNext DEF BusInv

\* add_event: one event for one subscriber.
LEMMA AddEventInv ==
    ASSUME BusInv, NEW p \in Publishers, Offer(p), NEW s \in Names
    PROVE  Delivered(Line(s), dropped[s], Offered(s))'
<1> DEFINE e == Current(p)
           t == Reached(p)
<1>1. /\ e \in Events /\ e[1] = p /\ e[2] = count[p] /\ t \in Names
      /\ BusTypeOK /\ Direct /\ Delivered(Line(s), dropped[s], Offered(s))
  BY OfferingTypes, DeliveredMeans DEF BusInv, Offer
<1>2. /\ handled[s] \in Seq(Events) /\ batch[s] \in Seq(Events) /\ pending[s] \in Seq(Events)
      /\ Line(s) \in Seq(Events)
  BY <1>1, LineType
<1>3. /\ handled \in [Names -> Seq(Events)] /\ pending \in [Names -> Seq(Events)]
      /\ dropped \in [Names -> SUBSET Events]
  BY <1>1, BusTypes
<1>4. batch' = batch
  BY DEF Offer
<1>5. /\ Offered(s)' = IF s = t /\ Matches(p) THEN Offered(s) \union {e} ELSE Offered(s)
      /\ s = t => \A x \in Offered(s) : x[1] = e[1] => x[2] < e[2]
  BY <1>1, OfferedOffer
<1> HIDE DEF e, t
<1>6. CASE ~ Matches(p) \/ s # t
  <2>1. handled'[s] = handled[s] /\ pending'[s] = pending[s] /\ dropped'[s] = dropped[s]
    BY <1>1, <1>3, <1>6 DEF Offer, AddEvent, Handle, t
  <2>2. Line(s)' = Line(s) /\ Offered(s)' = Offered(s)
    BY <1>4, <1>5, <1>6, <2>1 DEF Line
  <2> QED
    BY <1>1, <2>1, <2>2 DEF Delivered
<1>7. CASE Matches(p) /\ s = t
  <2>1. Offered(s)' = Offered(s) \union {e}
    BY <1>5, <1>7
  <2>2. /\ Delivered(Append(Line(s), e), dropped[s], Offered(s) \union {e})
        /\ Delivered(Line(s), dropped[s] \union {e}, Offered(s) \union {e})
    BY <1>1, <1>2, <1>5, <1>7, JoinsLine
  <2>3. \/ Line(s)' = Append(Line(s), e) /\ dropped'[s] = dropped[s]
        \/ Line(s)' = Line(s) /\ dropped'[s] = dropped[s] \union {e}
    <3>1. CASE s \in Debounced
      <4>1. pending'[s] = Append(pending[s], e) /\ handled' = handled /\ dropped' = dropped
        BY <1>3, <1>7, <3>1 DEF Offer, AddEvent, e, t
      <4>2. handled[s] \o batch[s] \o Append(pending[s], e) =
              Append(handled[s] \o batch[s] \o pending[s], e)
        BY <1>1, <1>2, JoinsBehind
      <4> QED
        BY <1>4, <4>1, <4>2 DEF Line
    <3>2. CASE s \notin Debounced
      <4>1. batch[s] = <<>> /\ pending[s] = <<>> /\ pending' = pending
        BY <1>1, <1>7, <3>2 DEF Direct, Offer, AddEvent, t
      <4>2. Handle(s, <<e>>)
        BY <1>7, <3>2 DEF Offer, AddEvent, e, t
      <4>3. CASE handled' = [handled EXCEPT ![s] = @ \o <<e>>] /\ dropped' = dropped
        <5>1. handled'[s] = handled[s] \o <<e>>
          BY <1>3, <4>3
        <5>2. (handled[s] \o <<e>>) \o <<>> \o <<>> = Append(handled[s] \o <<>> \o <<>>, e)
          BY <1>1, <1>2, JoinsAlone
        <5> QED
          BY <1>4, <4>1, <4>3, <5>1, <5>2 DEF Line
      <4>4. CASE dropped' = [dropped EXCEPT ![s] = @ \union Range(<<e>>)] /\ handled' = handled
        <5>1. Range(<<e>>) = {e}
          <6>1. <<e>> \in Seq(Events) /\ Len(<<e>>) = 1 /\ <<e>>[1] = e
            BY <1>1
          <6>2. Range(<<e>>) = {<<e>>[i] : i \in 1 .. Len(<<e>>)}
            BY <6>1, SeqRange
          <6>3. 1 .. Len(<<e>>) = {1}
            BY <6>1
          <6> QED
            BY <6>1, <6>2, <6>3
        <5>2. dropped'[s] = dropped[s] \union {e}
          BY <1>3, <4>4, <5>1
        <5> QED
          BY <1>4, <4>1, <4>4, <5>2 DEF Line
      <4> QED
        BY <4>2, <4>3, <4>4 DEF Handle
    <3> QED
      BY <3>1, <3>2
  <2> QED
    BY <2>1, <2>2, <2>3 DEF Delivered
<1> QED
  BY <1>6, <1>7

\* What Handle does to the types.
LEMMA HandleTypes ==
    ASSUME BusTypeOK, NEW s \in Names, NEW q \in Seq(Events), Handle(s, q)
    PROVE  /\ handled' \in [Names -> Seq(Events)]
           /\ dropped' \in [Names -> SUBSET Events]
           /\ failures' \in 0 .. MaxFailures
<1>1. /\ handled \in [Names -> Seq(Events)] /\ dropped \in [Names -> SUBSET Events]
      /\ failures \in 0 .. MaxFailures /\ MaxFailures \in Nat
  BY BusTypes, FailuresAssumption
<1>2. CASE handled' = [handled EXCEPT ![s] = @ \o q] /\ UNCHANGED <<dropped, failures>>
  <2>1. handled[s] \o q \in Seq(Events)
    BY <1>1, ConcatProperties
  <2> QED
    BY <1>1, <1>2, <2>1
<1>3. CASE /\ failures < MaxFailures /\ failures' = failures + 1
           /\ dropped' = [dropped EXCEPT ![s] = @ \union Range(q)] /\ handled' = handled
  <2>1. Range(q) \subseteq Events
    BY SeqRange
  <2> QED
    BY <1>1, <1>3, <2>1
<1> QED
  BY <1>2, <1>3 DEF Handle

\* Offering an event to the next subscriber keeps it.
LEMMA OfferInv ==
    ASSUME BusInv, NEW p \in Publishers, Offer(p)
    PROVE  BusInv'
<1> DEFINE e == Current(p)
           t == Reached(p)
<1>1. /\ e \in Events /\ t \in Names /\ BusTypeOK /\ at[p] \in 1 .. Len(Subscribers)
  BY OfferingTypes DEF BusInv, Offer
<1>2. /\ count \in [Publishers -> Nat] /\ \A x \in Publishers : count[x] <= Len(Program[x])
      /\ at \in [Publishers -> 0 .. Len(Subscribers)]
      /\ pending \in [Names -> Seq(Events)] /\ batch \in [Names -> Seq(Events)]
      /\ handled \in [Names -> Seq(Events)] /\ dropped \in [Names -> SUBSET Events]
      /\ failures \in 0 .. MaxFailures
  BY <1>1, BusTypes
<1>3. count' = count /\ batch' = batch
      /\ at' = [at EXCEPT ![p] = IF at[p] = Len(Subscribers) THEN 0 ELSE at[p] + 1]
  BY DEF Offer
<1>4. at' \in [Publishers -> 0 .. Len(Subscribers)]
  BY <1>1, <1>2, <1>3, Positions
<1> HIDE DEF e, t
<1>5. /\ pending' \in [Names -> Seq(Events)] /\ handled' \in [Names -> Seq(Events)]
      /\ dropped' \in [Names -> SUBSET Events] /\ failures' \in 0 .. MaxFailures
  <2>1. CASE UNCHANGED <<pending, handled, dropped, failures>>
    BY <1>2, <2>1
  <2>2. CASE pending' = [pending EXCEPT ![t] = Append(@, e)] /\ UNCHANGED <<handled, dropped, failures>>
    <3>1. Append(pending[t], e) \in Seq(Events)
      BY <1>1, <1>2, AppendProperties
    <3> QED
      BY <1>1, <1>2, <2>2, <3>1
  <2>3. CASE Handle(t, <<e>>) /\ UNCHANGED pending
    <3>1. <<e>> \in Seq(Events)
      BY <1>1
    <3>2. /\ handled' \in [Names -> Seq(Events)] /\ dropped' \in [Names -> SUBSET Events]
          /\ failures' \in 0 .. MaxFailures
      BY <1>1, <2>3, <3>1, HandleTypes
    <3> QED
      BY <1>2, <2>3, <3>2
  <2>4. UNCHANGED <<pending, handled, dropped, failures>> \/ AddEvent(p)
    BY DEF Offer
  <2>5. CASE AddEvent(p)
    <3>1. CASE t \in Debounced
      BY <2>2, <2>5, <3>1 DEF AddEvent, e, t
    <3>2. CASE t \notin Debounced
      BY <2>3, <2>5, <3>2 DEF AddEvent, e, t
    <3> QED
      BY <3>1, <3>2
  <2> QED
    BY <2>1, <2>4, <2>5
<1>6. BusTypeOK'
  BY <1>2, <1>3, <1>4, <1>5 DEF BusTypeOK
<1>7. Direct'
  <2> SUFFICES ASSUME NEW s \in Names \ Debounced
               PROVE  batch'[s] = <<>> /\ pending'[s] = <<>>
    BY DEF Direct
  <2>1. batch[s] = <<>> /\ pending[s] = <<>>
    BY DEF BusInv, Direct
  <2>2. pending'[s] = pending[s]
    BY <1>2 DEF Offer, AddEvent
  <2> QED
    BY <1>3, <2>1, <2>2
<1>8. Publishing'
  <2> SUFFICES ASSUME NEW x \in Publishers, at'[x] # 0 PROVE count[x] > 0
    BY <1>3 DEF Publishing
  <2>1. at[x] # 0
    BY <1>1, <1>2, <1>3, Positions
  <2> QED
    BY <2>1 DEF BusInv, Publishing
<1> QED
  BY <1>6, <1>7, <1>8, AddEventInv, DeliveredNext DEF BusInv

\* Draining moves events within the line.
LEMMA TickInv ==
    ASSUME BusInv, NEW d \in Debounced, Tick(d)
    PROVE  BusInv'
<1>1. /\ d \in Names /\ batch[d] = <<>> /\ UNCHANGED <<count, at, handled, dropped, failures>>
      /\ batch' = [batch EXCEPT ![d] = pending[d]] /\ pending' = [pending EXCEPT ![d] = <<>>]
  BY SubscribersAssumption DEF Tick
<1>2. /\ BusTypeOK /\ pending \in [Names -> Seq(Events)] /\ batch \in [Names -> Seq(Events)]
  BY BusTypes DEF BusInv
<1>3. batch' \in [Names -> Seq(Events)] /\ pending' \in [Names -> Seq(Events)]
  BY <1>1, <1>2
<1>4. BusTypeOK'
  BY <1>1, <1>2, <1>3 DEF BusTypeOK
<1>5. Direct' /\ Publishing'
  BY <1>1, <1>2 DEF BusInv, Direct, Publishing
<1>6. ASSUME NEW s \in Names PROVE Delivered(Line(s), dropped[s], Offered(s))'
  <2>1. Line(s)' = Line(s)
    <3>1. CASE s = d
      <4>1. batch'[s] = pending[s] /\ pending'[s] = <<>> /\ batch[s] = <<>>
        BY <1>1, <1>2, <3>1
      <4>2. handled[s] \in Seq(Events) /\ pending[s] \in Seq(Events)
        BY <1>2, LineType
      <4>3. handled[s] \o pending[s] \o <<>> = handled[s] \o <<>> \o pending[s]
        BY <4>2, ConcatEmptySeq, ConcatProperties
      <4> QED
        BY <1>1, <4>1, <4>3 DEF Line
    <3>2. CASE s # d
      BY <1>1, <1>2, <3>2 DEF Line
    <3> QED
      BY <3>1, <3>2
  <2>2. Offered(s)' = Offered(s)
    BY <1>1 DEF Offered, Kind, Position
  <2>3. Delivered(Line(s), dropped[s], Offered(s))
    BY DeliveredMeans DEF BusInv
  <2> QED
    BY <1>1, <2>1, <2>2, <2>3 DEF Delivered
<1> QED
  BY <1>4, <1>5, <1>6, DeliveredNext DEF BusInv

\* A batch is handled, or goes out of the line.
LEMMA HandleBatchInv ==
    ASSUME BusInv, NEW d \in Debounced, HandleBatch(d)
    PROVE  BusInv'
<1>1. /\ d \in Names /\ Handle(d, batch[d]) /\ UNCHANGED <<count, at, pending>>
      /\ batch' = [batch EXCEPT ![d] = <<>>]
  BY SubscribersAssumption DEF HandleBatch
<1>2. /\ BusTypeOK /\ batch \in [Names -> Seq(Events)]
      /\ handled \in [Names -> Seq(Events)] /\ dropped \in [Names -> SUBSET Events]
      /\ handled[d] \in Seq(Events) /\ batch[d] \in Seq(Events) /\ pending[d] \in Seq(Events)
  BY <1>1, BusTypes, LineType DEF BusInv
<1>3. batch' \in [Names -> Seq(Events)]
  BY <1>1, <1>2
<1>4. BusTypeOK'
  BY <1>1, <1>2, <1>3, HandleTypes DEF BusTypeOK
<1>5. Direct' /\ Publishing'
  BY <1>1, <1>2 DEF BusInv, Direct, Publishing
<1>6. ASSUME NEW s \in Names PROVE Delivered(Line(s), dropped[s], Offered(s))'
  <2>1. Offered(s)' = Offered(s)
    BY <1>1 DEF Offered, Kind, Position
  <2>2. Delivered(Line(s), dropped[s], Offered(s))
    BY DeliveredMeans DEF BusInv
  <2>3. CASE s # d
    <3>1. handled'[s] = handled[s] /\ batch'[s] = batch[s] /\ dropped'[s] = dropped[s]
      BY <1>1, <1>2, <2>3 DEF Handle
    <3>2. Line(s)' = Line(s)
      BY <1>1, <3>1 DEF Line
    <3> QED
      BY <2>1, <2>2, <3>1, <3>2 DEF Delivered
  <2>4. CASE s = d
    <3>1. batch'[d] = <<>> /\ pending' = pending
      BY <1>1, <1>2
    <3>2. CASE handled' = [handled EXCEPT ![d] = @ \o batch[d]] /\ dropped' = dropped
      <4>1. handled'[d] = handled[d] \o batch[d]
        BY <1>1, <1>2, <3>2
      <4>2. (handled[d] \o batch[d]) \o <<>> = handled[d] \o batch[d]
        BY <1>2, ConcatEmptySeq, ConcatProperties
      <4>3. Line(s)' = Line(s)
        BY <2>4, <3>1, <4>1, <4>2 DEF Line
      <4> QED
        BY <2>1, <2>2, <3>2, <4>3 DEF Delivered
    <3>3. CASE dropped' = [dropped EXCEPT ![d] = @ \union Range(batch[d])] /\ handled' = handled
      <4>1. dropped'[d] = dropped[d] \union Range(batch[d])
        BY <1>1, <1>2, <3>3
      <4>2. handled[d] \o <<>> = handled[d]
        BY <1>2, ConcatEmptySeq
      <4>3. Line(s)' = handled[d] \o pending[d]
        BY <2>4, <3>1, <3>3, <4>2 DEF Line
      <4>4. Delivered(handled[d] \o batch[d] \o pending[d], dropped[d], Offered(d))
        BY <2>2, <2>4 DEF Line
      <4>5. Delivered(handled[d] \o pending[d], dropped[d] \union Range(batch[d]), Offered(d))
        BY <1>2, <4>4, LeavesLine
      <4> QED
        BY <2>1, <2>4, <4>1, <4>3, <4>5 DEF Delivered
    <3> QED
      BY <1>1, <3>2, <3>3 DEF Handle
  <2> QED
    BY <2>3, <2>4
<1> QED
  BY <1>4, <1>5, <1>6, DeliveredNext DEF BusInv

-----------------------------------------------------------------------------
(***************************************************************************)
(* The specification.                                                      *)
(***************************************************************************)
LEMMA FinalizerInitInv ==
    ASSUME Init
    PROVE  FinalizerInv
<1>1. BusInv
  BY BusInitInv DEF Init
<1>2. at[Finalizer] = 0
  BY FinalizerAssumption DEF Init, BusInit
<1> QED
  BY <1>1, <1>2 DEF Init, BusInv, FinalizerInv, TypeOK, DeletedAtEnd

\* Steps that leave the bus alone.
LEMMA BusStutter ==
    ASSUME BusInv, UNCHANGED busVars
    PROVE  BusInv'
<1>1. UNCHANGED <<count, at, pending, batch, handled, dropped, failures>>
  BY DEF busVars
<1>2. BusTypeOK' /\ Direct' /\ Publishing'
  BY <1>1 DEF BusInv, BusTypeOK, Direct, Publishing
<1>3. ASSUME NEW s \in Names PROVE Delivered(Line(s), dropped[s], Offered(s))'
  <2>1. Line(s)' = Line(s) /\ Offered(s)' = Offered(s) /\ dropped' = dropped
    BY <1>1 DEF Line, Offered, Kind, Position
  <2>2. Delivered(Line(s), dropped[s], Offered(s))
    BY DeliveredMeans DEF BusInv
  <2> QED
    BY <2>1, <2>2 DEF Delivered
<1> QED
  BY <1>2, <1>3, DeliveredNext DEF BusInv

\* A step of the bus and of what surrounds it.
LEMMA FinalizerStepInv ==
    ASSUME FinalizerInv, [Next]_vars
    PROVE  FinalizerInv'
<1> USE DEF FinalizerInv
<1>0. Finalizer \in Publishers /\ at \in [Publishers -> 0 .. Len(Subscribers)]
  BY BusTypes, FinalizerAssumption DEF BusInv
<1>1. CASE PublishPhase
  <2>1. BusInv'
    BY <1>0, <1>1, BeginPublishInv DEF PublishPhase
  <2> QED
    BY <1>1, <2>1 DEF PublishPhase, BusInv, TypeOK, DeletedAtEnd
<1>2. CASE OfferToSubscribers
  <2>1. BusInv' /\ step # "done"
    BY <1>0, <1>2, OfferInv DEF OfferToSubscribers, DeletedAtEnd, Offer
  <2>2. warnings' \in {"none", "recorded", "lost"}
    BY <1>2 DEF OfferToSubscribers, AppendWarnings, TypeOK
  <2> QED
    BY <1>2, <2>1, <2>2 DEF OfferToSubscribers, BusInv, TypeOK, DeletedAtEnd
<1>3. CASE StoreRow
  <2>1. BusInv'
    BY <1>3, BusStutter DEF StoreRow
  <2> QED
    BY <1>3, <2>1 DEF StoreRow, busVars, BusInv, TypeOK, DeletedAtEnd
<1>4. CASE PublishRow
  <2>1. BusInv'
    BY <1>0, <1>4, BeginPublishInv DEF PublishRow
  <2> QED
    BY <1>4, <2>1 DEF PublishRow, BusInv, TypeOK, DeletedAtEnd
<1>5. CASE DeleteParent
  <2>1. BusInv'
    BY <1>5, BusStutter DEF DeleteParent
  <2>2. parent' \in BOOLEAN
    BY <1>5 DEF DeleteParent, TypeOK
  <2> QED
    BY <1>5, <2>1, <2>2 DEF DeleteParent, Published, busVars, BusInv, TypeOK, DeletedAtEnd
<1>6. ASSUME NEW p \in Publishers, Others(p)
      PROVE  FinalizerInv'
  <2>1. BusInv'
    BY <1>6, BeginPublishInv, OfferInv DEF Others
  <2>2. at'[Finalizer] = at[Finalizer]
    BY <1>0, <1>6 DEF Others, BeginPublish, Offer
  <2> QED
    BY <1>6, <2>1, <2>2 DEF Others, BusInv, TypeOK, DeletedAtEnd
<1>7. ASSUME NEW s \in Debounced, Debounce(s)
      PROVE  FinalizerInv'
  <2>1. BusInv'
    BY <1>7, TickInv, HandleBatchInv DEF Debounce
  <2>2. at' = at
    BY <1>7 DEF Debounce, Tick, HandleBatch
  <2> QED
    BY <1>7, <2>1, <2>2 DEF Debounce, BusInv, TypeOK, DeletedAtEnd
<1>8. CASE UNCHANGED vars
  <2>1. BusInv'
    BY <1>8, BusStutter DEF vars
  <2> QED
    BY <1>8, <2>1 DEF vars, busVars, BusInv, TypeOK, DeletedAtEnd
<1> QED
  BY <1>1, <1>2, <1>3, <1>4, <1>5, <1>6, <1>7, <1>8 DEF Next, Finalize

\* FinalizerInv is an invariant of the specification.
LEMMA FinalizerInvariant == Spec => []FinalizerInv
<1>1. Init => FinalizerInv
  BY FinalizerInitInv
<1>2. FinalizerInv /\ [Next]_vars => FinalizerInv'
  BY FinalizerStepInv
<1> QED
  BY <1>1, <1>2, PTL DEF Spec

\* What the finalizer has published by the time the parent goes has been
\* offered to everyone, and a subscriber that is not debounced has no line.
LEMMA DeleteComesLast ==
    ASSUME FinalizerInv
    PROVE  SubscribersBeforeDelete
<1> SUFFICES ASSUME ~ parent, NEW s \in Names \ Debounced, NEW n \in 1 .. count[Finalizer],
                    Kind(<<Finalizer, n>>) \in Wants[s]
             PROVE  <<Finalizer, n>> \in Range(handled[s]) \union dropped[s]
  BY DEF SubscribersBeforeDelete
<1> DEFINE e == <<Finalizer, n>>
<1>1. /\ at[Finalizer] = 0 /\ count[Finalizer] \in Nat
      /\ count[Finalizer] <= Len(Program[Finalizer]) /\ Finalizer \in Publishers
  BY BusTypes, FinalizerAssumption DEF FinalizerInv, DeletedAtEnd, BusInv
<1>2. e \in Events /\ e[1] = Finalizer /\ e[2] = n
  BY <1>1, EventShape
<1>3. n < count[Finalizer] \/ n = count[Finalizer]
  BY <1>1
<1> HIDE DEF e
<1>4. e \in Offered(s)
  BY <1>1, <1>2, <1>3 DEF Offered, e
<1>5. Range(Line(s)) \union dropped[s] = Offered(s)
  BY DEF FinalizerInv, BusInv, DeliveredOnce
<1>6. Line(s) = handled[s]
  <2>1. batch[s] = <<>> /\ pending[s] = <<>> /\ handled[s] \in Seq(Events)
    BY LineType DEF FinalizerInv, BusInv, Direct
  <2>2. handled[s] \o <<>> = handled[s]
    BY <2>1, ConcatEmptySeq
  <2> QED
    BY <2>1, <2>2 DEF Line
<1> QED
  BY <1>4, <1>5, <1>6 DEF e

\* The bus and the finalizer keep their types.
THEOREM TypeCorrect == Spec => []TypeOK
BY FinalizerInvariant, PTL DEF FinalizerInv

\* publish, add_event and the debounce tasks: no matching event is lost but in
\* a failing handler, and none is delivered twice.
THEOREM DeliveryExactlyOnce == Spec => []DeliveredOnce
BY FinalizerInvariant, PTL DEF FinalizerInv, BusInv

\* The order of each publisher survives batching, and batches that fail.
THEOREM DeliveryInOrder == Spec => []PublisherOrder
BY FinalizerInvariant, PTL DEF FinalizerInv, BusInv

\* The parent of a rescan is deleted after the direct subscribers have run.
THEOREM DeleteAfterSubscribers == Spec => []SubscribersBeforeDelete
<1>1. FinalizerInv => SubscribersBeforeDelete
  BY DeleteComesLast
<1> QED
  BY <1>1, FinalizerInvariant, PTL
=============================================================================
