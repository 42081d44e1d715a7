---------------------------- MODULE QueuesProofs ----------------------------
(***************************************************************************)
(* Facts about the queue operations of Queues, proved once and cited by    *)
(* the proofs about the session table.                                     *)
(***************************************************************************)
EXTENDS Queues, Functions, FiniteSetTheorems, TLAPS

(* The n-th smallest element of a finite set of positions exists, for      *)
(* every n up to the size of the set: Vec::retain has a survivor for every *)
(* position of its result.                                                 *)
LEMMA NthExists ==
  ASSUME NEW P \in SUBSET Nat, IsFiniteSet(P),
         NEW n \in 1..Cardinality(P)
  PROVE  \E i \in P : Cardinality({j \in P : j < i}) = n - 1
<1> DEFINE Below(i) == {j \in P : j < i}
           m == Cardinality(P)
           rank == [i \in P |-> Cardinality(Below(i))]
<1>1. m \in Nat
  BY FS_CardinalityType
<1>2. ASSUME NEW i \in P
      PROVE  /\ IsFiniteSet(Below(i))
             /\ Cardinality(Below(i)) \in 0..(m-1)
  <2>1. Below(i) \in SUBSET P /\ i \notin Below(i)
    OBVIOUS
  <2>2. /\ IsFiniteSet(Below(i))
        /\ Cardinality(Below(i)) <= m
        /\ m = Cardinality(Below(i)) => P = Below(i)
    BY <2>1, FS_Subset
  <2>3. Cardinality(Below(i)) \in Nat
    BY <2>2, FS_CardinalityType
  <2>4. m # Cardinality(Below(i))
    BY <2>1, <2>2
  <2> QED
    BY <1>1, <2>2, <2>3, <2>4
<1>3. ASSUME NEW i \in P, NEW k \in P, i < k
      PROVE  Cardinality(Below(i)) # Cardinality(Below(k))
  <2>0. i \in Nat /\ k \in Nat
    OBVIOUS
  <2>1. /\ Below(i) \in SUBSET Below(k)
        /\ i \in Below(k)
        /\ i \notin Below(i)
    <3>1. \A j \in P : j \in Nat /\ (j < i => j < k)
      BY <1>3, <2>0
    <3>2. ~(i < i)
      BY <2>0
    <3> QED
      BY <1>3, <3>1, <3>2
  <2>2. IsFiniteSet(Below(k))
    BY <1>2
  <2>3. Cardinality(Below(k)) = Cardinality(Below(i)) => Below(k) = Below(i)
    BY <2>1, <2>2, FS_Subset
  <2> QED
    BY <2>1, <2>3
<1>4. rank \in [P -> 0..(m-1)]
  BY <1>2
<1>5. \A a, b \in P : rank[a] = rank[b] => a = b
  <2> SUFFICES ASSUME NEW a \in P, NEW b \in P, rank[a] = rank[b]
               PROVE  a = b
    OBVIOUS
  <2>1. a \in Nat /\ b \in Nat
    OBVIOUS
  <2>2. ~(a < b) /\ ~(b < a)
    BY <1>3
  <2> QED
    BY <2>1, <2>2
<1>6. rank \in Injection(P, 0..(m-1))
  <2> HIDE DEF rank
  <2>1. DOMAIN rank = P
    BY <1>4
  <2> QED
    BY <1>4, <1>5, <2>1 DEF Injection, IsInjective
<1>7. IsFiniteSet(0..(m-1)) /\ Cardinality(0..(m-1)) = m
  <2>1. 0 \in Int /\ m - 1 \in Int
    BY <1>1
  <2>2. /\ IsFiniteSet(0..(m-1))
        /\ Cardinality(0..(m-1)) = IF 0 > m - 1 THEN 0 ELSE m - 1 - 0 + 1
    BY <2>1, FS_Interval
  <2> HIDE DEF m
  <2> QED
    BY <1>1, <2>2
<1>8. rank \in Surjection(P, 0..(m-1))
  <2> HIDE DEF rank
  <2> QED
    BY <1>6, <1>7, FS_Injection
<1>9. n - 1 \in 0..(m-1)
  BY <1>1
<1>10. \E i \in P : rank[i] = n - 1
  BY <1>8, <1>9 DEF Surjection
<1> QED
  BY <1>10

(* What retain returns: every position holds a survivor of q, and every    *)
(* survivor has exactly one position.                                      *)
LEMMA RetainPositions ==
  ASSUME NEW S, NEW q \in Seq(S), NEW drop
  PROVE  /\ IsFiniteSet(Kept(q, drop))
         /\ Cardinality(Kept(q, drop)) \in Nat
         /\ Kept(q, drop) \in SUBSET Nat
         /\ DOMAIN Retain(q, drop) = 1..Cardinality(Kept(q, drop))
         /\ \A n \in 1..Cardinality(Kept(q, drop)) :
              /\ Nth(Kept(q, drop), n) \in Kept(q, drop)
              /\ Cardinality({j \in Kept(q, drop) : j < Nth(Kept(q, drop), n)}) = n - 1
              /\ Retain(q, drop)[n] = q[Nth(Kept(q, drop), n)]
<1> DEFINE P == Kept(q, drop)
<1>1. Len(q) \in Nat /\ DOMAIN q = 1..Len(q)
  OBVIOUS
<1>2. P \in SUBSET (1..Len(q))
  BY <1>1 DEF Kept
<1>3. IsFiniteSet(P)
  <2>1. 1 \in Int /\ Len(q) \in Int
    BY <1>1
  <2>2. IsFiniteSet(1..Len(q))
    BY <2>1, FS_Interval
  <2> QED
    BY <1>2, <2>2, FS_Subset
<1>4. P \in SUBSET Nat
  BY <1>1, <1>2
<1>5. Cardinality(P) \in Nat
  BY <1>3, FS_CardinalityType
<1>6. ASSUME NEW n \in 1..Cardinality(P)
      PROVE  Nth(P, n) \in P /\ Cardinality({j \in P : j < Nth(P, n)}) = n - 1
  <2>1. \E i \in P : Cardinality({j \in P : j < i}) = n - 1
    BY <1>3, <1>4, NthExists
  <2> QED
    BY <2>1 DEF Nth
<1> QED
  BY <1>3, <1>4, <1>5, <1>6 DEF Retain

(* The result is a queue of the same ids. *)
LEMMA RetainType ==
  ASSUME NEW S, NEW q \in Seq(S), NEW drop
  PROVE  Retain(q, drop) \in Seq(S)
<1> DEFINE P == Kept(q, drop)
<1>1. Cardinality(P) \in Nat
  BY RetainPositions
<1>2. \A n \in 1..Cardinality(P) : Nth(P, n) \in P
  BY RetainPositions
<1>3. P \subseteq DOMAIN q
  BY DEF Kept
<1>4. \A n \in 1..Cardinality(P) : q[Nth(P, n)] \in S
  BY <1>2, <1>3
<1>5. Retain(q, drop) \in [1..Cardinality(P) -> S]
  BY <1>4 DEF Retain
<1> QED
  BY <1>1, <1>5

(* retain drops the ids it is told to drop, and no other.                  *)
LEMMA RetainMembers ==
  ASSUME NEW S, NEW q \in Seq(S), NEW drop
  PROVE  Members(Retain(q, drop)) = Members(q) \ drop
<1> DEFINE P == Kept(q, drop)
           r == Retain(q, drop)
<1>1. /\ DOMAIN r = 1..Cardinality(P)
      /\ \A n \in 1..Cardinality(P) : Nth(P, n) \in P /\ r[n] = q[Nth(P, n)]
  BY RetainPositions
<1>2. P \subseteq DOMAIN q /\ \A i \in P : q[i] \notin drop
  BY DEF Kept
<1>3. Members(r) \subseteq Members(q) \ drop
  <2> HIDE DEF r, P
  <2> QED
    BY <1>1, <1>2 DEF Members
<1>4. ASSUME NEW i \in P
      PROVE  \E n \in 1..Cardinality(P) : Nth(P, n) = i
  <2> DEFINE below == {j \in P : j < i}
             n == Cardinality(below) + 1
  <2>1. IsFiniteSet(P) /\ P \in SUBSET Nat /\ Cardinality(P) \in Nat
    BY RetainPositions
  <2>2. below \in SUBSET P /\ i \notin below
    BY <2>1
  <2>3. /\ IsFiniteSet(below)
        /\ Cardinality(below) <= Cardinality(P)
        /\ Cardinality(P) = Cardinality(below) => P = below
    BY <2>1, <2>2, FS_Subset
  <2>4. Cardinality(below) \in Nat
    BY <2>3, FS_CardinalityType
  <2>5. n \in 1..Cardinality(P)
    BY <2>1, <2>2, <2>3, <2>4
  <2>6. Nth(P, n) \in P /\ Cardinality({j \in P : j < Nth(P, n)}) = n - 1
    <3>1. \A x \in 1..Cardinality(P) :
            Nth(P, x) \in P /\ Cardinality({j \in P : j < Nth(P, x)}) = x - 1
      BY RetainPositions
    <3> HIDE DEF P, n
    <3> QED
      BY <2>5, <3>1
  <2>7. Cardinality({j \in P : j < Nth(P, n)}) = Cardinality(below)
    BY <2>4, <2>6
  <2>8. ASSUME NEW a \in P, NEW b \in P, a < b
        PROVE  Cardinality({j \in P : j < a}) # Cardinality({j \in P : j < b})
    <3>1. /\ {j \in P : j < a} \in SUBSET {j \in P : j < b}
          /\ a \in {j \in P : j < b}
          /\ a \notin {j \in P : j < a}
      BY <2>1, <2>8
    <3>2. {j \in P : j < b} \in SUBSET P
      OBVIOUS
    <3>3. IsFiniteSet({j \in P : j < b})
      BY <2>1, <3>2, FS_Subset
    <3>4. Cardinality({j \in P : j < b}) = Cardinality({j \in P : j < a})
            => {j \in P : j < b} = {j \in P : j < a}
      BY <3>1, <3>3, FS_Subset
    <3> QED
      BY <3>1, <3>4
  <2>9. ~(i < Nth(P, n)) /\ ~(Nth(P, n) < i)
    BY <2>6, <2>7, <2>8
  <2>10. i \in Nat /\ Nth(P, n) \in Nat
    BY <2>1, <2>6
  <2>11. Nth(P, n) = i
    BY <2>9, <2>10
  <2> QED
    BY <2>5, <2>11
<1>5. Members(q) \ drop \subseteq Members(r)
  <2> SUFFICES ASSUME NEW x \in Members(q) \ drop
               PROVE  x \in Members(r)
    OBVIOUS
  <2>1. PICK i \in P : q[i] = x
    BY DEF Members, Kept
  <2>2. PICK n \in 1..Cardinality(P) : Nth(P, n) = i
    BY <1>4
  <2>3. r[n] = x
    BY <1>1, <2>1, <2>2
  <2> QED
    BY <1>1, <2>3 DEF Members
<1> QED
  BY <1>3, <1>5

(* retain introduces no repetition.                                        *)
LEMMA RetainInjective ==
  ASSUME NEW S, NEW q \in Seq(S), NEW drop, NoRepeat(q)
  PROVE  NoRepeat(Retain(q, drop))
<1> DEFINE P == Kept(q, drop)
           r == Retain(q, drop)
<1>1. /\ DOMAIN r = 1..Cardinality(P)
      /\ \A n \in 1..Cardinality(P) : Nth(P, n) \in P /\ r[n] = q[Nth(P, n)]
  BY RetainPositions
<1>2. \A n \in 1..Cardinality(P) : Cardinality({j \in P : j < Nth(P, n)}) = n - 1
  BY RetainPositions
<1>3. P \subseteq DOMAIN q
  BY DEF Kept
<1> HIDE DEF P, r
<1> SUFFICES ASSUME NEW a \in 1..Cardinality(P), NEW b \in 1..Cardinality(P),
                    r[a] = r[b]
             PROVE  a = b
  BY <1>1 DEF r, NoRepeat
<1>4. Nth(P, a) = Nth(P, b)
  BY <1>1, <1>3 DEF NoRepeat
<1>5. a - 1 = b - 1
  BY <1>2, <1>4
<1> QED
  BY <1>5

(* Vec::push: the new id joins the others, and repeats none if it was not  *)
(* there.                                                                  *)
LEMMA PushMembers ==
  ASSUME NEW S, NEW q \in Seq(S), NEW x \in S
  PROVE  /\ Append(q, x) \in Seq(S)
         /\ Members(Append(q, x)) = Members(q) \cup {x}
         /\ NoRepeat(q) /\ x \notin Members(q) => NoRepeat(Append(q, x))
<1> DEFINE r == Append(q, x)
<1>1. /\ r \in Seq(S) /\ Len(q) \in Nat
      /\ DOMAIN q = 1..Len(q) /\ DOMAIN r = 1..(Len(q) + 1)
      /\ \A i \in 1..Len(q) : r[i] = q[i]
      /\ r[Len(q) + 1] = x
  OBVIOUS
<1> HIDE DEF r
<1>2. \A i \in 1..(Len(q) + 1) : i \in 1..Len(q) \/ i = Len(q) + 1
  BY <1>1
<1>3. Members(r) = Members(q) \cup {x}
  BY <1>1, <1>2 DEF Members
<1>4. NoRepeat(q) /\ x \notin Members(q) => NoRepeat(r)
  BY <1>1, <1>2 DEF Members, NoRepeat
<1> QED
  BY <1>1, <1>3, <1>4 DEF r

(* The empty queue. *)
LEMMA EmptyQueue == Members(<<>>) = {} /\ NoRepeat(<<>>)
BY DEF Members, NoRepeat
=============================================================================
