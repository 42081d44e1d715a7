------------------------------- MODULE Queues -------------------------------
(***************************************************************************)
(* The operations the discovery service performs on a Vec<Uuid>: the       *)
(* per-daemon queues of session ids.  Retain is written without recursion  *)
(* so that its properties can be proved (QueuesProofs).                    *)
(***************************************************************************)
EXTENDS Naturals, Sequences, FiniteSets

(* The ids a queue mentions. *)
Members(q) == {q[i] : i \in DOMAIN q}

(* No id is twice in a queue. *)
NoRepeat(q) == \A i, j \in DOMAIN q : q[i] = q[j] => i = j

(* The positions Vec::retain keeps when the ids in drop are rejected. *)
Kept(q, drop) == {i \in DOMAIN q : q[i] \notin drop}

(* The n-th smallest element of a finite set of positions. *)
Nth(P, n) == CHOOSE i \in P : Cardinality({j \in P : j < i}) = n - 1

(* Fault: the front is popped, on the assumption that it is what ends. *)
RetainTail(q, drop) == IF q = <<>> THEN q ELSE Tail(q)

(* Vec::retain(|id| !drop.contains(id)): order is preserved. *)
Retain(q, drop) ==
  LET P == Kept(q, drop)
  IN  [n \in 1..Cardinality(P) |-> q[Nth(P, n)]]
=============================================================================
