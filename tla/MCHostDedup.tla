----------------------------- MODULE MCHostDedup -----------------------------
(* Two routers with a shared address: the first, with two addresses on one  *)
(* card, is reported by two daemons; the second is typed in; and the shared *)
(* address is also reported on its own, twice.                              *)
EXTENDS HostDedup, TLC

CONSTANTS a, a2, b, v, ma, mb, mv, router1, router2, vip, u1,
          d1, d2, t, f1, f2, h1, h2, h3, h4, h5

Address(addr, mac) == [addr |-> addr, mac |-> mac]
MCClaimed == d1 :> h1 @@ d2 :> h2 @@ t :> h3 @@ f1 :> h4 @@ f2 :> h5
MCDevice == d1 :> router1 @@ d2 :> router1 @@ t :> router2 @@ f1 :> vip @@ f2 :> vip
MCPayload ==
    d1 :> <<Address(a, ma), Address(a2, ma), Address(v, mv)>> @@
    d2 :> <<Address(a, ma), Address(a2, ma), Address(v, mv)>> @@
    t :> <<Address(v, mv), Address(b, mb)>> @@ f1 :> <<Address(v, mv)>> @@ f2 :> <<Address(v, mv)>>

\* What the theorems ask of a network.
ASSUME NetworkAssumption == FloatingAlone /\ DevicesApart /\ SameOwnAddresses /\ OneRequest

\* The two reports of the first router are alike, with the ids they carry, and
\* so are those of the shared address.
Alike == {p \in Permutations({d1, d2, f1, f2, h1, h2, h4, h5}) :
             /\ {p[d1], p[d2]} = {d1, d2} /\ {p[h1], p[h2]} = {h1, h2}
             /\ {p[f1], p[f2]} = {f1, f2} /\ {p[h4], p[h5]} = {h4, h5}
             /\ p[d1] = d1 <=> p[h1] = h1
             /\ p[f1] = f1 <=> p[h4] = h4}
=============================================================================
