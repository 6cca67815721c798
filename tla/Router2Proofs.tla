--------------------------- MODULE Router2Proofs ---------------------------
(***************************************************************************)
(* The proofs about Router2: the inductive invariant IInv of Router2Inv,   *)
(* and from it that the counters of congestion, the trees of the nets and  *)
(* the threads are what the properties say, for any fabric, any nets and   *)
(* any order of the steps of the threads.                                  *)
(*                                                                         *)
(* First come the walks up a routing map and the arcs they count for, then *)
(* what ripping up and binding do to one net, what a search can find, and  *)
(* the threads and their boxes; then each step keeps the invariant.  Last, *)
(* what is locked before the router starts: LockInv of Router2Inv.         *)
(***************************************************************************)
EXTENDS Router2Inv, FabricProofs, FiniteSetTheorems, SequenceTheorems, TLAPS

(* A set of naturals that has 0 and with each number the next is all of    *)
(* them.                                                                   *)
LEMMA NatSet ==
    ASSUME NEW S \in SUBSET Nat, 0 \in S, \A k \in S : k + 1 \in S
    PROVE  S = Nat
<1>1. SUFFICES ASSUME Nat \ S # {} PROVE FALSE
    OBVIOUS
<1>2. PICK x \in Nat \ S : \A y \in Nat \ S : ~(y < x)
    <2> DEFINE R == OpToRel(<, Nat)
    <2>1. IsWellFoundedOn(R, Nat)
        BY NatLessThanWellFounded
    <2>2. \A x, y \in Nat : y < x => <<y, x>> \in R
        BY DEF OpToRel
    <2> HIDE DEF R
    <2>3. \E x \in Nat \ S : \A y \in Nat \ S : ~(<<y, x>> \in R)
        BY <2>1, <1>1, WFMin
    <2> QED BY <2>2, <2>3
<1>4. x - 1 \in S
    BY <1>2
<1> QED BY <1>4

(* A function on the naturals given by its first value and by what follows *)
(* from each value exists.                                                 *)
Iterates(F, S, D, c) == /\ F \in [Nat -> S] /\ F[0] = c
                        /\ \A k \in Nat : F[k+1] = D[F[k]]

(* There is a function that follows a rule D from c on: the recursive      *)
(* functions of Router2 that walk the routing maps have the values their   *)
(* definitions say.                                                        *)
LEMMA PrimitiveRecursion ==
    ASSUME NEW S, NEW D \in [S -> S], NEW c \in S
    PROVE  \E F : Iterates(F, S, D, c)
<1> DEFINE Upto(N, g) == /\ g \in [0 .. N -> S] /\ g[0] = c
                         /\ \A k \in 0 .. N - 1 : g[k+1] = D[g[k]]
<1>1. \A N \in Nat : \E g : Upto(N, g)
    <2> DEFINE T == {N \in Nat : \E g : Upto(N, g)}
    <2>1. 0 \in T
        <3>1. Upto(0, [k \in 0 .. 0 |-> c])
            OBVIOUS
        <3> QED BY <3>1
    <2>2. ASSUME NEW N \in T PROVE N + 1 \in T
        <3>1. PICK g : Upto(N, g)
            OBVIOUS
        <3> DEFINE h == [k \in 0 .. N + 1 |-> IF k = N + 1 THEN D[g[N]] ELSE g[k]]
        <3>2. h \in [0 .. N + 1 -> S] /\ h[0] = c
            BY <3>1
        <3>3. ASSUME NEW k \in 0 .. (N + 1) - 1 PROVE h[k+1] = D[h[k]]
            <4>1. CASE k = N
                BY <4>1
            <4>2. CASE k \in 0 .. N - 1
                BY <4>2, <3>1
            <4> QED BY <4>1, <4>2
        <3> HIDE DEF h
        <3>4. Upto(N + 1, h)
            BY <3>2, <3>3
        <3> QED BY <3>4
    <2> HIDE DEF T
    <2>3. T = Nat
        <3>1. T \subseteq Nat
            BY DEF T
        <3> QED BY <2>1, <2>2, <3>1, NatSet
    <2> QED BY <2>3 DEF T
<1> DEFINE G == [N \in Nat |-> CHOOSE g : Upto(N, g)]
<1>2. \A N \in Nat : Upto(N, G[N])
    BY <1>1
<1> HIDE DEF G
<1>3. \A k \in Nat : \A N \in Nat : k <= N => G[N][k] = G[k][k]
    <2> DEFINE T == {k \in Nat : \A N \in Nat : k <= N => G[N][k] = G[k][k]}
    <2>1. 0 \in T
        BY <1>2
    <2>2. ASSUME NEW k \in T PROVE k + 1 \in T
        <3>1. ASSUME NEW N \in Nat, k + 1 <= N PROVE G[N][k+1] = D[G[k][k]]
            <4>1. G[N][k] = G[k][k] /\ k \in 0 .. N - 1
                BY <3>1
            <4> QED BY <4>1, <1>2
        <3> QED BY <3>1
    <2> HIDE DEF T
    <2>3. T = Nat
        <3>1. T \subseteq Nat
            BY DEF T
        <3> QED BY <2>1, <2>2, <3>1, NatSet
    <2> QED BY <2>3 DEF T
<1> DEFINE F == [k \in Nat |-> G[k][k]]
<1>4. F \in [Nat -> S] /\ F[0] = c
    BY <1>2
<1>5. ASSUME NEW k \in Nat PROVE F[k+1] = D[F[k]]
    <2>1. G[k+1][k+1] = D[G[k+1][k]]
        BY <1>2
    <2> QED BY <2>1, <1>3
<1> HIDE DEF F
<1> QED BY <1>4, <1>5 DEF Iterates


(* One turn of the recursion of WalkIn, for all wires at once. *)
WalkOn(nw, n, h) ==
    [v \in Wire |-> IF v = NetSrc[n] \/ nw[v].pip = NoPip THEN <<v>>
                    ELSE <<v>> \o h[PipSrc[nw[v].pip]]]

WalksAre(F, nw, n) ==
    /\ F \in [Nat -> [Wire -> Seq(Wire)]]
    /\ F[0] = [v \in Wire |-> <<v>>]
    /\ \A k \in Nat : F[k+1] = WalkOn(nw, n, F[k])

(* The uphill pip of a wire in a routing map is a pip or none, and the     *)
(* wire it comes from is a wire.                                           *)
LEMMA PipOfWire ==
    ASSUME NEW nw \in NetWires, NEW v \in Wire
    PROVE  /\ nw[v].pip \in Pip \cup {NoPip}
           /\ nw[v].pip # NoPip => nw[v].pip \in Pip /\ nw[v] # NoUse
           /\ nw[v].pip # NoPip => PipSrc[nw[v].pip] \in Wire
BY FabricAssumption DEF NetWires, Use, NoUse

(* WalkIn, the walk up a routing map from a wire, is the last value of the *)
(* recursion it is defined by.                                             *)
LEMMA WalkUnfold ==
    ASSUME NEW nw \in NetWires, NEW n, NEW w \in Wire
    PROVE  \E F : WalksAre(F, nw, n) /\ WalkIn(nw, n, w) = F[Cardinality(Wire)][w]
<1> USE FabricAssumption
<1> DEFINE S == [Wire -> Seq(Wire)]
           D == [h \in S |-> WalkOn(nw, n, h)]
           c == [v \in Wire |-> <<v>>]
<1>1. c \in S
    OBVIOUS
<1>2. D \in [S -> S]
    <2>1. ASSUME NEW h \in S PROVE WalkOn(nw, n, h) \in S
        <3>1. ASSUME NEW v \in Wire, nw[v].pip # NoPip
              PROVE  <<v>> \o h[PipSrc[nw[v].pip]] \in Seq(Wire)
            <4>1. nw[v].pip \in Pip
                BY <3>1, PipOfWire
            <4> QED BY <4>1
        <3> QED BY <3>1 DEF WalkOn
    <2> HIDE DEF S
    <2> QED BY <2>1
<1>3. \E F : Iterates(F, S, D, c)
    <2> HIDE DEF S, D, c
    <2> QED BY <1>1, <1>2, PrimitiveRecursion
<1>4. PICK F \in [Nat -> S] : F[0] = c /\ \A k \in Nat : F[k+1] = WalkOn(nw, n, F[k])
    <2>1. PICK F : Iterates(F, S, D, c)
        BY <1>3
    <2>2. \A k \in Nat : F[k+1] = WalkOn(nw, n, F[k])
        <3> HIDE DEF S
        <3> QED BY <2>1 DEF Iterates
    <2> QED BY <2>1, <2>2 DEF Iterates
<1> DEFINE rec(f, k) == [v \in Wire |-> IF k = 0 \/ v = NetSrc[n] \/ nw[v].pip = NoPip
                                         THEN <<v>>
                                         ELSE <<v>> \o f[k-1][PipSrc[nw[v].pip]]]
           IsRec(f) == f = [k \in Nat |-> rec(f, k)]
<1>5. ASSUME NEW f PROVE IsRec(f) <=> /\ f = [k \in Nat |-> f[k]]
                                       /\ f[0] = c
                                       /\ \A k \in Nat : f[k+1] = WalkOn(nw, n, f[k])
    <2>1. rec(f, 0) = c
        OBVIOUS
    <2>2. ASSUME NEW k \in Nat PROVE rec(f, k+1) = WalkOn(nw, n, f[k])
        <3>1. (k + 1) # 0 /\ (k + 1) - 1 = k
            OBVIOUS
        <3> QED BY <3>1 DEF WalkOn
    <2> HIDE DEF rec, c
    <2>3. ASSUME IsRec(f) PROVE /\ f = [k \in Nat |-> f[k]]
                                /\ f[0] = c
                                /\ \A k \in Nat : f[k+1] = WalkOn(nw, n, f[k])
        <3>1. \A k \in Nat : f[k] = rec(f, k)
            BY <2>3
        <3>2. f = [k \in Nat |-> f[k]]
            BY <2>3
        <3>3. f[0] = c
            BY <3>1, <2>1
        <3>4. ASSUME NEW k \in Nat PROVE f[k+1] = WalkOn(nw, n, f[k])
            <4>1. k + 1 \in Nat
                OBVIOUS
            <4>2. f[k+1] = rec(f, k+1)
                BY <4>1, <3>1
            <4> QED BY <4>2, <2>2
        <3> QED BY <3>2, <3>3, <3>4
    <2>4. ASSUME f = [k \in Nat |-> f[k]], f[0] = c,
                 \A k \in Nat : f[k+1] = WalkOn(nw, n, f[k])
          PROVE  IsRec(f)
        <3>1. ASSUME NEW k \in Nat PROVE f[k] = rec(f, k)
            <4>1. CASE k = 0
                BY <4>1, <2>4, <2>1
            <4>2. CASE k # 0
                <5>1. k - 1 \in Nat /\ (k - 1) + 1 = k
                    BY <4>2
                <5>2. f[k] = WalkOn(nw, n, f[k-1]) /\ rec(f, k) = WalkOn(nw, n, f[k-1])
                    BY <5>1, <2>4, <2>2
                <5> QED BY <5>2
            <4> QED BY <4>1, <4>2
        <3> QED BY <3>1, <2>4
    <2> QED BY <2>3, <2>4
<1>6. IsRec(F)
    <2> HIDE DEF IsRec, S, c
    <2>1. F = [k \in Nat |-> F[k]]
        OBVIOUS
    <2> QED BY <2>1, <1>4, <1>5
<1> DEFINE G == CHOOSE f : IsRec(f)
<1>7. IsRec(G)
    <2> HIDE DEF IsRec
    <2> QED BY <1>6
<1>8. WalkIn(nw, n, w) = G[Cardinality(Wire)][w]
    BY DEF WalkIn
<1>9. \A k \in Nat : G[k] = F[k]
    <2> DEFINE T == {k \in Nat : G[k] = F[k]}
    <2>1. G[0] = c /\ \A k \in Nat : G[k+1] = WalkOn(nw, n, G[k])
        <3> HIDE DEF IsRec, G, c
        <3> QED BY <1>7, <1>5
    <2> HIDE DEF G, c, S, IsRec
    <2>2. 0 \in T /\ \A k \in T : k + 1 \in T
        BY <2>1, <1>4
    <2> HIDE DEF T
    <2>3. T = Nat
        <3>1. T \subseteq Nat
            BY DEF T
        <3> QED BY <2>2, <3>1, NatSet
    <2> QED BY <2>3 DEF T
<1>10. G \in [Nat -> S] /\ G = [k \in Nat |-> G[k]]
    <2>1. G = [k \in Nat |-> G[k]]
        <3> HIDE DEF IsRec, G, c
        <3> QED BY <1>7, <1>5
    <2> HIDE DEF G, c, S, IsRec
    <2> QED BY <2>1, <1>9
<1>11. G[0] = c /\ \A k \in Nat : G[k+1] = WalkOn(nw, n, G[k])
    <2> HIDE DEF IsRec, G, c
    <2> QED BY <1>7, <1>5
<1> HIDE DEF G, IsRec
<1>12. WalksAre(G, nw, n)
    BY <1>10, <1>11 DEF WalksAre
<1> QED BY <1>8, <1>12

(* What WalkIn computes, without recursion: from w up, from each wire to   *)
(* the source of its pip, until the source of the net, a wire without a    *)
(* pip, or after k steps.                                                  *)
IsWalk(nw, n, w, k, s) ==
    /\ s \in Seq(Wire) /\ Len(s) \in 1 .. k + 1 /\ s[1] = w
    /\ \A i \in 1 .. Len(s) - 1 :
         s[i] # NetSrc[n] /\ nw[s[i]].pip # NoPip /\ s[i+1] = PipSrc[nw[s[i]].pip]
    /\ \/ Len(s) = k + 1
       \/ s[Len(s)] = NetSrc[n]
       \/ nw[s[Len(s)]].pip = NoPip

(* There are finitely many wires, so that a walk has a longest length. *)
LEMMA WireCount == Cardinality(Wire) \in Nat
<1> QED BY FS_CardinalityType, Router2Assumption

(* WalkIn computes what IsWalk says: the uphill loops of the router        *)
(* (check_arc_routing, ripup_arc) follow the pips and stop at the source,  *)
(* at a wire without a pip, or after as many steps as there are wires.     *)
LEMMA WalkShape ==
    ASSUME NEW nw \in NetWires, NEW n, NEW w \in Wire
    PROVE  IsWalk(nw, n, w, Cardinality(Wire), WalkIn(nw, n, w))
<1>0. PICK F : WalksAre(F, nw, n) /\ WalkIn(nw, n, w) = F[Cardinality(Wire)][w]
    BY WalkUnfold
<1>1. /\ F \in [Nat -> [Wire -> Seq(Wire)]]
      /\ F[0] = [v \in Wire |-> <<v>>]
      /\ \A k \in Nat : F[k+1] = WalkOn(nw, n, F[k])
    BY <1>0 DEF WalksAre
<1> DEFINE T == {k \in Nat : \A v \in Wire : IsWalk(nw, n, v, k, F[k][v])}
<1>2. 0 \in T
    <2>1. ASSUME NEW v \in Wire PROVE IsWalk(nw, n, v, 0, <<v>>)
        BY DEF IsWalk
    <2> QED BY <2>1, <1>1
<1>3. ASSUME NEW k \in T PROVE k + 1 \in T
    <2>1. ASSUME NEW v \in Wire PROVE IsWalk(nw, n, v, k + 1, F[k+1][v])
        <3>1. CASE v = NetSrc[n] \/ nw[v].pip = NoPip
            <4>1. F[k+1][v] = <<v>>
                BY <3>1, <1>1, ZenonT(60) DEF WalkOn
            <4> QED BY <4>1, <3>1 DEF IsWalk
        <3>2. CASE ~(v = NetSrc[n] \/ nw[v].pip = NoPip)
            <4> DEFINE u == PipSrc[nw[v].pip]
                       r == F[k][u]
            <4>1. u \in Wire
                BY <3>2, PipOfWire
            <4>2. F[k+1][v] = <<v>> \o r
                BY <3>2, <1>1, ZenonT(60) DEF WalkOn
            <4>3. IsWalk(nw, n, u, k, r)
                BY <4>1
            <4> DEFINE s == <<v>> \o r
            <4> HIDE DEF r
            <4>4. /\ s \in Seq(Wire) /\ Len(s) = Len(r) + 1 /\ s[1] = v
                  /\ \A i \in 1 .. Len(r) : s[i+1] = r[i]
                BY <4>3 DEF IsWalk
            <4>5. ASSUME NEW i \in 1 .. Len(s) - 1
                  PROVE  /\ s[i] # NetSrc[n] /\ nw[s[i]].pip # NoPip
                         /\ s[i+1] = PipSrc[nw[s[i]].pip]
                <5>1. CASE i = 1
                    BY <5>1, <4>4, <4>3, <3>2 DEF IsWalk
                <5>2. CASE i # 1
                    <6>1. i - 1 \in 1 .. Len(r) - 1
                        BY <5>2, <4>4, <4>3 DEF IsWalk
                    <6>2. s[i] = r[i-1] /\ s[i+1] = r[i]
                        <7>1. s[(i-1)+1] = r[i-1]
                            BY <6>1, <4>4, <4>3 DEF IsWalk
                        <7>2. (i-1)+1 = i
                            OBVIOUS
                        <7>3. Len(r) \in Nat /\ i \in 1 .. Len(r)
                            BY <4>3, <4>4 DEF IsWalk
                        <7> HIDE DEF s
                        <7> QED BY <7>1, <7>2, <7>3, <4>4
                    <6>3. r[(i-1)+1] = PipSrc[nw[r[i-1]].pip]
                        BY <6>1, <4>3 DEF IsWalk
                    <6>4. r[i-1] # NetSrc[n] /\ nw[r[i-1]].pip # NoPip
                        BY <6>1, <4>3 DEF IsWalk
                    <6>5. (i-1)+1 = i
                        OBVIOUS
                    <6> HIDE DEF s
                    <6> QED BY <6>2, <6>3, <6>4, <6>5
                <5> QED BY <5>1, <5>2
            <4>6. s[Len(s)] = r[Len(r)] /\ Len(s) \in 1 .. (k + 1) + 1
                BY <4>4, <4>3 DEF IsWalk
            <4> HIDE DEF s
            <4>7. IsWalk(nw, n, v, k + 1, s)
                BY <4>3, <4>4, <4>5, <4>6 DEF IsWalk
            <4> QED BY <4>7, <4>2 DEF s
        <3> QED BY <3>1, <3>2
    <2> QED BY <2>1
<1> HIDE DEF T
<1>4. T = Nat
    <2>1. T \subseteq Nat
        BY DEF T
    <2> QED BY <1>2, <1>3, <2>1, NatSet
<1> QED BY <1>0, <1>4, WireCount DEF T

(* A complete walk, from w to the source. *)
IsWay(nw, n, w, s) ==
    /\ s \in Seq(Wire) /\ Len(s) \in Nat \ {0} /\ s[1] = w
    /\ \A i \in 1 .. Len(s) - 1 :
         s[i] # NetSrc[n] /\ nw[s[i]].pip # NoPip /\ s[i+1] = PipSrc[nw[s[i]].pip]
    /\ s[Len(s)] = NetSrc[n]

(* A walk that ends at the source is a complete way from the wire to it. *)
LEMMA WalkIsWay ==
    ASSUME NEW nw \in NetWires, NEW n, NEW w \in Wire, ReachesIn(nw, n, w)
    PROVE  IsWay(nw, n, w, WalkIn(nw, n, w))
<1> DEFINE s == WalkIn(nw, n, w)
<1>1. IsWalk(nw, n, w, Cardinality(Wire), s)
    BY WalkShape
<1>2. s[Len(s)] = NetSrc[n]
    BY DEF ReachesIn, Last
<1> HIDE DEF s
<1>3. IsWay(nw, n, w, s)
    <2>1. /\ s \in Seq(Wire) /\ Len(s) \in 1 .. Cardinality(Wire) + 1 /\ s[1] = w
          /\ \A i \in 1 .. Len(s) - 1 :
               s[i] # NetSrc[n] /\ nw[s[i]].pip # NoPip /\ s[i+1] = PipSrc[nw[s[i]].pip]
        BY <1>1 DEF IsWalk
    <2>2. Len(s) \in Nat \ {0}
        BY <2>1, WireCount
    <2> QED BY <1>2, <2>1, <2>2 DEF IsWay
<1> QED BY <1>3 DEF s

(* A way to the source comes over no wire twice, since each wire has one   *)
(* pip and the way is at the source only at its end.                       *)
LEMMA WayDistinct ==
    ASSUME NEW nw, NEW n, NEW w, NEW s, IsWay(nw, n, w, s),
           NEW i \in 1 .. Len(s), NEW j \in 1 .. Len(s), i < j
    PROVE  s[i] # s[j]
<1> SUFFICES ASSUME s[i] = s[j] PROVE FALSE
    OBVIOUS
<1>0. Len(s) \in Nat
    BY DEF IsWay
<1> DEFINE T == {d \in Nat : j + d <= Len(s) => s[i+d] = s[j+d]}
<1>1. 0 \in T
    OBVIOUS
<1>2. ASSUME NEW d \in T PROVE d + 1 \in T
    <2> SUFFICES ASSUME j + (d + 1) <= Len(s) PROVE s[i+(d+1)] = s[j+(d+1)]
        OBVIOUS
    <2>1. s[i+d] = s[j+d] /\ i + d \in 1 .. Len(s) - 1 /\ j + d \in 1 .. Len(s) - 1
        BY <1>0
    <2>2. s[(i+d)+1] = PipSrc[nw[s[i+d]].pip] /\ s[(j+d)+1] = PipSrc[nw[s[j+d]].pip]
        BY <2>1 DEF IsWay
    <2>3. i + (d + 1) = (i + d) + 1 /\ j + (d + 1) = (j + d) + 1
        OBVIOUS
    <2> QED BY <2>1, <2>2, <2>3
<1> HIDE DEF T
<1>3. T = Nat
    <2>1. T \subseteq Nat
        BY DEF T
    <2> QED BY <1>1, <1>2, <2>1, NatSet
<1> DEFINE e == Len(s) - j
<1>4. e \in Nat /\ j + e = Len(s) /\ i + e \in 1 .. Len(s) - 1
    BY <1>0
<1>5. s[i+e] = s[j+e]
    <2>1. e \in T
        BY <1>3, <1>4
    <2>2. j + e <= Len(s) => s[i+e] = s[j+e]
        BY <2>1 DEF T
    <2> QED BY <2>2, <1>4, <1>0
<1>6. s[i+e] = NetSrc[n]
    BY <1>4, <1>5 DEF IsWay
<1> QED BY <1>4, <1>6 DEF IsWay

(* A way to the source is what WalkIn finds: the cut-off after as many     *)
(* steps as there are wires does not shorten it.                           *)
LEMMA WayIsWalk ==
    ASSUME NEW nw \in NetWires, NEW n, NEW w \in Wire, NEW p, IsWay(nw, n, w, p)
    PROVE  WalkIn(nw, n, w) = p
<1> DEFINE s == WalkIn(nw, n, w)
           K == Cardinality(Wire)
<1>1. IsWalk(nw, n, w, K, s)
    BY WalkShape
<1> HIDE DEF s
<1>2. Len(p) <= K
    <2>1. p \in [1 .. Len(p) -> Wire] /\ Len(p) \in Nat
        BY DEF IsWay
    <2>2. \A i, j \in 1 .. Len(p) : p[i] = p[j] => i = j
        <3>1. \A i, j \in 1 .. Len(p) : i < j => p[i] # p[j]
            BY WayDistinct
        <3> QED BY <3>1, <2>1
    <2>3. p \in Injection(1 .. Len(p), Wire)
        BY <2>1, <2>2 DEF Injection, IsInjective
    <2>4. Cardinality(1 .. Len(p)) <= Cardinality(Wire)
        BY <2>3, FS_Injection, Router2Assumption
    <2>5. Cardinality(1 .. Len(p)) = Len(p)
        <3>1. 1 \in Int /\ Len(p) \in Int
            BY <2>1
        <3>2. Cardinality(1 .. Len(p)) = IF 1 > Len(p) THEN 0 ELSE Len(p) - 1 + 1
            BY <3>1, FS_Interval
        <3> QED BY <3>2, <2>1
    <2> QED BY <2>4, <2>5
<1>3. K \in Nat /\ Len(s) \in Nat \ {0} /\ Len(p) \in Nat \ {0}
    BY <1>1, WireCount DEF IsWalk, IsWay
<1> HIDE DEF K
<1> DEFINE T == {i \in Nat : i + 1 <= Len(s) /\ i + 1 <= Len(p) => s[i+1] = p[i+1]}
<1>4. 0 \in T
    BY <1>1 DEF IsWalk, IsWay
<1>5. ASSUME NEW i \in T PROVE i + 1 \in T
    <2> SUFFICES ASSUME (i + 1) + 1 <= Len(s), (i + 1) + 1 <= Len(p)
                 PROVE  s[(i+1)+1] = p[(i+1)+1]
        OBVIOUS
    <2>1. s[i+1] = p[i+1] /\ i + 1 \in 1 .. Len(s) - 1 /\ i + 1 \in 1 .. Len(p) - 1
        BY <1>3
    <2> QED BY <2>1, <1>1 DEF IsWalk, IsWay
<1> HIDE DEF T
<1>6. T = Nat
    <2>1. T \subseteq Nat
        BY DEF T
    <2> QED BY <1>4, <1>5, <2>1, NatSet
<1>7. ASSUME NEW i \in 1 .. Len(s), i <= Len(p) PROVE s[i] = p[i]
    <2>1. i - 1 \in T /\ (i - 1) + 1 = i
        BY <1>6, <1>3
    <2> QED BY <2>1, <1>7, <1>3 DEF T
<1>8. Len(s) = Len(p)
    <2>1. CASE Len(s) < Len(p)
        <3>1. s[Len(s)] = p[Len(s)] /\ Len(s) \in 1 .. Len(p) - 1
            BY <1>7, <1>3, <2>1
        <3>2. Len(s) # K + 1
            BY <1>2, <1>3, <2>1
        <3> QED BY <3>1, <3>2, <1>1 DEF IsWalk, IsWay
    <2>2. CASE Len(p) < Len(s)
        <3>1. s[Len(p)] = p[Len(p)] /\ Len(p) \in 1 .. Len(s) - 1
            BY <1>7, <1>3, <2>2
        <3> QED BY <3>1, <1>1 DEF IsWalk, IsWay
    <2> QED BY <2>1, <2>2, <1>3
<1>9. s = p
    <2>1. s \in Seq(Wire) /\ p \in Seq(Wire)
        BY <1>1 DEF IsWalk, IsWay
    <2>2. \A i \in 1 .. Len(s) : s[i] = p[i]
        BY <1>7, <1>8, <1>3
    <2> QED BY <2>1, <2>2, <1>8, SeqEqual
<1> QED BY <1>9 DEF s

-----------------------------------------------------------------------------
(* A way is the walk, its wires but the last are the trunk. *)
LEMMA WayReaches ==
    ASSUME NEW nw \in NetWires, NEW n, NEW w \in Wire, NEW p, IsWay(nw, n, w, p)
    PROVE  /\ WalkIn(nw, n, w) = p
           /\ ReachesIn(nw, n, w)
           /\ TrunkIn(nw, n, w) = {p[i] : i \in 1 .. Len(p) - 1}
<1>1. WalkIn(nw, n, w) = p
    BY WayIsWalk
<1>2. ReachesIn(nw, n, w)
    BY <1>1 DEF IsWay, ReachesIn, Last
<1>3. ToSet(p) = {p[i] : i \in 1 .. Len(p)}
    BY DEF IsWay, ToSet
<1>4. \A i \in 1 .. Len(p) - 1 : p[i] # NetSrc[n]
    BY DEF IsWay
<1>5. p[Len(p)] = NetSrc[n] /\ Len(p) \in Nat \ {0}
    BY DEF IsWay
<1>6. TrunkIn(nw, n, w) = ToSet(p) \ {NetSrc[n]}
    BY <1>1 DEF TrunkIn
<1> QED BY <1>1, <1>2, <1>3, <1>4, <1>5, <1>6

(* The trunk of a wire that reaches the source has the wires of the walk   *)
(* but the last, and each of them is in use and has a pip.                 *)
LEMMA TrunkIs ==
    ASSUME NEW nw \in NetWires, NEW n, NEW w \in Wire, ReachesIn(nw, n, w)
    PROVE  /\ TrunkIn(nw, n, w) = {WalkIn(nw, n, w)[i] :
                                     i \in 1 .. Len(WalkIn(nw, n, w)) - 1}
           /\ \A v \in TrunkIn(nw, n, w) :
                 /\ v \in Wire /\ v # NetSrc[n]
                 /\ nw[v].pip \in Pip /\ nw[v] # NoUse
<1> DEFINE s == WalkIn(nw, n, w)
<1>1. IsWay(nw, n, w, s)
    BY WalkIsWay
<1> HIDE DEF s
<1>2. TrunkIn(nw, n, w) = {s[i] : i \in 1 .. Len(s) - 1}
    BY <1>1, WayReaches
<1>3. ASSUME NEW i \in 1 .. Len(s) - 1
      PROVE  s[i] \in Wire /\ s[i] # NetSrc[n] /\ nw[s[i]].pip # NoPip
    BY <1>1 DEF IsWay
<1>4. \A v \in TrunkIn(nw, n, w) : v \in Wire /\ v # NetSrc[n] /\ nw[v].pip # NoPip
    BY <1>2, <1>3
<1> QED BY <1>2, <1>4, PipOfWire DEF s

(* A walk to the source only depends on the pips of the wires it takes. *)
LEMMA WayFrame ==
    ASSUME NEW nw \in NetWires, NEW mw \in NetWires, NEW n, NEW w \in Wire,
           ReachesIn(nw, n, w),
           \A v \in TrunkIn(nw, n, w) : mw[v].pip = nw[v].pip
    PROVE  /\ WalkIn(mw, n, w) = WalkIn(nw, n, w)
           /\ ReachesIn(mw, n, w)
           /\ TrunkIn(mw, n, w) = TrunkIn(nw, n, w)
<1> DEFINE s == WalkIn(nw, n, w)
<1>1. IsWay(nw, n, w, s)
    BY WalkIsWay
<1>2. TrunkIn(nw, n, w) = {s[i] : i \in 1 .. Len(s) - 1}
    BY TrunkIs
<1> HIDE DEF s
<1>3. \A i \in 1 .. Len(s) - 1 : mw[s[i]].pip = nw[s[i]].pip
    BY <1>2
<1>4. IsWay(mw, n, w, s)
    BY <1>1, <1>3 DEF IsWay
<1>5. /\ WalkIn(mw, n, w) = s /\ ReachesIn(mw, n, w)
      /\ TrunkIn(mw, n, w) = {s[i] : i \in 1 .. Len(s) - 1}
    BY <1>4, WayReaches
<1> QED BY <1>5, <1>2 DEF s

-----------------------------------------------------------------------------
(* Arcs of a net are finitely many, and no arc is NoReg. *)
LEMMA FiniteRange ==
    ASSUME NEW S, NEW s \in Seq(S)
    PROVE  IsFiniteSet(ToSet(s))
<1>1. IsFiniteSet(1 .. Len(s))
    BY FS_Interval
<1>2. ToSet(s) = {s[i] : i \in 1 .. Len(s)} /\ s \in [1 .. Len(s) -> S]
    BY DEF ToSet
<1>3. s \in Surjection(1 .. Len(s), ToSet(s))
    BY <1>2 DEF Surjection
<1> QED BY <1>1, <1>3, FS_Surjection

(* The arcs of a net are finitely many arcs, none is NoReg, and each has a *)
(* sink wire.                                                              *)
LEMMA ArcsOfNet ==
    ASSUME NEW n \in Net
    PROVE  /\ IsFiniteSet(ToSet(NetArcs[n])) /\ ToSet(NetArcs[n]) \subseteq Arc
           /\ NoReg \notin ToSet(NetArcs[n])
           /\ \A a \in ToSet(NetArcs[n]) : SinkWire[a] \in Wire
<1>1. NetArcs[n] \in Seq(Arc)
    BY Router2Assumption
<1> DEFINE s == NetArcs[n]
<1> HIDE DEF s
<1>2. s \in Seq(Arc)
    BY <1>1 DEF s
<1>4. ToSet(s) \subseteq Arc
    BY <1>2 DEF ToSet
<1> QED BY <1>2, <1>4, FiniteRange, Router2Assumption DEF s

(* The arcs that come over a wire can be counted. *)
LEMMA OthersFinite ==
    ASSUME NEW n \in Net, NEW nw, NEW rt, NEW a, NEW w
    PROVE  /\ IsFiniteSet(OthersIn(nw, rt, n, a, w))
           /\ Cardinality(OthersIn(nw, rt, n, a, w)) \in Nat
<1>1. OthersIn(nw, rt, n, a, w) \subseteq ToSet(NetArcs[n])
    BY DEF OthersIn
<1>2. IsFiniteSet(ToSet(NetArcs[n]))
    BY ArcsOfNet
<1>3. IsFiniteSet(OthersIn(nw, rt, n, a, w))
    BY <1>1, <1>2, FS_Subset
<1> QED BY <1>3, FS_CardinalityType

(* A routed arc counts once on each wire of its trunk. *)
LEMMA SplitCount ==
    ASSUME NEW n \in Net, NEW nw, NEW rt, NEW a \in ToSet(NetArcs[n]), NEW w
    PROVE  Cardinality(OthersIn(nw, rt, n, NoReg, w))
             = Cardinality(OthersIn(nw, rt, n, a, w))
               + IF rt[a] /\ w \in TrunkIn(nw, n, SinkWire[a]) THEN 1 ELSE 0
<1> DEFINE A == OthersIn(nw, rt, n, NoReg, w)
           B == OthersIn(nw, rt, n, a, w)
<1>1. IsFiniteSet(B) /\ Cardinality(B) \in Nat
    BY OthersFinite
<1>2. a \notin B
    BY DEF OthersIn
<1>3. A = IF rt[a] /\ w \in TrunkIn(nw, n, SinkWire[a]) THEN B \cup {a} ELSE B
    BY ArcsOfNet DEF OthersIn
<1> HIDE DEF A, B
<1>4. Cardinality(B \cup {a}) = Cardinality(B) + 1
    BY <1>1, <1>2, FS_AddElement
<1>5. Cardinality(A) = Cardinality(B)
               + IF rt[a] /\ w \in TrunkIn(nw, n, SinkWire[a]) THEN 1 ELSE 0
    BY <1>1, <1>3, <1>4
<1> QED BY <1>5 DEF A, B

(* A routed arc of a whole net may be considered on its own: without it    *)
(* the net is whole but for the trunk of the arc, which is where ripup_arc *)
(* starts.                                                                 *)
LEMMA TakeOut ==
    ASSUME NEW n \in Net, NEW nw, NEW rt, NEW a \in ToSet(NetArcs[n]), rt[a],
           WholeBut(nw, rt, n, NoReg, {})
    PROVE  /\ ReachesIn(nw, n, SinkWire[a])
           /\ WholeBut(nw, rt, n, a, TrunkIn(nw, n, SinkWire[a]))
<1>1. \A b \in ToSet(NetArcs[n]) : rt[b] => ReachesIn(nw, n, SinkWire[b])
    BY ArcsOfNet DEF WholeBut
<1>2. ASSUME NEW w \in Wire \ {NetSrc[n]}, nw[w] # NoUse
      PROVE  nw[w].count = Cardinality(OthersIn(nw, rt, n, a, w))
                           + IF w \in TrunkIn(nw, n, SinkWire[a]) THEN 1 ELSE 0
    <2>1. nw[w].count = Cardinality(OthersIn(nw, rt, n, NoReg, w)) + 0
        BY <1>2 DEF WholeBut
    <2>2. /\ Cardinality(OthersIn(nw, rt, n, NoReg, w)) \in Nat
          /\ Cardinality(OthersIn(nw, rt, n, a, w)) \in Nat
        BY OthersFinite
    <2> QED BY <2>1, <2>2, SplitCount
<1> QED BY <1>1, <1>2 DEF WholeBut

(* An arc that is not routed may be left out of a whole net: it counts on  *)
(* no wire.                                                                *)
LEMMA LeaveOut ==
    ASSUME NEW n \in Net, NEW nw, NEW rt, NEW a \in ToSet(NetArcs[n]), ~rt[a],
           WholeBut(nw, rt, n, NoReg, {})
    PROVE  WholeBut(nw, rt, n, a, {})
<1>1. \A b \in ToSet(NetArcs[n]) : rt[b] => ReachesIn(nw, n, SinkWire[b])
    BY ArcsOfNet DEF WholeBut
<1>2. ASSUME NEW w \in Wire \ {NetSrc[n]}, nw[w] # NoUse
      PROVE  nw[w].count = Cardinality(OthersIn(nw, rt, n, a, w)) + 0
    <2>1. nw[w].count = Cardinality(OthersIn(nw, rt, n, NoReg, w)) + 0
        BY <1>2 DEF WholeBut
    <2>2. OthersIn(nw, rt, n, NoReg, w) = OthersIn(nw, rt, n, a, w)
        BY ArcsOfNet DEF OthersIn
    <2> QED BY <2>1, <2>2
<1> QED BY <1>1, <1>2 DEF WholeBut

(* What an arc is said to be, routed or not, matters to it alone. *)
LEMMA OthersSame ==
    ASSUME NEW n, NEW nw, NEW rt, NEW qt, NEW a, NEW w,
           \A b \in ToSet(NetArcs[n]) \ {a} : rt[b] <=> qt[b]
    PROVE  OthersIn(nw, rt, n, a, w) = OthersIn(nw, qt, n, a, w)
BY DEF OthersIn

(* Whether a net is whole depends on the flags of its own arcs only. *)
LEMMA WholeSame ==
    ASSUME NEW n, NEW nw, NEW rt, NEW qt, NEW a, NEW X,
           \A b \in ToSet(NetArcs[n]) \ {a} : rt[b] <=> qt[b],
           WholeBut(nw, rt, n, a, X)
    PROVE  WholeBut(nw, qt, n, a, X)
<1>1. \A w : OthersIn(nw, rt, n, a, w) = OthersIn(nw, qt, n, a, w)
    BY OthersSame
<1> QED BY <1>1 DEF WholeBut

(* A net that is whole but for an arc that counts on X is whole, if X is   *)
(* what the arc needs: the end of a ripup and of a binding.                *)
LEMMA PutBack ==
    ASSUME NEW n \in Net, NEW nw, NEW rt, NEW a \in ToSet(NetArcs[n]),
           NEW X, WholeBut(nw, rt, n, a, X),
           rt[a] => /\ ReachesIn(nw, n, SinkWire[a])
                    /\ \A w \in Wire \ {NetSrc[n]} :
                         w \in X <=> w \in TrunkIn(nw, n, SinkWire[a]),
           ~rt[a] => X = {}
    PROVE  WholeBut(nw, rt, n, NoReg, {})
<1>1. \A b \in ToSet(NetArcs[n]) : rt[b] => ReachesIn(nw, n, SinkWire[b])
    BY DEF WholeBut
<1>2. ASSUME NEW w \in Wire \ {NetSrc[n]}, nw[w] # NoUse
      PROVE  nw[w].count = Cardinality(OthersIn(nw, rt, n, NoReg, w)) + 0
    <2>1. nw[w].count = Cardinality(OthersIn(nw, rt, n, a, w))
                        + IF w \in X THEN 1 ELSE 0
        BY <1>2 DEF WholeBut
    <2>2. /\ Cardinality(OthersIn(nw, rt, n, NoReg, w)) \in Nat
          /\ Cardinality(OthersIn(nw, rt, n, a, w)) \in Nat
        BY OthersFinite
    <2>3. w \in X <=> rt[a] /\ w \in TrunkIn(nw, n, SinkWire[a])
        OBVIOUS
    <2> QED BY <2>1, <2>2, <2>3, SplitCount
<1> QED BY <1>1, <1>2 DEF WholeBut

(* Wires that no other routed arc comes over may change. *)
LEMMA WholeFrame ==
    ASSUME NEW n \in Net, NEW nw \in NetWires, NEW mw \in NetWires, NEW rt,
           NEW a, NEW X, WholeBut(nw, rt, n, a, X),
           \A v \in Wire \ {NetSrc[n]} :
              mw[v].pip = nw[v].pip \/ OthersIn(nw, rt, n, a, v) = {}
    PROVE  /\ \A b \in ToSet(NetArcs[n]) \ {a} : rt[b] =>
                 ReachesIn(mw, n, SinkWire[b])
           /\ \A w : OthersIn(mw, rt, n, a, w) = OthersIn(nw, rt, n, a, w)
<1>1. ASSUME NEW b \in ToSet(NetArcs[n]) \ {a}, rt[b]
      PROVE  /\ ReachesIn(mw, n, SinkWire[b])
             /\ TrunkIn(mw, n, SinkWire[b]) = TrunkIn(nw, n, SinkWire[b])
    <2>1. SinkWire[b] \in Wire /\ ReachesIn(nw, n, SinkWire[b])
        BY <1>1, ArcsOfNet DEF WholeBut
    <2>2. ASSUME NEW v \in TrunkIn(nw, n, SinkWire[b]) PROVE mw[v].pip = nw[v].pip
        <3>1. v \in Wire \ {NetSrc[n]}
            BY <2>1, TrunkIs
        <3>2. b \in OthersIn(nw, rt, n, a, v)
            BY <1>1 DEF OthersIn
        <3> QED BY <3>1, <3>2
    <2> QED BY <2>1, <2>2, WayFrame
<1>2. ASSUME NEW w PROVE OthersIn(mw, rt, n, a, w) = OthersIn(nw, rt, n, a, w)
    BY <1>1 DEF OthersIn
<1> QED BY <1>1, <1>2

-----------------------------------------------------------------------------
(* A path and what is left of it after its first step. *)
LEMMA PipOnStep ==
    ASSUME NEW path \in Seq(PathStep), OnePass(path), NEW b \in ToSet(path)
    PROVE  PipOn(path, b.wire) = b.pip
<1>1. \A c \in ToSet(path) : c.wire = b.wire => c = b
    BY DEF OnePass, ToSet
<1>2. (CHOOSE c \in ToSet(path) : c.wire = b.wire) = b
    BY <1>1
<1> QED BY <1>2 DEF PipOn

(* The first step of a path has the wire of none of the steps that are     *)
(* left.                                                                   *)
LEMMA TailPath ==
    ASSUME NEW path \in Seq(PathStep), path # <<>>, OnePass(path)
    PROVE  /\ Head(path) \in PathStep /\ Tail(path) \in Seq(PathStep)
           /\ OnePass(Tail(path))
           /\ ToSet(path) = ToSet(Tail(path)) \cup {Head(path)}
           /\ Head(path).wire \in PathWires(path)
           /\ PathWires(Tail(path)) = PathWires(path) \ {Head(path).wire}
           /\ PipOn(path, Head(path).wire) = Head(path).pip
           /\ \A w \in PathWires(Tail(path)) : PipOn(Tail(path), w) = PipOn(path, w)
<1> DEFINE h == Head(path)
           r == Tail(path)
<1>1. Len(path) \in Nat \ {0} /\ h = path[1] /\ h \in PathStep
    OBVIOUS
<1>2. /\ r \in Seq(PathStep) /\ Len(r) = Len(path) - 1
      /\ \A i \in 1 .. Len(r) : r[i] = path[i+1]
    OBVIOUS
<1> HIDE DEF h, r
<1>3. OnePass(r)
    <2> SUFFICES ASSUME NEW i \in 1 .. Len(r), NEW j \in 1 .. Len(r),
                        r[i].wire = r[j].wire
                 PROVE  i = j
        BY <1>2 DEF OnePass
    <2>1. i + 1 \in DOMAIN path /\ j + 1 \in DOMAIN path
        BY <1>1, <1>2
    <2>2. path[i+1].wire = path[j+1].wire
        BY <1>2
    <2>3. i + 1 = j + 1
        BY <2>1, <2>2 DEF OnePass
    <2> QED BY <2>3
<1>4. ToSet(path) = ToSet(r) \cup {h}
    <2>1. ToSet(path) = {path[i] : i \in 1 .. Len(path)}
        BY DEF ToSet
    <2>2. ToSet(r) = {r[i] : i \in 1 .. Len(r)}
        BY <1>2 DEF ToSet
    <2>3. ASSUME NEW i \in 1 .. Len(path) PROVE path[i] \in ToSet(r) \cup {h}
        <3>1. CASE i = 1
            BY <3>1, <1>1
        <3>2. CASE i # 1
            <4>1. i - 1 \in 1 .. Len(r) /\ (i - 1) + 1 = i
                BY <3>2, <1>1, <1>2
            <4>2. r[i-1] = path[i]
                BY <4>1, <1>2
            <4> QED BY <4>1, <4>2, <2>2
        <3> QED BY <3>1, <3>2
    <2>4. ASSUME NEW i \in 1 .. Len(r) PROVE r[i] \in ToSet(path)
        <3>1. i + 1 \in 1 .. Len(path) /\ r[i] = path[i+1]
            BY <1>1, <1>2
        <3> QED BY <3>1, <2>1
    <2> QED BY <2>1, <2>2, <2>3, <2>4, <1>1
<1>5. \A b \in ToSet(r) : b.wire # h.wire
    <2> SUFFICES ASSUME NEW i \in 1 .. Len(r), r[i].wire = h.wire PROVE FALSE
        BY <1>2 DEF ToSet
    <2>1. i + 1 \in DOMAIN path /\ 1 \in DOMAIN path /\ path[i+1].wire = path[1].wire
        BY <1>1, <1>2
    <2>2. i + 1 = 1
        BY <2>1 DEF OnePass
    <2> QED BY <2>2
<1>6. h.wire \in PathWires(path) /\ PathWires(r) = PathWires(path) \ {h.wire}
    BY <1>4, <1>5 DEF PathWires
<1>7. PipOn(path, h.wire) = h.pip
    BY <1>4, PipOnStep
<1>8. ASSUME NEW w \in PathWires(r) PROVE PipOn(r, w) = PipOn(path, w)
    <2>1. PICK b \in ToSet(r) : b.wire = w
        BY DEF PathWires
    <2>2. PipOn(r, b.wire) = b.pip
        BY <1>2, <1>3, PipOnStep
    <2>3. PipOn(path, b.wire) = b.pip
        BY <1>4, PipOnStep
    <2> QED BY <2>1, <2>2, <2>3
<1> QED BY <1>1, <1>2, <1>3, <1>4, <1>6, <1>7, <1>8 DEF h, r

(* The wires of a path are wires, and each is bound with a pip or none. *)
LEMMA PathWiresIn ==
    ASSUME NEW path \in Seq(PathStep)
    PROVE  /\ PathWires(path) \subseteq Wire
           /\ OnePass(path) => \A w \in PathWires(path) :
                                  PipOn(path, w) \in Pip \cup {NoPip}
<1>1. \A b \in ToSet(path) : b \in PathStep
    BY DEF ToSet
<1>2. \A b \in ToSet(path) : b.wire \in Wire /\ b.pip \in Pip \cup {NoPip}
    BY <1>1 DEF PathStep
<1> QED BY <1>2, PipOnStep DEF PathWires

(* A routing map with a path bound is a routing map. *)
LEMMA AsBoundType ==
    ASSUME NEW nw \in NetWires, NEW path \in Seq(PathStep), OnePass(path)
    PROVE  AsBound(nw, path) \in NetWires
BY PathWiresIn, PipOfWire DEF AsBound, NetWires, Use

-----------------------------------------------------------------------------
(* A wire is not used exactly if its count is that of NoUse. *)
LEMMA UseCount ==
    ASSUME NEW u \in Use \cup {NoUse}
    PROVE  /\ u # NoUse <=> u.count # -1
           /\ u # NoUse => u \in Use /\ u.count \in Nat
BY DEF Use, NoUse

(* One arc less on a wire that has more than one leaves it used, and the  *)
(* driving pips as they are.                                              *)
LEMMA CountTaken ==
    ASSUME NEW nw \in NetWires, NEW w \in Wire, nw[w] # NoUse, nw[w].count > 1
    PROVE  LET mw == [nw EXCEPT ![w].count = @ - 1]
           IN  \A v \in Wire : /\ mw[v] # NoUse <=> nw[v] # NoUse
                              /\ mw[v].pip = nw[v].pip
<1> DEFINE mw == [nw EXCEPT ![w].count = @ - 1]
<1>1. \A v \in Wire : v # w => mw[v] = nw[v]
    BY DEF NetWires
<1>2. nw[w] \in Use /\ nw[w].count \in Nat
    BY UseCount DEF NetWires
<1>3. mw[w] = [nw[w] EXCEPT !.count = @ - 1]
    BY DEF NetWires
<1>4. mw[w].pip = nw[w].pip /\ mw[w].count = nw[w].count - 1
    BY <1>2, <1>3 DEF Use
<1>5. mw[w].count # -1
    BY <1>2, <1>4
<1>6. mw[w] # NoUse
    <2> HIDE DEF mw
    <2> QED BY <1>5 DEF NoUse
<1> HIDE DEF mw
<1>7. \A v \in Wire : /\ mw[v] # NoUse <=> nw[v] # NoUse
                     /\ mw[v].pip = nw[v].pip
    BY <1>1, <1>4, <1>6
<1> QED BY <1>7 DEF mw

(* What is left of the record of a thread that goes on with its path. *)
LEMMA PathOrReg ==
    ASSUME NEW x \in ThreadState, NEW path, NEW reg
    PROVE  /\ [x EXCEPT !.path = path].path = path
           /\ [x EXCEPT !.path = path].reg = x.reg
           /\ [x EXCEPT !.reg = reg].path = x.path
           /\ [x EXCEPT !.reg = reg].reg = reg
BY DEF ThreadState

(* Unbinding a path, step by step. *)
LEMMA RipCount ==
    ASSUME NEW nw \in NetWires, NEW rt, NEW n \in Net, NEW a,
           NEW path \in Seq(PathStep), path # <<>>,
           Ripping(nw, rt, n, a, path, NoReg),
           nw[Head(path).wire].count > 1
    PROVE  LET mw == [nw EXCEPT ![Head(path).wire].count = @ - 1]
           IN  mw \in NetWires /\ Ripping(mw, rt, n, a, Tail(path), NoReg)
<1> DEFINE w == Head(path).wire
           mw == [nw EXCEPT ![w].count = @ - 1]
<1>1. OnePass(path) /\ w \in PathWires(path) /\ w \in Wire
    BY TailPath, PathWiresIn DEF Ripping
<1>2. OnePass(Tail(path)) /\ PathWires(Tail(path)) = PathWires(path) \ {w}
    BY <1>1, TailPath
<1>3. nw[w] \in Use /\ nw[w] # NoUse /\ w # NetSrc[n]
    BY <1>1 DEF Ripping, NetWires
<1>4. /\ mw[w] = [pip |-> nw[w].pip, count |-> nw[w].count - 1]
      /\ \A v \in Wire : v # w => mw[v] = nw[v]
    BY <1>1, <1>3 DEF NetWires, Use
<1>5. mw[w] \in Use /\ mw[w] # NoUse
    BY <1>3, <1>4 DEF Use, NoUse
<1>6. mw \in NetWires
    BY <1>4, <1>5 DEF NetWires
<1>7. \A v \in Wire : mw[v].pip = nw[v].pip
    BY <1>4
<1> DEFINE X == PathWires(path)
           Y == PathWires(Tail(path))
<1>8. WholeBut(nw, rt, n, a, X)
    BY DEF Ripping
<1> HIDE DEF mw, w
<1>9. WholeBut(mw, rt, n, a, Y)
    <2>1. /\ \A b \in ToSet(NetArcs[n]) \ {a} : rt[b] => ReachesIn(mw, n, SinkWire[b])
          /\ \A v : OthersIn(mw, rt, n, a, v) = OthersIn(nw, rt, n, a, v)
        BY <1>6, <1>7, <1>8, WholeFrame
    <2>2. ASSUME NEW v \in Wire \ {NetSrc[n]}, mw[v] # NoUse
          PROVE  mw[v].count = Cardinality(OthersIn(mw, rt, n, a, v))
                               + IF v \in Y THEN 1 ELSE 0
        <3>1. Cardinality(OthersIn(nw, rt, n, a, v)) \in Nat
            BY OthersFinite
        <3>2. nw[v] # NoUse
            BY <2>2, <1>3, <1>4
        <3>3. nw[v].count = Cardinality(OthersIn(nw, rt, n, a, v))
                            + IF v \in X THEN 1 ELSE 0
            BY <1>8, <3>2 DEF WholeBut
        <3>4. CASE v = w
            <4>1. v \in X /\ v \notin Y /\ mw[v].count = nw[v].count - 1
                BY <3>4, <1>1, <1>2, <1>4
            <4> QED BY <4>1, <3>1, <3>3, <2>1
        <3>5. CASE v # w
            <4>1. (v \in X <=> v \in Y) /\ mw[v] = nw[v]
                BY <3>5, <1>2, <1>4
            <4> QED BY <4>1, <3>3, <2>1
        <3> QED BY <3>4, <3>5
    <2> QED BY <2>1, <2>2 DEF WholeBut
<1>10. \A v \in Y : mw[v] # NoUse /\ v # NetSrc[n]
    BY <1>2, <1>4, <1>1, PathWiresIn DEF Ripping
<1>11. Ripping(mw, rt, n, a, Tail(path), NoReg)
    BY <1>2, <1>9, <1>10 DEF Ripping
<1> QED BY <1>6, <1>11 DEF mw, w

(* unbind_pip_internal drops the wire when the last arc that came over it  *)
(* is ripped up, and the rest of the path is still to be ripped up.        *)
LEMMA RipFree ==
    ASSUME NEW nw \in NetWires, NEW rt, NEW n \in Net, NEW a,
           NEW path \in Seq(PathStep), NEW r, r # NoReg,
           Ripping(nw, rt, n, a, path, r)
    PROVE  LET mw == [nw EXCEPT ![Head(path).wire] = NoUse]
           IN  mw \in NetWires /\ Ripping(mw, rt, n, a, Tail(path), NoReg)
<1> DEFINE w == Head(path).wire
           mw == [nw EXCEPT ![w] = NoUse]
           X == PathWires(path)
           Y == PathWires(Tail(path))
<1>0. path # <<>> /\ nw[w].count <= 1
    BY DEF Ripping
<1>1. OnePass(path) /\ w \in X /\ w \in Wire
    BY <1>0, TailPath, PathWiresIn DEF Ripping
<1>2. OnePass(Tail(path)) /\ Y = X \ {w}
    BY <1>0, <1>1, TailPath
<1>3. nw[w] \in Use /\ nw[w] # NoUse /\ w # NetSrc[n]
    BY <1>1 DEF Ripping, NetWires
<1>4. mw[w] = NoUse /\ \A v \in Wire : v # w => mw[v] = nw[v]
    BY <1>1 DEF NetWires
<1>6. mw \in NetWires
    BY <1>1 DEF NetWires
<1>8. WholeBut(nw, rt, n, a, X)
    BY DEF Ripping
<1> HIDE DEF mw, w
<1>5. OthersIn(nw, rt, n, a, w) = {}
    <2>1. nw[w].count = Cardinality(OthersIn(nw, rt, n, a, w)) + 1
        BY <1>8, <1>3, <1>1 DEF WholeBut
    <2>2. Cardinality(OthersIn(nw, rt, n, a, w)) = 0
        BY <2>1, <1>0, OthersFinite
    <2> QED BY <2>2, OthersFinite, FS_EmptySet
<1>9. WholeBut(mw, rt, n, a, Y)
    <2>1. /\ \A b \in ToSet(NetArcs[n]) \ {a} : rt[b] => ReachesIn(mw, n, SinkWire[b])
          /\ \A v : OthersIn(mw, rt, n, a, v) = OthersIn(nw, rt, n, a, v)
        <3>1. \A v \in Wire \ {NetSrc[n]} :
                mw[v].pip = nw[v].pip \/ OthersIn(nw, rt, n, a, v) = {}
            BY <1>4, <1>5
        <3> QED BY <1>6, <1>8, <3>1, WholeFrame
    <2>2. ASSUME NEW v \in Wire \ {NetSrc[n]}, mw[v] # NoUse
          PROVE  mw[v].count = Cardinality(OthersIn(mw, rt, n, a, v))
                               + IF v \in Y THEN 1 ELSE 0
        <3>1. v # w /\ mw[v] = nw[v] /\ (v \in X <=> v \in Y)
            BY <2>2, <1>4, <1>2
        <3>3. nw[v].count = Cardinality(OthersIn(nw, rt, n, a, v))
                            + IF v \in X THEN 1 ELSE 0
            BY <1>8, <2>2, <3>1 DEF WholeBut
        <3> QED BY <3>1, <3>3, <2>1
    <2> QED BY <2>1, <2>2 DEF WholeBut
<1>10. \A v \in Y : mw[v] # NoUse /\ v # NetSrc[n]
    BY <1>2, <1>4, <1>1, PathWiresIn DEF Ripping
<1>11. Ripping(mw, rt, n, a, Tail(path), NoReg)
    BY <1>2, <1>9, <1>10 DEF Ripping
<1> QED BY <1>6, <1>11 DEF mw, w

(* When ripup_arc has done its last wire and clears the flag of the arc,   *)
(* the net is whole again.                                                 *)
LEMMA RipEnd ==
    ASSUME NEW nw \in NetWires, NEW rt \in [Arc -> BOOLEAN], NEW n \in Net, NEW a,
           Ripping(nw, rt, n, a, <<>>, NoReg)
    PROVE  WholeBut(nw, [rt EXCEPT ![a] = FALSE], n, NoReg, {})
<1> DEFINE qt == [rt EXCEPT ![a] = FALSE]
<1>1. a \in ToSet(NetArcs[n]) /\ a \in Arc
    BY ArcsOfNet DEF Ripping
<1>2. ~qt[a] /\ \A b \in ToSet(NetArcs[n]) \ {a} : rt[b] <=> qt[b]
    BY <1>1, ArcsOfNet
<1>3. PathWires(<<>>) = {}
    BY DEF PathWires, ToSet
<1>4. WholeBut(nw, rt, n, a, {})
    BY <1>3 DEF Ripping
<1> HIDE DEF qt
<1>5. WholeBut(nw, qt, n, a, {})
    BY <1>2, <1>4, WholeSame
<1>6. WholeBut(nw, qt, n, NoReg, {})
    BY <1>1, <1>2, <1>5, PutBack
<1> QED BY <1>6 DEF qt

-----------------------------------------------------------------------------
(* Binding a path, step by step. *)
LEMMA WholeWires ==
    ASSUME NEW nw, NEW rt, NEW n, NEW a, NEW X, NEW Y,
           \A w \in Wire \ {NetSrc[n]} : w \in X <=> w \in Y,
           WholeBut(nw, rt, n, a, X)
    PROVE  WholeBut(nw, rt, n, a, Y)
BY DEF WholeBut

(* A wire the net does not have is on no trunk. *)
LEMMA NoOthers ==
    ASSUME NEW nw \in NetWires, NEW rt, NEW n \in Net, NEW a, NEW X,
           WholeBut(nw, rt, n, a, X), NEW w, nw[w] = NoUse
    PROVE  OthersIn(nw, rt, n, a, w) = {}
<1> SUFFICES ASSUME NEW b \in OthersIn(nw, rt, n, a, w) PROVE FALSE
    OBVIOUS
<1>1. b \in ToSet(NetArcs[n]) \ {a} /\ rt[b] /\ w \in TrunkIn(nw, n, SinkWire[b])
    BY DEF OthersIn
<1>2. SinkWire[b] \in Wire /\ ReachesIn(nw, n, SinkWire[b])
    BY <1>1, ArcsOfNet DEF WholeBut
<1> QED BY <1>1, <1>2, TrunkIs

(* Binding the first step of a path and then the rest is binding the path. *)
LEMMA AsBoundTail ==
    ASSUME NEW nw \in NetWires, NEW mw \in NetWires,
           NEW path \in Seq(PathStep), path # <<>>, OnePass(path),
           mw[Head(path).wire].pip = Head(path).pip,
           \A v \in Wire : v # Head(path).wire => mw[v].pip = nw[v].pip
    PROVE  AsBound(mw, Tail(path)) = AsBound(nw, path)
<1> DEFINE P(m, q, w) == IF w \in PathWires(q) THEN PipOn(q, w) ELSE m[w].pip
<1>1. ASSUME NEW w \in Wire PROVE P(mw, Tail(path), w) = P(nw, path, w)
    <2>1. CASE w = Head(path).wire
        BY <2>1, TailPath
    <2>2. CASE w # Head(path).wire
        BY <2>2, TailPath
    <2> QED BY <2>1, <2>2
<1>2. /\ AsBound(mw, Tail(path)) = [w \in Wire |-> [pip |-> P(mw, Tail(path), w), count |-> 0]]
      /\ AsBound(nw, path) = [w \in Wire |-> [pip |-> P(nw, path, w), count |-> 0]]
    BY DEF AsBound
<1> HIDE DEF P
<1> QED BY <1>1, <1>2

(* A map with a path bound depends on the pips of the wires off the path   *)
(* only.                                                                   *)
LEMMA AsBoundSame ==
    ASSUME NEW nw, NEW mw, NEW path,
           \A v \in Wire \ PathWires(path) : mw[v].pip = nw[v].pip
    PROVE  AsBound(mw, path) = AsBound(nw, path)
<1> DEFINE P(m, w) == IF w \in PathWires(path) THEN PipOn(path, w) ELSE m[w].pip
<1>1. \A w \in Wire : P(mw, w) = P(nw, w)
    OBVIOUS
<1>2. /\ AsBound(mw, path) = [w \in Wire |-> [pip |-> P(mw, w), count |-> 0]]
      /\ AsBound(nw, path) = [w \in Wire |-> [pip |-> P(nw, w), count |-> 0]]
    BY DEF AsBound
<1> HIDE DEF P
<1> QED BY <1>1, <1>2

(* The net has the wire already: one more arc comes over it. *)
Bumped(nw, n, w) ==
    IF w = NetSrc[n] THEN nw[w] ELSE [nw[w] EXCEPT !.count = @ + 1]

(* bind_pip_internal on a wire the net already has, with the same pip,     *)
(* counts the arc on it, and the rest of the path can still be bound.      *)
LEMMA BindMore ==
    ASSUME NEW nw \in NetWires, NEW rt, NEW n \in Net, NEW a,
           NEW path \in Seq(PathStep), path # <<>>,
           Binding(nw, rt, n, a, path, NoReg),
           nw[Head(path).wire] # NoUse,
           nw[Head(path).wire].pip = Head(path).pip
    PROVE  LET mw == [nw EXCEPT ![Head(path).wire] = Bumped(nw, n, Head(path).wire)]
           IN  /\ mw \in NetWires
               /\ mw[Head(path).wire] # NoUse
               /\ Binding(mw, rt, n, a, Tail(path), NoReg)
<1> DEFINE w == Head(path).wire
           use == Bumped(nw, n, w)
           mw == [nw EXCEPT ![w] = use]
           B  == AsBound(nw, path)
           T  == TrunkIn(B, n, SinkWire[a])
           X  == T \ PathWires(path)
           Y  == T \ PathWires(Tail(path))
<1>1. OnePass(path) /\ w \in PathWires(path) /\ w \in Wire
    BY TailPath, PathWiresIn DEF Binding
<1>2. /\ OnePass(Tail(path)) /\ Tail(path) \in Seq(PathStep)
      /\ PathWires(Tail(path)) = PathWires(path) \ {w}
    BY <1>1, TailPath
<1>3. nw[w] \in Use /\ nw[w] # NoUse
    BY <1>1 DEF NetWires
<1>4. /\ use.pip = nw[w].pip
      /\ w # NetSrc[n] => use.count = nw[w].count + 1
      /\ use \in Use /\ use # NoUse
    BY <1>3 DEF Use, NoUse, Bumped
<1> HIDE DEF use
<1>5. mw[w] = use /\ \A v \in Wire : v # w => mw[v] = nw[v]
    BY <1>1 DEF NetWires
<1>6. mw \in NetWires
    BY <1>1, <1>4 DEF NetWires
<1> HIDE DEF mw, w
<1>7. AsBound(mw, Tail(path)) = B
    BY <1>1, <1>4, <1>5, <1>6, AsBoundTail DEF w
<1>8. WholeBut(nw, rt, n, a, X)
    <2>1. WholeBut(nw, rt, n, a, X \cup {})
        BY DEF Binding
    <2> QED BY <2>1
<1>9. WholeBut(mw, rt, n, a, Y)
    <2>1. /\ \A b \in ToSet(NetArcs[n]) \ {a} : rt[b] => ReachesIn(mw, n, SinkWire[b])
          /\ \A v : OthersIn(mw, rt, n, a, v) = OthersIn(nw, rt, n, a, v)
        <3>1. \A v \in Wire : mw[v].pip = nw[v].pip
            BY <1>4, <1>5
        <3> QED BY <3>1, <1>6, <1>8, WholeFrame
    <2>2. ASSUME NEW v \in Wire \ {NetSrc[n]}, mw[v] # NoUse
          PROVE  mw[v].count = Cardinality(OthersIn(mw, rt, n, a, v))
                               + IF v \in Y THEN 1 ELSE 0
        <3>1. Cardinality(OthersIn(nw, rt, n, a, v)) \in Nat
            BY OthersFinite
        <3>2. nw[v] # NoUse
            BY <2>2, <1>3, <1>5
        <3>3. nw[v].count = Cardinality(OthersIn(nw, rt, n, a, v))
                            + IF v \in X THEN 1 ELSE 0
            BY <1>8, <3>2 DEF WholeBut
        <3>4. CASE v = w
            <4>1. v \in T
                BY <3>4, <1>1 DEF Binding
            <4>2. v \notin X /\ v \in Y /\ mw[v].count = nw[v].count + 1
                BY <4>1, <3>4, <1>1, <1>2, <1>4, <1>5
            <4> QED BY <4>2, <3>1, <3>3, <2>1
        <3>5. CASE v # w
            <4>1. (v \in X <=> v \in Y) /\ mw[v] = nw[v]
                BY <3>5, <1>2, <1>5
            <4> QED BY <4>1, <3>3, <2>1
        <3> QED BY <3>4, <3>5
    <2> QED BY <2>1, <2>2 DEF WholeBut
<1>10. /\ a \in ToSet(NetArcs[n]) /\ ~rt[a]
       /\ ReachesIn(B, n, SinkWire[a])
       /\ PathWires(Tail(path)) \subseteq T \cup {NetSrc[n]}
    BY <1>2 DEF Binding
<1> HIDE DEF B
<1>11. Binding(mw, rt, n, a, Tail(path), NoReg)
    <2>1. WholeBut(mw, rt, n, a, Y \cup {})
        BY <1>9
    <2> QED BY <2>1, <1>2, <1>7, <1>10 DEF Binding
<1>12. mw[w] # NoUse
    BY <1>4, <1>5
<1> QED BY <1>6, <1>11, <1>12 DEF mw, w, use

(* The net did not have the wire; no other arc comes over it. *)
LEMMA BindNew ==
    ASSUME NEW nw \in NetWires, NEW rt, NEW n \in Net, NEW a,
           NEW path \in Seq(PathStep), path # <<>>,
           Binding(nw, rt, n, a, path, NoReg),
           nw[Head(path).wire] = NoUse, NEW r, r # NoReg
    PROVE  LET mw == [nw EXCEPT ![Head(path).wire] =
                                   [pip |-> Head(path).pip, count |-> 1]]
           IN  /\ mw \in NetWires
               /\ mw[Head(path).wire] # NoUse
               /\ Binding(mw, rt, n, a, path, r)
<1> DEFINE w == Head(path).wire
           mw == [nw EXCEPT ![w] = [pip |-> Head(path).pip, count |-> 1]]
           B  == AsBound(nw, path)
           T  == TrunkIn(B, n, SinkWire[a])
           X  == T \ PathWires(path)
           Y  == X \cup {w}
<1>1. OnePass(path) /\ w \in PathWires(path) /\ w \in Wire
    BY TailPath, PathWiresIn DEF Binding
<1>2. Head(path).pip \in Pip \cup {NoPip}
    BY <1>1, TailPath, PathWiresIn
<1>5. /\ mw[w] = [pip |-> Head(path).pip, count |-> 1]
      /\ \A v \in Wire : v # w => mw[v] = nw[v]
    BY <1>1 DEF NetWires
<1>3. mw[w] \in Use /\ mw[w] # NoUse /\ mw[w].count = 1 /\ mw[w].pip = Head(path).pip
    BY <1>2, <1>5 DEF Use, NoUse
<1>6. mw \in NetWires
    BY <1>3, <1>5 DEF NetWires
<1> HIDE DEF mw, w
<1>7. AsBound(mw, path) = B
    <2>1. \A v \in Wire \ PathWires(path) : mw[v].pip = nw[v].pip
        BY <1>1, <1>5
    <2> QED BY <2>1, AsBoundSame
<1>8. WholeBut(nw, rt, n, a, X)
    <2>1. WholeBut(nw, rt, n, a, X \cup {})
        BY DEF Binding
    <2> QED BY <2>1
<1>9. OthersIn(nw, rt, n, a, w) = {}
    BY <1>8, NoOthers DEF w
<1>10. WholeBut(mw, rt, n, a, Y)
    <2>1. /\ \A b \in ToSet(NetArcs[n]) \ {a} : rt[b] => ReachesIn(mw, n, SinkWire[b])
          /\ \A v : OthersIn(mw, rt, n, a, v) = OthersIn(nw, rt, n, a, v)
        <3>1. \A v \in Wire \ {NetSrc[n]} :
                mw[v].pip = nw[v].pip \/ OthersIn(nw, rt, n, a, v) = {}
            BY <1>5, <1>9
        <3> QED BY <3>1, <1>6, <1>8, WholeFrame
    <2>2. ASSUME NEW v \in Wire \ {NetSrc[n]}, mw[v] # NoUse
          PROVE  mw[v].count = Cardinality(OthersIn(mw, rt, n, a, v))
                               + IF v \in Y THEN 1 ELSE 0
        <3>1. CASE v = w
            <4>1. Cardinality(OthersIn(mw, rt, n, a, v)) = 0
                BY <3>1, <2>1, <1>9, FS_EmptySet
            <4> QED BY <3>1, <4>1, <1>3
        <3>2. CASE v # w
            <4>1. (v \in X <=> v \in Y) /\ mw[v] = nw[v]
                BY <3>2, <1>5
            <4>2. nw[v].count = Cardinality(OthersIn(nw, rt, n, a, v))
                                + IF v \in X THEN 1 ELSE 0
                BY <1>8, <4>1, <2>2 DEF WholeBut
            <4> QED BY <4>1, <4>2, <2>1
        <3> QED BY <3>1, <3>2
    <2> QED BY <2>1, <2>2 DEF WholeBut
<1>11. /\ a \in ToSet(NetArcs[n]) /\ ~rt[a]
       /\ ReachesIn(B, n, SinkWire[a])
       /\ PathWires(path) \subseteq T \cup {NetSrc[n]}
    BY DEF Binding
<1> HIDE DEF B
<1>12. Binding(mw, rt, n, a, path, r)
    BY <1>1, <1>3, <1>7, <1>10, <1>11 DEF Binding, w
<1> QED BY <1>3, <1>6, <1>12 DEF mw, w

(* With the counter of congestion stored, the step is done and the rest of *)
(* the path is left.                                                       *)
LEMMA BindStored ==
    ASSUME NEW nw \in NetWires, NEW rt, NEW n \in Net, NEW a,
           NEW path \in Seq(PathStep), NEW r, r # NoReg,
           Binding(nw, rt, n, a, path, r)
    PROVE  Binding(nw, rt, n, a, Tail(path), NoReg)
<1> DEFINE w == Head(path).wire
           B  == AsBound(nw, path)
           T  == TrunkIn(B, n, SinkWire[a])
           X  == (T \ PathWires(path)) \cup {w}
           Y  == T \ PathWires(Tail(path))
<1>0. path # <<>> /\ nw[w].pip = Head(path).pip
    BY DEF Binding
<1>1. OnePass(path) /\ w \in PathWires(path) /\ w \in Wire
    BY <1>0, TailPath, PathWiresIn DEF Binding
<1>2. /\ OnePass(Tail(path)) /\ Tail(path) \in Seq(PathStep)
      /\ PathWires(Tail(path)) = PathWires(path) \ {w}
    BY <1>0, <1>1, TailPath
<1>3. AsBound(nw, Tail(path)) = B
    BY <1>0, <1>1, AsBoundTail
<1>4. WholeBut(nw, rt, n, a, X)
    BY DEF Binding
<1>5. PathWires(path) \subseteq T \cup {NetSrc[n]}
    BY DEF Binding
<1>6. \A v \in Wire \ {NetSrc[n]} : v \in X <=> v \in Y
    BY <1>1, <1>2, <1>5
<1>7. WholeBut(nw, rt, n, a, Y \cup {})
    <2> HIDE DEF X, Y
    <2>1. WholeBut(nw, rt, n, a, Y)
        BY <1>4, <1>6, WholeWires
    <2> QED BY <2>1
<1>8. /\ a \in ToSet(NetArcs[n]) /\ ~rt[a]
      /\ ReachesIn(B, n, SinkWire[a])
      /\ PathWires(Tail(path)) \subseteq T \cup {NetSrc[n]}
    BY <1>2 DEF Binding
<1> HIDE DEF B
<1> QED BY <1>2, <1>3, <1>7, <1>8 DEF Binding

(* When the last step of a path is bound and the arc is flagged as routed, *)
(* the net is whole and the arc reaches its source.                        *)
LEMMA BindEnd ==
    ASSUME NEW nw \in NetWires, NEW rt \in [Arc -> BOOLEAN], NEW n \in Net, NEW a,
           Binding(nw, rt, n, a, <<>>, NoReg)
    PROVE  /\ ReachesIn(nw, n, SinkWire[a])
           /\ WholeBut(nw, [rt EXCEPT ![a] = TRUE], n, NoReg, {})
<1> DEFINE qt == [rt EXCEPT ![a] = TRUE]
           B  == AsBound(nw, <<>>)
           T  == TrunkIn(B, n, SinkWire[a])
<1>1. a \in ToSet(NetArcs[n]) /\ a \in Arc /\ SinkWire[a] \in Wire
    BY ArcsOfNet DEF Binding
<1>2. qt[a] /\ \A b \in ToSet(NetArcs[n]) \ {a} : rt[b] <=> qt[b]
    BY <1>1, ArcsOfNet
<1>3. PathWires(<<>>) = {}
    BY DEF PathWires, ToSet
<1>4. WholeBut(nw, rt, n, a, T)
    <2>1. WholeBut(nw, rt, n, a, (T \ {}) \cup {})
        BY <1>3 DEF Binding
    <2> QED BY <2>1
<1>5. \A v \in Wire : B[v].pip = nw[v].pip
    BY <1>3 DEF AsBound
<1>6. ReachesIn(B, n, SinkWire[a])
    BY DEF Binding
<1>7. B \in NetWires
    <2>1. <<>> \in Seq(PathStep) /\ OnePass(<<>>)
        BY DEF OnePass
    <2> QED BY <2>1, AsBoundType
<1> HIDE DEF qt, B
<1>8. ReachesIn(nw, n, SinkWire[a]) /\ TrunkIn(nw, n, SinkWire[a]) = T
    <2>1. \A v \in TrunkIn(B, n, SinkWire[a]) : nw[v].pip = B[v].pip
        BY <1>1, <1>5, <1>6, <1>7, TrunkIs
    <2> QED BY <1>1, <1>6, <1>7, <2>1, WayFrame
<1>9. WholeBut(nw, qt, n, a, T)
    BY <1>2, <1>4, WholeSame
<1>10. WholeBut(nw, qt, n, NoReg, {})
    BY <1>1, <1>2, <1>8, <1>9, PutBack
<1> QED BY <1>8, <1>10 DEF qt

-----------------------------------------------------------------------------
(* What the search finds: a chain of pips that enters no wire twice. *)
IsPath(q) ==
    /\ q \in Seq(Pip) /\ Len(q) \in Nat \ {0}
    /\ \A i \in 1 .. Len(q) - 1 : PipSrc[q[i+1]] = PipDst[q[i]]
    /\ \A i, j \in 1 .. Len(q) : PipDst[q[i]] = PipDst[q[j]] => i = j
    /\ \A i \in 1 .. Len(q) : PipDst[q[i]] # PipSrc[q[1]]

Grow(Q) == {<<p>> : p \in {p \in Pip : PipSrc[p] # PipDst[p]}}
           \cup Q \cup UNION {Longer(q) : q \in Q}

(* A path that is made longer by one pip is a path: it enters no wire      *)
(* twice.                                                                  *)
LEMMA GrowPath ==
    ASSUME NEW Q, \A q \in Q : IsPath(q), NEW q \in Grow(Q)
    PROVE  IsPath(q)
<1>1. CASE q \in {<<p>> : p \in {p \in Pip : PipSrc[p] # PipDst[p]}}
    <2>1. PICK p \in Pip : q = <<p>> /\ PipSrc[p] # PipDst[p]
        BY <1>1
    <2>2. q \in Seq(Pip) /\ Len(q) = 1 /\ q[1] = p
        BY <2>1
    <2> QED BY <2>1, <2>2 DEF IsPath
<1>2. CASE \E o \in Q : q \in Longer(o)
    <2>1. PICK o \in Q : q \in Longer(o)
        BY <1>2
    <2>2. PICK p \in Pip : /\ q = Append(o, p) /\ PipSrc[p] = PipDst[Last(o)]
                           /\ PipDst[p] \notin Visits(o)
        BY <2>1 DEF Longer
    <2>3. IsPath(o)
        BY <2>1
    <2>4. /\ o \in Seq(Pip) /\ Len(o) \in Nat \ {0}
          /\ \A i \in 1 .. Len(o) - 1 : PipSrc[o[i+1]] = PipDst[o[i]]
          /\ \A i, j \in 1 .. Len(o) : PipDst[o[i]] = PipDst[o[j]] => i = j
          /\ \A i \in 1 .. Len(o) : PipDst[o[i]] # PipSrc[o[1]]
        BY <2>3 DEF IsPath
    <2>5. /\ q \in Seq(Pip) /\ Len(q) = Len(o) + 1 /\ q[Len(q)] = p
          /\ \A i \in 1 .. Len(o) : q[i] = o[i]
        BY <2>2, <2>4
    <2>6. PipDst[p] # PipSrc[o[1]] /\ \A i \in 1 .. Len(o) : PipDst[p] # PipDst[o[i]]
        BY <2>2, <2>4 DEF Visits
    <2>7. PipSrc[p] = PipDst[o[Len(o)]]
        BY <2>2 DEF Last
    <2>8. \A i \in 1 .. Len(q) - 1 : PipSrc[q[i+1]] = PipDst[q[i]]
        <3> SUFFICES ASSUME NEW i \in 1 .. Len(q) - 1
                     PROVE  PipSrc[q[i+1]] = PipDst[q[i]]
            OBVIOUS
        <3>1. CASE i = Len(o)
            BY <3>1, <2>4, <2>5, <2>7
        <3>2. CASE i # Len(o)
            <4>1. i \in 1 .. Len(o) - 1 /\ i + 1 \in 1 .. Len(o)
                BY <3>2, <2>4, <2>5
            <4> QED BY <4>1, <2>4, <2>5
        <3> QED BY <3>1, <3>2
    <2>9. \A i, j \in 1 .. Len(q) : PipDst[q[i]] = PipDst[q[j]] => i = j
        <3> SUFFICES ASSUME NEW i \in 1 .. Len(q), NEW j \in 1 .. Len(q),
                            PipDst[q[i]] = PipDst[q[j]]
                     PROVE  i = j
            OBVIOUS
        <3>1. \A k \in 1 .. Len(q) : k = Len(q) \/ k \in 1 .. Len(o)
            BY <2>4, <2>5
        <3> QED BY <3>1, <2>4, <2>5, <2>6
    <2>10. \A i \in 1 .. Len(q) : PipDst[q[i]] # PipSrc[q[1]]
        <3>1. q[1] = o[1]
            BY <2>4, <2>5
        <3>2. \A k \in 1 .. Len(q) : k = Len(q) \/ k \in 1 .. Len(o)
            BY <2>4, <2>5
        <3> QED BY <3>1, <3>2, <2>4, <2>5, <2>6
    <2> QED BY <2>4, <2>5, <2>8, <2>9, <2>10 DEF IsPath
<1> QED BY <1>1, <1>2 DEF Grow

(* All the paths among which a search finds one are chains of pips that    *)
(* enter no wire twice.                                                    *)
LEMMA PathsArePaths ==
    ASSUME NEW q \in Paths
    PROVE  IsPath(q)
<1> DEFINE K == Cardinality(Wire)
           S == SUBSET Seq(Pip)
           D == [Q \in S |-> Grow(Q)]
           IsRec(f) == f = [k \in Range0(K) |->
                              IF k = 0 THEN {}
                              ELSE LET Q == f[k-1]
                                   IN  {<<p>> : p \in {p \in Pip : PipSrc[p] # PipDst[p]}}
                                       \cup Q \cup UNION {Longer(r) : r \in Q}]
<1>0. K \in Nat
    BY WireCount
<1>1. D \in [S -> S]
    <2>1. ASSUME NEW Q \in S PROVE Grow(Q) \in S
        <3>1. Q \subseteq Seq(Pip)
            OBVIOUS
        <3>2. \A r \in Q : Longer(r) \subseteq Seq(Pip)
            BY <3>1 DEF Longer
        <3>3. UNION {Longer(r) : r \in Q} \subseteq Seq(Pip)
            BY <3>2
        <3>4. {<<p>> : p \in {p \in Pip : PipSrc[p] # PipDst[p]}} \subseteq Seq(Pip)
            <4>1. \A p \in Pip : <<p>> \in Seq(Pip)
                OBVIOUS
            <4> QED BY <4>1
        <3> QED BY <3>1, <3>3, <3>4 DEF Grow
    <2> HIDE DEF S
    <2> QED BY <2>1
<1>2. PICK F : Iterates(F, S, D, {})
    <2>1. {} \in S
        OBVIOUS
    <2> HIDE DEF S, D
    <2> QED BY <1>1, <2>1, PrimitiveRecursion
<1>3. F[0] = {} /\ \A k \in Nat : F[k+1] = Grow(F[k])
    <2>1. F \in [Nat -> S] /\ F[0] = {} /\ \A k \in Nat : F[k+1] = D[F[k]]
        BY <1>2 DEF Iterates
    <2> HIDE DEF S
    <2> QED BY <2>1
<1> DEFINE rec(f, k) == IF k = 0 THEN {} ELSE Grow(f[k-1])
<1>4. ASSUME NEW f PROVE IsRec(f) <=> f = [k \in Range0(K) |-> rec(f, k)]
    BY DEF Grow
<1> HIDE DEF IsRec
<1>5. IsRec([k \in Range0(K) |-> F[k]])
    <2> DEFINE f == [k \in Range0(K) |-> F[k]]
    <2>1. ASSUME NEW k \in Range0(K) PROVE F[k] = rec(f, k)
        <3>1. CASE k = 0
            BY <3>1, <1>3
        <3>2. CASE k # 0
            <4>1. k - 1 \in Range0(K) /\ k - 1 \in Nat /\ (k - 1) + 1 = k
                BY <3>2, <1>0 DEF Range0
            <4>2. F[k] = Grow(F[k-1]) /\ f[k-1] = F[k-1]
                BY <4>1, <1>3
            <4> QED BY <4>2, <3>2
        <3> QED BY <3>1, <3>2
    <2>2. f = [k \in Range0(K) |-> rec(f, k)]
        <3> HIDE DEF rec
        <3> QED BY <2>1
    <2> HIDE DEF f
    <2>3. IsRec(f)
        BY <2>2 DEF IsRec, Grow
    <2> QED BY <2>3 DEF f
<1>6. IsRec(PathsOfAtMost)
    <2>1. PathsOfAtMost = CHOOSE f : IsRec(f)
        BY DEF PathsOfAtMost, IsRec
    <2> QED BY <2>1, <1>5
<1>7. PathsOfAtMost = [k \in Range0(K) |-> rec(PathsOfAtMost, k)]
    BY <1>6, <1>4
<1> DEFINE T == {k \in Nat : k <= K => \A r \in PathsOfAtMost[k] : IsPath(r)}
<1>8. 0 \in T
    BY <1>0, <1>7 DEF Range0
<1>9. ASSUME NEW k \in T PROVE k + 1 \in T
    <2> SUFFICES ASSUME k + 1 <= K, NEW r \in PathsOfAtMost[k+1] PROVE IsPath(r)
        OBVIOUS
    <2>1. k + 1 \in Range0(K) /\ k + 1 # 0 /\ (k + 1) - 1 = k /\ k <= K
        BY <1>0 DEF Range0
    <2>2. PathsOfAtMost[k+1] = Grow(PathsOfAtMost[k])
        BY <1>7, <2>1
    <2> QED BY <2>1, <2>2, GrowPath
<1> HIDE DEF T
<1>10. T = Nat
    <2>1. T \subseteq Nat
        BY DEF T
    <2> QED BY <1>8, <1>9, <2>1, NatSet
<1>11. q \in PathsOfAtMost[K] /\ K \in T
    BY <1>0, <1>10 DEF Paths
<1> HIDE DEF K
<1> QED BY <1>11, <1>0 DEF T

-----------------------------------------------------------------------------
(* From the path that was found to the path that is bound. *)
LEMMA ConcatPath ==
    ASSUME NEW Q \in Seq(PathStep), NEW R \in Seq(PathStep),
           OnePass(Q), OnePass(R), PathWires(Q) \cap PathWires(R) = {}
    PROVE  /\ Q \o R \in Seq(PathStep) /\ OnePass(Q \o R)
           /\ ToSet(Q \o R) = ToSet(Q) \cup ToSet(R)
           /\ PathWires(Q \o R) = PathWires(Q) \cup PathWires(R)
<1> DEFINE P == Q \o R
<1>1. /\ P \in Seq(PathStep) /\ Len(P) = Len(Q) + Len(R)
      /\ Len(Q) \in Nat /\ Len(R) \in Nat
      /\ \A i \in 1 .. Len(Q) : P[i] = Q[i]
      /\ \A i \in Len(Q) + 1 .. Len(P) : P[i] = R[i - Len(Q)]
    OBVIOUS
<1> HIDE DEF P
<1>2. ToSet(P) = {P[i] : i \in 1 .. Len(P)}
    <2>1. DOMAIN P = 1 .. Len(P)
        BY <1>1
    <2> QED BY <2>1 DEF ToSet
<1>3. ToSet(Q) = {Q[i] : i \in 1 .. Len(Q)} /\ ToSet(R) = {R[i] : i \in 1 .. Len(R)}
    BY DEF ToSet
<1>4. ASSUME NEW i \in 1 .. Len(P)
      PROVE  \/ i \in 1 .. Len(Q) /\ P[i] = Q[i] /\ P[i] \in ToSet(Q)
             \/ i - Len(Q) \in 1 .. Len(R) /\ P[i] = R[i - Len(Q)] /\ P[i] \in ToSet(R)
    <2>1. CASE i <= Len(Q)
        <3>1. i \in 1 .. Len(Q)
            BY <2>1, <1>1
        <3> QED BY <3>1, <1>1, <1>3
    <2>2. CASE ~(i <= Len(Q))
        <3>1. i \in Len(Q) + 1 .. Len(P) /\ i - Len(Q) \in 1 .. Len(R)
            BY <2>2, <1>1
        <3> QED BY <3>1, <1>1, <1>3
    <2> QED BY <2>1, <2>2
<1>5. ASSUME NEW i \in 1 .. Len(Q) PROVE Q[i] \in ToSet(P)
    <2>1. i \in 1 .. Len(P) /\ P[i] = Q[i]
        BY <1>1
    <2> QED BY <2>1, <1>2
<1>6. ASSUME NEW i \in 1 .. Len(R) PROVE R[i] \in ToSet(P)
    <2>1. /\ i + Len(Q) \in 1 .. Len(P) /\ i + Len(Q) \in Len(Q) + 1 .. Len(P)
          /\ (i + Len(Q)) - Len(Q) = i
        BY <1>1
    <2>2. P[i + Len(Q)] = R[i]
        BY <2>1, <1>1
    <2> QED BY <2>1, <2>2, <1>2
<1>7. ToSet(P) = ToSet(Q) \cup ToSet(R)
    BY <1>2, <1>3, <1>4, <1>5, <1>6
<1>8. PathWires(P) = PathWires(Q) \cup PathWires(R)
    BY <1>7 DEF PathWires
<1>9. OnePass(P)
    <2> SUFFICES ASSUME NEW i \in 1 .. Len(P), NEW j \in 1 .. Len(P),
                        P[i].wire = P[j].wire
                 PROVE  i = j
        BY <1>1 DEF OnePass
    <2>1. \A b \in ToSet(Q), c \in ToSet(R) : b.wire # c.wire
        BY DEF PathWires
    <2>2. CASE i \in 1 .. Len(Q) /\ P[i] = Q[i] /\ P[i] \in ToSet(Q)
        <3>1. j \in 1 .. Len(Q) /\ P[j] = Q[j]
            BY <2>1, <2>2, <1>4
        <3> QED BY <3>1, <2>2 DEF OnePass
    <2>3. CASE i - Len(Q) \in 1 .. Len(R) /\ P[i] = R[i - Len(Q)] /\ P[i] \in ToSet(R)
        <3>1. j - Len(Q) \in 1 .. Len(R) /\ P[j] = R[j - Len(Q)]
            BY <2>1, <2>3, <1>4
        <3>2. i - Len(Q) = j - Len(Q)
            BY <3>1, <2>3 DEF OnePass
        <3> QED BY <3>2, <1>1
    <2> QED BY <2>2, <2>3, <1>4
<1> QED BY <1>1, <1>7, <1>8, <1>9 DEF P

(* Branch of Router2 on the map of one net. *)
BranchIn(nw, n, w) ==
    LET up == Front(WalkIn(nw, n, w))
    IN  [i \in DOMAIN up |-> Step(up[i], nw[up[i]].pip)]

(* What Front returns: the sequence without its last element. *)
LEMMA FrontIs ==
    ASSUME NEW S, NEW s \in Seq(S), Len(s) \in Nat \ {0}
    PROVE  /\ Front(s) \in Seq(S) /\ Len(Front(s)) = Len(s) - 1
           /\ \A i \in 1 .. Len(s) - 1 : Front(s)[i] = s[i]
<1>1. PICK k \in Nat : k + 1 = Len(s) /\ k = Len(s) - 1
    <2>1. Len(s) - 1 \in Nat
        OBVIOUS
    <2> QED BY <2>1
<1>2. \A i \in 1 .. k : s[i] \in S
    BY <1>1
<1>3. /\ SubSeq(s, 1, k) \in Seq(S)
      /\ Len(SubSeq(s, 1, k)) = IF 1 <= k THEN k - 1 + 1 ELSE 0
      /\ \A i \in 1 .. k - 1 + 1 : SubSeq(s, 1, k)[i] = s[1 + i - 1]
    BY <1>2, SubSeqProperties
<1>4. Front(s) = SubSeq(s, 1, k)
    BY <1>1 DEF Front
<1>5. IF 1 <= k THEN k - 1 + 1 = k ELSE 0 = k
    OBVIOUS
<1>6. ASSUME NEW i \in 1 .. k PROVE Front(s)[i] = s[i]
    <2>1. i \in 1 .. k - 1 + 1 /\ 1 + i - 1 = i
        OBVIOUS
    <2> QED BY <2>1, <1>3, <1>4
<1> QED BY <1>1, <1>3, <1>4, <1>5, <1>6

(* What ripup_arc goes through is one pass over the trunk of the arc, each *)
(* wire with the pip it is bound with.                                     *)
LEMMA BranchIs ==
    ASSUME NEW nw \in NetWires, NEW n, NEW w \in Wire, ReachesIn(nw, n, w)
    PROVE  /\ BranchIn(nw, n, w) \in Seq(PathStep)
           /\ OnePass(BranchIn(nw, n, w))
           /\ PathWires(BranchIn(nw, n, w)) = TrunkIn(nw, n, w)
           /\ \A v \in TrunkIn(nw, n, w) : PipOn(BranchIn(nw, n, w), v) = nw[v].pip
           /\ \A b \in ToSet(BranchIn(nw, n, w)) : b.pip = nw[b.wire].pip
<1> DEFINE W == WalkIn(nw, n, w)
           up == Front(W)
           R == [i \in DOMAIN up |-> Step(up[i], nw[up[i]].pip)]
<1>1. IsWay(nw, n, w, W)
    BY WalkIsWay
<1>2. TrunkIn(nw, n, w) = {W[i] : i \in 1 .. Len(W) - 1}
    BY TrunkIs
<1> HIDE DEF W
<1>3. W \in Seq(Wire) /\ Len(W) \in Nat \ {0}
    BY <1>1 DEF IsWay
<1>4. /\ up \in Seq(Wire) /\ Len(up) = Len(W) - 1
      /\ \A i \in 1 .. Len(W) - 1 : up[i] = W[i]
    BY <1>3, FrontIs
<1> HIDE DEF up
<1>5. /\ DOMAIN R = 1 .. Len(W) - 1
      /\ \A i \in 1 .. Len(W) - 1 : R[i] = Step(W[i], nw[W[i]].pip)
    BY <1>3, <1>4
<1>6. ASSUME NEW i \in 1 .. Len(W) - 1
      PROVE  Step(W[i], nw[W[i]].pip) \in PathStep
    <2>1. W[i] \in Wire
        BY <1>3
    <2> QED BY <2>1, PipOfWire DEF Step, PathStep
<1>7. R \in Seq(PathStep) /\ Len(R) = Len(W) - 1
    <2>1. R \in [1 .. Len(W) - 1 -> PathStep]
        BY <1>3, <1>4, <1>6
    <2>2. Len(W) - 1 \in Nat
        BY <1>3
    <2> HIDE DEF R
    <2> QED BY <2>1, <2>2
<1> HIDE DEF R
<1>8. OnePass(R)
    <2> SUFFICES ASSUME NEW i \in 1 .. Len(W) - 1, NEW j \in 1 .. Len(W) - 1,
                        R[i].wire = R[j].wire
                 PROVE  i = j
        BY <1>5 DEF OnePass
    <2>1. W[i] = W[j] /\ i \in 1 .. Len(W) /\ j \in 1 .. Len(W)
        BY <1>3, <1>5 DEF Step
    <2>2. \A k, l \in 1 .. Len(W) : k < l => W[k] # W[l]
        BY <1>1, WayDistinct
    <2> QED BY <1>3, <2>1, <2>2
<1>9. ToSet(R) = {Step(W[i], nw[W[i]].pip) : i \in 1 .. Len(W) - 1}
    BY <1>5 DEF ToSet
<1>10. PathWires(R) = TrunkIn(nw, n, w)
    <2>1. PathWires(R) = {R[i].wire : i \in 1 .. Len(W) - 1}
        BY <1>5 DEF PathWires, ToSet
    <2>2. \A i \in 1 .. Len(W) - 1 : R[i].wire = W[i]
        BY <1>5 DEF Step
    <2> QED BY <1>2, <2>1, <2>2
<1>11. \A b \in ToSet(R) : b.pip = nw[b.wire].pip
    BY <1>9 DEF Step
<1>12. ASSUME NEW v \in TrunkIn(nw, n, w) PROVE PipOn(R, v) = nw[v].pip
    <2>1. PICK b \in ToSet(R) : b.wire = v
        BY <1>10 DEF PathWires
    <2>2. PipOn(R, b.wire) = b.pip
        BY <1>7, <1>8, PipOnStep
    <2> QED BY <2>1, <2>2, <1>11
<1>13. BranchIn(nw, n, w) = R
    BY DEF BranchIn, R, up, W
<1> QED BY <1>7, <1>8, <1>10, <1>11, <1>12, <1>13

ToBindIn(nw, n, s, q) ==
    [i \in DOMAIN q |-> Step(PipDst[q[i]], q[i])]
    \o IF s = NetSrc[n] THEN <<Step(s, NoPip)>> ELSE BranchIn(nw, n, s)

(* A chain of pips from s; none of its wires is entered twice. *)
IsChain(q, s) ==
    /\ q \in Seq(Pip) /\ Len(q) \in Nat
    /\ Len(q) > 0 => PipSrc[q[1]] = s
    /\ \A i \in 1 .. Len(q) - 1 : PipSrc[q[i+1]] = PipDst[q[i]]
    /\ \A i, j \in 1 .. Len(q) : PipDst[q[i]] = PipDst[q[j]] => i = j
    /\ \A i \in 1 .. Len(q) : PipDst[q[i]] # s

(* The steps that bind a chain of pips pass over each of its wires once. *)
LEMMA ChainSteps ==
    ASSUME NEW q, NEW s, IsChain(q, s)
    PROVE  LET Q == [i \in DOMAIN q |-> Step(PipDst[q[i]], q[i])]
           IN  /\ Q \in Seq(PathStep) /\ OnePass(Q)
               /\ PathWires(Q) = {PipDst[q[i]] : i \in 1 .. Len(q)}
               /\ \A i \in 1 .. Len(q) : Step(PipDst[q[i]], q[i]) \in ToSet(Q)
<1> DEFINE Q == [i \in DOMAIN q |-> Step(PipDst[q[i]], q[i])]
<1>1. q \in Seq(Pip) /\ Len(q) \in Nat /\ DOMAIN q = 1 .. Len(q)
    BY DEF IsChain
<1>2. ASSUME NEW i \in 1 .. Len(q) PROVE Step(PipDst[q[i]], q[i]) \in PathStep
    <2>1. q[i] \in Pip
        BY <1>1
    <2> QED BY <2>1, FabricAssumption DEF Step, PathStep
<1>3. /\ DOMAIN Q = 1 .. Len(q)
      /\ \A i \in 1 .. Len(q) : Q[i] = Step(PipDst[q[i]], q[i])
    BY <1>1
<1>4. Q \in Seq(PathStep)
    <2>1. Q \in [1 .. Len(q) -> PathStep]
        BY <1>1, <1>2
    <2> HIDE DEF Q
    <2> QED BY <1>1, <2>1
<1> HIDE DEF Q
<1>5. \A i \in 1 .. Len(q) : Q[i].wire = PipDst[q[i]]
    BY <1>3 DEF Step
<1>6. OnePass(Q)
    BY <1>3, <1>5 DEF OnePass, IsChain
<1>7. PathWires(Q) = {PipDst[q[i]] : i \in 1 .. Len(q)}
    <2>1. PathWires(Q) = {Q[i].wire : i \in 1 .. Len(q)}
        BY <1>3 DEF PathWires, ToSet
    <2> QED BY <2>1, <1>5
<1>8. \A i \in 1 .. Len(q) : Step(PipDst[q[i]], q[i]) \in ToSet(Q)
    BY <1>3 DEF ToSet
<1> QED BY <1>4, <1>6, <1>7, <1>8 DEF Q

(* The walk from the source of a net is the source alone. *)
LEMMA SourceWalk ==
    ASSUME NEW nw \in NetWires, NEW n \in Net
    PROVE  /\ WalkIn(nw, n, NetSrc[n]) = <<NetSrc[n]>>
           /\ ReachesIn(nw, n, NetSrc[n])
           /\ TrunkIn(nw, n, NetSrc[n]) = {}
<1>1. NetSrc[n] \in Wire
    BY Router2Assumption
<1>2. IsWay(nw, n, NetSrc[n], <<NetSrc[n]>>)
    BY <1>1 DEF IsWay
<1>3. /\ WalkIn(nw, n, NetSrc[n]) = <<NetSrc[n]>>
      /\ ReachesIn(nw, n, NetSrc[n])
      /\ TrunkIn(nw, n, NetSrc[n]) = {<<NetSrc[n]>>[i] : i \in 1 .. Len(<<NetSrc[n]>>) - 1}
    BY <1>1, <1>2, WayReaches
<1>4. \A i \in 1 .. Len(<<NetSrc[n]>>) - 1 : FALSE
    OBVIOUS
<1> QED BY <1>3, <1>4

(* A path that enters the wires of the net only through the pips they have *)
(* does not come back to the tree it started from.                         *)
LEMMA OffTheTree ==
    ASSUME NEW nw \in NetWires, NEW n \in Net, NEW s \in Wire,
           ReachesIn(nw, n, s), NEW q, IsChain(q, s),
           \A i \in 1 .. Len(q) : PipDst[q[i]] # NetSrc[n],
           \A i \in 1 .. Len(q) : \/ nw[PipDst[q[i]]] = NoUse
                                  \/ nw[PipDst[q[i]]].pip \in {q[i], NoPip}
    PROVE  \A i \in 1 .. Len(q) : PipDst[q[i]] \notin ToSet(WalkIn(nw, n, s))
<1> DEFINE W == WalkIn(nw, n, s)
<1>1. IsWay(nw, n, s, W)
    BY WalkIsWay
<1>2. TrunkIn(nw, n, s) = {W[i] : i \in 1 .. Len(W) - 1}
    BY TrunkIs
<1>3. \A v \in TrunkIn(nw, n, s) : nw[v].pip \in Pip /\ nw[v] # NoUse
    BY TrunkIs
<1>4. TrunkIn(nw, n, s) = ToSet(W) \ {NetSrc[n]}
    BY DEF TrunkIn
<1> HIDE DEF W
<1>5. W \in Seq(Wire) /\ Len(W) \in Nat \ {0} /\ W[1] = s
    BY <1>1 DEF IsWay
<1>6. ASSUME NEW j \in 1 .. Len(q), PipDst[q[j]] \in ToSet(W)
      PROVE  j # 1 /\ PipDst[q[j-1]] \in ToSet(W)
    <2>1. PICK l \in 1 .. Len(W) - 1 : W[l] = PipDst[q[j]]
        BY <1>2, <1>4, <1>6
    <2>2. nw[W[l]].pip = q[j]
        BY <1>2, <1>3, <2>1, FabricAssumption
    <2>3. W[l+1] = PipSrc[q[j]] /\ l + 1 \in 1 .. Len(W)
        BY <1>1, <1>5, <2>1, <2>2 DEF IsWay
    <2>4. W[l+1] \in ToSet(W)
        BY <1>5, <2>3 DEF ToSet
    <2>5. CASE j = 1
        <3>1. W[l+1] = W[1]
            BY <2>3, <2>5, <1>5 DEF IsChain
        <3>2. 1 \in 1 .. Len(W) /\ 1 < l + 1
            BY <1>5
        <3> QED BY <3>1, <3>2, <2>3, <1>1, WayDistinct
    <2>6. CASE j # 1
        <3>1. j - 1 \in 1 .. Len(q) - 1 /\ (j - 1) + 1 = j
            BY <2>6 DEF IsChain
        <3>2. PipSrc[q[(j-1)+1]] = PipDst[q[j-1]]
            BY <3>1 DEF IsChain
        <3> QED BY <3>1, <3>2, <2>3, <2>4, <2>6
    <2> QED BY <2>5, <2>6
<1> DEFINE T == {i \in Nat : i + 1 <= Len(q) => PipDst[q[i+1]] \notin ToSet(W)}
<1>7. Len(q) \in Nat
    BY DEF IsChain
<1>8. 0 \in T
    <2> SUFFICES ASSUME 1 <= Len(q) PROVE PipDst[q[1]] \notin ToSet(W)
        OBVIOUS
    <2>1. 1 \in 1 .. Len(q)
        BY <1>7
    <2> QED BY <2>1, <1>6
<1>9. ASSUME NEW i \in T PROVE i + 1 \in T
    <2> SUFFICES ASSUME (i + 1) + 1 <= Len(q) PROVE PipDst[q[(i+1)+1]] \notin ToSet(W)
        OBVIOUS
    <2>1. i + 1 <= Len(q) /\ (i + 1) + 1 \in 1 .. Len(q) /\ ((i + 1) + 1) - 1 = i + 1
        BY <1>7
    <2>2. PipDst[q[i+1]] \notin ToSet(W)
        BY <2>1
    <2> QED BY <2>1, <2>2, <1>6
<1> HIDE DEF T
<1>10. T = Nat
    <2>1. T \subseteq Nat
        BY DEF T
    <2> QED BY <1>8, <1>9, <2>1, NatSet
<1>11. ASSUME NEW i \in 1 .. Len(q) PROVE PipDst[q[i]] \notin ToSet(W)
    <2>1. i - 1 \in T /\ (i - 1) + 1 = i /\ i <= Len(q)
        BY <1>7, <1>10
    <2> QED BY <2>1 DEF T
<1> QED BY <1>11 DEF W

(* What is bound below a path that was found: the path, and the tree from  *)
(* where it starts.                                                        *)
LEMMA ToBindIs ==
    ASSUME NEW nw \in NetWires, NEW n \in Net, NEW s \in Wire,
           ReachesIn(nw, n, s), NEW q, IsChain(q, s),
           \A i \in 1 .. Len(q) : PipDst[q[i]] \notin ToSet(WalkIn(nw, n, s))
    PROVE  LET path == ToBindIn(nw, n, s, q)
           IN  /\ path \in Seq(PathStep) /\ OnePass(path)
               /\ PathWires(path) = {PipDst[q[i]] : i \in 1 .. Len(q)}
                     \cup IF s = NetSrc[n] THEN {s} ELSE TrunkIn(nw, n, s)
               /\ \A i \in 1 .. Len(q) : PipOn(path, PipDst[q[i]]) = q[i]
               /\ \A v \in TrunkIn(nw, n, s) : PipOn(path, v) = nw[v].pip
<1> DEFINE Q == [i \in DOMAIN q |-> Step(PipDst[q[i]], q[i])]
           R == IF s = NetSrc[n] THEN <<Step(s, NoPip)>> ELSE BranchIn(nw, n, s)
           path == Q \o R
           X == IF s = NetSrc[n] THEN {s} ELSE TrunkIn(nw, n, s)
<1>1. /\ Q \in Seq(PathStep) /\ OnePass(Q)
      /\ PathWires(Q) = {PipDst[q[i]] : i \in 1 .. Len(q)}
      /\ \A i \in 1 .. Len(q) : Step(PipDst[q[i]], q[i]) \in ToSet(Q)
    BY ChainSteps
<1>2. /\ R \in Seq(PathStep) /\ OnePass(R) /\ PathWires(R) = X
      /\ \A v \in TrunkIn(nw, n, s) : \E b \in ToSet(R) : b.wire = v /\ b.pip = nw[v].pip
    <2>1. CASE s = NetSrc[n]
        <3>1. Step(s, NoPip) \in PathStep
            BY DEF Step, PathStep
        <3>2. R = <<Step(s, NoPip)>>
            BY <2>1
        <3> DEFINE e == Step(s, NoPip)
        <3> HIDE DEF R, e
        <3>3. R \in Seq(PathStep) /\ Len(R) = 1 /\ R[1] = Step(s, NoPip)
            <4>1. R = <<e>> /\ e \in PathStep
                BY <3>1, <3>2 DEF e
            <4>2. R \in Seq(PathStep) /\ Len(R) = 1 /\ R[1] = e
                BY <4>1
            <4> QED BY <4>2 DEF e
        <3>4. OnePass(R)
            BY <3>3 DEF OnePass
        <3>5. ToSet(R) = {Step(s, NoPip)}
            BY <3>3 DEF ToSet
        <3>6. PathWires(R) = {s}
            BY <3>5 DEF PathWires, Step
        <3>7. TrunkIn(nw, n, s) = {}
            BY <2>1, SourceWalk
        <3> QED BY <3>3, <3>4, <3>6, <3>7, <2>1
    <2>2. CASE s # NetSrc[n]
        <3>1. R = BranchIn(nw, n, s) /\ X = TrunkIn(nw, n, s)
            BY <2>2
        <3> HIDE DEF R, X
        <3>2. /\ R \in Seq(PathStep) /\ OnePass(R) /\ PathWires(R) = X
              /\ \A b \in ToSet(R) : b.pip = nw[b.wire].pip
            BY <3>1, BranchIs
        <3>3. \A v \in X : \E b \in ToSet(R) : b.wire = v /\ b.pip = nw[v].pip
            BY <3>2 DEF PathWires
        <3> QED BY <3>1, <3>2, <3>3
    <2> QED BY <2>1, <2>2
<1>3. PathWires(Q) \cap PathWires(R) = {}
    <2>1. X \subseteq ToSet(WalkIn(nw, n, s))
        <3>1. CASE s = NetSrc[n]
            <4>1. ToSet(<<s>>) = {s}
                BY DEF ToSet
            <4> QED BY <3>1, <4>1, SourceWalk
        <3>2. CASE s # NetSrc[n]
            BY <3>2 DEF TrunkIn
        <3> QED BY <3>1, <3>2
    <2> HIDE DEF Q, R, X
    <2> QED BY <2>1, <1>1, <1>2
<1> HIDE DEF Q, R, X
<1>4. /\ path \in Seq(PathStep) /\ OnePass(path)
      /\ ToSet(path) = ToSet(Q) \cup ToSet(R)
      /\ PathWires(path) = PathWires(Q) \cup PathWires(R)
    BY <1>1, <1>2, <1>3, ConcatPath
<1> HIDE DEF path
<1>5. ASSUME NEW i \in 1 .. Len(q) PROVE PipOn(path, PipDst[q[i]]) = q[i]
    <2> DEFINE b == Step(PipDst[q[i]], q[i])
    <2>1. b \in ToSet(path)
        BY <1>1, <1>4
    <2>2. b.wire = PipDst[q[i]] /\ b.pip = q[i]
        BY DEF Step
    <2> HIDE DEF b
    <2>3. PipOn(path, b.wire) = b.pip
        BY <2>1, <1>4, PipOnStep
    <2> QED BY <2>2, <2>3
<1>6. ASSUME NEW v \in TrunkIn(nw, n, s) PROVE PipOn(path, v) = nw[v].pip
    <2>1. PICK b \in ToSet(R) : b.wire = v /\ b.pip = nw[v].pip
        BY <1>2
    <2>2. PipOn(path, b.wire) = b.pip
        BY <1>4, PipOnStep
    <2> QED BY <2>1, <2>2
<1>7. ToBindIn(nw, n, s, q) = path
    BY DEF ToBindIn, path, Q, R
<1>8. PathWires(path) = {PipDst[q[i]] : i \in 1 .. Len(q)}
                     \cup IF s = NetSrc[n] THEN {s} ELSE TrunkIn(nw, n, s)
    BY <1>1, <1>2, <1>4 DEF X
<1> QED BY <1>4, <1>5, <1>6, <1>7, <1>8

(* With a found path bound, its net would lead from the sink to the        *)
(* source.                                                                 *)
LEMMA Found ==
    ASSUME NEW nw \in NetWires, NEW rt, NEW n \in Net,
           NEW a \in ToSet(NetArcs[n]), ~rt[a], WholeBut(nw, rt, n, NoReg, {}),
           NEW s \in Wire, ReachesIn(nw, n, s), NEW q, IsChain(q, s),
           SinkWire[a] = IF Len(q) = 0 THEN s ELSE PipDst[q[Len(q)]],
           \A i \in 1 .. Len(q) : PipDst[q[i]] # NetSrc[n],
           \A i \in 1 .. Len(q) : \/ nw[PipDst[q[i]]] = NoUse
                                  \/ nw[PipDst[q[i]]].pip \in {q[i], NoPip}
    PROVE  /\ ToBindIn(nw, n, s, q) \in Seq(PathStep)
           /\ PathWires(ToBindIn(nw, n, s, q)) =
                 {PipDst[q[i]] : i \in 1 .. Len(q)}
                 \cup IF s = NetSrc[n] THEN {s} ELSE TrunkIn(nw, n, s)
           /\ Binding(nw, rt, n, a, ToBindIn(nw, n, s, q), NoReg)
<1> DEFINE W == WalkIn(nw, n, s)
           path == ToBindIn(nw, n, s, q)
           k == Len(q)
           m == Len(W)
<1>1. \A i \in 1 .. Len(q) : PipDst[q[i]] \notin ToSet(WalkIn(nw, n, s))
    BY OffTheTree
<1>2. /\ path \in Seq(PathStep) /\ OnePass(path)
      /\ PathWires(path) = {PipDst[q[i]] : i \in 1 .. Len(q)}
            \cup IF s = NetSrc[n] THEN {s} ELSE TrunkIn(nw, n, s)
      /\ \A i \in 1 .. Len(q) : PipOn(path, PipDst[q[i]]) = q[i]
      /\ \A v \in TrunkIn(nw, n, s) : PipOn(path, v) = nw[v].pip
    BY <1>1, ToBindIs
<1>3. IsWay(nw, n, s, W) /\ TrunkIn(nw, n, s) = {W[i] : i \in 1 .. Len(W) - 1}
    BY WalkIsWay, TrunkIs
<1> HIDE DEF W, path
<1>4. /\ W \in Seq(Wire) /\ m \in Nat \ {0} /\ W[1] = s /\ W[m] = NetSrc[n]
      /\ \A i \in 1 .. m - 1 : W[i] # NetSrc[n]
    BY <1>3 DEF IsWay
<1>5. k \in Nat /\ q \in Seq(Pip)
    BY DEF IsChain
<1> DEFINE B == AsBound(nw, path)
<1>6. ASSUME NEW i \in 1 .. k PROVE PipDst[q[i]] \in Wire /\ B[PipDst[q[i]]].pip = q[i]
    <2>1. PipDst[q[i]] \in Wire /\ PipDst[q[i]] \in PathWires(path)
        BY <1>2, <1>5, FabricAssumption
    <2> QED BY <2>1, <1>2 DEF AsBound
<1>7. ASSUME NEW i \in 1 .. m - 1 PROVE B[W[i]].pip = nw[W[i]].pip
    <2>1. W[i] \in TrunkIn(nw, n, s) /\ W[i] \in Wire
        BY <1>3, <1>4
    <2>2. s # NetSrc[n]
        <3>1. 1 \in 1 .. m - 1
            BY <1>4
        <3> QED BY <3>1, <1>4
    <2>3. W[i] \in PathWires(path)
        BY <2>1, <2>2, <1>2
    <2> QED BY <2>1, <2>3, <1>2 DEF AsBound
<1>8. B \in NetWires
    BY <1>2, AsBoundType
<1> HIDE DEF B
<1> DEFINE p == [i \in 1 .. k + m |-> IF i <= k THEN PipDst[q[k+1-i]] ELSE W[i-k]]
<1>9. p \in Seq(Wire) /\ Len(p) = k + m /\ k + m \in Nat \ {0}
    <2>1. ASSUME NEW i \in 1 .. k + m
          PROVE  (IF i <= k THEN PipDst[q[k+1-i]] ELSE W[i-k]) \in Wire
        <3>1. CASE i <= k
            <4>1. k + 1 - i \in 1 .. k
                BY <3>1, <1>5
            <4> QED BY <3>1, <4>1, <1>6
        <3>2. CASE ~(i <= k)
            <4>1. i - k \in 1 .. m
                BY <3>2, <1>4, <1>5
            <4> QED BY <3>2, <4>1, <1>4
        <3> QED BY <3>1, <3>2
    <2>2. p \in [1 .. k + m -> Wire] /\ k + m \in Nat \ {0}
        BY <2>1, <1>4, <1>5
    <2> HIDE DEF p
    <2> QED BY <2>2
<1>10. \A i \in 1 .. k + m : p[i] = IF i <= k THEN PipDst[q[k+1-i]] ELSE W[i-k]
    OBVIOUS
<1> HIDE DEF p
<1>11. p[1] = SinkWire[a]
    <2>1. 1 \in 1 .. k + m
        BY <1>4, <1>5
    <2>2. CASE k = 0
        BY <2>1, <2>2, <1>10, <1>4
    <2>3. CASE k # 0
        <3>1. 1 <= k /\ k + 1 - 1 = k
            BY <2>3, <1>5
        <3> QED BY <2>1, <2>3, <3>1, <1>10
    <2> QED BY <2>2, <2>3
<1>12. ASSUME NEW i \in 1 .. (k + m) - 1
       PROVE  /\ p[i] # NetSrc[n] /\ B[p[i]].pip # NoPip
              /\ p[i+1] = PipSrc[B[p[i]].pip]
    <2>0. i \in 1 .. k + m /\ i + 1 \in 1 .. k + m
        BY <1>4, <1>5
    <2>1. CASE i < k
        <3>1. /\ k + 1 - i \in 1 .. k /\ k + 1 - (i + 1) \in 1 .. k - 1
              /\ (k + 1 - (i + 1)) + 1 = k + 1 - i /\ i <= k /\ i + 1 <= k
            BY <2>1, <1>5
        <3>2. p[i] = PipDst[q[k+1-i]] /\ p[i+1] = PipDst[q[k+1-(i+1)]]
            BY <2>0, <3>1, <1>10
        <3>3. PipSrc[q[(k+1-(i+1))+1]] = PipDst[q[k+1-(i+1)]]
            BY <3>1 DEF IsChain
        <3>4. q[k+1-i] \in Pip
            BY <3>1, <1>5
        <3> QED BY <3>1, <3>2, <3>3, <3>4, <1>6, FabricAssumption
    <2>2. CASE i = k
        <3>1. k + 1 - i = 1 /\ i <= k /\ ~(i + 1 <= k) /\ (i + 1) - k = 1 /\ 1 \in 1 .. k
            BY <2>2, <2>0, <1>5
        <3>2. p[i] = PipDst[q[1]] /\ p[i+1] = W[1]
            BY <2>0, <3>1, <1>10
        <3>3. PipSrc[q[1]] = s /\ q[1] \in Pip
            BY <3>1, <1>5 DEF IsChain
        <3> QED BY <3>1, <3>2, <3>3, <1>4, <1>6, FabricAssumption
    <2>3. CASE i > k
        <3>1. /\ i - k \in 1 .. m - 1 /\ (i + 1) - k = (i - k) + 1
              /\ ~(i <= k) /\ ~(i + 1 <= k)
            BY <2>3, <1>4, <1>5
        <3>2. p[i] = W[i-k] /\ p[i+1] = W[(i-k)+1]
            BY <2>0, <3>1, <1>10
        <3>3. nw[W[i-k]].pip # NoPip /\ W[(i-k)+1] = PipSrc[nw[W[i-k]].pip]
            BY <3>1, <1>3 DEF IsWay
        <3> QED BY <3>1, <3>2, <3>3, <1>4, <1>7
    <2> QED BY <2>1, <2>2, <2>3, <1>5
<1>13. p[k+m] = NetSrc[n]
    <2>1. k + m \in 1 .. k + m /\ ~(k + m <= k) /\ (k + m) - k = m
        BY <1>4, <1>5
    <2> QED BY <2>1, <1>10, <1>4
<1>14. IsWay(B, n, SinkWire[a], p)
    BY <1>9, <1>11, <1>12, <1>13 DEF IsWay
<1>15. SinkWire[a] \in Wire
    BY ArcsOfNet
<1> DEFINE T == TrunkIn(B, n, SinkWire[a])
<1>16. ReachesIn(B, n, SinkWire[a]) /\ T = {p[i] : i \in 1 .. (k + m) - 1}
    BY <1>8, <1>9, <1>14, <1>15, WayReaches
<1>17. T \subseteq PathWires(path)
    <2> SUFFICES ASSUME NEW i \in 1 .. (k + m) - 1 PROVE p[i] \in PathWires(path)
        BY <1>16
    <2>0. i \in 1 .. k + m
        BY <1>4, <1>5
    <2>1. CASE i <= k
        <3>1. k + 1 - i \in 1 .. k /\ p[i] = PipDst[q[k+1-i]]
            BY <2>0, <2>1, <1>5, <1>10
        <3> QED BY <3>1, <1>2
    <2>2. CASE ~(i <= k)
        <3>1. i - k \in 1 .. m - 1 /\ p[i] = W[i-k] /\ 1 \in 1 .. m - 1
            BY <2>0, <2>2, <1>4, <1>5, <1>10
        <3>2. s # NetSrc[n] /\ p[i] \in TrunkIn(nw, n, s)
            BY <3>1, <1>3, <1>4
        <3> QED BY <3>2, <1>2
    <2> QED BY <2>1, <2>2
<1>18. PathWires(path) \subseteq T \cup {NetSrc[n]}
    <2>1. ASSUME NEW j \in 1 .. k PROVE PipDst[q[j]] \in T
        <3>1. /\ k + 1 - j \in 1 .. (k + m) - 1 /\ k + 1 - j \in 1 .. k + m
              /\ k + 1 - j <= k /\ k + 1 - (k + 1 - j) = j
            BY <1>4, <1>5
        <3>2. p[k+1-j] = PipDst[q[j]]
            BY <3>1, <1>10
        <3> QED BY <3>1, <3>2, <1>16
    <2>2. ASSUME NEW j \in 1 .. m - 1 PROVE W[j] \in T
        <3>1. /\ k + j \in 1 .. (k + m) - 1 /\ k + j \in 1 .. k + m
              /\ ~(k + j <= k) /\ (k + j) - k = j
            BY <1>4, <1>5
        <3>2. p[k+j] = W[j]
            BY <3>1, <1>10
        <3> QED BY <3>1, <3>2, <1>16
    <2>3. TrunkIn(nw, n, s) \subseteq T
        BY <2>2, <1>3
    <2> HIDE DEF T
    <2> QED BY <2>1, <2>3, <1>2
<1>19. WholeBut(nw, rt, n, a, {})
    BY LeaveOut
<1>20. Binding(nw, rt, n, a, path, NoReg)
    <2>1. (T \ PathWires(path)) \cup {} = {}
        BY <1>17
    <2> QED BY <2>1, <1>2, <1>16, <1>18, <1>19 DEF Binding, B
<1> QED BY <1>2, <1>20 DEF path

(* What a search that ends at s has found for the arc a: Found's hypotheses. *)
IsFound(nw, rt, n, a, s, q) ==
    /\ nw \in NetWires /\ n \in Net /\ a \in ToSet(NetArcs[n]) /\ ~rt[a]
    /\ WholeBut(nw, rt, n, NoReg, {})
    /\ s \in Wire /\ ReachesIn(nw, n, s) /\ IsChain(q, s)
    /\ SinkWire[a] = IF Len(q) = 0 THEN s ELSE PipDst[q[Len(q)]]
    /\ \A i \in 1 .. Len(q) : PipDst[q[i]] # NetSrc[n]
    /\ \A i \in 1 .. Len(q) : \/ nw[PipDst[q[i]]] = NoUse
                              \/ nw[PipDst[q[i]]].pip \in {q[i], NoPip}
(* The same, said of the path by its name.                                 *)
LEMMA FoundBinds ==
    ASSUME NEW nw, NEW rt, NEW n, NEW a, NEW s, NEW q, IsFound(nw, rt, n, a, s, q),
           NEW path, path = ToBindIn(nw, n, s, q)
    PROVE  /\ path \in Seq(PathStep)
           /\ PathWires(path) = {PipDst[q[i]] : i \in 1 .. Len(q)}
                                \cup IF s = NetSrc[n] THEN {s} ELSE TrunkIn(nw, n, s)
           /\ Binding(nw, rt, n, a, path, NoReg)
<1> QED BY Found DEF IsFound

-----------------------------------------------------------------------------
(* The threads. *)
LEMMA StageSets ==
    /\ StageThreads[1] = {0, 1, 2, 3} /\ StageThreads[2] = {4, 5}
    /\ StageThreads[3] = {6, 7} /\ StageThreads[4] = {8} /\ StageThreads[5] = {8}
    /\ \A s \in 1 .. 5 : StageThreads[s] \subseteq Thread
    /\ \A s \in 1 .. 5 : 8 \in StageThreads[s] => s \in 4 .. 5
BY DEF StageThreads, Thread

(* The boxes of two threads of one stage have no wire in common. *)
LEMMA BoxesApart ==
    ASSUME NEW s \in 1 .. 3, NEW t \in StageThreads[s], NEW u \in StageThreads[s],
           t # u, NEW w \in Wire, Inside(t, w), Inside(u, w)
    PROVE  FALSE
<1>1. WireLoc[w].x \in Int /\ WireLoc[w].y \in Int /\ MidX \in Int /\ MidY \in Int
    BY Router2Assumption
<1>2. CASE s = 1
    <2>1. t \in {0, 1, 2, 3} /\ u \in {0, 1, 2, 3}
        BY <1>2, StageSets
    <2> QED BY <2>1, <1>1, Router2Assumption DEF Inside, In, ThreadBox
<1>3. CASE s = 2
    <2>1. t \in {4, 5} /\ u \in {4, 5}
        BY <1>3, StageSets
    <2> QED BY <2>1, <1>1, Router2Assumption DEF Inside, In, ThreadBox
<1>4. CASE s = 3
    <2>1. t \in {6, 7} /\ u \in {6, 7}
        BY <1>4, StageSets
    <2> QED BY <2>1, <1>1, Router2Assumption DEF Inside, In, ThreadBox
<1> QED BY <1>2, <1>3, <1>4

(* Two threads at work are of one stage and have different nets. *)
LEMMA BusyApart ==
    ASSUME TypeInv, Staged, NEW t \in Thread, NEW u \in Thread, t # u,
           Busy(t), Busy(u)
    PROVE  /\ stage \in 1 .. 3
           /\ t \in StageThreads[stage] /\ u \in StageThreads[stage]
           /\ t # 8 /\ u # 8
<1>1. stage \in 1 .. 5 /\ t \in StageThreads[stage] /\ u \in StageThreads[stage]
    BY DEF TypeInv, Staged
<1>2. stage \notin 4 .. 5
    BY <1>1, StageSets
<1> QED BY <1>1, <1>2, StageSets

(* A net in the hands of a thread at work is given to no other one. *)
LEMMA GivenApart ==
    ASSUME TypeInv, Staged, NEW t \in Thread, Busy(t) \/ t \in StageThreads[stage],
           stage # 0, NEW u \in Thread, t # u, Busy(u) \/ u # 8,
           NEW n \in Given(t)
    PROVE  n \notin Given(u)
<1>1. stage \in 1 .. 5 /\ t \in StageThreads[stage]
    BY DEF TypeInv, Staged
<1>2. CASE t = 8
    <2>1. stage \in 4 .. 5
        BY <1>1, <1>2, StageSets
    <2>2. u # 8
        BY <1>2
    <2>3. PICK s \in 1 .. 3 : u \in StageThreads[s]
        BY <2>2, StageSets DEF Thread
    <2>4. s < stage /\ s \in 1 .. 4 /\ u \in StageThreads[s] \ {8}
        BY <2>1, <2>2, <2>3
    <2>5. Given(u) = {}
        BY <2>4 DEF Staged
    <2> QED BY <2>5
<1>3. CASE t # 8
    <2>1. u # 8
        <3>1. CASE Busy(u)
            <4>1. u \in StageThreads[stage]
                BY <3>1 DEF Staged
            <4>2. stage \notin 4 .. 5
                BY <1>1, <1>3, StageSets
            <4> QED BY <1>1, <4>1, <4>2, StageSets
        <3> QED BY <3>1
    <2>2. Bin(bb[n]) = t
        BY <1>3 DEF Staged
    <2> QED BY <2>1, <2>2 DEF Staged
<1> QED BY <1>2, <1>3

(* A thread at work has a driven net, which is one of those it was given,  *)
(* and holds arcs of that net only.                                        *)
LEMMA BusyNet ==
    ASSUME TypeInv, Staged, NEW t \in Thread, Busy(t)
    PROVE  /\ th[t] \in ThreadState /\ th[t].net \in Net \ Undriven
           /\ th[t].net \in Given(t) /\ net_wires[th[t].net] \in NetWires
           /\ th[t].arcs \cup ToSet(th[t].check) \subseteq ToSet(NetArcs[th[t].net])
           /\ stage # 0
BY DEF TypeInv, Staged, Given

-----------------------------------------------------------------------------
(* What a step of one thread, to the state x, leaves as it is. *)
ThreadGoes(t, x) ==
    /\ pc = "route" /\ pc' = pc /\ stage' = stage /\ t \in StageThreads[stage]
    /\ th' = [th EXCEPT ![t] = x]
    /\ x \in ThreadState
    /\ x.nets \cup (IF x.phase # "idle" THEN {x.net} ELSE {}) \subseteq Given(t)
    /\ bb' = bb /\ strayed' = strayed

(* After a step of one thread, the states of all the others are what they  *)
(* were.                                                                   *)
LEMMA ThreadAfter ==
    ASSUME TypeInv, NEW t \in Thread, NEW x, ThreadGoes(t, x)
    PROVE  /\ th'[t] = x /\ \A u \in Thread : u # t => th'[u] = th[u]
           /\ th' \in [Thread -> ThreadState]
BY DEF ThreadGoes, TypeInv

(* A step of one thread to a state that holds nothing, or arcs of its net, *)
(* leaves every thread in its stage and every net in its bin.              *)
LEMMA StagedKept ==
    ASSUME TypeInv, Staged, NEW t \in Thread, NEW x, ThreadGoes(t, x),
           IF x.phase = "idle" THEN AtRest(x)
           ELSE /\ x.net \notin Undriven
                /\ x.arcs \cup ToSet(x.check) \subseteq ToSet(NetArcs[x.net])
    PROVE  Staged'
<1>1. /\ th'[t] = x /\ \A u \in Thread : u # t => th'[u] = th[u]
    BY ThreadAfter
<1>2. \A u \in Thread : Given(u)' \subseteq Given(u)
    BY <1>1 DEF Given, Busy, ThreadGoes
<1>3. stage # 0 /\ stage \in 1 .. 5
    BY DEF Staged, ThreadGoes, TypeInv
<1>4. x.phase # "idle" => x.net \in Net
    BY DEF ThreadGoes, Given, Staged, TypeInv, ThreadState
<1>5. \A u \in Thread : Busy(u)' =>
            /\ u \in StageThreads[stage] /\ th'[u].net \in Net \ Undriven
            /\ th'[u].arcs \cup ToSet(th'[u].check) \subseteq ToSet(NetArcs[th'[u].net])
    BY <1>1, <1>4 DEF Staged, ThreadGoes, Busy
<1>6. \A u \in Thread : ~Busy(u)' => AtRest(th'[u])
    BY <1>1 DEF Staged, Busy
<1>7. \A s \in 1 .. 4 : s < stage => \A u \in StageThreads[s] \ {8} : Given(u)' = {}
    <2> SUFFICES ASSUME NEW s \in 1 .. 4, s < stage, NEW u \in StageThreads[s] \ {8}
                 PROVE  Given(u)' = {}
        OBVIOUS
    <2>1. u \in Thread /\ Given(u) = {}
        BY StageSets DEF Staged
    <2> QED BY <2>1, <1>2
<1>8. \A u \in Thread \ {8} : \A n \in Given(u)' : Bin(bb[n]) = u
    BY <1>2 DEF Staged
<1>9. pc' = "route" /\ stage' = stage /\ bb' = bb
    BY DEF ThreadGoes
<1> QED BY <1>3, <1>5, <1>6, <1>7, <1>8, <1>9 DEF Staged

(* Only net n and its arcs change. *)
OnlyNet(n) ==
    /\ \A m \in Net : m # n => net_wires'[m] = net_wires[m]
    /\ \A b \in Arc : b \notin ToSet(NetArcs[n]) => routed'[b] = routed[b]

(* What a thread has in work does not depend on the flags of the arcs of   *)
(* other nets.                                                             *)
LEMMA AtWorkSame ==
    ASSUME NEW x, NEW nw, NEW rt, NEW qt, AtWork(x, nw, rt),
           x.phase # "idle" =>
              /\ x.arcs \subseteq ToSet(NetArcs[x.net])
              /\ \A b \in ToSet(NetArcs[x.net]) : rt[b] <=> qt[b]
    PROVE  AtWork(x, nw, qt)
<1>1. CASE x.phase = "idle"
    BY <1>1 DEF AtWork
<1>2. CASE x.phase # "idle"
    <2>1. \A a, X : WholeBut(nw, rt, x.net, a, X) => WholeBut(nw, qt, x.net, a, X)
        BY <1>2, WholeSame
    <2>2. x.phase = "rip" => Ripping(nw, qt, x.net, x.arc, x.path, x.reg)
        BY <2>1 DEF AtWork, Ripping
    <2>3. x.phase = "bind" => Binding(nw, qt, x.net, x.arc, x.path, x.reg)
        BY <1>2, <2>1 DEF AtWork, Binding
    <2>4. \A a \in x.arcs : qt[a] => x.phase = "rip" /\ x.arc = a
        BY <1>2 DEF AtWork
    <2> QED BY <2>2, <2>3, <2>4 DEF AtWork
<1> QED BY <1>1, <1>2

(* A step of one thread that changes the map and the flags of its net only *)
(* leaves every other net as whole as it was.                              *)
LEMMA TreesKept ==
    ASSUME TypeInv, Staged, TreesInv, NEW t \in Thread, NEW x, ThreadGoes(t, x),
           NEW n \in Given(t), OnlyNet(n),
           Busy(t) => n = th[t].net,
           x.phase # "idle" => x.net = n,
           AtWork(x, net_wires'[x.net], routed'),
           n \notin Undriven /\ x.phase \in {"idle", "check"} =>
              WholeBut(net_wires'[n], routed', n, NoReg, {})
    PROVE  TreesInv'
<1>1. /\ th'[t] = x /\ \A u \in Thread : u # t => th'[u] = th[u]
    BY ThreadAfter
<1>2. stage # 0 /\ t \in StageThreads[stage] /\ x \in ThreadState
    BY DEF Staged, ThreadGoes
<1>3. NetsWhole'
    <2> SUFFICES ASSUME NEW m \in Net \ Undriven, ~InWork(m)'
                 PROVE  WholeBut(net_wires'[m], routed', m, NoReg, {})
        BY DEF NetsWhole
    <2>1. CASE m = n
        <3>1. x.phase \notin {"rip", "bind"}
            BY <1>1, <2>1 DEF InWork
        <3>2. x.phase \in {"idle", "check"}
            BY <3>1, <1>2 DEF ThreadState
        <3> QED BY <2>1, <3>2
    <2>2. CASE m # n
        <3>1. ~InWork(m)
            BY <1>1, <2>2 DEF InWork, Busy
        <3>2. WholeBut(net_wires[m], routed, m, NoReg, {})
            BY <3>1 DEF TreesInv, NetsWhole
        <3>3. net_wires'[m] = net_wires[m]
            BY <2>2 DEF OnlyNet
        <3>4. n \in Net
            BY DEF Given, TypeInv, ThreadState, Staged
        <3>5. \A b \in ToSet(NetArcs[m]) \ {NoReg} : routed[b] <=> routed'[b]
            BY <2>2, <3>4, ArcsOfNet, Router2Assumption DEF OnlyNet
        <3>6. WholeBut(net_wires[m], routed', m, NoReg, {})
            BY <3>2, <3>5, WholeSame
        <3> QED BY <3>3, <3>6
    <2> QED BY <2>1, <2>2
<1>4. ASSUME NEW u \in Thread
      PROVE  AtWork(th'[u], net_wires'[th'[u].net], routed')
    <2>1. CASE u = t
        BY <2>1, <1>1
    <2>2. CASE u # t
        <3>1. th'[u] = th[u] /\ AtWork(th[u], net_wires[th[u].net], routed)
            BY <2>2, <1>1 DEF TreesInv
        <3>2. CASE ~Busy(u)
            BY <3>1, <3>2 DEF AtWork, Busy
        <3>3. CASE Busy(u)
            <4>1. n \notin Given(u) /\ th[u].net \in Given(u) /\ th[u].net \in Net
                BY <1>2, <2>2, <3>3, GivenApart, BusyNet
            <4>2. net_wires'[th[u].net] = net_wires[th[u].net]
                BY <4>1 DEF OnlyNet
            <4>3. n \in Net
                BY DEF Given, TypeInv, ThreadState, Staged
            <4>4. th[u].arcs \subseteq ToSet(NetArcs[th[u].net])
                BY <3>3, BusyNet
            <4>5. \A b \in ToSet(NetArcs[th[u].net]) : routed[b] <=> routed'[b]
                BY <4>1, <4>3, ArcsOfNet, Router2Assumption DEF OnlyNet
            <4>6. AtWork(th[u], net_wires[th[u].net], routed')
                BY <3>1, <4>4, <4>5, AtWorkSame
            <4> QED BY <3>1, <4>2, <4>6
        <3> QED BY <3>2, <3>3
    <2> QED BY <2>1, <2>2
<1> QED BY <1>3, <1>4 DEF TreesInv

(* The wires of net n, and where thread t may go, lie in the box of t. *)
LEMMA BoxesKept ==
    ASSUME TypeInv, Staged, BoxesInv, NEW t \in Thread, NEW x, ThreadGoes(t, x),
           NEW n \in Given(t), \A m \in Net : m # n => net_wires'[m] = net_wires[m],
           ~strayed /\ t # 8 /\ n \notin Undriven =>
              \A v \in Wire : net_wires'[n][v] # NoUse => Uses(n, v) \/ Inside(t, v),
           ~strayed /\ t # 8 /\ x.phase # "idle" =>
              \A w \in x.seeds \cup PathWires(x.path) : Inside(t, w)
    PROVE  BoxesInv'
<1> SUFFICES ASSUME ~strayed PROVE BoxesInv'
    BY DEF BoxesInv, ThreadGoes
<1>1. /\ th'[t] = x /\ \A u \in Thread : u # t => th'[u] = th[u]
    BY ThreadAfter
<1>2. stage # 0 /\ t \in StageThreads[stage] /\ pc' # "disturbed"
    BY DEF Staged, ThreadGoes
<1>3. \A u \in Thread : Given(u)' \subseteq Given(u)
    BY <1>1 DEF Given, Busy, ThreadGoes
<1>4. ASSUME NEW u \in Thread \ {8}, NEW m \in Given(u)', m \notin Undriven
      PROVE  ~Stray(u, m)'
    <2>1. m \in Given(u) /\ ~Stray(u, m) /\ m \in Net
        BY <1>3, <1>4 DEF BoxesInv, Given, TypeInv, ThreadState, Staged
    <2>2. \A v \in Wire : Uses(m, v)' => Uses(m, v) \/ Inside(u, v)
        <3>1. CASE m # n
            BY <2>1, <3>1 DEF Uses
        <3>2. CASE m = n
            <4>1. u = t
                BY <1>2, <2>1, <3>2, GivenApart
            <4> QED BY <4>1, <3>2, <1>4 DEF Uses
        <3> QED BY <3>1, <3>2
    <2> QED BY <2>1, <2>2 DEF Stray, Inside
<1>5. ASSUME NEW u \in Thread \ {8}, Busy(u)'
      PROVE  \A w \in th'[u].seeds \cup PathWires(th'[u].path) : Inside(u, w)
    BY <1>1, <1>5 DEF BoxesInv, Busy
<1> QED BY <1>2, <1>4, <1>5 DEF BoxesInv

-----------------------------------------------------------------------------
(* The counters. *)
LEMMA FiniteNets == IsFiniteSet(Net) /\ IsFiniteSet(Thread)
<1>1. IsFiniteSet(Net)
    BY FiniteRange, Router2Assumption
<1>2. IsFiniteSet(Thread)
    <2>1. 0 \in Int /\ 8 \in Int
        OBVIOUS
    <2>2. IsFiniteSet(0 .. 8)
        BY <2>1, FS_Interval
    <2> QED BY <2>2 DEF Thread
<1> QED BY <1>1, <1>2

(* The increments under way and the users of a wire can be counted. *)
LEMMA Counted ==
    ASSUME NEW w
    PROVE  /\ IsFiniteSet(Incrementing(w)) /\ Cardinality(Incrementing(w)) \in Nat
           /\ IsFiniteSet({n \in Net : Uses(n, w)})
           /\ Cardinality({n \in Net : Uses(n, w)}) \in Nat
<1>1. Incrementing(w) \subseteq Thread /\ {n \in Net : Uses(n, w)} \subseteq Net
    BY DEF Incrementing
<1>2. IsFiniteSet(Incrementing(w)) /\ IsFiniteSet({n \in Net : Uses(n, w)})
    BY <1>1, FiniteNets, FS_Subset
<1> QED BY <1>2, FS_CardinalityType

(* What thread t loads or has loaded, no other thread is about to store. *)
LEMMA RegApart ==
    ASSUME TypeInv, Staged, TreesInv, BoxesInv, ~strayed,
           NEW t \in Thread, NEW w, Busy(t), w \in PathWires(th[t].path),
           NEW u \in Thread, t # u, th[u].reg # NoReg
    PROVE  Head(th[u].path).wire # w
<1>1. th[u].phase \in {"rip", "bind"}
    BY DEF TreesInv, AtWork, TypeInv, ThreadState
<1>2. Busy(u) /\ th[u].path # <<>> /\ OnePass(th[u].path)
    BY <1>1 DEF Busy, TreesInv, AtWork, Ripping, Binding
<1>3. /\ stage \in 1 .. 3 /\ t \in StageThreads[stage] /\ u \in StageThreads[stage]
      /\ t # 8 /\ u # 8
    BY <1>2, BusyApart
<1>4. th[t].path \in Seq(PathStep) /\ th[u].path \in Seq(PathStep)
    BY DEF TypeInv, ThreadState
<1>5. Head(th[u].path).wire \in PathWires(th[u].path)
    BY <1>2, <1>4, TailPath
<1>6. w \in Wire
    BY <1>4, PathWiresIn
<1>7. Inside(t, w) /\ Inside(u, Head(th[u].path).wire)
    BY <1>2, <1>3, <1>5 DEF BoxesInv
<1> QED BY <1>3, <1>6, <1>7, BoxesApart

(* A step that neither loads for an increment nor stores. *)
LEMMA CountersSame ==
    ASSUME TypeInv, CountersInv, NEW t \in Thread, NEW x, ThreadGoes(t, x),
           curr_cong' = curr_cong,
           \A n \in Net, w \in Wire : Uses(n, w)' <=> Uses(n, w),
           ~(x.phase = "bind" /\ x.reg # NoReg),
           ~(th[t].phase = "bind" /\ th[t].reg # NoReg),
           x.reg # NoReg => x.reg = curr_cong[Head(x.path).wire]
    PROVE  CountersInv'
<1> SUFFICES ASSUME ~strayed PROVE CountersInv'
    BY DEF CountersInv, ThreadGoes
<1>1. /\ th'[t] = x /\ \A u \in Thread : u # t => th'[u] = th[u]
    BY ThreadAfter
<1>2. \A w \in Wire : Incrementing(w)' = Incrementing(w)
    BY <1>1 DEF Incrementing
<1>3. \A w \in Wire : {n \in Net : Uses(n, w)}' = {n \in Net : Uses(n, w)}
    OBVIOUS
<1>4. CountersExact'
    BY <1>2, <1>3 DEF CountersInv, CountersExact
<1>5. \A u \in Thread : th'[u].reg # NoReg =>
                           th'[u].reg = curr_cong'[Head(th'[u].path).wire]
    BY <1>1 DEF CountersInv
<1> QED BY <1>4, <1>5 DEF CountersInv

-----------------------------------------------------------------------------
(* The steps of a thread. *)
LEMMA TailSeq ==
    ASSUME NEW S, NEW s \in Seq(S), s # <<>>
    PROVE  /\ Head(s) \in S /\ Head(s) \in ToSet(s)
           /\ Tail(s) \in Seq(S) /\ ToSet(Tail(s)) \subseteq ToSet(s)
<1>1. Head(s) \in S /\ Tail(s) \in Seq(S) /\ Head(s) = s[1] /\ 1 \in 1 .. Len(s)
    OBVIOUS
<1>2. \A i \in 1 .. Len(Tail(s)) : Tail(s)[i] = s[i+1] /\ i + 1 \in 1 .. Len(s)
    OBVIOUS
<1> DEFINE r == Tail(s)
<1> HIDE DEF r
<1>3. ToSet(r) \subseteq ToSet(s)
    BY <1>1, <1>2 DEF ToSet, r
<1> QED BY <1>1, <1>3 DEF ToSet, r

(* The net of an arc is the one it is listed with, and its source is the   *)
(* source of the net.                                                      *)
LEMMA ArcNetIs ==
    ASSUME NEW n \in Net, NEW a \in ToSet(NetArcs[n])
    PROVE  ArcNet[a] = n /\ Src(a) = NetSrc[n] /\ a \in Arc
<1>1. a \in Arc
    BY ArcsOfNet
<1>2. \A m \in Net : a \in ToSet(NetArcs[m]) => m = n
    BY Router2Assumption
<1>3. (CHOOSE m \in Net : a \in ToSet(NetArcs[m])) = n
    BY <1>2
<1> QED BY <1>1, <1>3 DEF ArcNet, Src

(* A trunk is made of wires. *)
LEMMA TrunkWires ==
    ASSUME NEW nw \in NetWires, NEW n, NEW w \in Wire
    PROVE  TrunkIn(nw, n, w) \subseteq Wire
<1> DEFINE s == WalkIn(nw, n, w)
<1>1. s \in Seq(Wire)
    BY WalkShape DEF IsWalk
<1> HIDE DEF s
<1>2. ToSet(s) \subseteq Wire
    BY <1>1 DEF ToSet
<1> QED BY <1>2 DEF TrunkIn, s

(* The same operators under the names Router2 has for them. *)
LEMMA SameNames ==
    ASSUME NEW n, NEW w
    PROVE  /\ Walk(n, w) = WalkIn(net_wires[n], n, w)
           /\ Trunk(n, w) = TrunkIn(net_wires[n], n, w)
           /\ Reaches(n, w) <=> ReachesIn(net_wires[n], n, w)
           /\ Branch(n, w) = BranchIn(net_wires[n], n, w)
           /\ Uses(n, w) <=> net_wires[n][w] # NoUse
BY DEF Walk, Trunk, Reaches, Branch, TrunkIn, ReachesIn, BranchIn, Uses

(* A net is whole while its thread checks it. *)
LEMMA CheckWhole ==
    ASSUME TypeInv, Staged, TreesInv, NEW t \in Thread, th[t].phase = "check"
    PROVE  /\ WholeBut(net_wires[th[t].net], routed, th[t].net, NoReg, {})
           /\ th[t].reg = NoReg
           /\ \A a \in th[t].arcs : ~routed[a]
<1>1. Busy(t)
    BY DEF Busy
<1>2. th[t].net \in Net \ Undriven /\ th[t].net \in Given(t) /\ stage # 0
    BY <1>1, BusyNet
<1>3. ~InWork(th[t].net)
    <2> SUFFICES ASSUME NEW u \in Thread, th[u].phase \in {"rip", "bind"},
                        th[u].net = th[t].net
                 PROVE  FALSE
        BY DEF InWork
    <2>1. Busy(u) /\ u # t
        BY DEF Busy
    <2>2. th[t].net \in Given(u)
        BY <2>1, BusyNet
    <2> QED BY <1>1, <1>2, <2>1, <2>2, GivenApart
<1> QED BY <1>1, <1>2, <1>3 DEF TreesInv, NetsWhole, AtWork

(* While no net has strayed, the trunk of a wire of the net in work lies   *)
(* in the box of the thread.                                               *)
LEMMA TrunkInside ==
    ASSUME TypeInv, Staged, BoxesInv, ~strayed, NEW t \in Thread, t # 8, Busy(t),
           NEW w \in Wire, ReachesIn(net_wires[th[t].net], th[t].net, w)
    PROVE  \A v \in TrunkIn(net_wires[th[t].net], th[t].net, w) : Inside(t, v)
<1>1. /\ th[t].net \in Net \ Undriven /\ th[t].net \in Given(t)
      /\ net_wires[th[t].net] \in NetWires
    BY BusyNet
<1>2. ~Stray(t, th[t].net)
    BY <1>1 DEF BoxesInv
<1>3. \A v \in TrunkIn(net_wires[th[t].net], th[t].net, w) :
         v \in Wire /\ net_wires[th[t].net][v] # NoUse
    BY <1>1, TrunkIs
<1> QED BY <1>2, <1>3 DEF Stray, Uses, Inside

(* While no net has strayed, the source, the sinks and the wires of the    *)
(* net in work lie in the box of the thread.                               *)
LEMMA EndsInside ==
    ASSUME TypeInv, Staged, BoxesInv, ~strayed, NEW t \in Thread, t # 8, Busy(t)
    PROVE  /\ Inside(t, NetSrc[th[t].net])
           /\ \A a \in ToSet(NetArcs[th[t].net]) : Inside(t, SinkWire[a])
           /\ \A v \in Wire : Uses(th[t].net, v) => Inside(t, v)
<1>1. th[t].net \in Net \ Undriven /\ th[t].net \in Given(t)
    BY BusyNet
<1> QED BY <1>1 DEF BoxesInv, Stray, Inside

(* The check of one arc in route_net keeps the invariant: a legal arc is   *)
(* kept and its wires become start points, any other is put on the list    *)
(* and, if it was routed, its ripup begins.                                *)
LEMMA CheckArcKeeps ==
    ASSUME IInv, NEW t \in Thread, CheckArc(t)
    PROVE  IInv'
<1> DEFINE n == th[t].net
           a == Head(th[t].check)
           nw == net_wires[n]
           seeds == th[t].seeds \cup IF Uses(n, SinkWire[a])
                                     THEN Trunk(n, SinkWire[a]) ELSE {}
           phase == IF routed[a] THEN "rip" ELSE "check"
           path == IF routed[a] THEN Branch(n, SinkWire[a]) ELSE <<>>
           kept == [th[t] EXCEPT !.check = Tail(th[t].check), !.seeds = seeds]
           opened == [th[t] EXCEPT !.check = Tail(th[t].check),
                                   !.arcs = th[t].arcs \cup {a}, !.arc = a,
                                   !.phase = phase, !.path = path]
           x == IF Keeps(a) THEN kept ELSE opened
<1>0. TypeInv /\ Staged /\ TreesInv /\ BoxesInv /\ CountersInv
    BY DEF IInv
<1>1. /\ pc = "route" /\ t \in StageThreads[stage] /\ th[t].phase = "check"
      /\ th[t].check # <<>> /\ th' = [th EXCEPT ![t] = x]
      /\ UNCHANGED <<fab, routing, plan, pc, stage>>
    <2>1. /\ pc = "route" /\ t \in StageThreads[stage] /\ th[t].phase = "check"
          /\ th[t].check # <<>> /\ UNCHANGED <<fab, routing, plan, pc, stage>>
        BY DEF CheckArc, InPhase, Running
    <2>2. th \in [Thread -> ThreadState]
        BY <1>0 DEF TypeInv
    <2>3. CASE Keeps(a)
        <3>1. th' = [th EXCEPT ![t].check = Tail(@), ![t].seeds = seeds]
            BY <2>3 DEF CheckArc
        <3> HIDE DEF seeds
        <3>2. th' = [th EXCEPT ![t] = kept]
            BY <2>2, <3>1 DEF ThreadState
        <3> QED BY <2>1, <2>3, <3>2
    <2>4. CASE ~Keeps(a)
        <3>1. th' = [th EXCEPT ![t].check = Tail(@), ![t].arcs = @ \cup {a},
                               ![t].arc = a, ![t].phase = phase, ![t].path = path]
            BY <2>4 DEF CheckArc
        <3> HIDE DEF phase, path
        <3>2. th' = [th EXCEPT ![t] = opened]
            BY <2>2, <3>1 DEF ThreadState
        <3> QED BY <2>1, <2>4, <3>2
    <2> QED BY <2>3, <2>4
<1>2. /\ Busy(t) /\ th[t] \in ThreadState /\ n \in Net \ Undriven
      /\ n \in Given(t) /\ nw \in NetWires
      /\ th[t].arcs \cup ToSet(th[t].check) \subseteq ToSet(NetArcs[n])
    BY <1>0, <1>1, BusyNet DEF Busy
<1>3. /\ a \in ToSet(NetArcs[n]) /\ Tail(th[t].check) \in Seq(Arc)
      /\ ToSet(Tail(th[t].check)) \subseteq ToSet(NetArcs[n])
      /\ a \in Arc /\ SinkWire[a] \in Wire /\ ArcNet[a] = n
    BY <1>1, <1>2, TailSeq, ArcsOfNet, ArcNetIs, SMTT(60) DEF ThreadState
<1>4. WholeBut(nw, routed, n, NoReg, {}) /\ th[t].reg = NoReg
      /\ \A b \in th[t].arcs : ~routed[b]
    BY <1>0, <1>1, CheckWhole
<1>5. ASSUME routed[a]
      PROVE  /\ Branch(n, SinkWire[a]) \in Seq(PathStep)
             /\ Ripping(nw, routed, n, a, Branch(n, SinkWire[a]), NoReg)
             /\ PathWires(Branch(n, SinkWire[a])) = TrunkIn(nw, n, SinkWire[a])
             /\ ReachesIn(nw, n, SinkWire[a])
    <2>1. /\ ReachesIn(nw, n, SinkWire[a])
          /\ WholeBut(nw, routed, n, a, TrunkIn(nw, n, SinkWire[a]))
        BY <1>2, <1>3, <1>4, <1>5, TakeOut
    <2> DEFINE R == BranchIn(nw, n, SinkWire[a])
    <2>2. R \in Seq(PathStep) /\ OnePass(R) /\ PathWires(R) = TrunkIn(nw, n, SinkWire[a])
        <3> HIDE DEF nw, n, a
        <3> QED BY <1>2, <1>3, <2>1, BranchIs
    <2>3. \A w \in TrunkIn(nw, n, SinkWire[a]) : nw[w] # NoUse /\ w # NetSrc[n]
        BY <1>2, <1>3, <2>1, TrunkIs
    <2> HIDE DEF R
    <2>4. Ripping(nw, routed, n, a, R, NoReg)
        BY <1>3, <2>1, <2>2, <2>3 DEF Ripping
    <2>5. Branch(n, SinkWire[a]) = R
        BY SameNames DEF R
    <2> QED BY <2>1, <2>2, <2>4, <2>5
<1>6. Keeps(a) => ReachesIn(nw, n, SinkWire[a])
    BY <1>3, SameNames DEF Keeps, Legal
<1>7. Trunk(n, SinkWire[a]) = TrunkIn(nw, n, SinkWire[a])
      /\ Trunk(n, SinkWire[a]) \subseteq Wire
    BY <1>2, <1>3, SameNames, TrunkWires
<1>8. kept \in ThreadState /\ opened \in ThreadState
    <2>1. /\ seeds \in SUBSET Wire /\ phase \in {"rip", "check"}
          /\ path \in Seq(PathStep) /\ th[t].arcs \cup {a} \in SUBSET Arc
        BY <1>2, <1>3, <1>5, <1>7 DEF ThreadState
    <2> HIDE DEF seeds, phase, path, a
    <2>2. kept \in ThreadState
        BY <1>2, <1>3, <2>1 DEF ThreadState
    <2>3. opened \in ThreadState
        BY <1>2, <1>3, <2>1 DEF ThreadState
    <2> QED BY <2>2, <2>3
<1>9. /\ x \in ThreadState /\ x.net = n /\ x.nets = th[t].nets /\ x.reg = NoReg
      /\ x.arcs \cup ToSet(x.check) \subseteq ToSet(NetArcs[n])
      /\ x.phase = IF ~Keeps(a) /\ routed[a] THEN "rip" ELSE "check"
    <2>1. CASE Keeps(a)
        <3>1. x = kept
            BY <2>1
        <3> HIDE DEF x, seeds
        <3>2. /\ kept.net = n /\ kept.nets = th[t].nets /\ kept.reg = th[t].reg
              /\ kept.arcs = th[t].arcs /\ kept.check = Tail(th[t].check)
              /\ kept.phase = th[t].phase
            BY <1>2 DEF ThreadState
        <3> HIDE DEF kept
        <3> QED BY <1>1, <1>2, <1>3, <1>4, <1>8, <2>1, <3>1, <3>2
    <2>2. CASE ~Keeps(a)
        <3>1. x = opened
            BY <2>2
        <3> HIDE DEF x, path
        <3>2. /\ opened.net = n /\ opened.nets = th[t].nets
              /\ opened.reg = th[t].reg /\ opened.check = Tail(th[t].check)
              /\ opened.arcs = th[t].arcs \cup {a} /\ opened.phase = phase
            BY <1>2 DEF ThreadState
        <3> HIDE DEF opened
        <3> QED BY <1>1, <1>2, <1>3, <1>4, <1>8, <2>2, <3>1, <3>2
    <2> QED BY <2>1, <2>2
<1>10. /\ x.seeds \subseteq th[t].seeds
            \cup IF Keeps(a) THEN TrunkIn(nw, n, SinkWire[a]) ELSE {}
       /\ x.path = IF Keeps(a) THEN th[t].path
                   ELSE IF routed[a] THEN Branch(n, SinkWire[a]) ELSE <<>>
       /\ ~Keeps(a) => x.arc = a
       /\ x.arcs \subseteq th[t].arcs \cup IF Keeps(a) THEN {} ELSE {a}
    BY <1>2, <1>7 DEF ThreadState
<1> HIDE DEF x, kept, opened
<1>11. ThreadGoes(t, x)
    BY <1>1, <1>2, <1>9 DEF ThreadGoes, plan, Given, Busy
<1>12. net_wires' = net_wires /\ curr_cong' = curr_cong /\ routed' = routed
    BY <1>1 DEF routing
<1>13. TypeInv'
    BY <1>0, <1>1, <1>11, <1>12, ThreadAfter DEF TypeInv, plan
<1>14. Staged'
    BY <1>0, <1>2, <1>9, <1>11, StagedKept
<1>15. TreesInv'
    <2>1. AtWork(x, net_wires'[x.net], routed')
        BY <1>4, <1>5, <1>9, <1>10, <1>12 DEF AtWork
    <2>2. OnlyNet(n)
        BY <1>12 DEF OnlyNet
    <2>3. WholeBut(net_wires'[n], routed', n, NoReg, {})
        BY <1>4, <1>12
    <2> QED BY <1>0, <1>2, <1>9, <1>11, <2>1, <2>2, <2>3, TreesKept
<1>16. BoxesInv'
    <2>1. ASSUME ~strayed, t # 8
          PROVE  \A w \in x.seeds \cup PathWires(x.path) : Inside(t, w)
        <3>1. \A w \in th[t].seeds \cup PathWires(th[t].path) : Inside(t, w)
            BY <1>0, <1>2, <2>1 DEF BoxesInv
        <3>2. Keeps(a) \/ routed[a] =>
                 \A w \in TrunkIn(nw, n, SinkWire[a]) : Inside(t, w)
            BY <1>0, <1>2, <1>3, <1>5, <1>6, <2>1, TrunkInside
        <3>3. PathWires(<<>>) = {}
            BY DEF PathWires, ToSet
        <3> QED BY <1>5, <1>10, <3>1, <3>2, <3>3
    <2> QED BY <1>0, <1>2, <1>11, <1>12, <2>1, BoxesKept DEF Uses
<1>17. CountersInv'
    BY <1>0, <1>1, <1>9, <1>11, <1>12, CountersSame DEF Uses
<1> QED BY <1>13, <1>14, <1>15, <1>16, <1>17 DEF IInv

(* What is known of a thread at work that takes a step. *)
LEMMA AtWorkFacts ==
    ASSUME IInv, NEW t \in Thread, Running(t), Busy(t)
    PROVE  /\ TypeInv /\ Staged /\ TreesInv /\ BoxesInv /\ CountersInv
           /\ pc = "route" /\ t \in StageThreads[stage]
           /\ th[t] \in ThreadState /\ th[t].net \in Net \ Undriven
           /\ th[t].net \in Given(t) /\ net_wires[th[t].net] \in NetWires
           /\ th[t].arcs \cup ToSet(th[t].check) \subseteq ToSet(NetArcs[th[t].net])
           /\ AtWork(th[t], net_wires[th[t].net], routed)
           /\ th \in [Thread -> ThreadState]
BY BusyNet DEF IInv, Running, TreesInv, TypeInv

(* The first half of unbind_pip_internal keeps the invariant: it takes one *)
(* arc off a wire that others need, or loads the congestion counter of a   *)
(* wire that is to be freed.                                               *)
LEMMA RipLoadKeeps ==
    ASSUME IInv, NEW t \in Thread, RipLoad(t)
    PROVE  IInv'
<1> DEFINE n == th[t].net
           path == th[t].path
           w == Head(path).wire
           nw == net_wires[n]
           mw == IF nw[w].count > 1 THEN [nw EXCEPT ![w].count = @ - 1] ELSE nw
           x == IF nw[w].count > 1 THEN [th[t] EXCEPT !.path = Tail(path)]
                ELSE [th[t] EXCEPT !.reg = curr_cong[w]]
<1>1. /\ Running(t) /\ th[t].phase = "rip" /\ path # <<>> /\ th[t].reg = NoReg
      /\ UNCHANGED <<fab, curr_cong, routed, plan, pc, stage>>
    BY ZenonT(60) DEF RipLoad, InPhase
<1>2. Busy(t)
    BY <1>1 DEF Busy
<1>3. /\ TypeInv /\ Staged /\ TreesInv /\ BoxesInv /\ CountersInv
      /\ pc = "route" /\ t \in StageThreads[stage]
      /\ th[t] \in ThreadState /\ n \in Net \ Undriven
      /\ n \in Given(t) /\ nw \in NetWires
      /\ th[t].arcs \cup ToSet(th[t].check) \subseteq ToSet(NetArcs[n])
      /\ AtWork(th[t], nw, routed)
      /\ th \in [Thread -> ThreadState]
    BY <1>1, <1>2, AtWorkFacts
<1>4. Ripping(nw, routed, n, th[t].arc, path, NoReg) /\ path \in Seq(PathStep)
    BY <1>1, <1>3 DEF AtWork, ThreadState
<1>5. /\ OnePass(path) /\ w \in PathWires(path) /\ w \in Wire
      /\ Tail(path) \in Seq(PathStep)
      /\ PathWires(Tail(path)) \subseteq PathWires(path)
    BY <1>1, <1>4, TailPath, PathWiresIn DEF Ripping
<1>6. nw[w] \in Use /\ nw[w] # NoUse
    <2> HIDE DEF nw, w, path
    <2>1. nw[w] # NoUse
        BY <1>4, <1>5 DEF Ripping
    <2> QED BY <1>3, <1>5, <2>1 DEF NetWires
<1>7. /\ mw \in NetWires /\ Ripping(mw, routed, n, th[t].arc, x.path, x.reg)
      /\ \A v \in Wire : mw[v] # NoUse <=> nw[v] # NoUse
    <2>1. CASE nw[w].count > 1
        <3> DEFINE lw == [nw EXCEPT ![w].count = @ - 1]
        <3>1. lw \in NetWires /\ Ripping(lw, routed, n, th[t].arc, Tail(path), NoReg)
            BY <1>1, <1>3, <1>4, <2>1, RipCount
        <3>2. \A v \in Wire : lw[v] # NoUse <=> nw[v] # NoUse
            <4> HIDE DEF nw, w
            <4> QED BY <1>3, <1>5, <1>6, <2>1, CountTaken
        <3>3. x.path = Tail(path) /\ x.reg = NoReg
            <4>1. x = [th[t] EXCEPT !.path = Tail(path)]
                BY <2>1
            <4> HIDE DEF x, path
            <4> QED BY <1>1, <1>3, <4>1, PathOrReg
        <3> QED BY <2>1, <3>1, <3>2, <3>3, ZenonT(60)
    <2>2. CASE ~(nw[w].count > 1)
        <3>1. x.path = path /\ nw[w].count <= 1
            <4>1. x = [th[t] EXCEPT !.reg = curr_cong[w]]
                BY <2>2
            <4>2. x.path = path
                <5> HIDE DEF x
                <5> QED BY <1>3, <4>1, PathOrReg
            <4>3. nw[w].count <= 1
                <5> HIDE DEF nw, w
                <5> QED BY <1>6, <2>2 DEF Use
            <4> QED BY <4>2, <4>3
        <3> QED BY <1>1, <1>3, <1>4, <2>2, <3>1, ZenonT(60) DEF Ripping
    <2> QED BY <2>1, <2>2, ZenonT(60)
<1>8. /\ th' = [th EXCEPT ![t] = x]
      /\ net_wires' = [net_wires EXCEPT ![n] = mw]
    <2>0. net_wires \in [Net -> NetWires]
        BY <1>3, SMTT(60) DEF TypeInv
    <2>1. CASE nw[w].count > 1
        <3>1. /\ net_wires' = [net_wires EXCEPT ![n][w].count = @ - 1]
              /\ th' = [th EXCEPT ![t].path = Tail(@)]
            BY <2>1, ZenonT(60) DEF RipLoad
        <3> QED BY <2>1, <3>1, ZenonT(60)
    <2>2. CASE ~(nw[w].count > 1)
        <3>1. net_wires' = net_wires /\ th' = [th EXCEPT ![t].reg = curr_cong[w]]
            BY <2>2, ZenonT(60) DEF RipLoad
        <3> QED BY <2>0, <2>2, <3>1, ZenonT(60)
    <2> QED BY <2>1, <2>2, ZenonT(60)
<1>9. /\ x \in ThreadState /\ x.net = n /\ x.nets = th[t].nets /\ x.phase = "rip"
      /\ x.arcs = th[t].arcs /\ x.arc = th[t].arc /\ x.check = th[t].check
      /\ x.seeds = th[t].seeds /\ PathWires(x.path) \subseteq PathWires(path)
      /\ x.reg # NoReg => x.reg = curr_cong[Head(x.path).wire]
    <2>1. curr_cong[w] \in Int
        BY <1>3, <1>5, SMTT(60) DEF TypeInv
    <2>2. CASE nw[w].count > 1
        BY <1>1, <1>3, <1>5, <2>2, ZenonT(60) DEF ThreadState
    <2>3. CASE ~(nw[w].count > 1)
        BY <1>1, <1>3, <1>5, <2>1, <2>3, ZenonT(60) DEF ThreadState
    <2> QED BY <2>2, <2>3, ZenonT(60)
<1> HIDE DEF x, mw
<1>10. ThreadGoes(t, x)
    BY <1>1, <1>2, <1>3, <1>8, <1>9 DEF ThreadGoes, plan, Given
<1>11. /\ net_wires' \in [Net -> NetWires] /\ net_wires'[n] = mw
       /\ \A m \in Net : m # n => net_wires'[m] = net_wires[m]
    BY <1>3, <1>7, <1>8 DEF TypeInv
<1>12. TypeInv'
    BY <1>1, <1>3, <1>10, <1>11, ThreadAfter DEF TypeInv, plan
<1>13. Staged'
    BY <1>3, <1>9, <1>10, StagedKept
<1>14. TreesInv'
    <2>1. AtWork(x, net_wires'[x.net], routed')
        BY <1>1, <1>3, <1>7, <1>9, <1>11 DEF AtWork
    <2>2. OnlyNet(n)
        BY <1>1, <1>11 DEF OnlyNet
    <2> QED BY <1>3, <1>9, <1>10, <2>1, <2>2, TreesKept
<1>15. BoxesInv'
    <2>1. ASSUME ~strayed, t # 8
          PROVE  \A v \in x.seeds \cup PathWires(x.path) : Inside(t, v)
        BY <1>2, <1>3, <1>9, <2>1 DEF BoxesInv
    <2>2. \A v \in Wire : net_wires'[n][v] # NoUse => Uses(n, v)
        BY <1>7, <1>11 DEF Uses
    <2> QED BY <1>3, <1>10, <1>11, <2>1, <2>2, BoxesKept
<1>16. CountersInv'
    <2>1. \A m \in Net, v \in Wire : Uses(m, v)' <=> Uses(m, v)
        BY <1>7, <1>11 DEF Uses
    <2> QED BY <1>1, <1>3, <1>9, <1>10, <2>1, CountersSame
<1> QED BY <1>12, <1>13, <1>14, <1>15, <1>16 DEF IInv

(* The counter, the increments under way and the users of one wire change  *)
(* together.                                                               *)
LEMMA CardBut ==
    ASSUME NEW S, IsFiniteSet(S), NEW e
    PROVE  /\ Cardinality(S \ {e}) \in Nat
           /\ Cardinality(S) = Cardinality(S \ {e}) + IF e \in S THEN 1 ELSE 0
<1>1. IsFiniteSet(S \ {e}) /\ Cardinality(S \ {e}) \in Nat /\ Cardinality(S) \in Nat
    BY FS_RemoveElement, FS_CardinalityType
<1>2. Cardinality(S \ {e}) = IF e \in S THEN Cardinality(S) - 1 ELSE Cardinality(S)
    BY FS_RemoveElement
<1> QED BY <1>1, <1>2

Balanced(t, x, n, w, c) ==
    c + (IF x.phase = "bind" /\ x.reg # NoReg THEN 1 ELSE 0)
      + (IF net_wires[n][w] # NoUse THEN 1 ELSE 0)
  = curr_cong[w]
      + (IF th[t].phase = "bind" /\ th[t].reg # NoReg THEN 1 ELSE 0)
      + (IF net_wires'[n][w] # NoUse THEN 1 ELSE 0)

(* When a step of one thread changes the counter of one wire, the counters *)
(* stay exact if the counter, the increment under way and the users of     *)
(* that wire change together.                                              *)
LEMMA CountersMove ==
    ASSUME TypeInv, TypeInv', Staged, TreesInv, BoxesInv, CountersInv,
           NEW t \in Thread, Busy(t), NEW x, ThreadGoes(t, x),
           NEW n \in Net, NEW w \in PathWires(th[t].path), NEW c \in Int,
           curr_cong' = [curr_cong EXCEPT ![w] = c],
           \A m \in Net, v \in Wire :
              ~(m = n /\ v = w) => (net_wires'[m][v] # NoUse <=> net_wires[m][v] # NoUse),
           th[t].reg # NoReg => Head(th[t].path).wire = w,
           x.reg # NoReg => Head(x.path).wire = w /\ x.reg = c,
           ~strayed => Balanced(t, x, n, w, c)
    PROVE  CountersInv'
<1> SUFFICES ASSUME ~strayed PROVE CountersInv'
    BY DEF CountersInv, ThreadGoes
<1>1. /\ th'[t] = x /\ \A u \in Thread : u # t => th'[u] = th[u]
    BY ThreadAfter
<1>2. th[t].path \in Seq(PathStep) /\ w \in Wire
    BY PathWiresIn DEF TypeInv, ThreadState
<1>3. /\ curr_cong'[w] = c /\ curr_cong[w] \in Int
      /\ \A v \in Wire : v # w => curr_cong'[v] = curr_cong[v]
    BY <1>2 DEF TypeInv
<1> DEFINE I(v) == Incrementing(v)
           C(v) == {m \in Net : Uses(m, v)}
<1>4. ASSUME NEW v \in Wire, v # w PROVE I(v)' = I(v) /\ C(v)' = C(v)
    <2>1. I(v)' = I(v)
        BY <1>1, <1>4 DEF Incrementing
    <2> QED BY <2>1, <1>4 DEF Uses
<1>5. I(w)' \ {t} = I(w) \ {t} /\ C(w)' \ {n} = C(w) \ {n}
    <2>1. I(w)' \ {t} = I(w) \ {t}
        BY <1>1 DEF Incrementing
    <2> QED BY <2>1, <1>2 DEF Uses
<1>6. /\ t \in I(w) <=> th[t].phase = "bind" /\ th[t].reg # NoReg
      /\ t \in I(w)' <=> x.phase = "bind" /\ x.reg # NoReg
      /\ n \in C(w) <=> net_wires[n][w] # NoUse
      /\ n \in C(w)' <=> net_wires'[n][w] # NoUse
    BY <1>1 DEF Incrementing, Uses
<1>7. /\ IsFiniteSet(I(w)) /\ IsFiniteSet(I(w)')
      /\ IsFiniteSet(C(w)) /\ IsFiniteSet(C(w)')
    <2>1. /\ I(w) \subseteq Thread /\ I(w)' \subseteq Thread
          /\ C(w) \subseteq Net /\ C(w)' \subseteq Net
        BY DEF Incrementing
    <2> QED BY <2>1, FiniteNets, FS_Subset
<1>8. curr_cong[w] + Cardinality(I(w)) = Cardinality(C(w))
    BY <1>2 DEF CountersInv, CountersExact
<1> HIDE DEF I, C
<1>9. curr_cong'[w] + Cardinality(I(w)') = Cardinality(C(w)')
    <2>1. /\ Cardinality(I(w) \ {t}) \in Nat
          /\ Cardinality(I(w)) = Cardinality(I(w) \ {t}) + IF t \in I(w) THEN 1 ELSE 0
          /\ Cardinality(I(w)') = Cardinality(I(w)' \ {t}) + IF t \in I(w)' THEN 1 ELSE 0
        BY <1>7, CardBut
    <2>2. /\ Cardinality(C(w) \ {n}) \in Nat
          /\ Cardinality(C(w)) = Cardinality(C(w) \ {n}) + IF n \in C(w) THEN 1 ELSE 0
          /\ Cardinality(C(w)') = Cardinality(C(w)' \ {n}) + IF n \in C(w)' THEN 1 ELSE 0
        BY <1>7, CardBut
    <2> DEFINE i0 == IF th[t].phase = "bind" /\ th[t].reg # NoReg THEN 1 ELSE 0
               i1 == IF x.phase = "bind" /\ x.reg # NoReg THEN 1 ELSE 0
               u0 == IF net_wires[n][w] # NoUse THEN 1 ELSE 0
               u1 == IF net_wires'[n][w] # NoUse THEN 1 ELSE 0
               K == Cardinality(I(w) \ {t})
               L == Cardinality(C(w) \ {n})
    <2>3. /\ Cardinality(I(w)) = K + i0 /\ Cardinality(I(w)') = K + i1
          /\ Cardinality(C(w)) = L + u0 /\ Cardinality(C(w)') = L + u1
          /\ K \in Nat /\ L \in Nat
        BY <2>1, <2>2, <1>5, <1>6
    <2>4. c + i1 + u0 = curr_cong[w] + i0 + u1
        BY DEF Balanced
    <2>5. i0 \in Nat /\ i1 \in Nat /\ u0 \in Nat /\ u1 \in Nat
        OBVIOUS
    <2>6. curr_cong[w] \in Int /\ curr_cong[w] + (K + i0) = L + u0
        BY <2>3, <1>3, <1>8
    <2>7. c + (K + i1) = L + u1
        <3> DEFINE g == curr_cong[w]
        <3>1. g \in Int /\ g + (K + i0) = L + u0 /\ c + i1 + u0 = g + i0 + u1
            BY <2>4, <2>6
        <3>2. K \in Nat /\ L \in Nat
            BY <2>3
        <3> HIDE DEF g, K, L, i0, i1, u0, u1
        <3> QED BY ONLY <2>5, <3>1, <3>2, c \in Int
    <2> HIDE DEF K, L, i0, i1, u0, u1
    <2> QED BY <2>3, <2>7, <1>3
<1>10. ASSUME NEW v \in Wire
       PROVE  curr_cong'[v] + Cardinality(I(v)') = Cardinality(C(v)')
    <2>1. CASE v = w
        BY <2>1, <1>9
    <2>2. CASE v # w
        <3>1. curr_cong[v] + Cardinality(I(v)) = Cardinality(C(v))
            BY DEF CountersInv, CountersExact, I, C
        <3> QED BY <2>2, <3>1, <1>3, <1>4
    <2> QED BY <2>1, <2>2
<1>11. CountersExact'
    BY <1>10 DEF CountersExact, I, C
<1>12. ASSUME NEW u \in Thread, th'[u].reg # NoReg
       PROVE  th'[u].reg = curr_cong'[Head(th'[u].path).wire]
    <2>1. CASE u = t
        BY <2>1, <1>1, <1>3, <1>12
    <2>2. CASE u # t
        <3>1. th'[u] = th[u]
            BY <2>2, <1>1
        <3>2. Head(th[u].path).wire # w
            BY <3>1, <2>2, <1>12, RegApart
        <3>3. th[u].reg = curr_cong[Head(th[u].path).wire]
            BY <3>1, <1>12 DEF CountersInv
        <3>4. curr_cong'[Head(th[u].path).wire] = curr_cong[Head(th[u].path).wire]
            BY <3>2, <1>2
        <3> QED BY <3>1, <3>3, <3>4
    <2> QED BY <2>1, <2>2
<1> QED BY <1>11, <1>12 DEF CountersInv

(* The second half of unbind_pip_internal keeps the invariant: the         *)
(* decremented counter is stored and the wire leaves the map, and no other *)
(* thread has touched the counter since it was loaded.                     *)
LEMMA RipStoreKeeps ==
    ASSUME IInv, NEW t \in Thread, RipStore(t)
    PROVE  IInv'
<1> DEFINE n == th[t].net
           path == th[t].path
           w == Head(path).wire
           nw == net_wires[n]
           mw == [nw EXCEPT ![w] = NoUse]
           x == [th[t] EXCEPT !.path = Tail(path), !.reg = NoReg]
<1>1. /\ Running(t) /\ th[t].phase = "rip" /\ th[t].reg # NoReg
      /\ curr_cong' = [curr_cong EXCEPT ![w] = th[t].reg - 1]
      /\ net_wires' = [net_wires EXCEPT ![n][w] = NoUse]
      /\ UNCHANGED <<fab, routed, plan, pc, stage>>
    BY DEF RipStore, InPhase, Freed
<1>2. Busy(t)
    BY <1>1 DEF Busy
<1>3. /\ TypeInv /\ Staged /\ TreesInv /\ BoxesInv /\ CountersInv
      /\ pc = "route" /\ t \in StageThreads[stage]
      /\ th[t] \in ThreadState /\ n \in Net \ Undriven
      /\ n \in Given(t) /\ nw \in NetWires
      /\ th[t].arcs \cup ToSet(th[t].check) \subseteq ToSet(NetArcs[n])
      /\ AtWork(th[t], nw, routed)
      /\ th \in [Thread -> ThreadState]
    BY <1>1, <1>2, AtWorkFacts
<1>4. Ripping(nw, routed, n, th[t].arc, path, th[t].reg) /\ path \in Seq(PathStep)
    BY <1>1, <1>3 DEF AtWork, ThreadState
<1>5. /\ OnePass(path) /\ w \in PathWires(path) /\ w \in Wire
      /\ Tail(path) \in Seq(PathStep) /\ path # <<>>
      /\ PathWires(Tail(path)) \subseteq PathWires(path)
      /\ th[t].reg \in Int
    BY <1>1, <1>3, <1>4, TailPath, PathWiresIn DEF Ripping, ThreadState
<1>6. nw[w] # NoUse
    BY <1>4, <1>5 DEF Ripping
<1>7. mw \in NetWires /\ Ripping(mw, routed, n, th[t].arc, Tail(path), NoReg)
    BY <1>1, <1>3, <1>4, RipFree
<1>8. /\ th' = [th EXCEPT ![t] = x]
      /\ net_wires' = [net_wires EXCEPT ![n] = mw]
    <2>1. th' = [th EXCEPT ![t].path = Tail(@), ![t].reg = NoReg]
        BY DEF RipStore
    <2>2. th' = [th EXCEPT ![t] = x]
        BY <2>1, <1>3 DEF ThreadState
    <2> QED BY <2>2, <1>1
<1>9. /\ x \in ThreadState /\ x.net = n /\ x.nets = th[t].nets /\ x.phase = "rip"
      /\ x.arcs = th[t].arcs /\ x.arc = th[t].arc /\ x.check = th[t].check
      /\ x.seeds = th[t].seeds /\ x.path = Tail(path) /\ x.reg = NoReg
    BY <1>1, <1>3, <1>5 DEF ThreadState
<1>10. mw[w] = NoUse /\ \A v \in Wire : v # w => mw[v] = nw[v]
    BY <1>3, <1>5 DEF NetWires
<1> HIDE DEF x, mw
<1>11. ThreadGoes(t, x)
    BY <1>1, <1>2, <1>3, <1>8, <1>9 DEF ThreadGoes, plan, Given
<1>12. /\ net_wires' \in [Net -> NetWires] /\ net_wires'[n] = mw
       /\ \A m \in Net : m # n => net_wires'[m] = net_wires[m]
    BY <1>3, <1>7, <1>8 DEF TypeInv
<1>13. TypeInv'
    <2>1. curr_cong' \in [Wire -> Int]
        BY <1>1, <1>3, <1>5 DEF TypeInv
    <2> QED BY <1>1, <1>3, <1>11, <1>12, <2>1, ThreadAfter DEF TypeInv, plan
<1>14. Staged'
    BY <1>3, <1>9, <1>11, StagedKept
<1>15. TreesInv'
    <2>1. AtWork(x, net_wires'[x.net], routed')
        BY <1>1, <1>3, <1>7, <1>9, <1>12 DEF AtWork
    <2>2. OnlyNet(n)
        BY <1>1, <1>12 DEF OnlyNet
    <2> QED BY <1>3, <1>9, <1>11, <2>1, <2>2, TreesKept
<1>16. BoxesInv'
    <2>1. ASSUME ~strayed, t # 8
          PROVE  \A v \in x.seeds \cup PathWires(x.path) : Inside(t, v)
        BY <1>2, <1>3, <1>5, <1>9, <2>1 DEF BoxesInv
    <2>2. \A v \in Wire : net_wires'[n][v] # NoUse => Uses(n, v)
        BY <1>6, <1>10, <1>12 DEF Uses
    <2> QED BY <1>3, <1>11, <1>12, <2>1, <2>2, BoxesKept
<1>17. CountersInv'
    <2>1. \A m \in Net, v \in Wire : ~(m = n /\ v = w) =>
             (net_wires'[m][v] # NoUse <=> net_wires[m][v] # NoUse)
        BY <1>10, <1>12
    <2>2. net_wires[n][w] # NoUse /\ net_wires'[n][w] = NoUse
        BY <1>6, <1>10, <1>12
    <2>3. ~strayed => th[t].reg = curr_cong[w]
        BY <1>1, <1>3 DEF CountersInv
    <2> DEFINE c == th[t].reg - 1
    <2>4. c \in Int /\ curr_cong[w] \in Int
        BY <1>3, <1>5 DEF TypeInv
    <2>5. c + 1 = th[t].reg
        BY <1>5
    <2>6. /\ curr_cong' = [curr_cong EXCEPT ![w] = c] /\ w \in PathWires(th[t].path)
          /\ Head(th[t].path).wire = w
        BY <1>1, <1>5
    <2>7. ~(x.phase = "bind" /\ x.reg # NoReg) /\ ~(th[t].phase = "bind" /\ th[t].reg # NoReg)
        BY <1>1, <1>9
    <2> HIDE DEF c, w, n
    <2>8. ~strayed => Balanced(t, x, n, w, c)
        BY <2>2, <2>3, <2>4, <2>5, <2>7 DEF Balanced
    <2>9. x.reg = NoReg
        BY <1>9
    <2> QED BY <1>2, <1>3, <1>11, <1>13, <2>1, <2>4, <2>6, <2>8, <2>9, CountersMove, ZenonT(60)
<1> QED BY <1>13, <1>14, <1>15, <1>16, <1>17 DEF IInv

(* The end of ripup_arc keeps the invariant: the arc no longer counts      *)
(* anywhere and is flagged as not routed.                                  *)
LEMMA RipDoneKeeps ==
    ASSUME IInv, NEW t \in Thread, RipDone(t)
    PROVE  IInv'
<1> DEFINE n == th[t].net
           a == th[t].arc
           nw == net_wires[n]
           x == [th[t] EXCEPT !.phase = "check"]
<1>1. /\ Running(t) /\ th[t].phase = "rip" /\ th[t].path = <<>>
      /\ routed' = [routed EXCEPT ![a] = FALSE]
      /\ th' = [th EXCEPT ![t].phase = "check"]
      /\ UNCHANGED <<fab, net_wires, curr_cong, plan, pc, stage>>
    BY DEF RipDone, InPhase
<1>2. Busy(t)
    BY <1>1 DEF Busy
<1>3. /\ TypeInv /\ Staged /\ TreesInv /\ BoxesInv /\ CountersInv
      /\ pc = "route" /\ t \in StageThreads[stage]
      /\ th[t] \in ThreadState /\ n \in Net \ Undriven
      /\ n \in Given(t) /\ nw \in NetWires
      /\ th[t].arcs \cup ToSet(th[t].check) \subseteq ToSet(NetArcs[n])
      /\ AtWork(th[t], nw, routed)
      /\ th \in [Thread -> ThreadState]
    BY <1>1, <1>2, AtWorkFacts
<1>4. Ripping(nw, routed, n, a, <<>>, th[t].reg)
    BY <1>1, <1>3 DEF AtWork
<1>5. a \in ToSet(NetArcs[n]) /\ a \in Arc /\ th[t].reg = NoReg
    BY <1>3, <1>4, ArcsOfNet DEF Ripping
<1>6. routed' \in [Arc -> BOOLEAN] /\ ~routed'[a]
      /\ \A b \in Arc : b # a => routed'[b] = routed[b]
    BY <1>1, <1>3, <1>5 DEF TypeInv
<1>7. WholeBut(nw, routed', n, NoReg, {})
    <2>1. routed \in [Arc -> BOOLEAN]
        BY <1>3 DEF TypeInv
    <2> QED BY <1>1, <1>3, <1>4, <1>5, <2>1, RipEnd
<1>8. th' = [th EXCEPT ![t] = x]
    BY <1>1, <1>3
<1>9. /\ x \in ThreadState /\ x.net = n /\ x.nets = th[t].nets /\ x.phase = "check"
      /\ x.arcs = th[t].arcs /\ x.check = th[t].check
      /\ x.seeds = th[t].seeds /\ x.path = th[t].path /\ x.reg = NoReg
    BY <1>3, <1>5 DEF ThreadState
<1> HIDE DEF x
<1>10. ThreadGoes(t, x)
    BY <1>1, <1>2, <1>3, <1>8, <1>9 DEF ThreadGoes, plan, Given
<1>11. TypeInv'
    BY <1>1, <1>3, <1>6, <1>10, ThreadAfter DEF TypeInv, plan
<1>12. Staged'
    BY <1>3, <1>9, <1>10, StagedKept
<1>13. TreesInv'
    <2>1. \A b \in x.arcs : ~routed'[b]
        <3>1. \A b \in x.arcs : b \in Arc /\ (routed[b] => b = a)
            BY <1>1, <1>2, <1>3, <1>9, ArcsOfNet DEF AtWork, Busy
        <3> QED BY <3>1, <1>6
    <2>2. AtWork(x, net_wires'[x.net], routed')
        BY <1>9, <2>1 DEF AtWork
    <2>3. OnlyNet(n)
        BY <1>1, <1>5, <1>6 DEF OnlyNet
    <2>4. WholeBut(net_wires'[n], routed', n, NoReg, {})
        BY <1>1, <1>7
    <2> QED BY <1>3, <1>9, <1>10, <2>2, <2>3, <2>4, TreesKept
<1>14. BoxesInv'
    <2>1. ASSUME ~strayed, t # 8
          PROVE  \A v \in x.seeds \cup PathWires(x.path) : Inside(t, v)
        BY <1>2, <1>3, <1>9, <2>1 DEF BoxesInv
    <2> QED BY <1>1, <1>3, <1>10, <2>1, BoxesKept DEF Uses
<1>15. CountersInv'
    BY <1>1, <1>3, <1>9, <1>10, CountersSame DEF Uses
<1> QED BY <1>11, <1>12, <1>13, <1>14, <1>15 DEF IInv

(* The end of the binding of a path keeps the invariant: the arc reaches   *)
(* its source, counts on all its wires and is flagged as routed.           *)
LEMMA BindDoneKeeps ==
    ASSUME IInv, NEW t \in Thread, BindDone(t)
    PROVE  IInv'
<1> DEFINE n == th[t].net
           a == th[t].arc
           w == SinkWire[a]
           nw == net_wires[n]
           x == [th[t] EXCEPT !.phase = "check", !.sinks = th[t].sinks \cup {w},
                              !.seeds = th[t].seeds \cup Trunk(n, w)]
<1>1. /\ Running(t) /\ th[t].phase = "bind" /\ th[t].path = <<>>
      /\ routed' = [routed EXCEPT ![a] = TRUE]
      /\ UNCHANGED <<fab, net_wires, curr_cong, plan, pc, stage>>
    BY DEF BindDone, InPhase
<1>2. Busy(t)
    BY <1>1 DEF Busy
<1>3. /\ TypeInv /\ Staged /\ TreesInv /\ BoxesInv /\ CountersInv
      /\ pc = "route" /\ t \in StageThreads[stage]
      /\ th[t] \in ThreadState /\ n \in Net \ Undriven
      /\ n \in Given(t) /\ nw \in NetWires
      /\ th[t].arcs \cup ToSet(th[t].check) \subseteq ToSet(NetArcs[n])
      /\ AtWork(th[t], nw, routed)
      /\ th \in [Thread -> ThreadState]
    BY <1>1, <1>2, AtWorkFacts
<1>4. Binding(nw, routed, n, a, <<>>, th[t].reg) /\ a \notin th[t].arcs
    BY <1>1, <1>3 DEF AtWork
<1>5. a \in ToSet(NetArcs[n]) /\ a \in Arc /\ w \in Wire /\ th[t].reg = NoReg
    BY <1>3, <1>4, ArcsOfNet DEF Binding
<1>6. routed' \in [Arc -> BOOLEAN]
      /\ \A b \in Arc : b # a => routed'[b] = routed[b]
    BY <1>1, <1>3, <1>5 DEF TypeInv
<1>7. ReachesIn(nw, n, w) /\ WholeBut(nw, routed', n, NoReg, {})
    <2>1. routed \in [Arc -> BOOLEAN]
        BY <1>3 DEF TypeInv
    <2> QED BY <1>1, <1>3, <1>4, <1>5, <2>1, BindEnd
<1>8. Trunk(n, w) = TrunkIn(nw, n, w) /\ Trunk(n, w) \subseteq Wire
    BY <1>3, <1>5, SameNames, TrunkWires
<1>9. th' = [th EXCEPT ![t] = x]
    <2>1. th' = [th EXCEPT ![t].phase = "check", ![t].sinks = @ \cup {w},
                           ![t].seeds = @ \cup Trunk(n, w)]
        BY DEF BindDone
    <2> DEFINE T == Trunk(n, w)
    <2> HIDE DEF T, w
    <2> QED BY <1>3, <2>1 DEF ThreadState, T
<1>10. /\ x \in ThreadState /\ x.net = n /\ x.nets = th[t].nets /\ x.phase = "check"
       /\ x.arcs = th[t].arcs /\ x.check = th[t].check
       /\ x.seeds = th[t].seeds \cup TrunkIn(nw, n, w)
       /\ x.path = th[t].path /\ x.reg = NoReg
    <2> DEFINE T == Trunk(n, w)
    <2>1. T = TrunkIn(nw, n, w) /\ T \subseteq Wire
        BY <1>8
    <2> HIDE DEF T
    <2> QED BY <1>3, <1>5, <2>1, ZenonT(60) DEF ThreadState, T
<1> HIDE DEF x
<1>11. ThreadGoes(t, x)
    BY <1>1, <1>2, <1>3, <1>9, <1>10 DEF ThreadGoes, plan, Given
<1>12. TypeInv'
    BY <1>1, <1>3, <1>6, <1>11, ThreadAfter DEF TypeInv, plan
<1>13. Staged'
    BY <1>3, <1>10, <1>11, StagedKept
<1>14. TreesInv'
    <2>1. \A b \in x.arcs : ~routed'[b]
        <3>1. \A b \in x.arcs : b \in Arc /\ b # a /\ ~routed[b]
            BY <1>1, <1>2, <1>3, <1>4, <1>10, ArcsOfNet DEF AtWork, Busy
        <3> QED BY <3>1, <1>6
    <2>2. AtWork(x, net_wires'[x.net], routed')
        BY <1>10, <2>1 DEF AtWork
    <2>3. OnlyNet(n)
        BY <1>1, <1>5, <1>6 DEF OnlyNet
    <2>4. WholeBut(net_wires'[n], routed', n, NoReg, {})
        BY <1>1, <1>7
    <2> QED BY <1>3, <1>10, <1>11, <2>2, <2>3, <2>4, TreesKept
<1>15. BoxesInv'
    <2>1. ASSUME ~strayed, t # 8
          PROVE  \A v \in x.seeds \cup PathWires(x.path) : Inside(t, v)
        <3>1. \A v \in TrunkIn(nw, n, w) : Inside(t, v)
            BY <1>2, <1>3, <1>5, <1>7, <2>1, TrunkInside
        <3> QED BY <1>2, <1>3, <1>10, <2>1, <3>1 DEF BoxesInv
    <2> QED BY <1>1, <1>3, <1>11, <2>1, BoxesKept DEF Uses
<1>16. CountersInv'
    BY <1>1, <1>3, <1>5, <1>10, <1>11, CountersSame DEF Uses
<1> QED BY <1>12, <1>13, <1>14, <1>15, <1>16 DEF IInv

(* The second half of bind_pip_internal keeps the invariant: the           *)
(* incremented counter is stored, and no other thread has touched it since *)
(* it was loaded.                                                          *)
LEMMA BindStoreKeeps ==
    ASSUME IInv, NEW t \in Thread, BindStore(t)
    PROVE  IInv'
<1> DEFINE n == th[t].net
           path == th[t].path
           w == Head(path).wire
           nw == net_wires[n]
           c == th[t].reg + 1
           x == [th[t] EXCEPT !.path = Tail(path), !.reg = NoReg]
<1>1. /\ Running(t) /\ th[t].phase = "bind" /\ th[t].reg # NoReg
      /\ curr_cong' = [curr_cong EXCEPT ![w] = c]
      /\ UNCHANGED <<fab, net_wires, routed, plan, pc, stage>>
    BY DEF BindStore, InPhase
<1>2. Busy(t)
    BY <1>1 DEF Busy
<1>3. /\ TypeInv /\ Staged /\ TreesInv /\ BoxesInv /\ CountersInv
      /\ pc = "route" /\ t \in StageThreads[stage]
      /\ th[t] \in ThreadState /\ n \in Net \ Undriven
      /\ n \in Given(t) /\ nw \in NetWires
      /\ th[t].arcs \cup ToSet(th[t].check) \subseteq ToSet(NetArcs[n])
      /\ AtWork(th[t], nw, routed)
      /\ th \in [Thread -> ThreadState]
    BY <1>1, <1>2, AtWorkFacts
<1>4. /\ Binding(nw, routed, n, th[t].arc, path, th[t].reg)
      /\ path \in Seq(PathStep) /\ th[t].arc \notin th[t].arcs
    BY <1>1, <1>3 DEF AtWork, ThreadState
<1>5. path # <<>> /\ OnePass(path)
    BY <1>1, <1>4 DEF Binding
<1>6. /\ w \in PathWires(path) /\ w \in Wire
      /\ Tail(path) \in Seq(PathStep)
      /\ PathWires(Tail(path)) \subseteq PathWires(path)
      /\ th[t].reg \in Int /\ c \in Int
    BY <1>1, <1>3, <1>4, <1>5, TailPath, PathWiresIn DEF ThreadState
<1>7. Binding(nw, routed, n, th[t].arc, Tail(path), NoReg)
    BY <1>1, <1>3, <1>4, BindStored
<1>8. th' = [th EXCEPT ![t] = x]
    <2>1. th' = [th EXCEPT ![t].path = Tail(@), ![t].reg = NoReg]
        BY DEF BindStore
    <2> QED BY <2>1, <1>3 DEF ThreadState
<1>9. /\ x \in ThreadState /\ x.net = n /\ x.nets = th[t].nets /\ x.phase = "bind"
      /\ x.arcs = th[t].arcs /\ x.arc = th[t].arc /\ x.check = th[t].check
      /\ x.seeds = th[t].seeds /\ x.path = Tail(path) /\ x.reg = NoReg
    BY <1>1, <1>3, <1>6 DEF ThreadState
<1> HIDE DEF x, c
<1>10. ThreadGoes(t, x)
    BY <1>1, <1>2, <1>3, <1>8, <1>9 DEF ThreadGoes, plan, Given
<1>11. TypeInv'
    <2>1. curr_cong' \in [Wire -> Int]
        BY <1>1, <1>3, <1>6 DEF TypeInv
    <2> QED BY <1>1, <1>3, <1>10, <2>1, ThreadAfter DEF TypeInv, plan
<1>12. Staged'
    BY <1>3, <1>9, <1>10, StagedKept
<1>13. TreesInv'
    <2>1. AtWork(x, net_wires'[x.net], routed')
        BY <1>1, <1>2, <1>3, <1>4, <1>7, <1>9 DEF AtWork, Busy
    <2>2. OnlyNet(n)
        BY <1>1 DEF OnlyNet
    <2> QED BY <1>3, <1>9, <1>10, <2>1, <2>2, TreesKept
<1>14. BoxesInv'
    <2>1. ASSUME ~strayed, t # 8
          PROVE  \A v \in x.seeds \cup PathWires(x.path) : Inside(t, v)
        BY <1>2, <1>3, <1>6, <1>9, <2>1 DEF BoxesInv
    <2> QED BY <1>1, <1>3, <1>10, <2>1, BoxesKept DEF Uses
<1>15. CountersInv'
    <2>1. net_wires[n][w] # NoUse /\ net_wires'[n][w] # NoUse
        BY <1>1, <1>4 DEF Binding
    <2>2. ~strayed => th[t].reg = curr_cong[w]
        BY <1>1, <1>3 DEF CountersInv
    <2>3. curr_cong[w] \in Int
        BY <1>3, <1>6 DEF TypeInv
    <2>4. c = th[t].reg + 1 /\ c \in Int
        BY <1>6 DEF c
    <2>5. /\ curr_cong' = [curr_cong EXCEPT ![w] = c] /\ w \in PathWires(th[t].path)
          /\ Head(th[t].path).wire = w
        BY <1>1, <1>6
    <2>6. \A m \in Net, v \in Wire : ~(m = n /\ v = w) =>
             (net_wires'[m][v] # NoUse <=> net_wires[m][v] # NoUse)
        BY <1>1
    <2> HIDE DEF w, n
    <2>7. ~strayed => Balanced(t, x, n, w, c)
        BY <1>1, <1>9, <2>1, <2>2, <2>3, <2>4 DEF Balanced
    <2>8. x.reg = NoReg
        BY <1>9
    <2>9. TypeInv /\ Staged /\ TreesInv /\ BoxesInv /\ CountersInv /\ n \in Net /\ c \in Int
        BY <1>3, <2>4
    <2> QED BY <1>2, <1>10, <1>11, <2>5, <2>6, <2>7, <2>8, <2>9, CountersMove, ZenonT(60)
<1> QED BY <1>11, <1>12, <1>13, <1>14, <1>15 DEF IInv

(* The first half of bind_pip_internal keeps the invariant: the arc counts *)
(* on a wire the net has, or the wire enters the map and its counter is    *)
(* loaded.                                                                 *)
LEMMA BindLoadKeeps ==
    ASSUME IInv, NEW t \in Thread, BindLoad(t)
    PROVE  IInv'
<1> DEFINE n == th[t].net
           path == th[t].path
           b == Head(path)
           w == b.wire
           nw == net_wires[n]
           use == IF nw[w] # NoUse THEN OneMore(n, w) ELSE [pip |-> b.pip, count |-> 1]
           mw == [nw EXCEPT ![w] = use]
           x == IF nw[w] # NoUse THEN [th[t] EXCEPT !.path = Tail(path)]
                ELSE [th[t] EXCEPT !.reg = curr_cong[w]]
<1>1. /\ Running(t) /\ th[t].phase = "bind" /\ path # <<>> /\ th[t].reg = NoReg
      /\ UNCHANGED <<fab, curr_cong, routed, plan, pc, stage>>
    BY DEF BindLoad, InPhase
<1>2. Busy(t)
    BY <1>1 DEF Busy
<1>3. /\ TypeInv /\ Staged /\ TreesInv /\ BoxesInv /\ CountersInv
      /\ pc = "route" /\ t \in StageThreads[stage]
      /\ th[t] \in ThreadState /\ n \in Net \ Undriven
      /\ n \in Given(t) /\ nw \in NetWires
      /\ th[t].arcs \cup ToSet(th[t].check) \subseteq ToSet(NetArcs[n])
      /\ AtWork(th[t], nw, routed)
      /\ th \in [Thread -> ThreadState]
    BY <1>1, <1>2, AtWorkFacts
<1>4. /\ Binding(nw, routed, n, th[t].arc, path, NoReg)
      /\ path \in Seq(PathStep) /\ th[t].arc \notin th[t].arcs
    BY <1>1, <1>3 DEF AtWork, ThreadState
<1>5. /\ OnePass(path) /\ b \in PathStep /\ w \in PathWires(path) /\ w \in Wire
      /\ Tail(path) \in Seq(PathStep)
      /\ PathWires(Tail(path)) \subseteq PathWires(path)
      /\ curr_cong[w] \in Int /\ curr_cong[w] # NoReg
    <2>1. OnePass(path)
        BY <1>4 DEF Binding
    <2>2. /\ b \in PathStep /\ w \in PathWires(path) /\ w \in Wire
          /\ Tail(path) \in Seq(PathStep)
          /\ PathWires(Tail(path)) \subseteq PathWires(path)
        BY <1>1, <1>4, <2>1, TailPath, PathWiresIn
    <2> QED BY <1>3, <2>1, <2>2, Router2Assumption DEF TypeInv
<1>6. nw[w] # NoUse => nw[w].pip = b.pip
    BY DEF BindLoad, BindAsserts, Uses
<1>7. /\ th' = [th EXCEPT ![t] = x]
      /\ net_wires' = [net_wires EXCEPT ![n] = mw]
    <2>1. CASE nw[w] # NoUse
        <3>1. /\ net_wires' = [net_wires EXCEPT ![n][w] = use]
              /\ th' = [th EXCEPT ![t].path = Tail(@)]
            BY <2>1 DEF BindLoad, Uses
        <3> HIDE DEF use
        <3>2. net_wires' = [net_wires EXCEPT ![n] = mw]
            BY <3>1
        <3>3. th' = [th EXCEPT ![t] = x]
            BY <2>1, <3>1
        <3> QED BY <3>2, <3>3
    <2>2. CASE nw[w] = NoUse
        <3>1. /\ net_wires' = [net_wires EXCEPT ![n][w] = use]
              /\ th' = [th EXCEPT ![t].reg = curr_cong[w]]
            BY <2>2 DEF BindLoad, Uses
        <3> HIDE DEF use
        <3>2. net_wires' = [net_wires EXCEPT ![n] = mw]
            BY <3>1
        <3>3. th' = [th EXCEPT ![t] = x]
            BY <2>2, <3>1
        <3> QED BY <3>2, <3>3
    <2> QED BY <2>1, <2>2
<1>8. /\ x \in ThreadState /\ x.net = n /\ x.nets = th[t].nets /\ x.phase = "bind"
      /\ x.arcs = th[t].arcs /\ x.arc = th[t].arc /\ x.check = th[t].check
      /\ x.seeds = th[t].seeds
      /\ x.path = IF nw[w] # NoUse THEN Tail(path) ELSE path
      /\ x.reg = IF nw[w] # NoUse THEN NoReg ELSE curr_cong[w]
    <2>1. CASE nw[w] # NoUse
        BY <1>1, <1>3, <1>5, <2>1, ZenonT(60) DEF ThreadState
    <2>2. CASE nw[w] = NoUse
        BY <1>1, <1>3, <1>4, <1>5, <2>2, ZenonT(60) DEF ThreadState
    <2> QED BY <2>1, <2>2
<1>9. /\ mw \in NetWires /\ mw[w] # NoUse
      /\ Binding(mw, routed, n, th[t].arc, x.path, x.reg)
    <2>1. CASE nw[w] # NoUse
        <3>1. use = Bumped(nw, n, w)
            BY <2>1 DEF OneMore, Bumped
        <3>2. nw \in NetWires /\ n \in Net /\ path # <<>>
            BY <1>1, <1>3
        <3> HIDE DEF use
        <3>3. /\ mw \in NetWires /\ mw[w] # NoUse
              /\ Binding(mw, routed, n, th[t].arc, Tail(path), NoReg)
            <4> HIDE DEF nw, n, path
            <4> QED BY <1>4, <1>6, <2>1, <3>1, <3>2, BindMore
        <3> QED BY <1>8, <2>1, <3>3
    <2>2. CASE nw[w] = NoUse
        <3>1. use = [pip |-> b.pip, count |-> 1]
            BY <2>2
        <3> HIDE DEF use
        <3>2. /\ mw \in NetWires /\ mw[w] # NoUse
              /\ Binding(mw, routed, n, th[t].arc, path, curr_cong[w])
            BY <1>1, <1>3, <1>4, <1>5, <2>2, <3>1, BindNew
        <3> QED BY <1>8, <2>2, <3>2
    <2> QED BY <2>1, <2>2
<1>10. \A v \in Wire : v # w => mw[v] = nw[v]
    BY <1>3, <1>5 DEF NetWires
<1> HIDE DEF x, mw
<1>11. ThreadGoes(t, x)
    BY <1>1, <1>2, <1>3, <1>7, <1>8 DEF ThreadGoes, plan, Given
<1>12. /\ net_wires' \in [Net -> NetWires] /\ net_wires'[n] = mw
       /\ \A m \in Net : m # n => net_wires'[m] = net_wires[m]
    BY <1>3, <1>7, <1>9 DEF TypeInv
<1>13. TypeInv'
    BY <1>1, <1>3, <1>11, <1>12, ThreadAfter DEF TypeInv, plan
<1>14. Staged'
    BY <1>3, <1>8, <1>11, StagedKept
<1>15. TreesInv'
    <2>1. AtWork(x, net_wires'[x.net], routed')
        <3>0. /\ net_wires'[x.net] = mw /\ routed' = routed /\ x.net = n
              /\ x.arc = th[t].arc
            BY <1>1, <1>8, <1>12
        <3>1. Binding(net_wires'[x.net], routed', x.net, x.arc, x.path, x.reg)
            BY <1>9, <3>0
        <3>2. x.arc \notin x.arcs /\ \A a \in x.arcs : ~routed'[a]
            BY <1>1, <1>2, <1>3, <1>4, <1>8 DEF AtWork, Busy
        <3> QED BY <1>8, <3>1, <3>2 DEF AtWork
    <2>2. OnlyNet(n)
        BY <1>1, <1>12 DEF OnlyNet
    <2>3. /\ Busy(t) => n = th[t].net
          /\ x.phase # "idle" => x.net = n /\ x.phase \notin {"idle", "check"}
        BY <1>8
    <2> HIDE DEF n
    <2> QED BY <1>3, <1>8, <1>11, <2>1, <2>2, <2>3, TreesKept
<1>16. BoxesInv'
    <2>1. ASSUME ~strayed, t # 8
          PROVE  \A v \in x.seeds \cup PathWires(x.path) : Inside(t, v)
        BY <1>2, <1>3, <1>5, <1>8, <2>1 DEF BoxesInv
    <2>2. ASSUME ~strayed, t # 8
          PROVE  \A v \in Wire : net_wires'[n][v] # NoUse => Uses(n, v) \/ Inside(t, v)
        BY <1>2, <1>3, <1>5, <1>10, <1>12, <2>2 DEF BoxesInv, Uses
    <2> QED BY <1>3, <1>11, <1>12, <2>1, <2>2, BoxesKept
<1>17. CountersInv'
    <2>1. \A m \in Net, v \in Wire : ~(m = n /\ v = w) =>
             (net_wires'[m][v] # NoUse <=> net_wires[m][v] # NoUse)
        BY <1>10, <1>12
    <2>2. net_wires'[n][w] # NoUse
        BY <1>9, <1>12
    <2>3. ~(th[t].phase = "bind" /\ th[t].reg # NoReg)
        BY <1>1
    <2>4. CASE nw[w] # NoUse
        <3>1. \A m \in Net, v \in Wire : Uses(m, v)' <=> Uses(m, v)
            BY <2>1, <2>2, <2>4 DEF Uses
        <3>2. x.reg = NoReg
            BY <1>8, <2>4
        <3> QED BY <1>1, <1>3, <1>11, <2>3, <3>1, <3>2, CountersSame
    <2>5. CASE nw[w] = NoUse
        <3> DEFINE c == curr_cong[w]
        <3>1. /\ curr_cong' = [curr_cong EXCEPT ![w] = c] /\ w \in PathWires(th[t].path)
              /\ Head(th[t].path).wire = w /\ c \in Int /\ n \in Net
            BY <1>1, <1>3, <1>5 DEF TypeInv
        <3>2. x.reg = c /\ x.reg # NoReg /\ x.path = path /\ x.phase = "bind"
            BY <1>5, <1>8, <2>5
        <3>3. Head(x.path).wire = w
            BY <3>2
        <3>4. net_wires[n][w] = NoUse
            BY <2>5
        <3>5. c = curr_cong[w]
            OBVIOUS
        <3>9. th[t].reg = NoReg
            BY <1>1
        <3> HIDE DEF c, w, n
        <3>6. ~strayed => Balanced(t, x, n, w, c)
            BY <2>2, <2>3, <3>1, <3>2, <3>4, <3>5, <3>9 DEF Balanced
        <3>7. TypeInv /\ Staged /\ TreesInv /\ BoxesInv /\ CountersInv
            BY <1>3
        <3>8. /\ th[t].reg # NoReg => Head(th[t].path).wire = w
              /\ x.reg # NoReg => Head(x.path).wire = w /\ x.reg = c
            BY <3>2, <3>3, <3>9
        <3>10. /\ curr_cong' = [curr_cong EXCEPT ![w] = c] /\ w \in PathWires(th[t].path)
               /\ c \in Int /\ n \in Net
            BY <3>1
        <3> QED BY <1>2, <1>11, <1>13, <2>1, <3>6, <3>7, <3>8, <3>10, CountersMove
    <2> QED BY <2>4, <2>5
<1> QED BY <1>13, <1>14, <1>15, <1>16, <1>17 DEF IInv

(* A step of a thread that leaves the wires alone: what the thread holds   *)
(* afterwards must stand on its own.                                       *)
LEMMA QuietKeeps ==
    ASSUME IInv, NEW t \in Thread, NEW x, ThreadGoes(t, x),
           UNCHANGED <<fab, routing, plan>>,
           NEW n \in Given(t), Busy(t) => n = th[t].net,
           th[t].reg = NoReg, x.reg = NoReg,
           IF x.phase = "idle" THEN AtRest(x)
           ELSE /\ x.net = n /\ n \notin Undriven
                /\ x.arcs \cup ToSet(x.check) \subseteq ToSet(NetArcs[n]),
           AtWork(x, net_wires[x.net], routed),
           n \notin Undriven /\ x.phase \in {"idle", "check"} =>
              WholeBut(net_wires[n], routed, n, NoReg, {}),
           ~strayed /\ t # 8 /\ x.phase # "idle" =>
              \A w \in x.seeds \cup PathWires(x.path) : Inside(t, w)
    PROVE  IInv'
<1>1. /\ TypeInv /\ Staged /\ TreesInv /\ BoxesInv /\ CountersInv
      /\ pc' = pc /\ stage' = stage
    BY DEF IInv, ThreadGoes
<1>2. net_wires' = net_wires /\ curr_cong' = curr_cong /\ routed' = routed
    BY DEF routing
<1>3. TypeInv'
    BY <1>1, <1>2, ThreadAfter DEF TypeInv, plan
<1>4. Staged'
    BY <1>1, StagedKept
<1>5. TreesInv'
    <2>1. OnlyNet(n)
        BY <1>2 DEF OnlyNet
    <2> QED BY <1>1, <1>2, <2>1, TreesKept
<1>6. BoxesInv'
    BY <1>1, <1>2, BoxesKept DEF Uses
<1>7. CountersInv'
    BY <1>1, <1>2, CountersSame DEF Uses
<1> QED BY <1>3, <1>4, <1>5, <1>6, <1>7 DEF IInv

(* route_net taking the next net of its thread keeps the invariant: a net  *)
(* that is driven is checked from its first arc.                           *)
LEMMA TakeNetKeeps ==
    ASSUME IInv, NEW t \in Thread, NEW n \in th[t].nets, TakeNet(t, n)
    PROVE  IInv'
<1> DEFINE left == [th[t] EXCEPT !.nets = th[t].nets \ {n}]
           taken == [th[t] EXCEPT !.nets = th[t].nets \ {n}, !.net = n,
                                  !.phase = "check", !.check = NetArcs[n]]
<1>1. /\ Running(t) /\ th[t].phase = "idle"
      /\ UNCHANGED <<fab, routing, plan, pc, stage>>
      /\ pc = "route" /\ t \in StageThreads[stage]
    BY DEF TakeNet, InPhase, Running
<1>2. /\ TypeInv /\ Staged /\ TreesInv /\ BoxesInv
      /\ th[t] \in ThreadState /\ th \in [Thread -> ThreadState]
    BY DEF IInv, TypeInv
<1>3. ~Busy(t) /\ n \in Net /\ n \in Given(t)
    BY <1>1, <1>2 DEF Busy, Given, ThreadState
<1>4. AtRest(th[t]) /\ th[t].reg = NoReg
    BY <1>1, <1>2, <1>3 DEF Staged, TreesInv, AtWork
<1>5. PathWires(<<>>) = {}
    BY DEF PathWires, ToSet
<1>6. ~InWork(n)
    <2> SUFFICES ASSUME NEW u \in Thread, th[u].phase \in {"rip", "bind"},
                        th[u].net = n
                 PROVE  FALSE
        BY DEF InWork
    <2>1. Busy(u) /\ u # t
        BY <1>3 DEF Busy
    <2>2. n \in Given(u) /\ stage # 0
        BY <1>2, <2>1, BusyNet
    <2> QED BY <1>1, <1>2, <1>3, <2>1, <2>2, GivenApart
<1>7. n \notin Undriven => WholeBut(net_wires[n], routed, n, NoReg, {})
    BY <1>2, <1>3, <1>6 DEF TreesInv, NetsWhole
<1>8. CASE n \in Undriven
    <2> DEFINE x == left
    <2>1. /\ th' = [th EXCEPT ![t] = x] /\ x \in ThreadState
          /\ x.phase = "idle" /\ x.nets = th[t].nets \ {n} /\ x.reg = NoReg
          /\ AtRest(x)
        BY <1>1, <1>2, <1>4, <1>8 DEF TakeNet, ThreadState, AtRest
    <2> HIDE DEF x
    <2>2. ThreadGoes(t, x)
        BY <1>1, <2>1 DEF ThreadGoes, plan, Given
    <2>3. AtWork(x, net_wires[x.net], routed)
        BY <2>1 DEF AtWork
    <2> QED BY <1>1, <1>3, <1>4, <1>8, <2>1, <2>2, <2>3, QuietKeeps
<1>9. CASE n \notin Undriven
    <2> DEFINE x == taken
    <2>0. NetArcs[n] \in Seq(Arc)
        BY <1>3, Router2Assumption
    <2>1. /\ th' = [th EXCEPT ![t] = x] /\ x \in ThreadState
          /\ x.phase = "check" /\ x.nets = th[t].nets \ {n} /\ x.reg = NoReg
          /\ x.net = n /\ x.arcs = {} /\ x.seeds = {} /\ x.path = <<>>
          /\ x.check = NetArcs[n]
        BY <1>1, <1>2, <1>3, <1>4, <1>9, <2>0 DEF TakeNet, ThreadState, AtRest
    <2> HIDE DEF x
    <2>2. ThreadGoes(t, x)
        BY <1>1, <1>3, <2>1 DEF ThreadGoes, plan, Given
    <2>3. AtWork(x, net_wires[x.net], routed)
        BY <2>1 DEF AtWork
    <2>4. x.arcs \cup ToSet(x.check) \subseteq ToSet(NetArcs[n])
        BY <2>1
    <2>5. x.seeds \cup PathWires(x.path) = {}
        BY <1>5, <2>1
    <2> QED BY <1>1, <1>3, <1>4, <1>7, <1>9, <2>1, <2>2, <2>3, <2>4, <2>5, QuietKeeps
<1> QED BY <1>8, <1>9

(* What a thread that searches knows. *)
LEMMA SearchFacts ==
    ASSUME IInv, NEW t \in Thread, Searching(t)
    PROVE  /\ Running(t) /\ Busy(t) /\ th[t].phase = "check"
           /\ th[t].reg = NoReg /\ \A a \in th[t].arcs : ~routed[a]
           /\ WholeBut(net_wires[th[t].net], routed, th[t].net, NoReg, {})
           /\ \A a \in th[t].arcs : /\ a \in ToSet(NetArcs[th[t].net]) /\ a \in Arc
                                    /\ SinkWire[a] \in Wire
                                    /\ Src(a) = NetSrc[th[t].net]
<1>1. Running(t) /\ Busy(t) /\ th[t].phase = "check"
    BY DEF Searching, InPhase, Busy
<1>2. TypeInv /\ Staged /\ TreesInv /\ th[t].net \in Net
      /\ th[t].arcs \subseteq ToSet(NetArcs[th[t].net])
    BY <1>1, AtWorkFacts
<1>3. /\ th[t].reg = NoReg /\ \A a \in th[t].arcs : ~routed[a]
      /\ WholeBut(net_wires[th[t].net], routed, th[t].net, NoReg, {})
    BY <1>1, <1>2, CheckWhole
<1>4. \A a \in th[t].arcs : /\ a \in ToSet(NetArcs[th[t].net]) /\ a \in Arc
                            /\ SinkWire[a] \in Wire
                            /\ Src(a) = NetSrc[th[t].net]
    BY <1>2, ArcsOfNet, ArcNetIs
<1> QED BY <1>1, <1>3, <1>4

(* Setting an arc aside, because its sink is served already or because the *)
(* search in the box of the thread found nothing, keeps the invariant.     *)
LEMMA SetAsideKeeps ==
    ASSUME IInv, NEW t \in Thread, NEW a \in th[t].arcs,
           SkipArc(t, a) \/ GiveUpArc(t, a)
    PROVE  IInv'
<1> DEFINE n == th[t].net
           skipped == [th[t] EXCEPT !.arcs = th[t].arcs \ {a}]
           given == [th[t] EXCEPT !.arcs = th[t].arcs \ {a}, !.bad = TRUE]
           x == IF SkipArc(t, a) THEN skipped ELSE given
<1>1. Searching(t) /\ UNCHANGED <<fab, routing, plan, pc, stage>>
    BY DEF SkipArc, GiveUpArc
<1>2. /\ Running(t) /\ Busy(t) /\ th[t].phase = "check"
      /\ th[t].reg = NoReg /\ \A b \in th[t].arcs : ~routed[b]
      /\ WholeBut(net_wires[n], routed, n, NoReg, {})
    BY <1>1, SearchFacts
<1>3. /\ TypeInv /\ Staged /\ TreesInv /\ BoxesInv /\ CountersInv
      /\ pc = "route" /\ t \in StageThreads[stage]
      /\ th[t] \in ThreadState /\ n \in Net \ Undriven
      /\ n \in Given(t)
      /\ th[t].arcs \cup ToSet(th[t].check) \subseteq ToSet(NetArcs[n])
      /\ th \in [Thread -> ThreadState]
    BY <1>2, AtWorkFacts
<1>4. th' = [th EXCEPT ![t] = x]
    <2>1. CASE SkipArc(t, a)
        <3>1. th' = [th EXCEPT ![t].arcs = @ \ {a}]
            BY <2>1 DEF SkipArc
        <3> QED BY <2>1, <3>1
    <2>2. CASE ~SkipArc(t, a)
        <3>1. th' = [th EXCEPT ![t].arcs = @ \ {a}, ![t].bad = TRUE]
            BY <2>2 DEF GiveUpArc
        <3>2. th' = [th EXCEPT ![t] = given]
            BY <1>3, <3>1 DEF ThreadState
        <3> QED BY <2>2, <3>2
    <2> QED BY <2>1, <2>2
<1>5. /\ x \in ThreadState /\ x.net = n /\ x.nets = th[t].nets /\ x.phase = "check"
      /\ x.arcs = th[t].arcs \ {a} /\ x.check = th[t].check
      /\ x.seeds = th[t].seeds /\ x.path = th[t].path /\ x.reg = NoReg
    <2>1. CASE SkipArc(t, a)
        BY <1>2, <1>3, <2>1 DEF ThreadState
    <2>2. CASE ~SkipArc(t, a)
        BY <1>2, <1>3, <2>2 DEF ThreadState
    <2> QED BY <2>1, <2>2
<1> HIDE DEF x
<1>6. ThreadGoes(t, x)
    BY <1>1, <1>2, <1>3, <1>4, <1>5 DEF ThreadGoes, plan, Given
<1>7. AtWork(x, net_wires[x.net], routed)
    BY <1>2, <1>5 DEF AtWork
<1>8. ASSUME ~strayed, t # 8
      PROVE  \A v \in x.seeds \cup PathWires(x.path) : Inside(t, v)
    BY <1>2, <1>3, <1>5, <1>8 DEF BoxesInv
<1>9. x.arcs \cup ToSet(x.check) \subseteq ToSet(NetArcs[n])
    BY <1>3, <1>5
<1> QED BY <1>1, <1>2, <1>3, <1>5, <1>6, <1>7, <1>8, <1>9, QuietKeeps

(* The end of route_net keeps the invariant: the thread gives up all it    *)
(* has of the net.                                                         *)
LEMMA LeaveNetKeeps ==
    ASSUME IInv, NEW t \in Thread, LeaveNet(t)
    PROVE  IInv'
<1> DEFINE n == th[t].net
           x == [Idle EXCEPT !.nets = th[t].nets,
                             !.failed = th[t].failed
                                \cup IF th[t].bad THEN {th[t].net} ELSE {}]
<1>1. /\ Running(t) /\ th[t].phase = "check"
      /\ th' = [th EXCEPT ![t] = x] /\ UNCHANGED <<fab, routing, plan, pc, stage>>
    BY DEF LeaveNet, InPhase
<1>2. Busy(t)
    BY <1>1 DEF Busy
<1>3. /\ TypeInv /\ Staged /\ TreesInv
      /\ pc = "route" /\ t \in StageThreads[stage]
      /\ th[t] \in ThreadState /\ n \in Net \ Undriven
      /\ n \in Given(t)
    BY <1>1, <1>2, AtWorkFacts
<1>4. th[t].reg = NoReg /\ WholeBut(net_wires[n], routed, n, NoReg, {})
    BY <1>1, <1>3, CheckWhole
<1>5. /\ x \in ThreadState /\ x.phase = "idle" /\ x.nets = th[t].nets
      /\ x.reg = NoReg /\ AtRest(x)
    <2> DEFINE more == IF th[t].bad THEN {th[t].net} ELSE {}
    <2>1. th[t].nets \in SUBSET Net /\ th[t].failed \in SUBSET Net
        BY <1>3 DEF ThreadState
    <2>2. more \subseteq Net
        BY <1>3
    <2> HIDE DEF more
    <2>3. <<>> \in Seq(Arc) /\ <<>> \in Seq(PathStep)
        OBVIOUS
    <2> QED BY <2>1, <2>2, <2>3 DEF ThreadState, Idle, AtRest, more
<1> HIDE DEF x
<1>6. ThreadGoes(t, x)
    BY <1>1, <1>3, <1>5 DEF ThreadGoes, plan, Given
<1>7. AtWork(x, net_wires[x.net], routed)
    BY <1>5 DEF AtWork
<1> QED BY <1>1, <1>3, <1>4, <1>5, <1>6, <1>7, QuietKeeps

(* The search has ended: the path it found is a branch of the tree.  It    *)
(* starts at s, on the tree, and its wires pass the tests.                 *)
LEMMA BeginBindKeeps ==
    ASSUME IInv, NEW t \in Thread, Searching(t), NEW a \in th[t].arcs,
           NEW s, NEW q, BeginBind(t, a, s, q), IsChain(q, s),
           s = NetSrc[th[t].net] \/ s \in th[t].seeds,
           SinkWire[a] = IF Len(q) = 0 THEN s ELSE PipDst[q[Len(q)]],
           \A i \in 1 .. Len(q) :
              /\ PipDst[q[i]] # NetSrc[th[t].net]
              /\ PipTest(th[t].net, q[i], is_mt)
              /\ PipDst[q[i]] # SinkWire[a] => Inside(t, PipDst[q[i]])
    PROVE  IInv'
<1> DEFINE n == th[t].net
           nw == net_wires[n]
           path == ToBind(n, s, q)
           x == [th[t] EXCEPT !.phase = "bind", !.arc = a,
                              !.arcs = th[t].arcs \ {a}, !.path = path]
<1>1. /\ Running(t) /\ Busy(t) /\ th[t].phase = "check"
      /\ th[t].reg = NoReg /\ \A b \in th[t].arcs : ~routed[b]
      /\ WholeBut(nw, routed, n, NoReg, {})
      /\ a \in ToSet(NetArcs[n]) /\ a \in Arc /\ SinkWire[a] \in Wire
    BY SearchFacts
<1>2. /\ TypeInv /\ Staged /\ TreesInv /\ BoxesInv /\ CountersInv
      /\ pc = "route" /\ t \in StageThreads[stage]
      /\ th[t] \in ThreadState /\ n \in Net \ Undriven
      /\ n \in Given(t) /\ nw \in NetWires
      /\ th[t].arcs \cup ToSet(th[t].check) \subseteq ToSet(NetArcs[n])
      /\ th \in [Thread -> ThreadState]
    BY <1>1, AtWorkFacts
<1>3. UNCHANGED <<fab, routing, plan, pc, stage>> /\ TackAsserts(t)
    BY DEF BeginBind
<1>4. s \in Wire /\ ReachesIn(nw, n, s)
    <2>1. CASE s = NetSrc[n]
        BY <2>1, <1>2, SourceWalk, Router2Assumption
    <2>2. CASE s \in th[t].seeds
        <3>1. s \in Wire /\ Reaches(n, s)
            BY <1>2, <1>3, <2>2 DEF TackAsserts, ThreadState
        <3> QED BY <3>1, SameNames
    <2> QED BY <2>1, <2>2
<1>5. \A i \in 1 .. Len(q) : \/ nw[PipDst[q[i]]] = NoUse
                             \/ nw[PipDst[q[i]]].pip \in {q[i], NoPip}
    BY DEF PipTest, Uses
<1>6. path = ToBindIn(nw, n, s, q)
    BY SameNames DEF ToBind, ToBindIn
<1>7. /\ path \in Seq(PathStep)
      /\ PathWires(path) = {PipDst[q[i]] : i \in 1 .. Len(q)}
                           \cup IF s = NetSrc[n] THEN {s} ELSE TrunkIn(nw, n, s)
      /\ Binding(nw, routed, n, a, path, NoReg)
    <2>1. /\ nw \in NetWires /\ n \in Net /\ a \in ToSet(NetArcs[n]) /\ ~routed[a]
          /\ WholeBut(nw, routed, n, NoReg, {})
        BY <1>1, <1>2
    <2>2. \A i \in 1 .. Len(q) : PipDst[q[i]] # NetSrc[n]
        OBVIOUS
    <2>3. IsChain(q, s) /\ SinkWire[a] = IF Len(q) = 0 THEN s ELSE PipDst[q[Len(q)]]
        OBVIOUS
    <2>4. IsFound(nw, routed, n, a, s, q)
        <3> HIDE DEF nw, n, path
        <3> QED BY <2>1, <2>2, <2>3, <1>4, <1>5 DEF IsFound
    <2> HIDE DEF nw, n, path
    <2> QED BY <2>4, <1>6, FoundBinds
<1>8. th' = [th EXCEPT ![t] = x]
    <2>1. th' = [th EXCEPT ![t].phase = "bind", ![t].arc = a,
                           ![t].arcs = @ \ {a}, ![t].path = path]
        BY DEF BeginBind
    <2> HIDE DEF path
    <2> QED BY <1>2, <2>1 DEF ThreadState
<1>9. /\ x \in ThreadState /\ x.net = n /\ x.nets = th[t].nets /\ x.phase = "bind"
      /\ x.arcs = th[t].arcs \ {a} /\ x.check = th[t].check /\ x.arc = a
      /\ x.seeds = th[t].seeds /\ x.path = path /\ x.reg = NoReg
    <2> HIDE DEF path
    <2> QED BY <1>1, <1>2, <1>7 DEF ThreadState
<1> HIDE DEF x, path
<1>10. ThreadGoes(t, x)
    BY <1>1, <1>2, <1>3, <1>8, <1>9 DEF ThreadGoes, plan, Given
<1>11. AtWork(x, net_wires[x.net], routed)
    BY <1>1, <1>7, <1>9 DEF AtWork
<1>12. ASSUME ~strayed, t # 8
       PROVE  \A v \in x.seeds \cup PathWires(x.path) : Inside(t, v)
    <2>1. \A v \in x.seeds : Inside(t, v)
        BY <1>1, <1>2, <1>9, <1>12 DEF BoxesInv
    <2>2. Inside(t, NetSrc[n]) /\ Inside(t, SinkWire[a])
        BY <1>1, <1>2, <1>12, EndsInside
    <2>3. \A v \in TrunkIn(nw, n, s) : Inside(t, v)
        BY <1>1, <1>2, <1>4, <1>12, TrunkInside
    <2>4. \A i \in 1 .. Len(q) : Inside(t, PipDst[q[i]])
        BY <2>2
    <2> QED BY <1>7, <1>9, <2>1, <2>2, <2>3, <2>4
<1>13. x.arcs \cup ToSet(x.check) \subseteq ToSet(NetArcs[n])
    BY <1>2, <1>9
<1> QED BY <1>1, <1>2, <1>3, <1>9, <1>10, <1>11, <1>12, <1>13, QuietKeeps

(* A search of route_arc that finds a path keeps the invariant: binding    *)
(* what it found would lead the net from the sink to the source.           *)
LEMMA FindPathKeeps ==
    ASSUME IInv, NEW t \in Thread, NEW a \in th[t].arcs, FindPath(t, a)
    PROVE  IInv'
<1>1. /\ Searching(t) /\ SinkWire[a] # Src(a)
    BY DEF FindPath
<1>2. PICK q \in Paths : /\ SearchFinds(t, a, q, is_mt)
                         /\ BeginBind(t, a, PipSrc[q[1]], q)
    BY DEF FindPath
<1> DEFINE n == th[t].net
           s == PipSrc[q[1]]
<1>3. IsPath(q)
    BY PathsArePaths
<1>4. /\ IsChain(q, s) /\ Len(q) # 0 /\ DOMAIN q = 1 .. Len(q)
      /\ Last(q) = q[Len(q)]
    BY <1>3 DEF IsPath, IsChain, Last
<1>5. /\ s = NetSrc[n] \/ s \in th[t].seeds
      /\ SinkWire[a] = PipDst[q[Len(q)]]
      /\ \A i \in 1 .. Len(q) : PipTest(n, q[i], is_mt)
      /\ \A w \in Visits(q) \ {s, SinkWire[a]} :
              w # NetSrc[n] /\ WireTest(t, n, w)
    BY <1>2, <1>4 DEF SearchFinds
<1>6. Src(a) = NetSrc[n]
    BY <1>1, SearchFacts
<1>7. ASSUME NEW i \in 1 .. Len(q)
      PROVE  /\ PipDst[q[i]] # NetSrc[n]
             /\ PipDst[q[i]] # SinkWire[a] => Inside(t, PipDst[q[i]])
    <2>1. PipDst[q[i]] \in Visits(q) /\ PipDst[q[i]] # s
        BY <1>4 DEF Visits, IsChain
    <2>2. CASE PipDst[q[i]] = SinkWire[a]
        BY <2>2, <1>1, <1>6
    <2>3. CASE PipDst[q[i]] # SinkWire[a]
        <3>1. PipDst[q[i]] # NetSrc[n] /\ WireTest(t, n, PipDst[q[i]])
            BY <1>5, <2>1, <2>3
        <3> QED BY <3>1 DEF WireTest, Inside
    <2> QED BY <2>2, <2>3
<1> QED BY <1>1, <1>2, <1>4, <1>5, <1>7, BeginBindKeeps

(* A search that starts at the sink wire itself, which is on the tree      *)
(* already, keeps the invariant.                                           *)
LEMMA FindAtOnceKeeps ==
    ASSUME IInv, NEW t \in Thread, NEW a \in th[t].arcs, FindAtOnce(t, a)
    PROVE  IInv'
<1> DEFINE s == SinkWire[a]
           q == <<>>
<1>1. /\ Searching(t) /\ SinkWire[a] \in {Src(a)} \cup th[t].seeds
      /\ BeginBind(t, a, s, q)
    BY DEF FindAtOnce
<1>2. Src(a) = NetSrc[th[t].net]
    BY <1>1, SearchFacts
<1>3. IsChain(q, s) /\ Len(q) = 0
    BY DEF IsChain
<1> HIDE DEF q
<1>4. 1 .. Len(q) = {}
    BY <1>3
<1> QED BY <1>1, <1>2, <1>3, <1>4, BeginBindKeeps

(* The main thread notes an outcome and nothing else changes. *)
LEMMA StandStill ==
    ASSUME IInv, UNCHANGED <<fab, routing, plan, stage, th>>, Staged',
           ~strayed => pc' # "disturbed"
    PROVE  IInv'
<1>1. TypeInv'
    BY DEF IInv, TypeInv, routing, plan
<1>2. TreesInv'
    BY DEF IInv, TreesInv, NetsWhole, InWork, routing
<1>3. BoxesInv'
    BY DEF IInv, BoxesInv, Given, Busy, Stray, Uses, Inside, routing, plan
<1>4. CountersInv'
    BY DEF IInv, CountersInv, CountersExact, Incrementing, Uses, routing, plan
<1> QED BY <1>1, <1>2, <1>3, <1>4 DEF IInv

(* The arcs whose sinks a thread in route_arc marks are arcs of its net.   *)
LEMMA MarksOfNet ==
    ASSUME IInv, NEW t \in Thread, InRouteArc(t)
    PROVE  /\ Running(t) /\ Busy(t)
           /\ \A a \in IF th[t].phase = "bind" THEN {th[t].arc} ELSE th[t].arcs :
                a \in ToSet(NetArcs[th[t].net]) /\ SinkWire[a] \in Wire
<1>1. CASE Searching(t)
    BY <1>1, SearchFacts
<1>2. CASE InPhase(t, "bind")
    <2>1. Running(t) /\ Busy(t) /\ th[t].phase = "bind"
        BY <1>2 DEF InPhase, Busy
    <2>2. th[t].net \in Net
        BY <2>1, BusyNet DEF IInv
    <2>3. th[t].arc \in ToSet(NetArcs[th[t].net])
        BY <2>1 DEF IInv, TreesInv, AtWork, Binding
    <2> QED BY <2>1, <2>2, <2>3, ArcsOfNet
<1> QED BY <1>1, <1>2 DEF InRouteArc

(* A search can only be disturbed once a net has strayed. *)
LEMMA DisturbKeeps ==
    ASSUME IInv, NEW t \in Thread, Disturb(t)
    PROVE  IInv'
<1>1. /\ InRouteArc(t) /\ pc' = "disturbed"
      /\ UNCHANGED <<fab, routing, plan, stage, th>>
    BY DEF Disturb
<1>2. PICK u \in Thread \ {t} : InRouteArc(u) /\ Meets(t, u)
    BY DEF Disturb
<1>3. PICK w \in Marks(u) : w \in Marks(t) \/ Inside(t, w)
    BY <1>2 DEF Meets, Inside
<1>4. /\ TypeInv /\ Staged /\ BoxesInv /\ Busy(t) /\ Busy(u)
      /\ Running(t) /\ pc = "route"
    BY <1>1, <1>2, MarksOfNet DEF IInv, Running
<1>5. /\ stage \in 1 .. 3 /\ t \in StageThreads[stage] /\ u \in StageThreads[stage]
      /\ t # 8 /\ u # 8
    BY <1>2, <1>4, BusyApart
<1>6. ASSUME ~strayed, NEW k \in {t, u} PROVE \A v \in Marks(k) : v \in Wire /\ Inside(k, v)
    <2>1. k \in Thread \ {8} /\ InRouteArc(k) /\ Busy(k)
        BY <1>1, <1>2, <1>4, <1>5
    <2>2. \A v \in th[k].seeds : v \in Wire /\ Inside(k, v)
        BY <1>4, <1>6, <2>1 DEF BoxesInv, TypeInv, ThreadState
    <2>3. /\ Inside(k, NetSrc[th[k].net]) /\ NetSrc[th[k].net] \in Wire
          /\ \A a \in ToSet(NetArcs[th[k].net]) : Inside(k, SinkWire[a])
        BY <1>4, <1>6, <2>1, EndsInside, BusyNet, Router2Assumption
    <2>4. \A a \in IF th[k].phase = "bind" THEN {th[k].arc} ELSE th[k].arcs :
             a \in ToSet(NetArcs[th[k].net]) /\ SinkWire[a] \in Wire
        BY <2>1, MarksOfNet
    <2> QED BY <2>2, <2>3, <2>4 DEF Marks
<1>7. strayed
    <2> SUFFICES ASSUME ~strayed PROVE FALSE
        OBVIOUS
    <2>1. w \in Wire /\ Inside(u, w) /\ Inside(t, w)
        BY <1>3, <1>6
    <2> QED BY <1>2, <1>5, <2>1, BoxesApart
<1>8. Staged'
    BY <1>1, <1>4, SMTT(60) DEF Staged, Busy, Given, plan
<1> QED BY <1>1, <1>7, <1>8, StandStill

(* The failure of a search that may go anywhere keeps the invariant: the   *)
(* run ends with an error and the maps are as they were.                   *)
LEMMA RouteErrorKeeps ==
    ASSUME IInv, NEW t \in Thread, NEW a \in th[t].arcs, RouteError(t, a)
    PROVE  IInv'
<1>1. /\ Searching(t) /\ pc' = "error" /\ pc = "route" /\ ~is_mt
      /\ UNCHANGED <<fab, routing, plan, stage, th>>
    BY DEF RouteError, Searching, InPhase, Running
<1>2. TypeInv /\ Staged /\ Busy(t) /\ th[t].phase = "check"
    BY <1>1, SearchFacts DEF IInv
<1>3. \A u \in Thread : th[u].phase \in {"idle", "check"}
    <2> SUFFICES ASSUME NEW u \in Thread, u # t, Busy(u)
                 PROVE  FALSE
        BY <1>2 DEF Busy
    <2>1. stage \in 1 .. 3
        BY <1>2, BusyApart
    <2> QED BY <1>1, <2>1 DEF is_mt
<1>4. Staged'
    BY <1>1, <1>2, <1>3 DEF Staged, Busy, Given, plan
<1> QED BY <1>1, <1>4, StandStill

-----------------------------------------------------------------------------
(* The steps of the main thread. *)

(* Between two calls of do_route no thread has anything. *)
LEMMA AllAtRest ==
    ASSUME TypeInv, Staged, TreesInv, stage = 0
    PROVE  \A t \in Thread : /\ ~Busy(t) /\ Given(t) = {} /\ th[t].reg = NoReg
                             /\ th[t].phase = "idle" /\ AtRest(th[t])
BY DEF Staged, Busy, TreesInv, AtWork

(* What the main thread does between two calls of do_route, to the boxes   *)
(* and the queue of nets, keeps the invariant.                             *)
LEMMA MainKeeps ==
    ASSUME IInv, UNCHANGED <<routing, stage, th, strayed>>, stage = 0,
           pc' \notin {"route", "error", "disturbed"},
           bb' \in [Net -> Box], route_queue' \in SUBSET Net,
           failed_nets' \in SUBSET Net
    PROVE  IInv'
<1>1. \A t \in Thread : /\ ~Busy(t) /\ Given(t) = {} /\ th[t].reg = NoReg
                        /\ th[t].phase = "idle" /\ AtRest(th[t])
    BY AllAtRest DEF IInv
<1>2. TypeInv'
    BY DEF IInv, TypeInv, routing
<1>3. \A t \in Thread : /\ ~Busy(t)' /\ Given(t)' = {}
    BY <1>1 DEF Busy, Given
<1>4. Staged'
    BY <1>1, <1>3 DEF IInv, Staged
<1>5. TreesInv'
    BY DEF IInv, TreesInv, NetsWhole, InWork, routing
<1>6. BoxesInv'
    BY <1>3 DEF BoxesInv
<1>7. CountersInv'
    BY DEF IInv, CountersInv, CountersExact, Incrementing, Uses, routing
<1> QED BY <1>2, <1>4, <1>5, <1>6, <1>7 DEF IInv

(* A bounding box that has grown, cut off at the edges of the grid, is a   *)
(* box.                                                                    *)
LEMMA GrownBox ==
    ASSUME NEW b \in Box
    PROVE  Grown(b) \in Box
<1>1. /\ b.x0 \in 0 .. GridX /\ b.x1 \in 0 .. GridX
      /\ b.y0 \in 0 .. GridY /\ b.y1 \in 0 .. GridY
    BY DEF Box, Range0
<1>2. GridX \in Nat /\ GridY \in Nat
    BY Router2Assumption
<1>3. /\ Grown(b).x0 \in 0 .. GridX /\ Grown(b).x1 \in 0 .. GridX
      /\ Grown(b).y0 \in 0 .. GridY /\ Grown(b).y1 \in 0 .. GridY
    BY <1>1, <1>2 DEF Grown
<1> QED BY <1>3 DEF Grown, Box, Range0

(* The congestion update, the end of an iteration and the hand-over of the *)
(* result to the context keep the invariant: they leave the maps of the    *)
(* router alone.                                                           *)
LEMMA MainStepKeeps ==
    ASSUME IInv,
           \/ \E l \in SUBSET MayBeLate : UpdateCongestion(l)
           \/ EndIteration
           \/ \E n \in Net : UnbindNet(n)
           \/ \E a \in Arc : BindUnrouted(a) \/ BindArc(a)
    PROVE  IInv'
<1>1. TypeInv /\ Staged
    BY DEF IInv
<1>2. ASSUME NEW l \in SUBSET MayBeLate, UpdateCongestion(l) PROVE IInv'
    <2>1. /\ pc = "congestion" /\ pc' \in {"bind", "again"}
          /\ UNCHANGED <<fab, routing, route_queue, iter, strayed, stage, th>>
        BY <1>2 DEF UpdateCongestion
    <2>2. stage = 0
        BY <1>1, <2>1 DEF Staged
    <2>3. bb' \in [Net -> Box]
        <3> DEFINE count(n) == (fail_count[n] + 1) % GrowPeriod
        <3>1. bb' = [n \in Net |-> IF n \in Crowded /\ count(n) = 0
                                   THEN Grown(bb[n]) ELSE bb[n]]
            BY <1>2 DEF UpdateCongestion
        <3>2. \A n \in Net : bb[n] \in Box /\ Grown(bb[n]) \in Box
            BY <1>1, GrownBox DEF TypeInv
        <3> HIDE DEF count
        <3> QED BY <3>1, <3>2
    <2>4. failed_nets' \in SUBSET Net
        BY <1>2, Router2Assumption DEF UpdateCongestion, Crowded
    <2> QED BY <1>1, <2>1, <2>2, <2>3, <2>4, MainKeeps DEF TypeInv
<1>3. CASE EndIteration
    <2>1. /\ pc \in {"again", "bind"} /\ pc' \in {"done", "loop"}
          /\ UNCHANGED <<routing, stage, th, strayed, bb, failed_nets>>
          /\ route_queue' = failed_nets
        BY <1>3 DEF EndIteration
    <2> QED BY <1>1, <2>1, MainKeeps DEF TypeInv, Staged
<1>4. ASSUME \/ \E n \in Net : UnbindNet(n)
             \/ \E a \in Arc : BindUnrouted(a) \/ BindArc(a)
      PROVE  IInv'
    <2>1. /\ pc = "bind" /\ pc' = pc
          /\ UNCHANGED <<routing, stage, th, strayed, bb, failed_nets, route_queue>>
        BY <1>4 DEF UnbindNet, BindUnrouted, BindArc
    <2> QED BY <1>1, <2>1, MainKeeps DEF TypeInv, Staged
<1> QED BY <1>2, <1>3, <1>4

(* The distribution of the nets to the bins of do_route keeps the          *)
(* invariant: a net goes to the thread whose box holds its own.            *)
LEMMA BeginRouteKeeps ==
    ASSUME IInv, BeginRoute
    PROVE  IInv'
<1> DEFINE mt == Cardinality(route_queue) >= MinThreaded
           bin(n) == IF mt THEN Bin(bb[n]) ELSE 8
           given(t) == {n \in route_queue : bin(n) = t}
<1>1. /\ pc = "loop" /\ pc' = "route"
      /\ th' = [t \in Thread |-> [Idle EXCEPT !.nets = given(t)]]
      /\ strayed' = (strayed \/ \E n \in route_queue \ Undriven :
                                    bin(n) # 8 /\ Stray(bin(n), n))
      /\ stage' = IF mt THEN 1 ELSE 4
      /\ UNCHANGED <<fab, routing, bb, fail_count, late, route_queue,
                     failed_nets, bind_queue, iter>>
    BY DEF BeginRoute
<1>2. /\ TypeInv /\ Staged /\ TreesInv /\ BoxesInv /\ CountersInv /\ stage = 0
    BY <1>1 DEF IInv, Staged
<1>3. \A t \in Thread : ~Busy(t) /\ th[t].phase = "idle" /\ th[t].reg = NoReg
    BY <1>2, AllAtRest
<1>4. \A t \in Thread : given(t) \in SUBSET Net
    BY <1>2 DEF TypeInv
<1> HIDE DEF mt
<1>5. \A t \in Thread \ {8} : \A n \in given(t) : mt /\ Bin(bb[n]) = t
    OBVIOUS
<1>6. ~strayed' => ~strayed /\ \A t \in Thread \ {8} : \A n \in given(t) \ Undriven :
                                  ~Stray(t, n)
    BY <1>1
<1> HIDE DEF given
<1>7. \A t \in Thread : /\ th'[t] \in ThreadState /\ AtRest(th'[t])
                        /\ th'[t].phase = "idle" /\ th'[t].reg = NoReg
                        /\ th'[t].nets = given(t)
    <2> TAKE t \in Thread
    <2>1. th'[t] = [Idle EXCEPT !.nets = given(t)]
        BY <1>1
    <2>2. <<>> \in Seq(Arc) /\ <<>> \in Seq(PathStep)
        OBVIOUS
    <2> QED BY <1>4, <2>1, <2>2 DEF ThreadState, Idle, AtRest
<1>8. th' \in [Thread -> ThreadState]
    <2>1. th' = [t \in Thread |-> th'[t]]
        BY <1>1
    <2> QED BY <1>7, <2>1
<1>9. \A t \in Thread : ~Busy(t)' /\ Given(t)' = given(t)
    BY <1>7 DEF Busy, Given
<1>10. TypeInv'
    BY <1>1, <1>2, <1>8, SMTT(60) DEF TypeInv, routing
<1>11. Staged'
    <2>1. \A s \in 1 .. 4 : s < stage' => \A t \in StageThreads[s] \ {8} : given(t) = {}
        <3> SUFFICES ASSUME NEW s \in 1 .. 4, s < stage',
                            NEW t \in StageThreads[s] \ {8}
                     PROVE  given(t) = {}
            OBVIOUS
        <3>1. t \in Thread \ {8} /\ ~mt
            BY <1>1, StageSets
        <3> QED BY <3>1, <1>5
    <2>2. stage' # 0
        BY <1>1
    <2>3. \A t \in Thread \ {8} : \A n \in given(t) : Bin(bb'[n]) = t
        BY <1>1, <1>5
    <2>4. \A s \in 1 .. 4 : \A t \in StageThreads[s] \ {8} : t \in Thread
        BY StageSets
    <2> QED BY <1>1, <1>7, <1>9, <2>1, <2>2, <2>3, <2>4 DEF Staged
<1>12. TreesInv'
    <2>1. \A n : ~InWork(n) /\ ~InWork(n)'
        BY <1>3, <1>7 DEF InWork
    <2>2. NetsWhole'
        BY <1>1, <1>2, <2>1 DEF TreesInv, NetsWhole, routing
    <2> QED BY <1>7, <2>2 DEF TreesInv, AtWork
<1>13. BoxesInv'
    <2>1. \A t, n : Stray(t, n)' = Stray(t, n)
        BY <1>1 DEF Stray, Uses, routing
    <2> QED BY <1>1, <1>6, <1>9, <2>1 DEF BoxesInv
<1>14. CountersInv'
    <2>1. \A w : Incrementing(w) = {} /\ Incrementing(w)' = {}
        BY <1>3, <1>7 DEF Incrementing
    <2>2. ~strayed' => CountersExact'
        BY <1>1, <1>2, <1>6, <2>1 DEF CountersInv, CountersExact, Uses, routing
    <2> QED BY <1>7, <2>2 DEF CountersInv
<1> QED BY <1>10, <1>11, <1>12, <1>13, <1>14 DEF IInv

(* Joining the threads of a stage and starting those of the next keeps the *)
(* invariant: the ones that end have nothing left in hand.                 *)
LEMMA NextStageKeeps ==
    ASSUME IInv, NextStage
    PROVE  IInv'
<1>1. /\ pc = "route"
      /\ \A t \in StageThreads[stage] : th[t].phase = "idle" /\ th[t].nets = {}
      /\ IF stage = 5 THEN stage' = 0 /\ pc' = "congestion"
                      ELSE stage' = stage + 1 /\ pc' = pc
      /\ th' = IF stage # 4 THEN th
               ELSE [th EXCEPT ![8].nets = UNION {th[t].failed : t \in 0 .. 7}]
      /\ UNCHANGED <<fab, routing, plan>>
    BY DEF NextStage
<1>2. /\ TypeInv /\ Staged /\ TreesInv /\ BoxesInv /\ CountersInv /\ stage \in 1 .. 5
    BY <1>1 DEF IInv, Staged, TypeInv
<1>3. \A t \in Thread : /\ ~Busy(t) /\ th[t].phase = "idle" /\ th[t].reg = NoReg
                        /\ AtRest(th[t]) /\ Given(t) = th[t].nets
    BY <1>1, <1>2 DEF Staged, Busy, TreesInv, AtWork, Given
<1>4. th \in [Thread -> ThreadState] /\ 8 \in Thread
    BY <1>2 DEF TypeInv, Thread
<1>5. UNION {th[t].failed : t \in 0 .. 7} \in SUBSET Net
    <2>1. \A t \in Thread : th[t].failed \in SUBSET Net
        BY <1>4 DEF ThreadState
    <2>2. 0 .. 7 \subseteq Thread
        BY DEF Thread
    <2> QED BY <2>1, <2>2
<1>6. /\ th' \in [Thread -> ThreadState]
      /\ \A t \in Thread : /\ th'[t].phase = "idle" /\ th'[t].reg = NoReg
                           /\ AtRest(th'[t])
                           /\ t # 8 => th'[t].nets = th[t].nets
                           /\ stage # 4 => th'[t].nets = th[t].nets
    <2> DEFINE U == UNION {th[t].failed : t \in 0 .. 7}
    <2>1. CASE stage # 4
        BY <1>1, <1>3, <1>4, <2>1
    <2>2. CASE stage = 4
        <3>1. th' = [th EXCEPT ![8].nets = U] /\ U \in SUBSET Net
            BY <1>1, <1>5, <2>2
        <3> HIDE DEF U
        <3> DEFINE x == [th[8] EXCEPT !.nets = U]
        <3>2. th' = [th EXCEPT ![8] = x]
            BY <3>1
        <3>3. x \in ThreadState /\ x.phase = "idle" /\ x.reg = NoReg /\ AtRest(x)
            <4>1. /\ th[8] \in ThreadState /\ th[8].phase = "idle" /\ th[8].reg = NoReg
                  /\ AtRest(th[8])
                BY <1>3, <1>4
            <4> QED BY <3>1, <4>1 DEF ThreadState, AtRest
        <3> HIDE DEF x
        <3> QED BY <1>3, <1>4, <2>2, <3>2, <3>3
    <2> QED BY <2>1, <2>2
<1>7. \A t \in Thread : ~Busy(t)' /\ Given(t)' = th'[t].nets
    BY <1>6 DEF Busy, Given
<1>8. TypeInv'
    BY <1>1, <1>2, <1>6 DEF TypeInv, routing, plan
<1>9. \A s \in 1 .. 5 : s <= stage => \A t \in StageThreads[s] \ {8} : Given(t)' = {}
    <2> SUFFICES ASSUME NEW s \in 1 .. 5, s <= stage,
                        NEW t \in StageThreads[s] \ {8}
                 PROVE  Given(t)' = {}
        OBVIOUS
    <2>1. t \in Thread /\ t # 8
        BY StageSets
    <2>2. th[t].nets = {}
        <3>1. CASE s = stage
            BY <1>1, <3>1
        <3>2. CASE s # stage
            <4>1. s \in 1 .. 4 /\ s < stage
                BY <1>2, <3>2
            <4> QED BY <1>2, <1>3, <2>1, <4>1 DEF Staged
        <3> QED BY <3>1, <3>2
    <2> QED BY <1>6, <1>7, <2>1, <2>2
<1>10. Staged'
    <2>1. stage' = 0 => \A t \in Thread : Given(t)' = {}
        <3> SUFFICES ASSUME stage' = 0, NEW t \in Thread
                     PROVE  Given(t)' = {}
            OBVIOUS
        <3>1. stage = 5
            BY <1>1, <1>2
        <3>2. CASE t = 8
            BY <1>1, <1>6, <1>7, <3>1, <3>2, StageSets
        <3>3. CASE t # 8
            <4>1. t \in {0, 1, 2, 3} \/ t \in {4, 5} \/ t \in {6, 7}
                BY <3>3 DEF Thread
            <4> QED BY <1>9, <3>1, <3>3, <4>1, StageSets
        <3> QED BY <3>2, <3>3
    <2>2. \A s \in 1 .. 4 : s < stage' => \A t \in StageThreads[s] \ {8} : Given(t)' = {}
        BY <1>1, <1>2, <1>9
    <2>3. \A t \in Thread \ {8} : \A n \in Given(t)' : Bin(bb'[n]) = t
        BY <1>1, <1>2, <1>3, <1>6, <1>7 DEF Staged, plan
    <2>4. pc' = "route" => stage' # 0
        BY <1>1, <1>2
    <2>5. pc' \notin {"route", "error", "disturbed"} => stage' = 0
        BY <1>1
    <2>6. pc' # "error"
        BY <1>1
    <2> QED BY <1>6, <1>7, <2>1, <2>2, <2>3, <2>4, <2>5, <2>6 DEF Staged
<1>11. TreesInv'
    <2>1. \A n : ~InWork(n) /\ ~InWork(n)'
        BY <1>3, <1>6 DEF InWork
    <2>2. NetsWhole'
        BY <1>1, <1>2, <2>1 DEF TreesInv, NetsWhole, routing
    <2> QED BY <1>6, <2>2 DEF TreesInv, AtWork
<1>12. BoxesInv'
    <2>1. \A t, n : Stray(t, n)' = Stray(t, n)
        BY <1>1 DEF Stray, Uses, routing
    <2> QED BY <1>1, <1>2, <1>3, <1>6, <1>7, <2>1 DEF BoxesInv, plan
<1>13. CountersInv'
    <2>1. \A w : Incrementing(w) = {} /\ Incrementing(w)' = {}
        BY <1>3, <1>6 DEF Incrementing
    <2>2. ~strayed' => CountersExact'
        BY <1>1, <1>2, <2>1 DEF CountersInv, CountersExact, Uses, routing, plan
    <2> QED BY <1>6, <2>2 DEF CountersInv
<1> QED BY <1>8, <1>10, <1>11, <1>12, <1>13 DEF IInv

(* An arc that bind_and_check could not bind is given up: its wires go the *)
(* way a ripup would have taken them, one by one.                          *)
GivenUp(nw, T) ==
    [w \in Wire |-> IF w \in {v \in T : nw[v].count = 1} THEN NoUse
                    ELSE IF w \in T THEN [nw[w] EXCEPT !.count = nw[w].count - 1]
                    ELSE nw[w]]

(* Ripping up an arc whole takes it off each wire of its trunk and frees   *)
(* those no other arc needs; the net is whole afterwards.                  *)
LEMMA GiveUpWhole ==
    ASSUME NEW n \in Net, NEW nw \in NetWires, NEW rt \in [Arc -> BOOLEAN],
           NEW a \in ToSet(NetArcs[n]), rt[a], WholeBut(nw, rt, n, NoReg, {})
    PROVE  LET T  == TrunkIn(nw, n, SinkWire[a])
               mw == GivenUp(nw, T)
           IN  /\ mw \in NetWires
               /\ \A w \in T : w \in Wire /\ nw[w] # NoUse
               /\ \A w \in Wire : mw[w] # NoUse <=>
                     nw[w] # NoUse /\ ~(w \in T /\ nw[w].count = 1)
               /\ WholeBut(mw, [rt EXCEPT ![a] = FALSE], n, NoReg, {})
<1> DEFINE T  == TrunkIn(nw, n, SinkWire[a])
           mw == GivenUp(nw, T)
           qt == [rt EXCEPT ![a] = FALSE]
           others(w) == Cardinality(OthersIn(nw, rt, n, a, w))
<1>1. /\ SinkWire[a] \in Wire /\ a \in Arc
      /\ ReachesIn(nw, n, SinkWire[a]) /\ WholeBut(nw, rt, n, a, T)
    BY TakeOut, ArcsOfNet
<1>2. \A w \in T : w \in Wire /\ w # NetSrc[n] /\ nw[w] # NoUse
    BY <1>1, TrunkIs
<1>3. \A w \in Wire : others(w) \in Nat
    BY OthersFinite
<1> HIDE DEF T
<1>4. \A w \in T : nw[w] \in Use /\ nw[w].count = others(w) + 1
    <2> TAKE w \in T
    <2>1. w \in Wire \ {NetSrc[n]} /\ nw[w] # NoUse /\ nw[w] \in Use
        BY <1>2 DEF NetWires
    <2> QED BY <1>1, <2>1 DEF WholeBut
<1> HIDE DEF others
<1>5. ASSUME NEW w \in Wire
      PROVE  /\ w \notin T => mw[w] = nw[w]
             /\ w \in T /\ others(w) = 0 => mw[w] = NoUse
             /\ w \in T /\ others(w) # 0 =>
                   /\ mw[w].pip = nw[w].pip /\ mw[w].count = others(w)
                   /\ mw[w] \in Use /\ mw[w] # NoUse
             /\ w \in T => (others(w) = 0 <=> nw[w].count = 1)
    <2>1. mw[w] = IF w \in {v \in T : nw[v].count = 1} THEN NoUse
                  ELSE IF w \in T THEN [nw[w] EXCEPT !.count = nw[w].count - 1]
                  ELSE nw[w]
        BY DEF GivenUp
    <2> DEFINE u == mw[w]
    <2> HIDE DEF mw
    <2>2. CASE w \notin T
        BY <2>1, <2>2
    <2>3. CASE w \in T
        <3>1. /\ nw[w] \in Use /\ nw[w].count = others(w) + 1 /\ others(w) \in Nat
            BY <1>3, <1>4, <2>3
        <3>2. CASE others(w) = 0
            BY <2>1, <2>3, <3>1, <3>2
        <3>3. CASE others(w) # 0
            <4>1. mw[w] = [nw[w] EXCEPT !.count = nw[w].count - 1]
                BY <2>1, <2>3, <3>1, <3>3
            <4>2. /\ mw[w].pip = nw[w].pip /\ mw[w].count = others(w)
                  /\ mw[w] \in Use
                BY <3>1, <4>1 DEF Use
            <4>3. mw[w] # NoUse
                BY <3>1, <4>2 DEF NoUse
            <4> QED BY <2>3, <3>1, <3>3, <4>2, <4>3
        <3> QED BY <3>2, <3>3
    <2> QED BY <2>2, <2>3
<1>6. mw \in NetWires
    <2>1. \A w \in Wire : mw[w] \in Use \cup {NoUse}
        BY <1>3, <1>5 DEF NetWires
    <2>2. mw = [w \in Wire |-> mw[w]]
        BY DEF GivenUp
    <2> HIDE DEF mw
    <2> QED BY <2>1, <2>2 DEF NetWires
<1> HIDE DEF mw
<1>7. \A w \in Wire : mw[w] # NoUse <=> nw[w] # NoUse /\ ~(w \in T /\ nw[w].count = 1)
    BY <1>2, <1>5
<1>8. WholeBut(mw, rt, n, a, {})
    <2>1. \A v \in Wire \ {NetSrc[n]} :
             mw[v].pip = nw[v].pip \/ OthersIn(nw, rt, n, a, v) = {}
        <3> TAKE v \in Wire \ {NetSrc[n]}
        <3>1. CASE v \in T /\ others(v) = 0
            <4>1. IsFiniteSet(OthersIn(nw, rt, n, a, v))
                BY OthersFinite
            <4> QED BY <3>1, <4>1, FS_EmptySet DEF others
        <3>2. CASE ~(v \in T /\ others(v) = 0)
            BY <1>5, <3>2
        <3> QED BY <3>1, <3>2
    <2>2. /\ \A b \in ToSet(NetArcs[n]) \ {a} : rt[b] => ReachesIn(mw, n, SinkWire[b])
          /\ \A w : OthersIn(mw, rt, n, a, w) = OthersIn(nw, rt, n, a, w)
        BY <1>1, <1>6, <2>1, WholeFrame
    <2>3. ASSUME NEW w \in Wire \ {NetSrc[n]}, mw[w] # NoUse
          PROVE  mw[w].count = Cardinality(OthersIn(mw, rt, n, a, w))
        <3>1. OthersIn(mw, rt, n, a, w) = OthersIn(nw, rt, n, a, w)
            BY <2>2
        <3>2. CASE w \in T
            BY <1>5, <2>3, <3>1, <3>2 DEF others
        <3>3. CASE w \notin T
            <4>1. mw[w] = nw[w]
                BY <1>5, <3>3
            <4>2. nw[w].count = others(w) + 0
                BY <1>1, <2>3, <3>3, <4>1 DEF WholeBut, others
            <4> QED BY <1>3, <3>1, <4>1, <4>2 DEF others
        <3> QED BY <3>2, <3>3
    <2>4. \A w : Cardinality(OthersIn(mw, rt, n, a, w)) + 0
                    = Cardinality(OthersIn(mw, rt, n, a, w))
        BY OthersFinite
    <2> QED BY <2>2, <2>3, <2>4 DEF WholeBut
<1>9. ~qt[a] /\ \A b \in ToSet(NetArcs[n]) \ {a} : rt[b] <=> qt[b]
    BY <1>1, ArcsOfNet
<1> HIDE DEF qt
<1>10. WholeBut(mw, qt, n, a, {})
    BY <1>8, <1>9, WholeSame
<1>11. WholeBut(mw, qt, n, NoReg, {})
    BY <1>9, <1>10, PutBack
<1> QED BY <1>2, <1>6, <1>7, <1>11 DEF T, mw, qt

(* An arc that the context refuses to bind is ripped up by the main thread *)
(* and its net queued again, which keeps the invariant.                    *)
LEMMA BindFailsKeeps ==
    ASSUME IInv, NEW a \in Arc, BindFails(a)
    PROVE  IInv'
<1> DEFINE n == ArcNet[a]
           nw == net_wires[n]
           T == TrunkIn(nw, n, SinkWire[a])
           freed == {v \in T : nw[v].count = 1}
           mw == GivenUp(nw, T)
<1>1. /\ pc = "bind" /\ n \notin Undriven /\ routed[a]
      /\ routed' = [routed EXCEPT ![a] = FALSE]
      /\ failed_nets' = failed_nets \cup {n}
      /\ UNCHANGED <<fab, bb, fail_count, late, route_queue, iter, strayed,
                     pc, stage, th>>
    BY DEF BindFails, Failed
<1>2. Trunk(n, SinkWire[a]) = T
    BY SameNames
<1>3. /\ net_wires' = [net_wires EXCEPT ![n] = mw]
      /\ curr_cong' = [w \in Wire |-> IF w \in freed THEN curr_cong[w] - 1
                                                     ELSE curr_cong[w]]
    <2> HIDE DEF T, n
    <2> QED BY <1>2 DEF BindFails, GivenUp, n
<1>4. TypeInv /\ Staged /\ TreesInv /\ BoxesInv /\ CountersInv /\ stage = 0
    BY <1>1 DEF IInv, Staged
<1>5. n \in Net /\ a \in ToSet(NetArcs[n])
    <2>1. \E m \in Net : a \in ToSet(NetArcs[m])
        BY Router2Assumption
    <2>2. PICK m \in Net : a \in ToSet(NetArcs[m])
        BY <2>1
    <2> QED BY <2>2, ArcNetIs
<1>6. \A t \in Thread : /\ ~Busy(t) /\ Given(t) = {} /\ th[t].reg = NoReg
                        /\ th[t].phase = "idle" /\ AtRest(th[t])
    BY <1>4, AllAtRest
<1>7. /\ nw \in NetWires /\ routed \in [Arc -> BOOLEAN]
      /\ curr_cong \in [Wire -> Int] /\ net_wires \in [Net -> NetWires]
    BY <1>4, <1>5 DEF TypeInv
<1>8. \A m \in Net \ Undriven : WholeBut(net_wires[m], routed, m, NoReg, {})
    BY <1>4, <1>6 DEF TreesInv, NetsWhole, InWork
<1>9. /\ mw \in NetWires
      /\ \A w \in T : w \in Wire /\ nw[w] # NoUse
      /\ \A w \in Wire : mw[w] # NoUse <=> nw[w] # NoUse /\ w \notin freed
      /\ WholeBut(mw, routed', n, NoReg, {})
    <2>1. WholeBut(nw, routed, n, NoReg, {})
        BY <1>1, <1>5, <1>8
    <2>2. /\ mw \in NetWires
          /\ \A w \in T : w \in Wire /\ nw[w] # NoUse
          /\ \A w \in Wire : mw[w] # NoUse <=>
                nw[w] # NoUse /\ ~(w \in T /\ nw[w].count = 1)
          /\ WholeBut(mw, [routed EXCEPT ![a] = FALSE], n, NoReg, {})
        <3>1. routed[a]
            BY <1>1
        <3> HIDE DEF n, nw
        <3> QED BY <1>5, <1>7, <2>1, <3>1, GiveUpWhole
    <2> QED BY <1>1, <2>2
<1>10. \A w \in Wire : w \in freed => nw[w] # NoUse
    BY <1>9
<1> HIDE DEF n, nw, mw, freed, T
<1>11. /\ net_wires' \in [Net -> NetWires] /\ net_wires'[n] = mw
       /\ \A m \in Net : m # n => net_wires'[m] = net_wires[m]
    BY <1>3, <1>5, <1>7, <1>9
<1>12. /\ curr_cong' \in [Wire -> Int] /\ routed' \in [Arc -> BOOLEAN]
       /\ \A b \in Arc : b # a => routed'[b] = routed[b]
    BY <1>1, <1>3, <1>7
<1>13. TypeInv'
    BY <1>1, <1>4, <1>5, <1>11, <1>12 DEF TypeInv
<1>14. Staged'
    BY <1>1, <1>4 DEF Staged, Busy, Given
<1>15. TreesInv'
    <2>1. ASSUME NEW m \in Net \ Undriven
          PROVE  WholeBut(net_wires'[m], routed', m, NoReg, {})
        <3>1. CASE m = n
            BY <3>1, <1>9, <1>11
        <3>2. CASE m # n
            <4>1. \A b \in ToSet(NetArcs[m]) \ {NoReg} : routed[b] <=> routed'[b]
                <5> TAKE b \in ToSet(NetArcs[m]) \ {NoReg}
                <5>1. b \in Arc
                    BY ArcsOfNet
                <5>2. b # a
                    BY <3>2, <1>5, Router2Assumption
                <5> QED BY <5>1, <5>2, <1>12
            <4>2. WholeBut(net_wires[m], routed', m, NoReg, {})
                BY <1>8, <4>1, WholeSame
            <4> QED BY <3>2, <1>11, <4>2
        <3> QED BY <3>1, <3>2
    <2> QED BY <1>1, <1>6, <2>1 DEF TreesInv, NetsWhole, AtWork
<1>16. BoxesInv'
    BY <1>1, <1>4, <1>6 DEF BoxesInv, Given, Busy
<1>17. CountersInv'
    <2> SUFFICES ASSUME ~strayed PROVE CountersInv'
        BY <1>1 DEF CountersInv
    <2>1. \A w : Incrementing(w) = {} /\ Incrementing(w)' = {}
        BY <1>1, <1>6 DEF Incrementing
    <2>2. Cardinality({}) = 0
        BY FS_EmptySet
    <2> DEFINE C(w) == {m \in Net : Uses(m, w)}
    <2>3. ASSUME NEW w \in Wire
          PROVE  curr_cong'[w] + Cardinality(Incrementing(w)') = Cardinality(C(w)')
        <3>1. curr_cong[w] + 0 = Cardinality(C(w)) /\ curr_cong[w] \in Int
            BY <1>4, <1>7, <2>1, <2>2 DEF CountersInv, CountersExact
        <3>2. IsFiniteSet(C(w)) /\ Cardinality(C(w)) \in Nat
            BY Counted
        <3>3. CASE w \in freed
            <4>1. C(w)' = C(w) \ {n} /\ n \in C(w)
                BY <1>5, <1>9, <1>10, <1>11, <3>3 DEF Uses, nw
            <4>2. Cardinality(C(w)') = Cardinality(C(w)) - 1
                BY <3>2, <4>1, FS_RemoveElement, ZenonT(60)
            <4>3. curr_cong'[w] = curr_cong[w] - 1
                BY <1>3, <3>3
            <4>4. Cardinality(Incrementing(w)') = 0
                BY <2>1, <2>2
            <4> HIDE DEF C
            <4> QED BY <3>1, <3>2, <4>2, <4>3, <4>4
        <3>4. CASE w \notin freed
            <4>1. C(w)' = C(w)
                BY <1>5, <1>9, <1>11, <3>4 DEF Uses, nw
            <4>2. curr_cong'[w] = curr_cong[w]
                BY <1>3, <3>4
            <4> QED BY <2>1, <2>2, <3>1, <4>1, <4>2
        <3> QED BY <3>3, <3>4
    <2>4. CountersExact'
        BY <2>3 DEF CountersExact
    <2>5. \A t \in Thread : th'[t].reg = NoReg
        BY <1>1, <1>6
    <2> QED BY <2>4, <2>5 DEF CountersInv
<1> QED BY <1>13, <1>14, <1>15, <1>16, <1>17 DEF IInv

-----------------------------------------------------------------------------
(* The initial states. *)

(* What setup_wires finds bound is whole. *)
LEMMA SetupWhole ==
    ASSUME NEW f \in FabricState, NEW n \in Net, NEW rt
    PROVE  LET nw == SetupUses(f)[n]
           IN  /\ nw \in NetWires
               /\ \A w \in Wire : nw[w] # NoUse <=> HasWire(f, n, w)
               /\ /\ n \notin Undriven
                  /\ \A b \in ToSet(NetArcs[n]) :
                        rt[b] <=> ReachesIn(nw, n, SinkWire[b])
                  => WholeBut(nw, rt, n, NoReg, {})
<1> DEFINE own(m) == [w \in Wire |-> IF HasWire(f, m, w)
                                     THEN [pip |-> f.wires[m][w].pip, count |-> 0]
                                     ELSE NoUse]
           legal(m) == IF m \in Undriven THEN {}
                       ELSE {a \in ToSet(NetArcs[m]) :
                               Last(WalkIn(own(m), m, SinkWire[a])) = NetSrc[m]}
           users(m, w) == {a \in legal(m) :
                             w \in ToSet(Front(WalkIn(own(m), m, SinkWire[a])))}
           nw == SetupUses(f)[n]
           ow == own(n)
           us(w) == users(n, w)
<1>1. nw = [w \in Wire |-> IF HasWire(f, n, w)
                           THEN [ow[w] EXCEPT !.count = Cardinality(us(w))]
                           ELSE NoUse]
    BY DEF SetupUses
<1>2. ow = [w \in Wire |-> IF HasWire(f, n, w)
                           THEN [pip |-> f.wires[n][w].pip, count |-> 0]
                           ELSE NoUse]
    OBVIOUS
<1>3. \A w : us(w) = {a \in IF n \in Undriven THEN {}
                            ELSE {b \in ToSet(NetArcs[n]) : ReachesIn(ow, n, SinkWire[b])} :
                        w \in ToSet(Front(WalkIn(ow, n, SinkWire[a])))}
    BY DEF ReachesIn
<1> HIDE DEF nw, ow, us, users, own, legal
<1>4. \A w : Cardinality(us(w)) \in Nat
    <2> TAKE w
    <2>1. us(w) \subseteq ToSet(NetArcs[n])
        BY <1>3
    <2>2. IsFiniteSet(us(w))
        BY <2>1, ArcsOfNet, FS_Subset
    <2> QED BY <2>2, FS_CardinalityType
<1>5. \A w \in Wire : HasWire(f, n, w) => f.wires[n][w].pip \in Pip \cup {NoPip}
    BY DEF FabricState, HasWire, PipMap
<1>6. ASSUME NEW w \in Wire
      PROVE  /\ ~HasWire(f, n, w) => nw[w] = NoUse /\ ow[w] = NoUse
             /\ HasWire(f, n, w) =>
                   /\ nw[w] \in Use /\ nw[w] # NoUse /\ ow[w] \in Use
                   /\ nw[w].pip = ow[w].pip
                   /\ nw[w].count = Cardinality(us(w))
    <2>1. CASE ~HasWire(f, n, w)
        BY <1>1, <1>2, <2>1
    <2>2. CASE HasWire(f, n, w)
        <3> DEFINE p == f.wires[n][w].pip
                   k == Cardinality(us(w))
        <3>1. p \in Pip \cup {NoPip} /\ k \in Nat
            BY <1>4, <1>5, <2>2
        <3>2. ow[w] = [pip |-> p, count |-> 0] /\ nw[w] = [ow[w] EXCEPT !.count = k]
            BY <1>1, <1>2, <2>2
        <3> HIDE DEF p, k
        <3>3. ow[w] \in Use /\ nw[w] = [pip |-> p, count |-> k]
            BY <3>1, <3>2 DEF Use
        <3>4. nw[w] \in Use /\ nw[w].count = k /\ nw[w].pip = ow[w].pip
            BY <3>1, <3>2, <3>3 DEF Use
        <3>5. nw[w] # NoUse
            BY <3>1, <3>4 DEF NoUse
        <3> QED BY <2>2, <3>3, <3>4, <3>5 DEF k
    <2> QED BY <2>1, <2>2
<1>7. nw \in NetWires /\ ow \in NetWires
    <2>1. \A w \in Wire : nw[w] \in Use \cup {NoUse} /\ ow[w] \in Use \cup {NoUse}
        BY <1>6
    <2>2. DOMAIN nw = Wire /\ DOMAIN ow = Wire
        BY <1>1, <1>2
    <2>3. nw = [w \in Wire |-> nw[w]] /\ ow = [w \in Wire |-> ow[w]]
        BY <1>1, <1>2
    <2> QED BY <2>1, <2>3 DEF NetWires
<1>8. \A w \in Wire : nw[w].pip = ow[w].pip
    BY <1>6
<1>9. ASSUME NEW b \in ToSet(NetArcs[n])
      PROVE  /\ ReachesIn(ow, n, SinkWire[b]) <=> ReachesIn(nw, n, SinkWire[b])
             /\ ReachesIn(ow, n, SinkWire[b]) =>
                  WalkIn(ow, n, SinkWire[b]) = WalkIn(nw, n, SinkWire[b])
    <2> DEFINE w == SinkWire[b]
    <2>1. w \in Wire
        BY ArcsOfNet
    <2> HIDE DEF w
    <2>2. TrunkIn(ow, n, w) \subseteq Wire /\ TrunkIn(nw, n, w) \subseteq Wire
        BY <1>7, <2>1, TrunkWires
    <2>3. ReachesIn(ow, n, w) => ReachesIn(nw, n, w) /\ WalkIn(nw, n, w) = WalkIn(ow, n, w)
        BY <1>7, <1>8, <2>1, <2>2, WayFrame
    <2>4. ReachesIn(nw, n, w) => ReachesIn(ow, n, w)
        BY <1>7, <1>8, <2>1, <2>2, WayFrame
    <2> QED BY <2>3, <2>4 DEF w
<1>10. ASSUME n \notin Undriven,
              \A b \in ToSet(NetArcs[n]) : rt[b] <=> ReachesIn(nw, n, SinkWire[b])
       PROVE  WholeBut(nw, rt, n, NoReg, {})
    <2>1. ASSUME NEW w \in Wire \ {NetSrc[n]}
          PROVE  us(w) = OthersIn(nw, rt, n, NoReg, w)
        <3>1. ASSUME NEW b \in ToSet(NetArcs[n]), rt[b]
              PROVE  w \in ToSet(Front(WalkIn(nw, n, SinkWire[b])))
                       <=> w \in TrunkIn(nw, n, SinkWire[b])
            <4> DEFINE s == WalkIn(nw, n, SinkWire[b])
            <4>1. SinkWire[b] \in Wire /\ ReachesIn(nw, n, SinkWire[b])
                BY <1>10, <3>1, ArcsOfNet
            <4>2. TrunkIn(nw, n, SinkWire[b]) = {s[i] : i \in 1 .. Len(s) - 1}
                BY <1>7, <4>1, TrunkIs
            <4>3. s \in Seq(Wire) /\ Len(s) \in Nat \ {0}
                BY <1>7, <4>1, WalkIsWay DEF IsWay
            <4> HIDE DEF s
            <4>4. /\ Front(s) \in Seq(Wire) /\ Len(Front(s)) = Len(s) - 1
                  /\ \A i \in 1 .. Len(s) - 1 : Front(s)[i] = s[i]
                BY <4>3, FrontIs
            <4>5. DOMAIN Front(s) = 1 .. Len(s) - 1
                BY <4>4
            <4>6. ToSet(Front(s)) = {s[i] : i \in 1 .. Len(s) - 1}
                BY <4>4, <4>5 DEF ToSet
            <4> QED BY <4>2, <4>6 DEF s
        <3>2. \A b \in ToSet(NetArcs[n]) : b # NoReg
            BY ArcsOfNet
        <3> QED BY <1>3, <1>9, <1>10, <3>1, <3>2 DEF OthersIn
    <2>2. ASSUME NEW w \in Wire \ {NetSrc[n]}, nw[w] # NoUse
          PROVE  nw[w].count = Cardinality(OthersIn(nw, rt, n, NoReg, w)) + 0
        <3>1. nw[w].count = Cardinality(us(w)) /\ Cardinality(us(w)) \in Nat
            BY <1>4, <1>6, <2>2
        <3>2. nw[w].count = Cardinality(OthersIn(nw, rt, n, NoReg, w))
            BY <2>1, <3>1
        <3> QED BY <3>1, <3>2
    <2> QED BY <1>10, <2>2 DEF WholeBut
<1> QED BY <1>6, <1>7, <1>10 DEF nw

(* After setup_nets and setup_wires the invariant holds: what was routed   *)
(* before is counted on the wires it uses, and no thread has begun.        *)
LEMMA InitInv ==
    ASSUME Init
    PROVE  IInv
<1>1. /\ fab \in FabricState /\ FabricConsistent(fab)
      /\ net_wires = SetupUses(fab)
      /\ curr_cong = [w \in Wire |-> IF fab.wire_to_net[w] = NoNet THEN 0 ELSE 1]
      /\ routed = [a \in Arc |-> ArcNet[a] \notin Undriven
                                 /\ Reaches(ArcNet[a], SinkWire[a])]
      /\ bb = NetBox /\ route_queue = Net /\ failed_nets = {}
      /\ pc = "loop" /\ stage = 0 /\ strayed = FALSE
      /\ th = [t \in Thread |-> Idle]
    BY Router2Assumption DEF Init
<1>2. ASSUME NEW n \in Net
      PROVE  /\ net_wires[n] \in NetWires
             /\ \A w \in Wire : net_wires[n][w] # NoUse <=> HasWire(fab, n, w)
             /\ n \notin Undriven => WholeBut(net_wires[n], routed, n, NoReg, {})
    <2>1. \A b \in ToSet(NetArcs[n]) : n \notin Undriven =>
             (routed[b] <=> ReachesIn(net_wires[n], n, SinkWire[b]))
        <3> TAKE b \in ToSet(NetArcs[n])
        <3>1. b \in Arc /\ ArcNet[b] = n
            BY ArcNetIs
        <3> QED BY <1>1, <3>1, SameNames
    <2>2. net_wires[n] = SetupUses(fab)[n]
        BY <1>1
    <2> QED BY <1>1, <2>1, <2>2, SetupWhole
<1>3. \A t \in Thread : /\ th[t] = Idle /\ th[t].phase = "idle" /\ th[t].reg = NoReg
                        /\ AtRest(th[t]) /\ ~Busy(t) /\ Given(t) = {}
    BY <1>1 DEF Idle, AtRest, Busy, Given
<1>4. TypeInv
    <2>1. net_wires \in [Net -> NetWires]
        <3>1. net_wires = [n \in Net |-> net_wires[n]]
            BY <1>1 DEF SetupUses
        <3> QED BY <1>2, <3>1
    <2>2. Idle \in ThreadState
        <3>1. <<>> \in Seq(Arc) /\ <<>> \in Seq(PathStep)
            OBVIOUS
        <3> QED BY <3>1 DEF Idle, ThreadState
    <2>3. curr_cong \in [Wire -> Int]
        BY <1>1
    <2>4. routed \in [Arc -> BOOLEAN]
        <3>1. \A a \in Arc : routed[a] \in BOOLEAN
            BY <1>1
        <3>2. routed = [a \in Arc |-> routed[a]]
            BY <1>1
        <3> QED BY <3>1, <3>2
    <2>5. bb \in [Net -> Box]
        BY <1>1, Router2Assumption
    <2>6. th \in [Thread -> ThreadState]
        BY <1>1, <2>2
    <2>7. /\ route_queue \in SUBSET Net /\ failed_nets \in SUBSET Net
          /\ stage \in 0 .. 5 /\ strayed \in BOOLEAN
        <3>1. route_queue = Net /\ failed_nets = {} /\ stage = 0 /\ strayed = FALSE
            BY <1>1
        <3>2. strayed \in BOOLEAN
            BY <3>1
        <3>3. stage \in 0 .. 5
            BY <3>1
        <3>4. route_queue \in SUBSET Net /\ failed_nets \in SUBSET Net
            BY <3>1
        <3> QED BY <3>2, <3>3, <3>4
    <2> QED BY <2>1, <2>3, <2>4, <2>5, <2>6, <2>7 DEF TypeInv
<1>5. Staged
    BY <1>1, <1>3 DEF Staged
<1>6. TreesInv
    BY <1>2, <1>3 DEF TreesInv, NetsWhole, AtWork
<1>7. BoxesInv
    BY <1>1, <1>3 DEF BoxesInv
<1>8. CountersInv
    <2>1. Cardinality({}) = 0 /\ \A w : Incrementing(w) = {}
        BY <1>3, FS_EmptySet DEF Incrementing
    <2>2. ASSUME NEW w \in Wire
          PROVE  curr_cong[w] = Cardinality({n \in Net : Uses(n, w)})
        <3>1. \A n \in Net : Uses(n, w) <=> fab.wire_to_net[w] = n
            BY <1>1, <1>2 DEF Uses, FabricConsistent, WireMapsAgree
        <3>2. CASE fab.wire_to_net[w] = NoNet
            <4>1. {n \in Net : Uses(n, w)} = {}
                BY <3>1, <3>2, FabricAssumption
            <4> QED BY <1>1, <2>1, <3>2, <4>1
        <3>3. CASE fab.wire_to_net[w] # NoNet
            <4>1. fab.wire_to_net[w] \in Net
                BY <1>1, <3>3 DEF FabricState
            <4>2. {n \in Net : Uses(n, w)} = {fab.wire_to_net[w]}
                BY <3>1, <4>1
            <4>3. Cardinality({fab.wire_to_net[w]}) = 1
                BY FS_Singleton
            <4> QED BY <1>1, <3>3, <4>2, <4>3
        <3> QED BY <3>2, <3>3
    <2>3. \A w \in Wire : curr_cong[w] \in Int
        BY <1>1
    <2>4. CountersExact
        <3> SUFFICES ASSUME NEW w \in Wire
                     PROVE  curr_cong[w] + Cardinality(Incrementing(w))
                              = Cardinality({n \in Net : Uses(n, w)})
            BY DEF CountersExact
        <3>1. Cardinality(Incrementing(w)) = 0
            BY <2>1
        <3>2. curr_cong[w] \in Int /\ curr_cong[w] + 0 = curr_cong[w]
            BY <2>3
        <3> QED BY <2>2, <3>1, <3>2
    <2> QED BY <1>3, <2>4 DEF CountersInv
<1> QED BY <1>4, <1>5, <1>6, <1>7, <1>8 DEF IInv

(* Every step of the threads and of the main thread keeps the invariant. *)
LEMMA StepKeeps ==
    ASSUME IInv, [Next]_vars
    PROVE  IInv'
<1>1. ASSUME NEW t \in Thread, ThreadStep(t) PROVE IInv'
    <2>1. ASSUME NEW n \in th[t].nets, TakeNet(t, n) PROVE IInv'
        BY <2>1, TakeNetKeeps
    <2>2. CASE CheckArc(t)
        BY <2>2, CheckArcKeeps
    <2>3. CASE RipLoad(t)
        BY <2>3, RipLoadKeeps
    <2>4. CASE RipStore(t)
        BY <2>4, RipStoreKeeps
    <2>5. CASE RipDone(t)
        BY <2>5, RipDoneKeeps
    <2>6. ASSUME NEW a \in th[t].arcs,
                 \/ FindPath(t, a) \/ FindAtOnce(t, a)
                 \/ SkipArc(t, a) \/ GiveUpArc(t, a) \/ RouteError(t, a)
          PROVE  IInv'
        BY <2>6, FindPathKeeps, FindAtOnceKeeps, SetAsideKeeps, RouteErrorKeeps
    <2>7. CASE Disturb(t)
        BY <2>7, DisturbKeeps
    <2>8. CASE BindLoad(t)
        BY <2>8, BindLoadKeeps
    <2>9. CASE BindStore(t)
        BY <2>9, BindStoreKeeps
    <2>10. CASE BindDone(t)
        BY <2>10, BindDoneKeeps
    <2>11. CASE LeaveNet(t)
        BY <2>11, LeaveNetKeeps
    <2> QED BY <1>1, <2>1, <2>2, <2>3, <2>4, <2>5, <2>6, <2>7, <2>8, <2>9, <2>10,
               <2>11 DEF ThreadStep
<1>2. ASSUME \/ \E l \in SUBSET MayBeLate : UpdateCongestion(l)
             \/ EndIteration
             \/ \E n \in Net : UnbindNet(n)
             \/ \E a \in Arc : BindUnrouted(a) \/ BindArc(a)
      PROVE  IInv'
    BY <1>2, MainStepKeeps
<1>3. ASSUME NEW a \in Arc, BindFails(a) PROVE IInv'
    BY <1>3, BindFailsKeeps
<1>4. ASSUME UNCHANGED vars PROVE IInv'
    <2>1. /\ UNCHANGED <<fab, routing, plan, stage, th>> /\ pc' = pc
          /\ UNCHANGED <<bb, strayed>>
        BY <1>4 DEF vars, plan
    <2>2. Staged'
        BY <2>1 DEF IInv, Staged, Busy, Given
    <2>3. ~strayed => pc' # "disturbed"
        BY <2>1 DEF IInv, BoxesInv
    <2> QED BY <2>1, <2>2, <2>3, StandStill
<1>5. CASE Returned
    BY <1>4, <1>5 DEF Returned
<1> QED BY <1>1, <1>2, <1>3, <1>4, <1>5, BeginRouteKeeps, NextStageKeeps DEF Next

-----------------------------------------------------------------------------
(* Whatever the threads do and in which order, the routing maps are what   *)
(* IInv says.                                                              *)
THEOREM Router2Invariant == Spec => []IInv
<1>1. Init => IInv
    BY InitInv
<1>2. IInv /\ [Next]_vars => IInv'
    BY StepKeeps
<1> QED BY <1>1, <1>2, PTL DEF Spec

(* TreesInv holds in every state: at every step of a ripup or of a binding *)
(* the net is a tree whose wires count just the arcs that come over them,  *)
(* but for the arc in work, whose path is as far done as its thread says.  *)
THEOREM TreesInvariant == Spec => []TreesInv
<1>1. IInv => TreesInv
    BY DEF IInv
<1> QED BY <1>1, Router2Invariant, PTL

(* CountersExact holds in every state: what is never overused in the       *)
(* counters is never shared, for any number of wires, nets and arcs.       *)
THEOREM CountersStayExact == Spec => []CountersExact
<1>1. IInv => CountersExact
    BY DEF IInv, CountersInv, CountersExact
<1> QED BY <1>1, Router2Invariant, PTL

(* RoutesStand holds in every state: what a net counts on its wires is     *)
(* what its routed arcs need, and each of these reaches the source.        *)
THEOREM RoutesAlwaysStand == Spec => []RoutesStand
<1>1. ASSUME IInv PROVE RoutesStand
    <2> SUFFICES ASSUME NEW n \in Net \ Undriven, ~InHand(n), pc # "disturbed"
                 PROVE  /\ \A a \in ToSet(NetArcs[n]) : routed[a] => Reaches(n, SinkWire[a])
                        /\ \A w \in Wire \ {NetSrc[n]} :
                              Uses(n, w) => net_wires[n][w].count
                                               = Cardinality(ArcsThrough(n, w))
        BY DEF RoutesStand
    <2>0. TypeInv /\ Staged /\ TreesInv
        BY <1>1 DEF IInv
    <2>1. ~InWork(n)
        <3>1. CASE pc = "route"
            BY <3>1 DEF InHand, InWork
        <3>2. CASE pc = "error"
            BY <2>0, <3>2 DEF Staged, InWork
        <3>3. CASE pc \notin {"route", "error", "disturbed"}
            BY <2>0, <3>3, AllAtRest DEF Staged, InWork
        <3> QED BY <3>1, <3>2, <3>3
    <2>2. WholeBut(net_wires[n], routed, n, NoReg, {})
        BY <2>0, <2>1 DEF TreesInv, NetsWhole
    <2>3. NoReg \notin ToSet(NetArcs[n])
        BY ArcsOfNet
    <2>4. \A w : ArcsThrough(n, w) = OthersIn(net_wires[n], routed, n, NoReg, w)
        BY <2>3, SameNames DEF ArcsThrough, OthersIn
    <2>5. \A w : Cardinality(OthersIn(net_wires[n], routed, n, NoReg, w)) + 0
                   = Cardinality(OthersIn(net_wires[n], routed, n, NoReg, w))
        BY OthersFinite
    <2> QED BY <2>2, <2>3, <2>4, <2>5, SameNames DEF WholeBut
<1> QED BY <1>1, Router2Invariant, PTL

(* ThreadsApart holds in every state: unless a net with wires outside its  *)
(* thread's box was handed out, no thread comes near what another one      *)
(* counts, binds, rips up or searches from.                                *)
THEOREM ThreadsStayApart == Spec => []ThreadsApart
<1>1. ASSUME IInv PROVE ThreadsApart
    <2> SUFFICES ASSUME ~strayed
                 PROVE  /\ \A t, u \in Thread : t # u => Touched(t) \cap Touched(u) = {}
                        /\ pc # "disturbed"
        BY DEF ThreadsApart
    <2>0. TypeInv /\ Staged /\ BoxesInv
        BY <1>1 DEF IInv
    <2>1. ASSUME NEW t \in Thread, t # 8, Busy(t)
          PROVE  \A w \in Touched(t) : w \in Wire /\ Inside(t, w)
        <3>1. /\ th[t] \in ThreadState /\ th[t].net \in Net \ Undriven
              /\ th[t].arcs \subseteq ToSet(NetArcs[th[t].net])
            BY <2>0, <2>1, BusyNet
        <3>2. /\ Inside(t, NetSrc[th[t].net])
              /\ \A a \in ToSet(NetArcs[th[t].net]) : Inside(t, SinkWire[a])
              /\ \A v \in Wire : Uses(th[t].net, v) => Inside(t, v)
            BY <2>0, <2>1, EndsInside
        <3>3. \A w \in th[t].seeds \cup PathWires(th[t].path) : Inside(t, w)
            BY <2>0, <2>1 DEF BoxesInv
        <3>4. /\ NetSrc[th[t].net] \in Wire /\ th[t].seeds \subseteq Wire
              /\ \A a \in th[t].arcs : SinkWire[a] \in Wire
              /\ PathWires(th[t].path) \subseteq Wire
            BY <3>1, Router2Assumption, ArcsOfNet, PathWiresIn DEF ThreadState
        <3>5. th[t].phase = "bind" =>
                 Inside(t, SinkWire[th[t].arc]) /\ SinkWire[th[t].arc] \in Wire
            <4>1. th[t].phase = "bind" => th[t].arc \in ToSet(NetArcs[th[t].net])
                BY <1>1 DEF IInv, TreesInv, AtWork, Binding
            <4> QED BY <3>1, <3>2, <4>1, ArcsOfNet
        <3> QED BY <2>1, <3>1, <3>2, <3>3, <3>4, <3>5 DEF Touched, Marks, PathWires, Busy
    <2>2. ASSUME NEW t \in Thread, NEW u \in Thread, t # u,
                 NEW w \in Touched(t) \cap Touched(u)
          PROVE  FALSE
        <3>1. Busy(t) /\ Busy(u)
            BY <2>2 DEF Touched, Busy
        <3>2. /\ stage \in 1 .. 3 /\ t \in StageThreads[stage]
              /\ u \in StageThreads[stage] /\ t # 8 /\ u # 8
            BY <2>0, <2>2, <3>1, BusyApart
        <3>3. w \in Wire /\ Inside(t, w) /\ Inside(u, w)
            BY <2>1, <2>2, <3>1, <3>2
        <3> QED BY <2>2, <3>2, <3>3, BoxesApart
    <2> QED BY <2>0, <2>2 DEF BoxesInv
<1> QED BY <1>1, Router2Invariant, PTL
-----------------------------------------------------------------------------
(* The types. *)

(* What <<>> has and concatenation keeps, a sequence of sequences has, one *)
(* after the other.                                                        *)
LEMMA FlattenIn ==
    ASSUME NEW P, <<>> \in P, \A x, y \in P : x \o y \in P, NEW ss \in Seq(P)
    PROVE  FlattenSeq(ss) \in P
<1>1. CASE Len(ss) = 0
    BY <1>1 DEF FlattenSeq
<1>2. CASE Len(ss) # 0
    <2> DEFINE N == Len(ss)
               IsRec(f) == f = [i \in 1 .. N |-> IF i = 1 THEN ss[i]
                                                 ELSE f[i-1] \o ss[i]]
    <2>1. N \in Nat \ {0} /\ \A i \in 1 .. N : ss[i] \in P
        BY <1>2
    <2>2. \E f : IsRec(f)
        <3> DEFINE More(f, i) == IF i = 1 THEN ss[i] ELSE f[i-1] \o ss[i]
                   Upto(k, f) == /\ f \in [1 .. k -> P]
                                 /\ \A i \in 1 .. k : f[i] = More(f, i)
                   T == {k \in Nat : k <= N => \E f : Upto(k, f)}
        <3>1. 0 \in T
            <4>1. Upto(0, [i \in 1 .. 0 |-> <<>>])
                OBVIOUS
            <4> HIDE DEF Upto
            <4> QED BY <4>1
        <3>2. ASSUME NEW k \in T PROVE k + 1 \in T
            <4>1. SUFFICES ASSUME k + 1 <= N PROVE \E f : Upto(k + 1, f)
                <5> HIDE DEF Upto, N
                <5> QED OBVIOUS
            <4>2. k \in Nat /\ k <= N /\ k + 1 \in 1 .. N
                BY <2>1, <4>1
            <4>3. PICK f : Upto(k, f)
                <5> HIDE DEF Upto
                <5> QED BY <4>2
            <4> DEFINE c == More(f, k + 1)
                       h == [i \in 1 .. k + 1 |-> IF i = k + 1 THEN c ELSE f[i]]
            <4>4. c \in P
                <5>1. CASE k = 0
                    BY <5>1, <2>1, <4>2
                <5>2. CASE k # 0
                    <6>1. k \in 1 .. k /\ (k + 1) - 1 = k /\ k + 1 # 1
                        BY <5>2, <4>2
                    <6>2. f[k] \in P /\ ss[k+1] \in P
                        BY <6>1, <2>1, <4>2, <4>3
                    <6>3. c = f[k] \o ss[k+1]
                        BY <6>1
                    <6> HIDE DEF c
                    <6> QED BY <6>2, <6>3
                <5> QED BY <5>1, <5>2
            <4> HIDE DEF c
            <4>5. h \in [1 .. k + 1 -> P]
                BY <4>2, <4>3, <4>4
            <4>6. ASSUME NEW i \in 1 .. k + 1 PROVE h[i] = More(h, i)
                <5>1. ASSUME i # 1 PROVE h[i-1] = f[i-1]
                    BY <4>2, <5>1
                <5>2. More(h, i) = More(f, i)
                    <6> HIDE DEF h
                    <6> QED BY <5>1
                <5>3. CASE i = k + 1
                    <6>1. h[i] = c
                        BY <5>3
                    <6> HIDE DEF h, More
                    <6> QED BY <5>2, <5>3, <6>1 DEF c
                <5>4. CASE i # k + 1
                    <6>1. i \in 1 .. k /\ h[i] = f[i]
                        BY <4>2, <5>4
                    <6> HIDE DEF h, More
                    <6> QED BY <5>2, <6>1, <4>3
                <5> QED BY <5>3, <5>4
            <4> HIDE DEF h, More
            <4> QED BY <4>5, <4>6
        <3>3. T = Nat
            <4>1. T \subseteq Nat
                OBVIOUS
            <4> HIDE DEF T
            <4> QED BY <3>1, <3>2, <4>1, NatSet
        <3>4. PICK f : Upto(N, f)
            <4>1. N \in T /\ N <= N
                <5> HIDE DEF T
                <5> QED BY <2>1, <3>3
            <4> HIDE DEF Upto, N
            <4> QED BY <4>1
        <3>5. f = [i \in 1 .. N |-> f[i]]
            BY <3>4
        <3>6. IsRec(f)
            BY <3>4, <3>5
        <3> HIDE DEF IsRec
        <3> QED BY <3>6
    <2> DEFINE g == CHOOSE f : IsRec(f)
    <2>3. IsRec(g)
        <3> HIDE DEF IsRec
        <3> QED BY <2>2
    <2>4. FlattenSeq(ss) = g[N]
        BY <1>2 DEF FlattenSeq
    <2>5. \A i \in 1 .. N : g[i] = IF i = 1 THEN ss[i] ELSE g[i-1] \o ss[i]
        <3> HIDE DEF g
        <3> QED BY <2>3
    <2> DEFINE T == {k \in Nat : k + 1 \in 1 .. N => g[k+1] \in P}
    <2> HIDE DEF g, IsRec
    <2>6. 0 \in T
        BY <2>1, <2>5
    <2>7. ASSUME NEW k \in T PROVE k + 1 \in T
        <3>1. SUFFICES ASSUME (k + 1) + 1 \in 1 .. N PROVE g[(k + 1) + 1] \in P
            OBVIOUS
        <3>2. k + 1 \in 1 .. N /\ (k + 1) + 1 # 1 /\ ((k + 1) + 1) - 1 = k + 1
            BY <2>1, <3>1
        <3>3. g[k+1] \in P /\ ss[(k + 1) + 1] \in P
            BY <2>1, <3>1, <3>2
        <3>4. g[(k + 1) + 1] = g[k+1] \o ss[(k + 1) + 1]
            BY <2>5, <3>1, <3>2
        <3> QED BY <3>3, <3>4
    <2>8. T = Nat
        <3>1. T \subseteq Nat
            OBVIOUS
        <3> HIDE DEF T
        <3> QED BY <2>6, <2>7, <3>1, NatSet
    <2>9. N - 1 \in T /\ (N - 1) + 1 = N /\ N \in 1 .. N
        <3> HIDE DEF T
        <3> QED BY <2>1, <2>8
    <2> QED BY <2>4, <2>9
<1> QED BY <1>1, <1>2

(* A sequence of sequences, one after the other, is a sequence.            *)
LEMMA FlattenType ==
    ASSUME NEW S, NEW ss \in Seq(Seq(S))
    PROVE  FlattenSeq(ss) \in Seq(S)
<1>1. <<>> \in Seq(S) /\ \A x, y \in Seq(S) : x \o y \in Seq(S)
    OBVIOUS
<1> QED BY <1>1, FlattenIn

(* What bind_and_check_all makes of a fabric is a fabric.                  *)
LEMMA FabricTypes ==
    ASSUME NEW f \in FabricState, NEW n \in Net
    PROVE  /\ \A W \in SUBSET Wire : UnbindWires(f, W) \in FabricState
           /\ \A w \in Wire : BindWire(f, w, n, STRENGTH_WEAK) \in FabricState
           /\ \A P \in SUBSET Pip : BindPips(f, n, P) \in FabricState
<1>1. ASSUME NEW W \in SUBSET Wire PROVE UnbindWires(f, W) \in FabricState
    BY DEF UnbindWires, FabricState
<1>2. ASSUME NEW w \in Wire PROVE BindWire(f, w, n, STRENGTH_WEAK) \in FabricState
    <2> DEFINE e == [pip |-> NoPip, strength |-> STRENGTH_WEAK]
    <2>1. e \in PipMap
        BY DEF PipMap, PlaceStrength, STRENGTH_WEAK, STRENGTH_USER
    <2> HIDE DEF e
    <2>2. BindWire(f, w, n, STRENGTH_WEAK) =
            [wire_to_net |-> [f.wire_to_net EXCEPT ![w] = n],
             pip_to_net  |-> f.pip_to_net, wires |-> [f.wires EXCEPT ![n][w] = e]]
        BY DEF BindWire, e
    <2> QED BY <2>1, <2>2 DEF FabricState
<1>3. ASSUME NEW P \in SUBSET Pip PROVE BindPips(f, n, P) \in FabricState
    <2> DEFINE W == {PipDst[p] : p \in P}
               e(w) == [pip |-> CHOOSE p \in P : PipDst[p] = w,
                        strength |-> STRENGTH_WEAK]
               ws == [w \in Wire |-> IF w \in W THEN e(w) ELSE f.wires[n][w]]
    <2>1. ASSUME NEW w \in W PROVE e(w) \in PipMap
        BY DEF PipMap, PlaceStrength, STRENGTH_WEAK, STRENGTH_USER
    <2>2. ws \in [Wire -> PipMap \cup {NoEntry}]
        <3>1. f.wires[n] \in [Wire -> PipMap \cup {NoEntry}]
            BY DEF FabricState
        <3> HIDE DEF e, W
        <3> QED BY <2>1, <3>1
    <2>3. BindPips(f, n, P) =
            [wire_to_net |-> [w \in Wire |-> IF w \in W THEN n ELSE f.wire_to_net[w]],
             pip_to_net  |-> [p \in Pip |-> IF p \in P THEN n ELSE f.pip_to_net[p]],
             wires       |-> [f.wires EXCEPT ![n] = ws]]
        BY DEF BindPips
    <2> HIDE DEF ws, W
    <2> QED BY <2>2, <2>3 DEF FabricState
<1> QED BY <1>1, <1>2, <1>3

(* The steps of the threads leave the fabric and the plan of the main      *)
(* thread alone, unless they end the run.                                  *)
LEMMA ThreadPlan ==
    ASSUME NEW t \in Thread, ThreadStep(t)
    PROVE  /\ UNCHANGED <<fab, fail_count, late, bind_queue, iter>>
           /\ \/ pc' = pc
              \/ pc = "route" /\ pc' \in {"error", "disturbed"}
<1> DEFINE Goes == /\ UNCHANGED <<fab, fail_count, late, bind_queue, iter>>
                   /\ \/ pc' = pc
                      \/ pc = "route" /\ pc' \in {"error", "disturbed"}
<1>1. ASSUME NEW n \in th[t].nets, TakeNet(t, n) PROVE Goes
    BY <1>1 DEF TakeNet, plan
<1>2. CASE CheckArc(t) \/ RipLoad(t) \/ RipStore(t) \/ RipDone(t)
    <2>1. CASE CheckArc(t)
        BY <2>1 DEF CheckArc, plan
    <2>2. CASE RipLoad(t)
        BY <2>2, ZenonT(60) DEF RipLoad, plan
    <2>3. CASE RipStore(t) \/ RipDone(t)
        BY <2>3 DEF RipStore, RipDone, plan
    <2> QED BY <1>2, <2>1, <2>2, <2>3
<1>3. ASSUME NEW a \in th[t].arcs, \/ FindPath(t, a) \/ FindAtOnce(t, a)
                                   \/ SkipArc(t, a) \/ GiveUpArc(t, a)
      PROVE  Goes
    BY <1>3 DEF FindPath, FindAtOnce, SkipArc, GiveUpArc, BeginBind, plan
<1>4. ASSUME NEW a \in th[t].arcs, RouteError(t, a) PROVE Goes
    BY <1>4 DEF RouteError, Searching, InPhase, Running, plan
<1>5. CASE Disturb(t)
    BY <1>5 DEF Disturb, InRouteArc, Searching, InPhase, Running, plan
<1>6. CASE BindLoad(t) \/ BindStore(t) \/ BindDone(t) \/ LeaveNet(t)
    BY <1>6 DEF BindLoad, BindStore, BindDone, LeaveNet, plan
<1> QED BY <1>1, <1>2, <1>3, <1>4, <1>5, <1>6 DEF ThreadStep

(* The nets and arcs that bind_and_check_all visits.                       *)
LEMMA VisitType ==
    FlattenSeq([i \in DOMAIN NetOrder |-> <<NetOrder[i]>> \o NetArcs[NetOrder[i]]])
        \in Seq(Net \cup Arc)
<1> DEFINE ss == [i \in DOMAIN NetOrder |-> <<NetOrder[i]>> \o NetArcs[NetOrder[i]]]
<1>1. ASSUME NEW i \in 1 .. Len(NetOrder)
      PROVE  <<NetOrder[i]>> \o NetArcs[NetOrder[i]] \in Seq(Net \cup Arc)
    <2>1. NetOrder[i] \in Net /\ NetArcs[NetOrder[i]] \in Seq(Arc)
        BY Router2Assumption
    <2> QED BY <2>1
<1>2. ss \in Seq(Seq(Net \cup Arc))
    <2>1. DOMAIN NetOrder = 1 .. Len(NetOrder) /\ Len(NetOrder) \in Nat
        BY Router2Assumption
    <2> QED BY <1>1, <2>1
<1> HIDE DEF ss
<1>3. FlattenSeq(ss) \in Seq(Net \cup Arc)
    BY <1>2, FlattenType
<1> QED BY <1>3 DEF ss

(* Every step keeps the types of the plan.                                 *)
LEMMA PlanKeeps ==
    ASSUME IInv, PlanInv, [Next]_vars
    PROVE  PlanInv'
<1>1. CASE BeginRoute
    BY <1>1 DEF BeginRoute, PlanInv
<1>2. CASE NextStage
    BY <1>2 DEF NextStage, PlanInv, plan
<1>3. ASSUME NEW t \in Thread, ThreadStep(t) PROVE PlanInv'
    BY <1>3, ThreadPlan DEF PlanInv
<1>4. ASSUME NEW l \in SUBSET MayBeLate, UpdateCongestion(l) PROVE PlanInv'
    <2>1. /\ pc = "congestion" /\ pc' \in {"bind", "again"} /\ late' = l
          /\ UNCHANGED <<fab, iter>>
          /\ \/ bind_queue' = bind_queue
             \/ bind_queue' = FlattenSeq([i \in DOMAIN NetOrder |->
                                 <<NetOrder[i]>> \o NetArcs[NetOrder[i]]])
        BY <1>4 DEF UpdateCongestion
    <2>2. fail_count' = [n \in Net |-> IF n \in Crowded
                                       THEN (fail_count[n] + 1) % GrowPeriod
                                       ELSE fail_count[n]]
        BY <1>4 DEF UpdateCongestion
    <2>3. fail_count' \in [Net -> Range0(GrowPeriod - 1)]
        <3>1. \A k \in Nat : (k + 1) % GrowPeriod \in Range0(GrowPeriod - 1)
            BY Router2Assumption DEF Range0
        <3>2. \A n \in Net : fail_count[n] \in Range0(GrowPeriod - 1)
                             /\ fail_count[n] \in Nat
            BY DEF PlanInv, Range0
        <3> QED BY <2>2, <3>1, <3>2
    <2> HIDE DEF FlattenSeq
    <2> QED BY <2>1, <2>3, VisitType, Router2Assumption DEF PlanInv
<1>5. CASE EndIteration
    BY <1>5, Router2Assumption DEF EndIteration, PlanInv
<1>6. ASSUME bind_queue # <<>>, bind_queue' = Tail(bind_queue), fab' \in FabricState,
             UNCHANGED <<fail_count, late, iter, pc>>
      PROVE  PlanInv'
    <2>1. bind_queue' \in Seq(Net \cup Arc)
        BY <1>6, TailSeq DEF PlanInv
    <2> QED BY <1>6, <2>1 DEF PlanInv
<1>7. ASSUME NEW n \in Net, UnbindNet(n) PROVE PlanInv'
    <2>1. Rippable(n) \in SUBSET Wire
        BY DEF Rippable, WiresOf
    <2>2. fab' \in FabricState
        BY <1>7, <2>1, FabricTypes DEF UnbindNet, PlanInv
    <2> QED BY <1>6, <1>7, <2>2 DEF UnbindNet
<1>8. ASSUME NEW a \in Arc PROVE ArcNet[a] \in Net /\ Src(a) \in Wire /\ SinkWire[a] \in Wire
    <2>1. PICK n \in Net : a \in ToSet(NetArcs[n])
        BY Router2Assumption
    <2>2. ArcNet[a] = n
        BY <2>1, ArcNetIs
    <2> QED BY <2>2, Router2Assumption DEF Src
<1>9. ASSUME NEW a \in Arc, BindUnrouted(a) PROVE PlanInv'
    <2>1. fab' \in FabricState
        BY <1>8, <1>9, FabricTypes DEF BindUnrouted, PlanInv
    <2> QED BY <1>6, <1>9, <2>1 DEF BindUnrouted
<1>10. ASSUME NEW a \in Arc, BindArc(a) PROVE PlanInv'
    <2> DEFINE n == ArcNet[a]
               W == Trunk(n, SinkWire[a])
               P == {p \in DriversOf(n, W) : fab.pip_to_net[p] = NoNet}
               f == IF fab.wire_to_net[Src(a)] = NoNet
                    THEN BindWire(fab, Src(a), n, STRENGTH_WEAK) ELSE fab
    <2>1. /\ n \notin Undriven /\ routed[a] /\ FabricAsserts(a) /\ fab' = BindPips(f, n, P)
          /\ UNCHANGED <<fail_count, late, iter, pc>>
          /\ bind_queue # <<>> /\ bind_queue' = Tail(bind_queue)
        BY <1>10 DEF BindArc
    <2>2. ReachesIn(net_wires[n], n, SinkWire[a]) /\ net_wires[n] \in NetWires
        BY <1>8, <2>1, SameNames DEF FabricAsserts, IInv, TypeInv
    <2>3. W = TrunkIn(net_wires[n], n, SinkWire[a])
        BY <1>8, SameNames
    <2> HIDE DEF W
    <2>4. P \in SUBSET Pip
        BY <1>8, <2>2, <2>3, TrunkIs DEF DriversOf
    <2>5. f \in FabricState
        BY <1>8, FabricTypes DEF PlanInv
    <2> HIDE DEF P, f, n
    <2>6. fab' \in FabricState
        BY <1>8, <2>1, <2>4, <2>5, FabricTypes DEF n
    <2> QED BY <1>6, <2>1, <2>6
<1>11. ASSUME NEW a \in Arc, BindFails(a) PROVE PlanInv'
    <2>1. fab' \in FabricState
        BY <1>11 DEF BindFails, PlanInv
    <2> QED BY <1>6, <1>11, <2>1 DEF BindFails
<1>12. CASE UNCHANGED vars \/ Returned
    BY <1>12 DEF Returned, vars, plan, PlanInv
<1> QED BY <1>1, <1>2, <1>3, <1>4, <1>5, <1>7, <1>9, <1>10, <1>11, <1>12 DEF Next

(* TypeOK holds in every state: what the threads, the boxes, the queues    *)
(* and the fabric hold is what the code declares them to hold.             *)
THEOREM TypeCorrect == Spec => []TypeOK
<1>1. Init => PlanInv
    <2>1. ASSUME Init PROVE PlanInv
        <3>1. 0 \in Range0(GrowPeriod - 1) /\ 1 \in 1 .. MaxIter + 1
            BY Router2Assumption DEF Range0
        <3> QED BY <2>1, <3>1, Router2Assumption DEF Init, PlanInv
    <2> QED BY <2>1
<1>2. IInv /\ PlanInv /\ [Next]_vars => PlanInv'
    BY PlanKeeps
<1>3. ASSUME IInv, PlanInv PROVE TypeOK
    <2>1. \A s \in Seq(Net \cup Arc) : ToSet(s) \subseteq Net \cup Arc
        BY DEF ToSet
    <2>2. \A s \in Seq(PathStep) : ToSet(s) \subseteq PathStep
        BY DEF ToSet
    <2>3. ASSUME NEW t \in Thread
          PROVE  /\ th[t].phase \in {"idle", "check", "rip", "bind"}
                 /\ th[t].nets \cup th[t].failed \subseteq Net
                 /\ th[t].arcs \subseteq Arc
                 /\ th[t].sinks \cup th[t].seeds \subseteq Wire
                 /\ ToSet(th[t].path) \subseteq PathStep
        <3>1. th[t] \in ThreadState
            BY <1>3 DEF IInv, TypeInv
        <3> QED BY <3>1, <2>2 DEF ThreadState
    <2> QED BY <1>3, <2>1, <2>3 DEF IInv, TypeInv, PlanInv, TypeOK, NetWires
<1> QED BY <1>1, <1>2, <1>3, Router2Invariant, PTL DEF Spec

-----------------------------------------------------------------------------
(* What is bound above STRENGTH_STRONG, and the fabric.                    *)

(* Locked arcs, in the map nw of their net and for the wires of H held.    *)
LockedIn(nw, n, a, H) ==
    /\ SinkWire[a] # NetSrc[n] /\ ReachesIn(nw, n, SinkWire[a])
    /\ ToSet(WalkIn(nw, n, SinkWire[a])) \subseteq H
OnLockedIn(nw, n, w, H) ==
    \E a \in ToSet(NetArcs[n]) : LockedIn(nw, n, a, H) /\ w \in TrunkIn(nw, n, SinkWire[a])
HeldWires(n) == {w \in Wire : Held(n, w)}

(* Whether an arc is locked depends on the pips of the wires held.         *)
LEMMA LockedFrame ==
    ASSUME NEW nw \in NetWires, NEW mw \in NetWires, NEW n \in Net,
           NEW a \in ToSet(NetArcs[n]), NEW H, LockedIn(nw, n, a, H),
           \A w \in Wire \cap H : mw[w].pip = nw[w].pip
    PROVE  /\ LockedIn(mw, n, a, H)
           /\ TrunkIn(mw, n, SinkWire[a]) = TrunkIn(nw, n, SinkWire[a])
<1>1. SinkWire[a] \in Wire
  BY ArcsOfNet
<1>2. ReachesIn(nw, n, SinkWire[a])
  BY DEF LockedIn
<1>3. TrunkIn(nw, n, SinkWire[a]) \subseteq Wire \cap H
  BY <1>1, TrunkWires DEF LockedIn, TrunkIn
<1>4. /\ WalkIn(mw, n, SinkWire[a]) = WalkIn(nw, n, SinkWire[a])
      /\ ReachesIn(mw, n, SinkWire[a])
      /\ TrunkIn(mw, n, SinkWire[a]) = TrunkIn(nw, n, SinkWire[a])
  BY <1>1, <1>2, <1>3, WayFrame
<1> QED BY <1>4 DEF LockedIn

(* The same of a wire on such an arc.                                      *)
LEMMA OnLockedFrame ==
    ASSUME NEW nw \in NetWires, NEW mw \in NetWires, NEW n \in Net, NEW H,
           \A w \in Wire \cap H : mw[w].pip = nw[w].pip, NEW v, OnLockedIn(nw, n, v, H)
    PROVE  OnLockedIn(mw, n, v, H)
<1>1. PICK a \in ToSet(NetArcs[n]) :
         LockedIn(nw, n, a, H) /\ v \in TrunkIn(nw, n, SinkWire[a])
  BY DEF OnLockedIn
<1>2. LockedIn(mw, n, a, H) /\ v \in TrunkIn(mw, n, SinkWire[a])
  BY <1>1, LockedFrame
<1> QED BY <1>2 DEF OnLockedIn

(* The same operators under the names of the invariant.                    *)
LockedNames ==
    \A n \in Net : /\ \A a \in ToSet(NetArcs[n]) :
                        LockedArc(n, a) <=> LockedIn(net_wires[n], n, a, HeldWires(n))
                   /\ \A w : OnLockedArc(n, w) <=> OnLockedIn(net_wires[n], n, w, HeldWires(n))

(* They are the same, before a step ...                                    *)
LEMMA LockedIs == TypeInv => LockedNames
<1> SUFFICES ASSUME TypeInv, NEW n \in Net
             PROVE  /\ \A a \in ToSet(NetArcs[n]) :
                        LockedArc(n, a) <=> LockedIn(net_wires[n], n, a, HeldWires(n))
                    /\ \A w : OnLockedArc(n, w) <=> OnLockedIn(net_wires[n], n, w, HeldWires(n))
  BY DEF LockedNames
<1>1. ASSUME NEW a \in ToSet(NetArcs[n])
      PROVE  LockedArc(n, a) <=> LockedIn(net_wires[n], n, a, HeldWires(n))
  <2> DEFINE s == WalkIn(net_wires[n], n, SinkWire[a])
  <2>1. SinkWire[a] \in Wire /\ net_wires[n] \in NetWires
    BY ArcsOfNet DEF TypeInv
  <2>2. s \in Seq(Wire)
    BY <2>1, WalkShape DEF IsWalk
  <2>3. Walk(n, SinkWire[a]) = s /\ (Reaches(n, SinkWire[a]) <=> ReachesIn(net_wires[n], n, SinkWire[a]))
    BY SameNames
  <2> HIDE DEF s
  <2>4. ToSet(s) \subseteq Wire
    BY <2>2 DEF ToSet
  <2> QED BY <2>3, <2>4 DEF LockedArc, LockedIn, HeldWires, s
<1>2. \A a : Trunk(n, SinkWire[a]) = TrunkIn(net_wires[n], n, SinkWire[a])
  BY SameNames
<1> QED BY <1>1, <1>2 DEF OnLockedArc, OnLockedIn

(* ... and after it.                                                       *)
LEMMA LockedIsNext == TypeInv' => LockedNames'
BY LockedIs, PTL

(* A step in which the nets keep the wires they hold as they were, and     *)
(* neither come to use a wire another net holds nor give up a locked arc.  *)
FabKept == \A n \in Net, w \in Wire :
    /\ Held(n, w)' <=> Held(n, w)
    /\ Held(n, w) => fab'.wires[n][w] = fab.wires[n][w]
MapKept == \A n \in Net \ Undriven, w \in Wire :
    Held(n, w) => /\ net_wires'[n][w] # NoUse
                  /\ net_wires'[n][w].pip = net_wires[n][w].pip
                  /\ curr_cong'[w] = curr_cong[w]
NoneTaken == \A n \in Net \ Undriven, w \in Wire :
    net_wires'[n][w] # NoUse => Uses(n, w) \/ ~Foreign(n, w)
ArcsKept == \A n \in Net \ Undriven : \A a \in ToSet(NetArcs[n]) :
    LockedArc(n, a) /\ routed[a] => routed'[a]
ThreadsMind == \A t \in Thread : Mindful(th'[t])
KeepsHeld == FabKept /\ MapKept /\ NoneTaken /\ ArcsKept /\ ThreadsMind

(* Such a step keeps what the invariant says of the wires held.            *)
LEMMA NetsHeld ==
    ASSUME TypeInv, TypeInv', HeldInv, late' \subseteq MayBeLate, KeepsHeld
    PROVE  HeldInv'
<1>0. FabKept /\ MapKept /\ NoneTaken /\ ArcsKept /\ ThreadsMind
  BY DEF KeepsHeld
<1>1. ASSUME NEW n \in Net
      PROVE  /\ HeldWires(n)' = HeldWires(n)
             /\ \A w \in Wire : Held(n, w)' <=> Held(n, w)
             /\ \A w \in Wire : Foreign(n, w)' <=> Foreign(n, w)
  BY <1>0 DEF HeldWires, Foreign, FabKept
<1>2. LockedNames /\ LockedNames'
  BY LockedIs, LockedIsNext
<1>3. ASSUME NEW n \in Net \ Undriven
      PROVE  /\ \A a \in ToSet(NetArcs[n]) : LockedArc(n, a)' <=> LockedArc(n, a)
             /\ \A w : OnLockedArc(n, w) => OnLockedArc(n, w)'
  <2> PICK nw : nw = net_wires[n]
    OBVIOUS
  <2> PICK mw : mw = net_wires'[n]
    OBVIOUS
  <2> PICK H : H = HeldWires(n)
    OBVIOUS
  <2>1. nw \in NetWires /\ mw \in NetWires
    BY DEF TypeInv
  <2>2. \A w \in Wire \cap H : mw[w].pip = nw[w].pip
    BY <1>0 DEF HeldWires, MapKept
  <2>3. \A a \in ToSet(NetArcs[n]) : /\ LockedArc(n, a) <=> LockedIn(nw, n, a, H)
                                     /\ LockedArc(n, a)' <=> LockedIn(mw, n, a, H)
    BY <1>1, <1>2 DEF LockedNames
  <2>4. \A w : /\ OnLockedArc(n, w) <=> OnLockedIn(nw, n, w, H)
               /\ OnLockedArc(n, w)' <=> OnLockedIn(mw, n, w, H)
    BY <1>1, <1>2 DEF LockedNames
  <2>5. ASSUME NEW a \in ToSet(NetArcs[n])
        PROVE  LockedIn(mw, n, a, H) <=> LockedIn(nw, n, a, H)
    <3>1. LockedIn(nw, n, a, H) => LockedIn(mw, n, a, H)
      BY <2>1, <2>2, LockedFrame
    <3>2. LockedIn(mw, n, a, H) => LockedIn(nw, n, a, H)
      BY <2>1, <2>2, LockedFrame
    <3> QED BY <3>1, <3>2
  <2>6. \A w : OnLockedIn(nw, n, w, H) => OnLockedIn(mw, n, w, H)
    BY <2>1, <2>2, OnLockedFrame
  <2> QED BY <2>3, <2>4, <2>5, <2>6
<1>4. ASSUME NEW n \in Net \ Undriven PROVE NetHeld(n)'
  <2>1. NetHeld(n)
    BY DEF HeldInv
  <2>2. (\A w \in Wire : Held(n, w) => /\ Uses(n, w) /\ curr_cong[w] = 1
                                       /\ net_wires[n][w].pip = fab.wires[n][w].pip)'
    BY <1>0, <2>1 DEF NetHeld, Uses, FabKept, MapKept
  <2>3. (\A w \in Wire : Uses(n, w) => ~Foreign(n, w))'
    BY <1>0, <1>1, <2>1 DEF NetHeld, Uses, NoneTaken
  <2>4. (\A a \in ToSet(NetArcs[n]) : LockedArc(n, a) => routed[a])'
    BY <1>0, <1>3, <2>1 DEF NetHeld, ArcsKept
  <2>5. LockedRoutes(n)'
    BY <1>1, <1>3, <2>1 DEF NetHeld, LockedRoutes
  <2>6. OwnEnds(n)'
    <3>1. Ends(n) \subseteq Wire
      <4>1. NetSrc[n] \in Wire /\ \A a \in ToSet(NetArcs[n]) : SinkWire[a] \in Wire
        BY Router2Assumption, ArcsOfNet
      <4> QED BY <4>1 DEF Ends
    <3> QED BY <1>1, <2>1, <3>1 DEF NetHeld, OwnEnds, Ends
  <2> QED BY <2>2, <2>3, <2>4, <2>5, <2>6 DEF NetHeld
<1>5. ASSUME NEW t \in Thread PROVE Mindful(th[t])'
  <2> PICK x : x = th'[t]
    OBVIOUS
  <2>1. Mindful(x) /\ x \in ThreadState
    BY <1>0 DEF TypeInv, ThreadsMind
  <2>2. x.net \in Net \ Undriven =>
          /\ \A w \in x.seeds \cup PathWires(x.path) : ~Foreign(x.net, w)'
          /\ x.reg # NoReg => \A w \in Wire : Held(x.net, w)' => Head(x.path).wire # w
          /\ \A a \in ToSet(NetArcs[x.net]) : LockedArc(x.net, a)' =>
                a \notin x.arcs /\ (x.phase = "rip" => x.arc # a)
    <3>1. x.seeds \subseteq Wire /\ PathWires(x.path) \subseteq Wire
      BY <2>1, PathWiresIn DEF ThreadState
    <3> QED BY <1>1, <1>3, <2>1, <3>1 DEF Mindful
  <2> QED BY <2>2 DEF Mindful
<1>6. (late \subseteq MayBeLate)' 
  OBVIOUS
<1> QED BY <1>4, <1>5, <1>6 DEF HeldInv

(* A step of one thread, which works on net n, as seen from the wires held. *)
Works(t, n) ==
    /\ fab' = fab /\ late' = late /\ OnlyNet(n)
    /\ \A u \in Thread : u # t => th'[u] = th[u]
Spares(n) ==
    /\ \A w \in Wire :
         /\ Held(n, w) => /\ Uses(n, w) => net_wires'[n][w] # NoUse
                          /\ net_wires'[n][w].pip = net_wires[n][w].pip
         /\ net_wires'[n][w] # NoUse => Uses(n, w) \/ ~Foreign(n, w)
         /\ curr_cong'[w] # curr_cong[w] => ~Held(n, w) /\ ~Foreign(n, w)
    /\ \A a \in ToSet(NetArcs[n]) : LockedArc(n, a) /\ routed[a] => routed'[a]

(* Such a step keeps what is held if it spares it in its own net.          *)
LEMMA WorkerHeld ==
    ASSUME TypeInv, TypeInv', HeldInv, NEW t \in Thread, NEW n \in Net,
           Works(t, n), Spares(n), Mindful(th'[t])
    PROVE  HeldInv'
<1>1. FabKept
  BY DEF FabKept, Works, Held
<1>2. MapKept
  <2> SUFFICES ASSUME NEW m \in Net \ Undriven, NEW w \in Wire, Held(m, w)
               PROVE  /\ net_wires'[m][w] # NoUse
                      /\ net_wires'[m][w].pip = net_wires[m][w].pip
                      /\ curr_cong'[w] = curr_cong[w]
    BY DEF MapKept
  <2>1. Uses(m, w)
    BY DEF HeldInv, NetHeld
  <2>2. m = n \/ Foreign(n, w)
    BY DEF Foreign
  <2> QED BY <2>1, <2>2 DEF Works, Spares, OnlyNet, Uses
<1>3. NoneTaken
  BY DEF NoneTaken, Works, Spares, OnlyNet, Uses
<1>4. ArcsKept
  <2> SUFFICES ASSUME NEW m \in Net \ Undriven, NEW a \in ToSet(NetArcs[m]),
                      LockedArc(m, a), routed[a]
               PROVE  routed'[a]
    BY DEF ArcsKept
  <2>1. a \in Arc
    BY ArcsOfNet
  <2>2. CASE m = n
    BY <2>2 DEF Spares
  <2>3. CASE m # n
    <3>1. a \notin ToSet(NetArcs[n])
      BY <2>3, Router2Assumption
    <3> QED BY <2>1, <3>1 DEF Works, OnlyNet
  <2> QED BY <2>2, <2>3
<1>5. ThreadsMind
  BY DEF ThreadsMind, HeldInv, Works
<1>6. late' \subseteq MayBeLate
  BY DEF HeldInv, Works
<1> QED BY <1>1, <1>2, <1>3, <1>4, <1>5, <1>6, NetsHeld DEF KeepsHeld

(* ... and if it leaves the wires alone, whatever the thread holds.        *)
LEMMA QuietHeld ==
    ASSUME TypeInv, TypeInv', HeldInv, NEW t \in Thread, NEW n \in Net,
           UNCHANGED <<fab, routing, late>>,
           \A u \in Thread : u # t => th'[u] = th[u], Mindful(th'[t])
    PROVE  HeldInv'
<1>1. net_wires' = net_wires /\ curr_cong' = curr_cong /\ routed' = routed
  BY DEF routing
<1>2. Works(t, n)
  BY <1>1 DEF Works, OnlyNet
<1>3. Spares(n)
  BY <1>1 DEF Spares, Uses
<1> QED BY <1>2, <1>3, WorkerHeld

(* The drivers along a path lead to its wires.                             *)
PathFits(path) == \A b \in ToSet(path) : Fits(b)

(* The pips of a thread's net and path fit after its step.                 *)
LEMMA WorkerFits ==
    ASSUME PipsFit, NEW t \in Thread, NEW n \in Net, Works(t, n),
           \A w \in Wire : Fits(Step(w, net_wires'[n][w].pip)), PathFits(th'[t].path)
    PROVE  PipsFit'
BY DEF PipsFit, Works, OnlyNet, PathFits, Fits, Step

(* What a thread at work knows of the wires held.                          *)
LEMMA WorkerKnows ==
    ASSUME HeldInv, PipsFit, NEW t \in Thread, th[t].net \in Net \ Undriven
    PROVE  /\ NetHeld(th[t].net) /\ Mindful(th[t]) /\ PathFits(th[t].path)
           /\ \A w \in th[t].seeds \cup PathWires(th[t].path) : ~Foreign(th[t].net, w)
           /\ th[t].reg # NoReg => \A w \in Wire : Held(th[t].net, w) =>
                                                     Head(th[t].path).wire # w
           /\ \A a \in ToSet(NetArcs[th[t].net]) : LockedArc(th[t].net, a) =>
                 a \notin th[t].arcs /\ (th[t].phase = "rip" => th[t].arc # a)
BY DEF HeldInv, PipsFit, Mindful, PathFits

(* A wire held below the source of its net is on the way of an arc that is *)
(* routed and stays so.                                                    *)
LEMMA HeldOnArc ==
    ASSUME NEW n \in Net, NetHeld(n), NEW w \in Wire \ {NetSrc[n]}, Held(n, w)
    PROVE  \E b \in ToSet(NetArcs[n]) :
              LockedArc(n, b) /\ routed[b] /\ w \in TrunkIn(net_wires[n], n, SinkWire[b])
<1>1. OnLockedArc(n, w)
  BY DEF NetHeld, LockedRoutes
<1> QED BY <1>1, SameNames DEF OnLockedArc, NetHeld

(* What is held and fits, together.                                        *)
HoldFit == HeldInv /\ PipsFit

(* The types of the fields of a thread that a step of it reads.            *)
LEMMA PathOf ==
    ASSUME NEW x \in ThreadState, x.path # <<>>
    PROVE  /\ Head(x.path) \in PathStep /\ Head(x.path) \in ToSet(x.path)
           /\ Head(x.path).wire \in Wire /\ Head(x.path).wire \in PathWires(x.path)
           /\ ToSet(Tail(x.path)) \subseteq ToSet(x.path)
           /\ PathWires(Tail(x.path)) \subseteq PathWires(x.path)
<1> DEFINE s == x.path
<1>1. s \in Seq(PathStep) /\ s # <<>>
  BY DEF ThreadState
<1> HIDE DEF s
<1>2. Head(s) \in PathStep /\ Head(s) \in ToSet(s) /\ ToSet(Tail(s)) \subseteq ToSet(s)
  BY <1>1, TailSeq
<1>3. Head(s).wire \in Wire
  BY <1>2 DEF PathStep
<1> QED BY <1>2, <1>3 DEF PathWires, s

(* The ripup of a wire spares what is held: a wire that no other arc comes *)
(* over is not held, for the arc it is held for stays (unbind_pip_internal).*)
LEMMA RipLoadHeld ==
    ASSUME IInv, IInv', HoldFit, NEW t \in Thread, RipLoad(t)
    PROVE  HoldFit'
<1> DEFINE n == th[t].net
           path == th[t].path
           w == Head(path).wire
           nw == net_wires[n]
           x == th'[t]
<1>1. /\ Running(t) /\ th[t].phase = "rip" /\ path # <<>> /\ th[t].reg = NoReg
      /\ fab' = fab /\ curr_cong' = curr_cong /\ routed' = routed /\ late' = late
  BY DEF RipLoad, InPhase, plan
<1>2. Busy(t)
  BY <1>1 DEF Busy
<1>3. /\ TypeInv /\ th[t] \in ThreadState /\ n \in Net \ Undriven /\ nw \in NetWires
      /\ AtWork(th[t], nw, routed) /\ th \in [Thread -> ThreadState]
      /\ TypeInv' /\ net_wires \in [Net -> NetWires]
  BY <1>1, <1>2, AtWorkFacts DEF IInv, TypeInv
<1>4. /\ HeldInv /\ PipsFit /\ NetHeld(n) /\ Mindful(th[t]) /\ PathFits(path)
  BY <1>3, WorkerKnows DEF HoldFit
<1>5. /\ w \in Wire /\ w \in PathWires(path) /\ ToSet(Tail(path)) \subseteq ToSet(path)
      /\ PathWires(Tail(path)) \subseteq PathWires(path)
  BY <1>1, <1>3, PathOf, ZenonT(60)
<1>6. /\ \A u \in Thread : u # t => th'[u] = th[u]
      /\ x.net = n /\ x.phase = "rip" /\ x.arc = th[t].arc /\ x.arcs = th[t].arcs
      /\ x.seeds = th[t].seeds
      /\ \/ x.path = Tail(path) /\ x.reg = NoReg
         \/ x.path = path /\ nw[w].count <= 1
      /\ OnlyNet(n)
      /\ \A v \in Wire : net_wires'[n][v].pip = nw[v].pip
                         /\ (net_wires'[n][v] # NoUse <=> nw[v] # NoUse)
  <2>0. Ripping(nw, routed, n, th[t].arc, path, NoReg)
    BY <1>1, <1>3 DEF AtWork
  <2>1. nw[w] # NoUse /\ nw[w] \in Use
    BY <1>3, <1>5, <2>0 DEF Ripping, NetWires
  <2>2. CASE nw[w].count > 1
    <3>1. /\ net_wires' = [net_wires EXCEPT ![n][w].count = @ - 1]
          /\ th' = [th EXCEPT ![t].path = Tail(@)]
      BY <2>2, ZenonT(60) DEF RipLoad
    <3>2. /\ \A v \in Wire : net_wires'[n][v].pip = nw[v].pip
          /\ \A v \in Wire : v # w => net_wires'[n][v] = nw[v]
          /\ net_wires'[n][w].count = nw[w].count - 1
          /\ \A m \in Net : m # n => net_wires'[m] = net_wires[m]
      BY <1>3, <1>5, <2>1, <3>1 DEF NetWires, Use
    <3>3. net_wires'[n][w] # NoUse
      <4>1. net_wires'[n][w].count # -1
        <5> HIDE DEF n, w, nw
        <5> QED BY <2>2, <3>2
      <4> QED BY <4>1 DEF NoUse
    <3> QED BY <1>1, <1>3, <2>1, <3>1, <3>2, <3>3 DEF OnlyNet, ThreadState
  <2>3. CASE ~(nw[w].count > 1)
    <3>1. net_wires' = net_wires /\ th' = [th EXCEPT ![t].reg = curr_cong[w]]
      BY <2>3, ZenonT(60) DEF RipLoad
    <3>2. nw[w].count <= 1
      <4> HIDE DEF nw, w
      <4> QED BY <2>1, <2>3 DEF Use
    <3> QED BY <1>1, <1>3, <3>1, <3>2 DEF OnlyNet, ThreadState
  <2> QED BY <2>2, <2>3
<1>7. ASSUME x.path = path, nw[w].count <= 1
      PROVE  ~Held(n, w)
  <2> SUFFICES ASSUME Held(n, w) PROVE FALSE
    OBVIOUS
  <2>1. Ripping(nw, routed, n, th[t].arc, path, NoReg)
    BY <1>1, <1>3 DEF AtWork
  <2>2. nw[w] # NoUse /\ w # NetSrc[n]
    BY <1>5, <2>1 DEF Ripping
  <2>3. PICK b \in ToSet(NetArcs[n]) :
           LockedArc(n, b) /\ routed[b] /\ w \in TrunkIn(nw, n, SinkWire[b])
    BY <1>3, <1>4, <1>5, <2>2, HeldOnArc
  <2>4. b # th[t].arc
    BY <1>1, <1>3, <1>4, <2>3 DEF Mindful
  <2> DEFINE O == OthersIn(nw, routed, n, th[t].arc, w)
  <2>5. b \in O
    BY <2>3, <2>4 DEF OthersIn
  <2>6. IsFiniteSet(O) /\ Cardinality(O) \in Nat
    BY <1>3, OthersFinite
  <2>7. nw[w].count = Cardinality(O) + 1
    BY <1>5, <2>1, <2>2 DEF Ripping, WholeBut
  <2> HIDE DEF O
  <2>8. Cardinality(O) # 0
    BY <2>5, <2>6, FS_EmptySet
  <2> QED BY <1>7, <2>6, <2>7, <2>8
<1>8. Mindful(x)
  <2>1. \A v \in x.seeds \cup PathWires(x.path) : ~Foreign(x.net, v)
    BY <1>3, <1>4, <1>5, <1>6 DEF Mindful
  <2>2. x.reg # NoReg => \A v \in Wire : Held(x.net, v) => Head(x.path).wire # v
    BY <1>6, <1>7
  <2> QED BY <1>1, <1>3, <1>4, <1>6, <2>1, <2>2 DEF Mindful
<1>9. Works(t, n)
  BY <1>1, <1>6 DEF Works
<1>10. Spares(n)
  BY <1>1, <1>6 DEF Spares, Uses
<1>11. HeldInv'
  BY <1>3, <1>4, <1>8, <1>9, <1>10, WorkerHeld
<1>12. PipsFit'
  <2>1. \A v \in Wire : Fits(Step(v, net_wires'[n][v].pip))
    BY <1>3, <1>4, <1>6 DEF PipsFit
  <2>2. PathFits(x.path)
    BY <1>4, <1>5, <1>6 DEF PathFits
  <2> QED BY <1>3, <1>4, <1>9, <2>1, <2>2, WorkerFits
<1> QED BY <1>11, <1>12 DEF HoldFit

(* The second half spares it as well: the wire it frees is not held.       *)
LEMMA RipStoreHeld ==
    ASSUME IInv, IInv', HoldFit, NEW t \in Thread, RipStore(t)
    PROVE  HoldFit'
<1> DEFINE n == th[t].net
           path == th[t].path
           w == Head(path).wire
           nw == net_wires[n]
           x == th'[t]
<1>1. /\ Running(t) /\ th[t].phase = "rip" /\ th[t].reg # NoReg
      /\ fab' = fab /\ routed' = routed /\ late' = late
      /\ curr_cong' = [curr_cong EXCEPT ![w] = th[t].reg - 1]
      /\ net_wires' = [net_wires EXCEPT ![n][w] = NoUse]
      /\ th' = [th EXCEPT ![t].path = Tail(@), ![t].reg = NoReg]
  BY DEF RipStore, InPhase, plan, Freed
<1>2. Busy(t)
  BY <1>1 DEF Busy
<1>3. /\ TypeInv /\ th[t] \in ThreadState /\ n \in Net \ Undriven /\ nw \in NetWires
      /\ AtWork(th[t], nw, routed) /\ th \in [Thread -> ThreadState]
      /\ TypeInv' /\ net_wires \in [Net -> NetWires] /\ curr_cong \in [Wire -> Int]
  BY <1>1, <1>2, AtWorkFacts DEF IInv, TypeInv
<1>4. /\ HeldInv /\ PipsFit /\ NetHeld(n) /\ Mindful(th[t]) /\ PathFits(path)
  BY <1>3, WorkerKnows DEF HoldFit
<1>5. path # <<>>
  BY <1>1, <1>3 DEF AtWork, Ripping
<1>6. /\ w \in Wire /\ w \in PathWires(path) /\ ToSet(Tail(path)) \subseteq ToSet(path)
      /\ PathWires(Tail(path)) \subseteq PathWires(path)
  BY <1>3, <1>5, PathOf
<1>7. /\ \A u \in Thread : u # t => th'[u] = th[u]
      /\ x.net = n /\ x.phase = "rip" /\ x.arc = th[t].arc /\ x.arcs = th[t].arcs
      /\ x.seeds = th[t].seeds /\ x.path = Tail(path) /\ x.reg = NoReg
  BY <1>1, <1>3 DEF ThreadState
<1>8. /\ OnlyNet(n) /\ net_wires'[n][w] = NoUse
      /\ \A v \in Wire : v # w => /\ net_wires'[n][v] = nw[v]
                                  /\ curr_cong'[v] = curr_cong[v]
  BY <1>1, <1>3, <1>6 DEF OnlyNet, NetWires
<1>9. ~Held(n, w) /\ ~Foreign(n, w)
  BY <1>1, <1>3, <1>4, <1>6 DEF Mindful
<1>10. Mindful(x)
  BY <1>1, <1>3, <1>4, <1>6, <1>7 DEF Mindful
<1>11. Works(t, n)
  BY <1>1, <1>7, <1>8 DEF Works
<1>12. Spares(n)
  BY <1>1, <1>8, <1>9 DEF Spares, Uses
<1>13. HeldInv'
  BY <1>3, <1>4, <1>10, <1>11, <1>12, WorkerHeld
<1>14. PipsFit'
  <2>1. \A v \in Wire : Fits(Step(v, net_wires'[n][v].pip))
    BY <1>3, <1>4, <1>8 DEF PipsFit, Fits, Step, NoUse
  <2>2. PathFits(x.path)
    BY <1>4, <1>6, <1>7 DEF PathFits
  <2> QED BY <1>3, <1>4, <1>11, <2>1, <2>2, WorkerFits
<1> QED BY <1>13, <1>14 DEF HoldFit

(* The end of a ripup: the arc is none that is held (ripup_arc).           *)
LEMMA RipDoneHeld ==
    ASSUME IInv, IInv', HoldFit, NEW t \in Thread, RipDone(t)
    PROVE  HoldFit'
<1> DEFINE n == th[t].net
           a == th[t].arc
           nw == net_wires[n]
           x == th'[t]
<1>1. /\ Running(t) /\ th[t].phase = "rip"
      /\ fab' = fab /\ curr_cong' = curr_cong /\ net_wires' = net_wires /\ late' = late
      /\ routed' = [routed EXCEPT ![a] = FALSE]
      /\ th' = [th EXCEPT ![t].phase = "check"]
  BY DEF RipDone, InPhase, plan
<1>2. Busy(t)
  BY <1>1 DEF Busy
<1>3. /\ TypeInv /\ th[t] \in ThreadState /\ n \in Net \ Undriven /\ nw \in NetWires
      /\ AtWork(th[t], nw, routed) /\ th \in [Thread -> ThreadState]
      /\ TypeInv' /\ routed \in [Arc -> BOOLEAN]
  BY <1>1, <1>2, AtWorkFacts DEF IInv, TypeInv
<1>4. /\ HeldInv /\ PipsFit /\ NetHeld(n) /\ Mindful(th[t]) /\ PathFits(th[t].path)
  BY <1>3, WorkerKnows DEF HoldFit
<1>5. a \in ToSet(NetArcs[n]) /\ a \in Arc
  BY <1>1, <1>3, ArcsOfNet DEF AtWork, Ripping
<1>6. /\ \A u \in Thread : u # t => th'[u] = th[u]
      /\ x.net = n /\ x.phase = "check" /\ x.arcs = th[t].arcs
      /\ x.seeds = th[t].seeds /\ x.path = th[t].path /\ x.reg = th[t].reg
  BY <1>1, <1>3 DEF ThreadState
<1>7. Mindful(x)
  BY <1>1, <1>3, <1>4, <1>6 DEF Mindful
<1>8. Works(t, n)
  BY <1>1, <1>3, <1>5, <1>6 DEF Works, OnlyNet
<1>9. Spares(n)
  <2>1. \A b \in ToSet(NetArcs[n]) : LockedArc(n, b) /\ routed[b] => routed'[b]
    <3>1. \A b \in ToSet(NetArcs[n]) : LockedArc(n, b) => b # a /\ b \in Arc
      BY <1>1, <1>3, <1>4, ArcsOfNet DEF Mindful
    <3> QED BY <1>1, <1>3, <3>1
  <2> QED BY <1>1, <2>1 DEF Spares, Uses
<1>10. HeldInv'
  BY <1>3, <1>4, <1>7, <1>8, <1>9, WorkerHeld
<1>11. PipsFit'
  BY <1>1, <1>3, <1>4, <1>6, <1>8, WorkerFits DEF PipsFit
<1> QED BY <1>10, <1>11 DEF HoldFit

(* A wire with one more arc on it is in use and hangs on the same pip.     *)
LEMMA OneMoreUse ==
    ASSUME NEW u \in Use
    PROVE  /\ [u EXCEPT !.count = @ + 1] \in Use
           /\ [u EXCEPT !.count = @ + 1].pip = u.pip
BY DEF Use

(* The binding of a wire spares what is held: a wire the net did not use   *)
(* is held by no net (bind_pip_internal).                                  *)
LEMMA BindLoadHeld ==
    ASSUME IInv, IInv', HoldFit, NEW t \in Thread, BindLoad(t)
    PROVE  HoldFit'
<1> DEFINE n == th[t].net
           path == th[t].path
           b == Head(path)
           w == b.wire
           nw == net_wires[n]
           x == th'[t]
<1>1. /\ Running(t) /\ th[t].phase = "bind" /\ path # <<>> /\ th[t].reg = NoReg
      /\ fab' = fab /\ curr_cong' = curr_cong /\ routed' = routed /\ late' = late
  BY DEF BindLoad, InPhase, plan
<1>2. Busy(t)
  BY <1>1 DEF Busy
<1>3. /\ TypeInv /\ th[t] \in ThreadState /\ n \in Net \ Undriven /\ nw \in NetWires
      /\ th \in [Thread -> ThreadState]
      /\ TypeInv' /\ net_wires \in [Net -> NetWires]
  BY <1>1, <1>2, AtWorkFacts DEF IInv, TypeInv
<1>4. /\ HeldInv /\ PipsFit /\ NetHeld(n) /\ Mindful(th[t]) /\ PathFits(path)
  BY <1>3, WorkerKnows DEF HoldFit
<1>5. /\ w \in Wire /\ w \in PathWires(path) /\ ToSet(Tail(path)) \subseteq ToSet(path)
      /\ PathWires(Tail(path)) \subseteq PathWires(path)
      /\ b \in ToSet(path) /\ b \in PathStep
  BY <1>1, <1>3, PathOf, SMTT(60)
<1>6. /\ \A u \in Thread : u # t => th'[u] = th[u]
      /\ x.net = n /\ x.phase = "bind" /\ x.arcs = th[t].arcs
      /\ x.seeds = th[t].seeds
      /\ \/ x.path = Tail(path) /\ x.reg = NoReg
         \/ x.path = path /\ nw[w] = NoUse
      /\ OnlyNet(n)
      /\ \A v \in Wire : v # w => net_wires'[n][v] = nw[v]
      /\ net_wires'[n][w] # NoUse
      /\ net_wires'[n][w].pip = IF nw[w] # NoUse THEN nw[w].pip ELSE b.pip
  <2>1. CASE nw[w] # NoUse
    <3> DEFINE use == OneMore(n, w)
    <3>1. /\ net_wires' = [net_wires EXCEPT ![n][w] = use]
          /\ th' = [th EXCEPT ![t].path = Tail(@)]
      BY <2>1 DEF BindLoad, Uses
    <3>2. nw[w] \in Use
      BY <1>3, <1>5, <2>1 DEF NetWires
    <3>3. use # NoUse /\ use.pip = nw[w].pip
      <4> PICK u \in Use : u = nw[w]
        BY <3>2
      <4>1. [u EXCEPT !.count = @ + 1] \in Use /\ [u EXCEPT !.count = @ + 1].pip = u.pip
        BY OneMoreUse
      <4>2. use = u \/ use = [u EXCEPT !.count = @ + 1]
        BY DEF OneMore
      <4>3. NoUse \notin Use
        BY DEF Use, NoUse
      <4> QED BY <4>1, <4>2, <4>3
    <3> HIDE DEF use
    <3>4. /\ \A v \in Wire : v # w => net_wires'[n][v] = nw[v]
          /\ net_wires'[n][w] = use
          /\ \A m \in Net : m # n => net_wires'[m] = net_wires[m]
      BY <1>3, <1>5, <3>1 DEF NetWires
    <3>5. /\ \A u \in Thread : u # t => th'[u] = th[u]
          /\ x.net = n /\ x.phase = "bind" /\ x.arcs = th[t].arcs
          /\ x.seeds = th[t].seeds /\ x.path = Tail(path) /\ x.reg = NoReg
      BY <1>1, <1>3, <3>1 DEF ThreadState
    <3> QED BY <1>1, <2>1, <3>3, <3>4, <3>5 DEF OnlyNet
  <2>2. CASE nw[w] = NoUse
    <3> DEFINE use == [pip |-> b.pip, count |-> 1]
    <3>1. /\ net_wires' = [net_wires EXCEPT ![n][w] = use]
          /\ th' = [th EXCEPT ![t].reg = curr_cong[w]]
      BY <2>2 DEF BindLoad, Uses
    <3>3. use # NoUse /\ use.pip = b.pip
      BY DEF NoUse
    <3> HIDE DEF use
    <3>4. /\ \A v \in Wire : v # w => net_wires'[n][v] = nw[v]
          /\ net_wires'[n][w] = use
          /\ \A m \in Net : m # n => net_wires'[m] = net_wires[m]
      BY <1>3, <1>5, <3>1 DEF NetWires
    <3>5. /\ \A u \in Thread : u # t => th'[u] = th[u]
          /\ x.net = n /\ x.phase = "bind" /\ x.arcs = th[t].arcs
          /\ x.seeds = th[t].seeds /\ x.path = path
      BY <1>1, <1>3, <3>1 DEF ThreadState
    <3> QED BY <1>1, <2>2, <3>3, <3>4, <3>5 DEF OnlyNet
  <2> QED BY <2>1, <2>2
<1>7. nw[w] = NoUse => ~Held(n, w)
  BY <1>4, <1>5 DEF NetHeld, Uses
<1>8. ~Foreign(n, w)
  BY <1>3, <1>4, <1>5 DEF Mindful
<1>9. Mindful(x)
  <2>1. \A v \in x.seeds \cup PathWires(x.path) : ~Foreign(x.net, v)
    BY <1>3, <1>4, <1>5, <1>6 DEF Mindful
  <2>2. x.reg # NoReg => \A v \in Wire : Held(x.net, v) => Head(x.path).wire # v
    BY <1>6, <1>7
  <2> QED BY <1>1, <1>3, <1>4, <1>6, <2>1, <2>2 DEF Mindful
<1>10. Works(t, n)
  BY <1>1, <1>6 DEF Works
<1>11. Spares(n)
  BY <1>1, <1>6, <1>7, <1>8 DEF Spares, Uses
<1>12. HeldInv'
  BY <1>3, <1>4, <1>9, <1>10, <1>11, WorkerHeld
<1>13. PipsFit'
  <2>1. Fits(Step(w, b.pip))
    BY <1>4, <1>5 DEF PathFits, Fits, Step
  <2>2. \A v \in Wire : Fits(Step(v, nw[v].pip))
    BY <1>3, <1>4 DEF PipsFit
  <2>3. \A v \in Wire : Fits(Step(v, net_wires'[n][v].pip))
    BY <1>6, <2>1, <2>2
  <2>4. PathFits(x.path)
    BY <1>4, <1>5, <1>6 DEF PathFits
  <2> QED BY <1>3, <1>4, <1>10, <2>3, <2>4, WorkerFits
<1> QED BY <1>12, <1>13 DEF HoldFit

(* The second half spares it as well: the counter is none of a wire held.  *)
LEMMA BindStoreHeld ==
    ASSUME IInv, IInv', HoldFit, NEW t \in Thread, BindStore(t)
    PROVE  HoldFit'
<1> DEFINE n == th[t].net
           path == th[t].path
           w == Head(path).wire
           nw == net_wires[n]
           x == th'[t]
<1>1. /\ Running(t) /\ th[t].phase = "bind" /\ th[t].reg # NoReg
      /\ fab' = fab /\ routed' = routed /\ late' = late /\ net_wires' = net_wires
      /\ curr_cong' = [curr_cong EXCEPT ![w] = th[t].reg + 1]
      /\ th' = [th EXCEPT ![t].path = Tail(@), ![t].reg = NoReg]
  BY DEF BindStore, InPhase, plan
<1>2. Busy(t)
  BY <1>1 DEF Busy
<1>3. /\ TypeInv /\ th[t] \in ThreadState /\ n \in Net \ Undriven /\ nw \in NetWires
      /\ AtWork(th[t], nw, routed) /\ th \in [Thread -> ThreadState]
      /\ TypeInv' /\ curr_cong \in [Wire -> Int]
  BY <1>1, <1>2, AtWorkFacts DEF IInv, TypeInv
<1>4. /\ HeldInv /\ PipsFit /\ NetHeld(n) /\ Mindful(th[t]) /\ PathFits(path)
  BY <1>3, WorkerKnows DEF HoldFit
<1>5. path # <<>>
  BY <1>1, <1>3 DEF AtWork, Binding
<1>6. /\ w \in Wire /\ w \in PathWires(path) /\ ToSet(Tail(path)) \subseteq ToSet(path)
      /\ PathWires(Tail(path)) \subseteq PathWires(path)
  BY <1>3, <1>5, PathOf
<1>7. /\ \A u \in Thread : u # t => th'[u] = th[u]
      /\ x.net = n /\ x.phase = "bind" /\ x.arcs = th[t].arcs
      /\ x.seeds = th[t].seeds /\ x.path = Tail(path) /\ x.reg = NoReg
  BY <1>1, <1>3 DEF ThreadState
<1>8. \A v \in Wire : v # w => curr_cong'[v] = curr_cong[v]
  BY <1>1, <1>3, <1>6
<1>9. ~Held(n, w) /\ ~Foreign(n, w)
  BY <1>1, <1>3, <1>4, <1>6 DEF Mindful
<1>10. Mindful(x)
  BY <1>1, <1>3, <1>4, <1>6, <1>7 DEF Mindful
<1>11. Works(t, n)
  BY <1>1, <1>7 DEF Works, OnlyNet
<1>12. Spares(n)
  BY <1>1, <1>8, <1>9 DEF Spares, Uses
<1>13. HeldInv'
  BY <1>3, <1>4, <1>10, <1>11, <1>12, WorkerHeld
<1>14. PipsFit'
  <2>1. \A v \in Wire : Fits(Step(v, net_wires'[n][v].pip))
    BY <1>1, <1>3, <1>4 DEF PipsFit
  <2>2. PathFits(x.path)
    BY <1>4, <1>6, <1>7 DEF PathFits
  <2> QED BY <1>3, <1>4, <1>11, <2>1, <2>2, WorkerFits
<1> QED BY <1>13, <1>14 DEF HoldFit

(* A wire that reaches the source lies, with all wires on its way, on the  *)
(* tree of its net, and none of them is held by another.                   *)
LEMMA TrunkOwn ==
    ASSUME NEW n \in Net, net_wires[n] \in NetWires, NetHeld(n), NEW w \in Wire,
           ReachesIn(net_wires[n], n, w)
    PROVE  \A v \in TrunkIn(net_wires[n], n, w) : v \in Wire /\ ~Foreign(n, v)
<1>1. \A v \in TrunkIn(net_wires[n], n, w) : v \in Wire /\ net_wires[n][v] # NoUse
  BY TrunkIs
<1> QED BY <1>1 DEF NetHeld, Uses

(* The end of a binding: the path becomes part of the tree.                *)
LEMMA BindDoneHeld ==
    ASSUME IInv, IInv', HoldFit, NEW t \in Thread, BindDone(t)
    PROVE  HoldFit'
<1> DEFINE n == th[t].net
           a == th[t].arc
           w == SinkWire[a]
           nw == net_wires[n]
           x == th'[t]
           T == Trunk(n, w)
<1>1. /\ Running(t) /\ th[t].phase = "bind" /\ th[t].path = <<>>
      /\ fab' = fab /\ curr_cong' = curr_cong /\ net_wires' = net_wires /\ late' = late
      /\ routed' = [routed EXCEPT ![a] = TRUE]
      /\ th' = [th EXCEPT ![t].phase = "check", ![t].sinks = @ \cup {w},
                          ![t].seeds = @ \cup T]
  BY DEF BindDone, InPhase, plan
<1>2. Busy(t)
  BY <1>1 DEF Busy
<1>3. /\ TypeInv /\ th[t] \in ThreadState /\ n \in Net \ Undriven /\ nw \in NetWires
      /\ AtWork(th[t], nw, routed) /\ th \in [Thread -> ThreadState]
      /\ TypeInv' /\ routed \in [Arc -> BOOLEAN]
  BY <1>1, <1>2, AtWorkFacts DEF IInv, TypeInv
<1>4. /\ HeldInv /\ PipsFit /\ NetHeld(n) /\ Mindful(th[t]) /\ PathFits(th[t].path)
  BY <1>3, WorkerKnows DEF HoldFit
<1>5. Binding(nw, routed, n, a, <<>>, th[t].reg)
  BY <1>1, <1>3 DEF AtWork
<1>6. a \in ToSet(NetArcs[n]) /\ a \in Arc /\ w \in Wire /\ th[t].reg = NoReg
  BY <1>3, <1>5, ArcsOfNet DEF Binding
<1>7. ReachesIn(nw, n, w)
  BY <1>1, <1>3, <1>5, <1>6, BindEnd
<1>8. \A v \in T : ~Foreign(n, v)
  BY <1>3, <1>4, <1>6, <1>7, TrunkOwn, SameNames
<1> HIDE DEF T
<1>9. /\ \A u \in Thread : u # t => th'[u] = th[u]
      /\ x.net = n /\ x.phase = "check" /\ x.arcs = th[t].arcs
      /\ x.seeds = th[t].seeds \cup T /\ x.path = th[t].path /\ x.reg = th[t].reg
  BY <1>1, <1>3 DEF ThreadState
<1>10. Mindful(x)
  BY <1>1, <1>3, <1>4, <1>6, <1>8, <1>9 DEF Mindful
<1>11. Works(t, n)
  BY <1>1, <1>3, <1>6, <1>9 DEF Works, OnlyNet
<1>12. Spares(n)
  <2>1. \A b \in ToSet(NetArcs[n]) : routed[b] => routed'[b]
    BY <1>1, <1>3, ArcsOfNet
  <2> QED BY <1>1, <2>1 DEF Spares, Uses
<1>13. HeldInv'
  BY <1>3, <1>4, <1>10, <1>11, <1>12, WorkerHeld
<1>14. PipsFit'
  BY <1>1, <1>3, <1>4, <1>9, <1>11, WorkerFits DEF PipsFit
<1> QED BY <1>13, <1>14 DEF HoldFit

(* A wire that passes the tests of the search is held by no other net.     *)
LEMMA TestedOwn ==
    ASSUME fab \in FabricState, FabricConsistent(fab), NEW n \in Net, NEW w \in Wire,
           ~Unavailable(w), ReservedFor(n, w)
    PROVE  ~Foreign(n, w)
<1> SUFFICES ASSUME NEW m \in Net, m # n, Held(m, w) PROVE FALSE
  BY DEF Foreign
<1>1. fab.wires[m][w] \in PipMap /\ fab.wires[n][w] \in PipMap \cup {NoEntry}
  BY DEF FabricState, Held, NoEntry, STRENGTH_STRONG
<1>2. fab.wires[m][w].strength \in {3, 4, 5, 6}
  BY <1>1 DEF Held, PipMap, PlaceStrength, STRENGTH_STRONG, STRENGTH_USER
<1>3. HasWire(fab, m, w)
  BY <1>2 DEF HasWire, NoEntry
<1>4. fab.wires[m][w].strength = 3
  BY <1>2 DEF Unavailable, Bound, STRENGTH_PLACER, STRENGTH_USER
<1>5. HasWire(fab, n, w)
  BY <1>4 DEF ReservedFor, Bound, STRENGTH_PLACER
<1> QED BY <1>3, <1>5 DEF FabricConsistent, WireMapsAgree

(* The steps of two paths, one after the other, are those of the two.      *)
LEMMA ConcatFits ==
    ASSUME NEW S, NEW Q \in Seq(S), NEW R \in Seq(S), PathFits(Q), PathFits(R)
    PROVE  PathFits(Q \o R)
<1> DEFINE P == Q \o R
<1>1. /\ P \in Seq(S) /\ Len(P) = Len(Q) + Len(R)
      /\ Len(Q) \in Nat /\ Len(R) \in Nat
      /\ \A i \in 1 .. Len(Q) : P[i] = Q[i]
      /\ \A i \in Len(Q) + 1 .. Len(P) : P[i] = R[i - Len(Q)]
  OBVIOUS
<1> HIDE DEF P
<1>2. ASSUME NEW i \in 1 .. Len(P) PROVE P[i] \in ToSet(Q) \cup ToSet(R)
  <2>1. CASE i \in 1 .. Len(Q)
    BY <1>1, <2>1 DEF ToSet
  <2>2. CASE i \notin 1 .. Len(Q)
    <3>1. i \in Len(Q) + 1 .. Len(P) /\ i - Len(Q) \in 1 .. Len(R)
      BY <1>1, <2>2
    <3> QED BY <1>1, <3>1 DEF ToSet
  <2> QED BY <2>1, <2>2
<1>3. ToSet(P) \subseteq ToSet(Q) \cup ToSet(R)
  BY <1>1, <1>2 DEF ToSet
<1> QED BY <1>3 DEF PathFits, P

(* What is bound for a found path fits.                                    *)
LEMMA ToBindFits ==
    ASSUME NEW nw \in NetWires, NEW n \in Net, NEW s \in Wire, ReachesIn(nw, n, s),
           NEW q, IsChain(q, s), \A v \in Wire : Fits(Step(v, nw[v].pip))
    PROVE  PathFits(ToBindIn(nw, n, s, q))
<1> DEFINE Q == [i \in DOMAIN q |-> Step(PipDst[q[i]], q[i])]
           B == BranchIn(nw, n, s)
           e == <<Step(s, NoPip)>>
<1>1. Q \in Seq(PathStep)
  BY ChainSteps
<1>2. PathFits(Q)
  BY DEF PathFits, ToSet, Fits, Step
<1>3. B \in Seq(PathStep) /\ \A b \in ToSet(B) : b.pip = nw[b.wire].pip
  BY BranchIs
<1>4. PathFits(B)
  <2> HIDE DEF B
  <2>1. \A b \in ToSet(B) : b \in PathStep
    BY <1>3 DEF ToSet
  <2>2. \A b \in ToSet(B) : b.wire \in Wire
    BY <2>1 DEF PathStep
  <2> QED BY <1>3, <2>2 DEF PathFits, Fits, Step
<1>5. e \in Seq(PathStep) /\ PathFits(e)
  <2>1. Step(s, NoPip) \in PathStep
    BY DEF Step, PathStep
  <2> DEFINE b == Step(s, NoPip)
  <2>2. Fits(b)
    BY DEF Fits, Step
  <2> HIDE DEF b
  <2>3. <<b>> \in Seq(PathStep) /\ \A c \in ToSet(<<b>>) : c = b
    BY <2>1 DEF b, ToSet
  <2> QED BY <2>2, <2>3 DEF PathFits, b
<1> HIDE DEF Q, B, e
<1>6. PathFits(Q \o e) /\ PathFits(Q \o B)
  BY <1>1, <1>2, <1>3, <1>4, <1>5, ConcatFits
<1>7. ToBindIn(nw, n, s, q) = IF s = NetSrc[n] THEN Q \o e ELSE Q \o B
  BY DEF ToBindIn, Q, B, e
<1> QED BY <1>6, <1>7

(* A path the search has found leads over wires no other net holds.        *)
LEMMA BeginBindHeld ==
    ASSUME IInv, IInv', HoldFit, NEW t \in Thread, Searching(t), NEW a \in th[t].arcs,
           NEW s, NEW q, BeginBind(t, a, s, q), IsChain(q, s),
           s = NetSrc[th[t].net] \/ s \in th[t].seeds,
           SinkWire[a] = IF Len(q) = 0 THEN s ELSE PipDst[q[Len(q)]],
           \A i \in 1 .. Len(q) :
              /\ PipDst[q[i]] # NetSrc[th[t].net]
              /\ PipTest(th[t].net, q[i], is_mt)
              /\ PipDst[q[i]] # SinkWire[a] => ~Foreign(th[t].net, PipDst[q[i]])
    PROVE  HoldFit'
<1> DEFINE n == th[t].net
           nw == net_wires[n]
           path == ToBind(n, s, q)
           x == th'[t]
<1>1. /\ Running(t) /\ Busy(t) /\ th[t].phase = "check"
      /\ th[t].reg = NoReg /\ \A b \in th[t].arcs : ~routed[b]
      /\ WholeBut(nw, routed, n, NoReg, {})
      /\ a \in ToSet(NetArcs[n]) /\ a \in Arc /\ SinkWire[a] \in Wire
  BY SearchFacts
<1>2. /\ TypeInv /\ th[t] \in ThreadState /\ n \in Net \ Undriven /\ nw \in NetWires
      /\ th \in [Thread -> ThreadState] /\ TypeInv'
  BY <1>1, AtWorkFacts DEF IInv
<1>3. /\ UNCHANGED <<fab, routing, late>> /\ TackAsserts(t)
      /\ th' = [th EXCEPT ![t].phase = "bind", ![t].arc = a,
                          ![t].arcs = @ \ {a}, ![t].path = path]
  BY DEF BeginBind, plan
<1>4. s \in Wire /\ ReachesIn(nw, n, s)
  <2>1. CASE s = NetSrc[n]
    BY <2>1, <1>2, SourceWalk, Router2Assumption
  <2>2. CASE s \in th[t].seeds
    <3>1. s \in Wire /\ Reaches(n, s)
      BY <1>2, <1>3, <2>2 DEF TackAsserts, ThreadState
    <3> QED BY <3>1, SameNames
  <2> QED BY <2>1, <2>2
<1>5. \A i \in 1 .. Len(q) : \/ nw[PipDst[q[i]]] = NoUse
                             \/ nw[PipDst[q[i]]].pip \in {q[i], NoPip}
  BY DEF PipTest, Uses
<1>6. path = ToBindIn(nw, n, s, q)
  BY SameNames DEF ToBind, ToBindIn
<1>7. /\ HeldInv /\ PipsFit /\ NetHeld(n) /\ Mindful(th[t])
      /\ \A v \in Wire : Fits(Step(v, nw[v].pip))
  BY <1>2, WorkerKnows DEF HoldFit, PipsFit
<1>8. /\ PathFits(path)
      /\ PathWires(path) = {PipDst[q[i]] : i \in 1 .. Len(q)}
                           \cup IF s = NetSrc[n] THEN {s} ELSE TrunkIn(nw, n, s)
  <2>1. /\ nw \in NetWires /\ n \in Net /\ a \in ToSet(NetArcs[n]) /\ ~routed[a]
        /\ WholeBut(nw, routed, n, NoReg, {})
    BY <1>1, <1>2
  <2>2. \A i \in 1 .. Len(q) : PipDst[q[i]] # NetSrc[n]
    OBVIOUS
  <2>3. \A v \in Wire : Fits(Step(v, nw[v].pip))
    BY <1>7
  <2>4. IsChain(q, s) /\ SinkWire[a] = IF Len(q) = 0 THEN s ELSE PipDst[q[Len(q)]]
    OBVIOUS
  <2>5. IsFound(nw, routed, n, a, s, q)
    <3> HIDE DEF nw, n, path
    <3> QED BY <2>1, <2>2, <2>4, <1>4, <1>5 DEF IsFound
  <2> HIDE DEF nw, n, path
  <2>6. PathWires(path) = {PipDst[q[i]] : i \in 1 .. Len(q)}
                          \cup IF s = NetSrc[n] THEN {s} ELSE TrunkIn(nw, n, s)
    BY <2>5, <1>6, FoundBinds
  <2>7. PathFits(path)
    BY <2>1, <2>3, <2>4, <1>4, <1>6, ToBindFits
  <2> QED BY <2>6, <2>7
<1>9. ~Foreign(n, NetSrc[n]) /\ ~Foreign(n, SinkWire[a])
  <2>1. NetArcs[n] # <<>>
    BY <1>1 DEF ToSet
  <2>2. NetSrc[n] \in Ends(n) /\ SinkWire[a] \in Ends(n)
    BY <1>1, <2>1 DEF Ends
  <2> QED BY <1>7, <2>2 DEF NetHeld, OwnEnds
<1>10. \A v \in PathWires(path) : ~Foreign(n, v)
  <2>1. \A v \in TrunkIn(nw, n, s) : ~Foreign(n, v)
    BY <1>2, <1>4, <1>7, TrunkOwn
  <2>2. \A i \in 1 .. Len(q) : ~Foreign(n, PipDst[q[i]])
    BY <1>9
  <2> QED BY <1>8, <1>9, <2>1, <2>2
<1> HIDE DEF path
<1>11. /\ \A u \in Thread : u # t => th'[u] = th[u]
       /\ x.net = n /\ x.phase = "bind" /\ x.arcs = th[t].arcs \ {a}
       /\ x.seeds = th[t].seeds /\ x.path = path /\ x.reg = th[t].reg
  BY <1>2, <1>3 DEF ThreadState
<1>12. Mindful(x)
  BY <1>1, <1>2, <1>7, <1>10, <1>11 DEF Mindful
<1>13. HeldInv'
  BY <1>2, <1>3, <1>7, <1>11, <1>12, QuietHeld
<1>14. PipsFit'
  BY <1>2, <1>3, <1>7, <1>8, <1>11 DEF PipsFit, PathFits, routing
<1> QED BY <1>13, <1>14 DEF HoldFit

(* The search of route_arc tests every wire it enters but the sink, which  *)
(* is the net's own.                                                       *)
LEMMA FindPathHeld ==
    ASSUME IInv, IInv', PlanInv, FabricConsistent(fab), HoldFit,
           NEW t \in Thread, NEW a \in th[t].arcs, FindPath(t, a)
    PROVE  HoldFit'
<1>1. /\ Searching(t) /\ SinkWire[a] # Src(a)
  BY DEF FindPath
<1>2. PICK q \in Paths : /\ SearchFinds(t, a, q, is_mt)
                         /\ BeginBind(t, a, PipSrc[q[1]], q)
  BY DEF FindPath
<1> DEFINE n == th[t].net
           s == PipSrc[q[1]]
<1>3. IsPath(q)
  BY PathsArePaths
<1>4. /\ IsChain(q, s) /\ Len(q) # 0 /\ DOMAIN q = 1 .. Len(q)
      /\ Last(q) = q[Len(q)]
  BY <1>3 DEF IsPath, IsChain, Last
<1>5. /\ s = NetSrc[n] \/ s \in th[t].seeds
      /\ SinkWire[a] = PipDst[q[Len(q)]]
      /\ \A i \in 1 .. Len(q) : PipTest(n, q[i], is_mt)
      /\ \A w \in Visits(q) \ {s, SinkWire[a]} :
            w # NetSrc[n] /\ WireTest(t, n, w)
  BY <1>2, <1>4 DEF SearchFinds
<1>6. Src(a) = NetSrc[n] /\ n \in Net /\ fab \in FabricState
  BY <1>1, SearchFacts, AtWorkFacts DEF PlanInv
<1>7. ASSUME NEW i \in 1 .. Len(q)
      PROVE  /\ PipDst[q[i]] # NetSrc[n]
             /\ PipDst[q[i]] # SinkWire[a] => ~Foreign(n, PipDst[q[i]])
  <2>1. PipDst[q[i]] \in Visits(q) /\ PipDst[q[i]] # s /\ PipDst[q[i]] \in Wire
    <3>1. q[i] \in Pip
      BY <1>4 DEF IsChain
    <3> QED BY <1>4, <3>1, FabricAssumption DEF Visits, IsChain
  <2>2. CASE PipDst[q[i]] = SinkWire[a]
    BY <2>2, <1>1, <1>6
  <2>3. CASE PipDst[q[i]] # SinkWire[a]
    <3>1. PipDst[q[i]] # NetSrc[n] /\ WireTest(t, n, PipDst[q[i]])
      BY <1>5, <2>1, <2>3
    <3> QED BY <1>6, <2>1, <3>1, TestedOwn DEF WireTest
  <2> QED BY <2>2, <2>3
<1> QED BY <1>1, <1>2, <1>4, <1>5, <1>7, BeginBindHeld

(* A search that starts at the sink wire itself enters no wire.            *)
LEMMA FindAtOnceHeld ==
    ASSUME IInv, IInv', HoldFit, NEW t \in Thread, NEW a \in th[t].arcs, FindAtOnce(t, a)
    PROVE  HoldFit'
<1> DEFINE s == SinkWire[a]
           q == <<>>
<1>1. /\ Searching(t) /\ SinkWire[a] \in {Src(a)} \cup th[t].seeds
      /\ BeginBind(t, a, s, q)
  BY DEF FindAtOnce
<1>2. Src(a) = NetSrc[th[t].net]
  BY <1>1, SearchFacts
<1>3. IsChain(q, s) /\ Len(q) = 0
  BY DEF IsChain
<1> HIDE DEF q
<1>4. 1 .. Len(q) = {}
  BY <1>3
<1> QED BY <1>1, <1>2, <1>3, <1>4, BeginBindHeld

(* A thread that comes to hold no more than it did, or nothing, goes on    *)
(* minding what other nets hold.                                           *)
LEMMA LessMindful ==
    ASSUME IInv, IInv', HoldFit, NEW t \in Thread, UNCHANGED <<fab, routing, late>>,
           \A u \in Thread : u # t => th'[u] = th[u],
           \/ th'[t].net = NoNet
           \/ /\ th'[t].net = th[t].net /\ th'[t].reg = th[t].reg
              /\ th'[t].path = th[t].path /\ th'[t].seeds = th[t].seeds
              /\ th'[t].arcs \subseteq th[t].arcs
              /\ th'[t].phase = th[t].phase /\ th'[t].arc = th[t].arc
           \/ /\ th'[t].reg = NoReg /\ th'[t].phase = "check"
              /\ th'[t].path = <<>> /\ th'[t].seeds = {} /\ th'[t].arcs = {},
           th'[t].path = <<>> \/ th'[t].path = th[t].path
    PROVE  HoldFit'
<1> DEFINE x == th'[t]
<1>1. TypeInv /\ TypeInv' /\ HeldInv /\ PipsFit /\ Mindful(th[t])
  BY DEF IInv, HoldFit, HeldInv
<1>2. PathWires(<<>>) = {} /\ ToSet(<<>>) = {}
  BY DEF PathWires, ToSet
<1>3. Mindful(x)
  <2>1. CASE x.net = NoNet
    BY <2>1, FabricAssumption DEF Mindful
  <2>2. CASE /\ x.net = th[t].net /\ x.reg = th[t].reg
             /\ x.path = th[t].path /\ x.seeds = th[t].seeds
             /\ x.arcs \subseteq th[t].arcs
             /\ x.phase = th[t].phase /\ x.arc = th[t].arc
    <3> HIDE DEF x
    <3> QED BY <1>1, <2>2 DEF Mindful
  <2>3. CASE /\ x.reg = NoReg /\ x.phase = "check"
             /\ x.path = <<>> /\ x.seeds = {} /\ x.arcs = {}
    <3> HIDE DEF x
    <3> QED BY <1>2, <2>3 DEF Mindful
  <2> QED BY <2>1, <2>2, <2>3
<1>4. HeldInv'
  <2>1. CASE Net = {}
    <3>1. ThreadsMind /\ FabKept /\ MapKept /\ NoneTaken /\ ArcsKept
      <4>1. ThreadsMind
        BY <1>1, <1>3 DEF ThreadsMind, HeldInv
      <4> QED BY <2>1, <4>1 DEF FabKept, MapKept, NoneTaken, ArcsKept
    <3>2. late' \subseteq MayBeLate
      BY <1>1 DEF HeldInv
    <3> QED BY <1>1, <3>1, <3>2, NetsHeld DEF KeepsHeld
  <2>2. CASE Net # {}
    <3>1. PICK n \in Net : TRUE
      BY <2>2
    <3> QED BY <1>1, <1>3, <3>1, QuietHeld
  <2> QED BY <2>1, <2>2
<1>5. PipsFit'
  BY <1>1, <1>2 DEF PipsFit, routing
<1> QED BY <1>4, <1>5 DEF HoldFit

(* Setting an arc aside.                                                   *)
LEMMA SetAsideHeld ==
    ASSUME IInv, IInv', HoldFit, NEW t \in Thread, NEW a \in th[t].arcs,
           SkipArc(t, a) \/ GiveUpArc(t, a)
    PROVE  HoldFit'
<1>1. Searching(t) /\ UNCHANGED <<fab, routing, late>>
  BY DEF SkipArc, GiveUpArc, plan
<1>2. th \in [Thread -> ThreadState] /\ th[t] \in ThreadState
  BY DEF IInv, TypeInv
<1>3. \/ th' = [th EXCEPT ![t].arcs = @ \ {a}]
      \/ th' = [th EXCEPT ![t].arcs = @ \ {a}, ![t].bad = TRUE]
  BY DEF SkipArc, GiveUpArc
<1>4. /\ \A u \in Thread : u # t => th'[u] = th[u]
      /\ th'[t].net = th[t].net /\ th'[t].reg = th[t].reg
      /\ th'[t].path = th[t].path /\ th'[t].seeds = th[t].seeds
      /\ th'[t].arcs \subseteq th[t].arcs
      /\ th'[t].phase = th[t].phase /\ th'[t].arc = th[t].arc
  BY <1>2, <1>3 DEF ThreadState
<1> QED BY <1>1, <1>4, LessMindful

(* The end of route_net.                                                   *)
LEMMA LeaveNetHeld ==
    ASSUME IInv, IInv', HoldFit, NEW t \in Thread, LeaveNet(t)
    PROVE  HoldFit'
<1> DEFINE x == [Idle EXCEPT !.nets = th[t].nets,
                             !.failed = th[t].failed
                                \cup IF th[t].bad THEN {th[t].net} ELSE {}]
<1>1. th' = [th EXCEPT ![t] = x] /\ UNCHANGED <<fab, routing, late>>
  BY DEF LeaveNet, plan
<1>2. th \in [Thread -> ThreadState]
  BY DEF IInv, TypeInv
<1>3. x.net = NoNet /\ x.path = <<>>
  BY DEF Idle
<1> HIDE DEF x
<1> QED BY <1>1, <1>2, <1>3, LessMindful

(* The beginning of route_net.                                             *)
LEMMA TakeNetHeld ==
    ASSUME IInv, IInv', HoldFit, NEW t \in Thread, NEW n \in th[t].nets, TakeNet(t, n)
    PROVE  HoldFit'
<1>1. th[t].phase = "idle" /\ UNCHANGED <<fab, routing, late>>
  BY DEF TakeNet, InPhase, plan
<1>2. /\ th \in [Thread -> ThreadState] /\ th[t] \in ThreadState
      /\ AtRest(th[t]) /\ th[t].reg = NoReg
  BY <1>1 DEF IInv, TypeInv, Staged, Busy, TreesInv, AtWork
<1>3. CASE n \in Undriven
  <2>1. th' = [th EXCEPT ![t].nets = @ \ {n}]
    BY <1>3 DEF TakeNet
  <2>2. /\ \A u \in Thread : u # t => th'[u] = th[u]
        /\ th'[t].net = NoNet /\ th'[t].path = th[t].path
    BY <1>2, <2>1 DEF ThreadState, AtRest
  <2> QED BY <1>1, <2>2, LessMindful
<1>4. CASE n \notin Undriven
  <2> DEFINE s == NetArcs[n]
  <2>1. th' = [th EXCEPT ![t].nets = @ \ {n}, ![t].net = n,
                         ![t].phase = "check", ![t].check = s]
    BY <1>4 DEF TakeNet
  <2> HIDE DEF s
  <2>2. /\ \A u \in Thread : u # t => th'[u] = th[u]
        /\ th'[t].reg = NoReg /\ th'[t].phase = "check"
        /\ th'[t].path = <<>> /\ th'[t].seeds = {} /\ th'[t].arcs = {}
    BY <1>2, <2>1 DEF ThreadState, AtRest
  <2> QED BY <1>1, <2>2, LessMindful
<1> QED BY <1>3, <1>4

(* Every wire begins its walk.                                             *)
LEMMA WalkBegins ==
    ASSUME NEW nw \in NetWires, NEW n, NEW w \in Wire
    PROVE  w \in ToSet(WalkIn(nw, n, w))
<1> DEFINE s == WalkIn(nw, n, w)
<1>1. s \in Seq(Wire) /\ Len(s) \in Nat \ {0} /\ s[1] = w
  BY WalkShape DEF IsWalk
<1> HIDE DEF s
<1>2. 1 \in DOMAIN s
  BY <1>1
<1> QED BY <1>1, <1>2 DEF ToSet, s

(* A locked arc passes check_arc_routing: it leads to the source, its net  *)
(* is the only one on its wires, and its slack does not fail.              *)
LEMMA LockedKept ==
    ASSUME TypeInv, HeldInv, NEW n \in Net \ Undriven, NEW a \in ToSet(NetArcs[n]),
           LockedArc(n, a)
    PROVE  Keeps(a)
<1>1. ArcNet[a] = n /\ SinkWire[a] \in Wire /\ net_wires[n] \in NetWires /\ NetHeld(n)
  BY ArcNetIs, ArcsOfNet DEF TypeInv, HeldInv
<1>2. /\ SinkWire[a] # NetSrc[n] /\ Reaches(n, SinkWire[a])
      /\ \A v \in ToSet(Walk(n, SinkWire[a])) : Held(n, v)
  BY DEF LockedArc
<1>3. SinkWire[a] \in ToSet(Walk(n, SinkWire[a]))
  BY <1>1, WalkBegins, SameNames
<1>4. n \notin late
  <2>1. n \notin MayBeLate
    BY <1>1, <1>2, <1>3 DEF NetHeld, LockedRoutes
  <2> QED BY <2>1 DEF HeldInv
<1>5. \A v \in ToSet(Walk(n, SinkWire[a])) : v \in Wire
  <2> DEFINE s == WalkIn(net_wires[n], n, SinkWire[a])
  <2>1. s \in Seq(Wire)
    BY <1>1, WalkShape DEF IsWalk
  <2>2. Walk(n, SinkWire[a]) = s
    BY SameNames
  <2> HIDE DEF s
  <2> QED BY <2>1, <2>2 DEF ToSet
<1>6. \A v \in ToSet(Walk(n, SinkWire[a])) : curr_cong[v] = 1
  BY <1>1, <1>2, <1>5 DEF NetHeld
<1> QED BY <1>1, <1>2, <1>4, <1>6 DEF Keeps, Legal

(* The check of an arc keeps locked arcs, and starts the search from the   *)
(* tree of the net only.                                                   *)
LEMMA CheckArcHeld ==
    ASSUME IInv, IInv', HoldFit, NEW t \in Thread, CheckArc(t)
    PROVE  HoldFit'
<1> DEFINE n == th[t].net
           a == Head(th[t].check)
           w == SinkWire[a]
           nw == net_wires[n]
           x == th'[t]
           more == IF Uses(n, w) THEN Trunk(n, w) ELSE {}
           B == Branch(n, w)
<1>1. /\ Running(t) /\ th[t].phase = "check" /\ th[t].check # <<>>
      /\ UNCHANGED <<fab, routing, late>> /\ CheckAsserts(t)
  BY DEF CheckArc, InPhase, plan
<1>2. Busy(t)
  BY <1>1 DEF Busy
<1>3. /\ TypeInv /\ Staged /\ TreesInv /\ th[t] \in ThreadState
      /\ n \in Net \ Undriven /\ nw \in NetWires
      /\ th[t].arcs \cup ToSet(th[t].check) \subseteq ToSet(NetArcs[n])
      /\ th \in [Thread -> ThreadState] /\ TypeInv'
  BY <1>1, <1>2, AtWorkFacts DEF IInv
<1>4. /\ HeldInv /\ PipsFit /\ NetHeld(n) /\ Mindful(th[t]) /\ PathFits(th[t].path)
  BY <1>3, WorkerKnows DEF HoldFit
<1>5. /\ a \in ToSet(NetArcs[n]) /\ w \in Wire /\ ArcNet[a] = n
  BY <1>1, <1>3, TailSeq, ArcsOfNet, ArcNetIs, SMTT(60) DEF ThreadState
<1>6. th[t].reg = NoReg
  BY <1>1, <1>3, CheckWhole
<1>7. ReachesIn(nw, n, w) => /\ \A v \in Trunk(n, w) : ~Foreign(n, v)
                             /\ PathWires(B) = Trunk(n, w) /\ PathFits(B)
  <2> SUFFICES ASSUME ReachesIn(nw, n, w)
               PROVE  /\ \A v \in Trunk(n, w) : ~Foreign(n, v)
                      /\ PathWires(B) = Trunk(n, w) /\ PathFits(B)
    OBVIOUS
  <2>1. \A v \in Trunk(n, w) : ~Foreign(n, v)
    BY <1>3, <1>4, <1>5, TrunkOwn, SameNames
  <2> DEFINE R == BranchIn(nw, n, w)
  <2>2. /\ R \in Seq(PathStep) /\ PathWires(R) = TrunkIn(nw, n, w)
        /\ \A b \in ToSet(R) : b.pip = nw[b.wire].pip
    BY <1>3, <1>5, BranchIs
  <2>3. B = R /\ Trunk(n, w) = TrunkIn(nw, n, w)
    BY SameNames
  <2>4. \A v \in Wire : Fits(Step(v, nw[v].pip))
    BY <1>3, <1>4 DEF PipsFit
  <2> HIDE DEF R, B, nw
  <2>5. \A b \in ToSet(R) : b \in PathStep
    BY <2>2 DEF ToSet
  <2>6. \A b \in ToSet(R) : b.wire \in Wire
    BY <2>5 DEF PathStep
  <2>7. PathFits(R)
    BY <2>2, <2>4, <2>6 DEF PathFits, Fits, Step
  <2> QED BY <2>1, <2>2, <2>3, <2>7
<1>8. /\ Keeps(a) => ReachesIn(nw, n, w)
      /\ ~Keeps(a) /\ routed[a] => ReachesIn(nw, n, w)
      /\ ~Keeps(a) => ~LockedArc(n, a)
  <2>1. Keeps(a) => ReachesIn(nw, n, w)
    BY <1>5, SameNames DEF Keeps, Legal
  <2>2. ~Keeps(a) /\ routed[a] => ReachesIn(nw, n, w)
    BY <1>1, SameNames DEF CheckAsserts
  <2>3. ~Keeps(a) => ~LockedArc(n, a)
    BY <1>3, <1>4, <1>5, LockedKept
  <2> QED BY <2>1, <2>2, <2>3
<1>9. PathWires(<<>>) = {} /\ PathFits(<<>>)
  BY DEF PathWires, PathFits, ToSet
<1>10. /\ \A u \in Thread : u # t => th'[u] = th[u]
       /\ x.net = n /\ x.reg = NoReg
       /\ \A v \in x.seeds \cup PathWires(x.path) : ~Foreign(n, v)
       /\ PathFits(x.path)
       /\ x.arcs = th[t].arcs \/ (x.arcs = th[t].arcs \cup {a} /\ ~LockedArc(n, a))
       /\ x.phase = "rip" => x.arc = a /\ ~LockedArc(n, a)
  <2>1. CASE Keeps(a)
    <3>1. th' = [th EXCEPT ![t].check = Tail(@), ![t].seeds = @ \cup more]
      BY <2>1 DEF CheckArc
    <3>2. \A v \in more : ~Foreign(n, v)
      BY <1>7, <1>8, <2>1
    <3> HIDE DEF more, a, w, n, nw, B
    <3>3. /\ \A u \in Thread : u # t => th'[u] = th[u]
          /\ x.net = th[t].net /\ x.reg = th[t].reg /\ x.path = th[t].path
          /\ x.seeds = th[t].seeds \cup more /\ x.arcs = th[t].arcs
          /\ x.phase = th[t].phase
      BY <1>3, <3>1 DEF ThreadState
    <3> QED BY <1>1, <1>3, <1>4, <1>6, <3>2, <3>3 DEF Mindful, n
  <2>2. CASE ~Keeps(a)
    <3> DEFINE phase == IF routed[a] THEN "rip" ELSE "check"
               path == IF routed[a] THEN B ELSE <<>>
    <3>1. th' = [th EXCEPT ![t].check = Tail(@), ![t].arcs = @ \cup {a},
                           ![t].arc = a, ![t].phase = phase, ![t].path = path]
      BY <2>2 DEF CheckArc
    <3>2. PathFits(path) /\ \A v \in PathWires(path) : ~Foreign(n, v)
      BY <1>7, <1>8, <1>9, <2>2
    <3> HIDE DEF phase, path, a, w, n, nw, B
    <3>3. /\ \A u \in Thread : u # t => th'[u] = th[u]
          /\ x.net = th[t].net /\ x.reg = th[t].reg /\ x.path = path
          /\ x.seeds = th[t].seeds /\ x.arcs = th[t].arcs \cup {a}
          /\ x.arc = a
      BY <1>3, <3>1 DEF ThreadState
    <3> QED BY <1>3, <1>4, <1>6, <1>8, <2>2, <3>2, <3>3 DEF Mindful, n
  <2> QED BY <2>1, <2>2
<1> HIDE DEF a, w, n, nw, B, more
<1>11. Mindful(x)
  <2>1. \A b \in ToSet(NetArcs[n]) : LockedArc(n, b) => b \notin th[t].arcs
    BY <1>3, <1>4 DEF Mindful, n
  <2> QED BY <1>10, <2>1 DEF Mindful
<1>12. HeldInv'
  BY <1>1, <1>3, <1>4, <1>10, <1>11, QuietHeld
<1>13. PipsFit'
  BY <1>1, <1>4, <1>10 DEF PipsFit, PathFits, routing
<1> QED BY <1>12, <1>13 DEF HoldFit

(* The end of a search without a path, or disturbed by another.            *)
LEMMA SameHeld ==
    ASSUME IInv, IInv', HoldFit, UNCHANGED <<fab, routing, late, th>>
    PROVE  HoldFit'
<1>1. net_wires' = net_wires /\ curr_cong' = curr_cong /\ routed' = routed
  BY DEF routing
<1>2. TypeInv /\ TypeInv' /\ HeldInv /\ PipsFit
  BY DEF IInv, HoldFit
<1>3. FabKept /\ MapKept /\ NoneTaken /\ ArcsKept /\ late' \subseteq MayBeLate
  BY <1>1, <1>2 DEF FabKept, MapKept, NoneTaken, ArcsKept, Held, HeldInv, NetHeld, Uses
<1>4. ThreadsMind
  BY <1>2 DEF ThreadsMind, HeldInv
<1>5. HeldInv'
  BY <1>2, <1>3, <1>4, NetsHeld DEF KeepsHeld
<1>6. PipsFit'
  BY <1>1, <1>2 DEF PipsFit
<1> QED BY <1>5, <1>6 DEF HoldFit

(* A step that leaves the wires alone and after which each thread has what *)
(* it had, or no net.                                                      *)
LEMMA StageHeld ==
    ASSUME IInv, IInv', HoldFit, UNCHANGED <<fab, routing>>, late' \subseteq MayBeLate,
           \A t \in Thread :
              /\ th'[t].path = th[t].path \/ th'[t].path = <<>>
              /\ th'[t].net = NoNet \/ th'[t] = th[t]
    PROVE  HoldFit'
<1>1. net_wires' = net_wires /\ curr_cong' = curr_cong /\ routed' = routed
  BY DEF routing
<1>2. TypeInv /\ TypeInv' /\ HeldInv /\ PipsFit
  BY DEF IInv, HoldFit
<1>3. FabKept /\ MapKept /\ NoneTaken /\ ArcsKept
  BY <1>1, <1>2 DEF FabKept, MapKept, NoneTaken, ArcsKept, Held, HeldInv, NetHeld, Uses
<1>4. ThreadsMind
  <2> SUFFICES ASSUME NEW t \in Thread PROVE Mindful(th'[t])
    BY DEF ThreadsMind
  <2>1. CASE th'[t].net = NoNet
    BY <2>1, FabricAssumption DEF Mindful
  <2>2. CASE th'[t] = th[t]
    BY <1>2, <2>2 DEF HeldInv
  <2> QED BY <2>1, <2>2
<1>5. HeldInv'
  BY <1>2, <1>3, <1>4, NetsHeld DEF KeepsHeld
<1>6. PipsFit'
  <2>1. ToSet(<<>>) = {}
    BY DEF ToSet
  <2> QED BY <1>1, <1>2, <2>1 DEF PipsFit
<1> QED BY <1>5, <1>6 DEF HoldFit

(* Giving the nets of a stage to its threads, and the end of a stage.      *)
LEMMA StagesHeld ==
    ASSUME IInv, IInv', HoldFit, BeginRoute \/ NextStage
    PROVE  HoldFit'
<1>1. UNCHANGED <<fab, routing>> /\ late' \subseteq MayBeLate
  BY DEF BeginRoute, NextStage, plan, HoldFit, HeldInv
<1>2. th \in [Thread -> ThreadState]
  BY DEF IInv, TypeInv
<1>3. ASSUME BeginRoute, NEW t \in Thread
      PROVE  th'[t].path = <<>> /\ th'[t].net = NoNet
  <2> DEFINE mt == Cardinality(route_queue) >= MinThreaded
             bin(n) == IF mt THEN Bin(bb[n]) ELSE 8
             given(u) == {n \in route_queue : bin(n) = u}
  <2>1. th' = [u \in Thread |-> [Idle EXCEPT !.nets = given(u)]]
    BY <1>3 DEF BeginRoute
  <2> HIDE DEF given
  <2>2. th'[t] = [Idle EXCEPT !.nets = given(t)]
    BY <2>1
  <2> QED BY <2>2 DEF Idle
<1>4. ASSUME NextStage, NEW t \in Thread
      PROVE  /\ th'[t].path = th[t].path
             /\ th'[t].net = NoNet \/ th'[t] = th[t]
  <2>1. CASE stage # 4
    <3>1. th' = th
      BY <1>4, <2>1 DEF NextStage
    <3> QED BY <3>1
  <2>2. CASE stage = 4
    <3> DEFINE left == UNION {th[u].failed : u \in 0 .. 7}
    <3>1. th' = [th EXCEPT ![8].nets = left] /\ 8 \in StageThreads[stage]
          /\ \A u \in StageThreads[stage] : th[u].phase = "idle"
      BY <1>4, <2>2 DEF NextStage, StageThreads
    <3>2. 8 \in Thread
      BY DEF Thread
    <3>3. th[8].net = NoNet
      BY <3>1, <3>2 DEF IInv, Staged, Busy, AtRest
    <3> HIDE DEF left
    <3>4. /\ \A u \in Thread : u # 8 => th'[u] = th[u]
          /\ th'[8].path = th[8].path /\ th'[8].net = NoNet
      BY <1>2, <3>1, <3>2, <3>3 DEF ThreadState
    <3> QED BY <3>4
  <2> QED BY <2>1, <2>2
<1>5. \A t \in Thread : /\ th'[t].path = th[t].path \/ th'[t].path = <<>>
                        /\ th'[t].net = NoNet \/ th'[t] = th[t]
  BY <1>3, <1>4
<1> QED BY <1>1, <1>5, StageHeld

-----------------------------------------------------------------------------
(* The steps of bind_and_check_all. *)

(* What is visited comes after its net.                                    *)
Ordered(s) == \A j \in DOMAIN s : s[j] \in Arc => Before(s, j, ArcNet[s[j]])
VisitSeqs == {s \in Seq(Net \cup Arc) : Ordered(s)}

(* Two such visits, one after the other, are one.                          *)
LEMMA VisitsConcat ==
    ASSUME NEW Q \in VisitSeqs, NEW R \in VisitSeqs
    PROVE  Q \o R \in VisitSeqs
<1> DEFINE P == Q \o R
<1>0. Q \in Seq(Net \cup Arc) /\ R \in Seq(Net \cup Arc) /\ Ordered(Q) /\ Ordered(R)
  BY DEF VisitSeqs
<1>1. /\ P \in Seq(Net \cup Arc) /\ Len(P) = Len(Q) + Len(R)
      /\ Len(Q) \in Nat /\ Len(R) \in Nat
      /\ \A i \in 1 .. Len(Q) : P[i] = Q[i]
      /\ \A i \in Len(Q) + 1 .. Len(P) : P[i] = R[i - Len(Q)]
      /\ DOMAIN P = 1 .. Len(P) /\ DOMAIN Q = 1 .. Len(Q) /\ DOMAIN R = 1 .. Len(R)
  BY <1>0
<1> HIDE DEF P
<1>2. ASSUME NEW j \in 1 .. Len(P), P[j] \in Arc PROVE Before(P, j, ArcNet[P[j]])
  <2>1. CASE j \in 1 .. Len(Q)
    <3>1. PICK i \in 1 .. j - 1 : Q[i] = ArcNet[Q[j]]
      BY <1>0, <1>1, <1>2, <2>1 DEF Ordered, Before
    <3>2. i \in 1 .. Len(Q)
      BY <1>1, <2>1
    <3> QED BY <1>1, <2>1, <3>1, <3>2 DEF Before
  <2>2. CASE j \notin 1 .. Len(Q)
    <3> DEFINE k == j - Len(Q)
    <3>1. k \in 1 .. Len(R) /\ j = k + Len(Q) /\ j \in Len(Q) + 1 .. Len(P)
      BY <1>1, <2>2
    <3>2. P[j] = R[k]
      BY <1>1, <3>1
    <3> HIDE DEF k
    <3>3. PICK i \in 1 .. k - 1 : R[i] = ArcNet[R[k]]
      BY <1>0, <1>1, <1>2, <3>1, <3>2 DEF Ordered, Before
    <3> DEFINE l == i + Len(Q)
    <3>4. l \in 1 .. j - 1 /\ l \in Len(Q) + 1 .. Len(P) /\ l - Len(Q) = i
      BY <1>1, <3>1
    <3>5. P[l] = R[i]
      BY <1>1, <3>4
    <3> HIDE DEF l
    <3> QED BY <3>2, <3>3, <3>4, <3>5 DEF Before
  <2> QED BY <2>1, <2>2
<1> QED BY <1>1, <1>2 DEF VisitSeqs, Ordered, P

(* bind_and_check_all visits each net before its arcs.                     *)
LEMMA VisitsOrdered ==
    FlattenSeq([i \in DOMAIN NetOrder |-> <<NetOrder[i]>> \o NetArcs[NetOrder[i]]])
        \in VisitSeqs
<1> DEFINE ss == [i \in DOMAIN NetOrder |-> <<NetOrder[i]>> \o NetArcs[NetOrder[i]]]
<1>1. ASSUME NEW i \in 1 .. Len(NetOrder)
      PROVE  <<NetOrder[i]>> \o NetArcs[NetOrder[i]] \in VisitSeqs
  <2> DEFINE n == NetOrder[i]
             s == NetArcs[n]
             b == <<n>> \o s
  <2>1. n \in Net /\ s \in Seq(Arc)
    BY Router2Assumption
  <2> HIDE DEF n, s
  <2>2. /\ b \in Seq(Net \cup Arc) /\ b[1] = n /\ Len(b) = Len(s) + 1 /\ Len(s) \in Nat
        /\ \A j \in 2 .. Len(b) : b[j] = s[j - 1]
    BY <2>1
  <2> HIDE DEF b
  <2>3. ASSUME NEW j \in DOMAIN b, b[j] \in Arc PROVE Before(b, j, ArcNet[b[j]])
    <3>1. j \in 1 .. Len(b)
      BY <2>2
    <3>2. j # 1
      BY <2>1, <2>2, <2>3, Router2Assumption
    <3>3. b[j] = s[j - 1] /\ j - 1 \in 1 .. Len(s) /\ 1 \in 1 .. j - 1
      BY <2>2, <3>1, <3>2
    <3>4. b[j] \in ToSet(s)
      BY <2>1, <3>3 DEF ToSet
    <3>5. ArcNet[b[j]] = n
      BY <2>1, <3>4, ArcNetIs DEF s
    <3> QED BY <2>2, <3>3, <3>5 DEF Before
  <2>4. b \in VisitSeqs
    BY <2>2, <2>3 DEF VisitSeqs, Ordered
  <2> QED BY <2>4 DEF b, s, n
<1>2. ss \in Seq(VisitSeqs)
  <2>1. DOMAIN NetOrder = 1 .. Len(NetOrder) /\ Len(NetOrder) \in Nat
    BY Router2Assumption
  <2> QED BY <1>1, <2>1
<1>3. <<>> \in VisitSeqs
  BY DEF VisitSeqs, Ordered
<1> HIDE DEF ss
<1>4. FlattenSeq(ss) \in VisitSeqs
  BY <1>2, <1>3, VisitsConcat, FlattenIn
<1> QED BY <1>4 DEF ss

(* Visiting the first of the queue: the nets that agree still do, and the  *)
(* net that was visited does from now on.                                  *)
LEMMA QueueTail ==
    ASSUME QueueInv, pc = "bind", bind_queue \in Seq(Net \cup Arc), bind_queue # <<>>,
           bind_queue' = Tail(bind_queue),
           \A m \in Net \ Undriven : Agrees(m) \/ Head(bind_queue) = m => Agrees(m)'
    PROVE  QueueInv'
<1> PICK s : s = bind_queue
  OBVIOUS
<1> PICK r : r = Tail(s)
  OBVIOUS
<1>1. /\ s \in Seq(Net \cup Arc) /\ s # <<>> /\ Head(s) = s[1]
      /\ DOMAIN s = 1 .. Len(s) /\ Len(s) \in Nat \ {0}
  OBVIOUS
<1>2. /\ DOMAIN r = 1 .. Len(s) - 1
      /\ \A j \in 1 .. Len(s) - 1 : r[j] = s[j + 1]
  BY <1>1
<1>3. ASSUME NEW j \in DOMAIN r, r[j] \in Arc, ArcNet[r[j]] \notin Undriven
      PROVE  Agrees(ArcNet[r[j]])' \/ Before(r, j, ArcNet[r[j]])
  <2>1. r[j] = s[j + 1] /\ j + 1 \in DOMAIN s /\ j \in Nat \ {0}
    BY <1>1, <1>2
  <2> DEFINE m == ArcNet[r[j]]
  <2>2. m \in Net \ Undriven
    <3>1. PICK n \in Net : r[j] \in ToSet(NetArcs[n])
      BY <1>3, Router2Assumption
    <3> QED BY <1>3, <3>1, ArcNetIs
  <2>3. Agrees(m) \/ Before(s, j + 1, m)
    BY <1>3, <2>1 DEF QueueInv
  <2> HIDE DEF m
  <2>4. CASE Agrees(m) \/ Head(s) = m
    BY <2>2, <2>4 DEF m
  <2>5. CASE Before(s, j + 1, m) /\ Head(s) # m
    <3>1. PICK i \in 1 .. (j + 1) - 1 : s[i] = m
      BY <2>5 DEF Before
    <3>2. i # 1
      BY <1>1, <2>5, <3>1
    <3> DEFINE k == i - 1
    <3>3. k \in 1 .. j - 1 /\ k \in 1 .. Len(s) - 1 /\ k + 1 = i
      BY <1>1, <2>1, <3>2
    <3> HIDE DEF k
    <3>4. r[k] = m
      BY <1>2, <3>1, <3>3
    <3> QED BY <3>3, <3>4 DEF Before, m
  <2> QED BY <2>3, <2>4, <2>5
<1>4. bind_queue' = r
  OBVIOUS
<1> QED BY <1>3, <1>4 DEF QueueInv

(* A step that only changes bindings which are not held.                   *)
LEMMA FabHeld ==
    ASSUME IInv, IInv', HoldFit, UNCHANGED <<routing, late, th>>, FabKept
    PROVE  HoldFit'
<1>1. net_wires' = net_wires /\ curr_cong' = curr_cong /\ routed' = routed
  BY DEF routing
<1>2. TypeInv /\ TypeInv' /\ HeldInv /\ PipsFit
  BY DEF IInv, HoldFit
<1>3. MapKept /\ NoneTaken /\ ArcsKept /\ late' \subseteq MayBeLate
  BY <1>1, <1>2 DEF MapKept, NoneTaken, ArcsKept, HeldInv, NetHeld, Uses
<1>4. ThreadsMind
  BY <1>2 DEF ThreadsMind, HeldInv
<1>5. HeldInv'
  BY <1>2, <1>3, <1>4, NetsHeld DEF KeepsHeld
<1>6. PipsFit'
  BY <1>1, <1>2 DEF PipsFit
<1> QED BY <1>5, <1>6 DEF HoldFit

(* An entry of STRENGTH_STRONG or less, or none, is not held.              *)
LEMMA WeakEntry ==
    /\ ~(NoEntry.strength > STRENGTH_STRONG) /\ ~(STRENGTH_WEAK > STRENGTH_STRONG)
    /\ NoEntry.pip = NoPip /\ STRENGTH_WEAK \in PlaceStrength
BY DEF NoEntry, STRENGTH_STRONG, STRENGTH_WEAK, PlaceStrength, STRENGTH_USER

(* bind_and_check_all unbinds all a net has in the fabric but what is      *)
(* held, so that its map is the only one left.                             *)
LEMMA UnbindNetLock ==
    ASSUME IInv, IInv', PlanInv, LockInv, NEW n \in Net, UnbindNet(n)
    PROVE  LockInv' /\ FabKept
<1> DEFINE W == Rippable(n)
<1>1. /\ pc = "bind" /\ bind_queue # <<>> /\ Head(bind_queue) = n
      /\ bind_queue' = Tail(bind_queue) /\ fab' = UnbindWires(fab, W)
      /\ UNCHANGED <<routing, late, th>>
  BY DEF UnbindNet
<1>2. /\ fab \in FabricState /\ FabricConsistent(fab) /\ HoldFit /\ QueueInv
      /\ bind_queue \in Seq(Net \cup Arc)
  BY DEF PlanInv, LockInv, HoldFit
<1>3. W \in SUBSET Wire /\ \A w \in W : fab.wire_to_net[w] = n
  BY <1>2 DEF Rippable, WiresOf, FabricConsistent, WireMapsAgree
<1>4. \A w \in W : fab.wire_to_net[w] # NoNet
  BY <1>3, FabricAssumption
<1> DEFINE g == UnbindWires(fab, W)
<1>5. /\ FabricConsistent(g)
      /\ \A m \in Net, w \in Wire : g.wires[m][w] = IF w \in W THEN NoEntry ELSE fab.wires[m][w]
  BY <1>2, <1>3, <1>4, UnbindWiresEffect
<1> HIDE DEF g
<1>6. fab' = g
  BY <1>1 DEF g
<1>7. ASSUME NEW m \in Net, NEW w \in W PROVE ~Held(m, w)
  <2>1. CASE m = n
    BY <2>1, <1>2, <1>3 DEF Rippable, WiresOf, Held, FabricState, PipMap, NoEntry,
       STRENGTH_STRONG, PlaceStrength
  <2>2. CASE m # n
    <3>1. fab.wires[m][w] = NoEntry
      BY <1>2, <1>3, <2>2 DEF FabricConsistent, WireMapsAgree, HasWire
    <3> QED BY <3>1, WeakEntry DEF Held
  <2> QED BY <2>1, <2>2
<1> HIDE DEF W
<1>8. FabKept
  BY <1>5, <1>6, <1>7, WeakEntry DEF FabKept, Held
<1>9. HoldFit'
  BY <1>1, <1>2, <1>8, FabHeld
<1>10. QueueInv'
  <2>1. net_wires' = net_wires
    BY <1>1 DEF routing
  <2>2. ASSUME NEW m \in Net \ Undriven, Agrees(m) PROVE Agrees(m)'
    BY <1>5, <1>6, <2>1, <2>2, WeakEntry DEF Agrees, Uses
  <2>3. ASSUME n \in Net \ Undriven PROVE Agrees(n)'
    <3> SUFFICES ASSUME NEW w \in Wire \ {NetSrc[n]}, fab'.wires[n][w].pip # NoPip
                 PROVE  net_wires'[n][w].pip = fab'.wires[n][w].pip
      BY DEF Agrees
    <3>1. w \notin W /\ fab'.wires[n][w] = fab.wires[n][w]
      BY <1>5, <1>6, WeakEntry
    <3>2. HasWire(fab, n, w)
      BY <3>1, WeakEntry DEF HasWire
    <3>3. Held(n, w)
      <4>1. fab.wires[n][w].strength \in Int
        <5>1. fab.wires[n][w] \in PipMap \cup {NoEntry}
          BY <1>2 DEF FabricState
        <5> DEFINE e == fab.wires[n][w]
        <5> HIDE DEF e
        <5>2. e \in PipMap \cup {NoEntry} => e.strength \in Int
          BY DEF PipMap, NoEntry, PlaceStrength, STRENGTH_USER
        <5> QED BY <5>1, <5>2 DEF e
      <4> QED BY <3>1, <3>2, <4>1 DEF W, Rippable, WiresOf, Held, STRENGTH_STRONG
    <3>4. NetHeld(n)
      BY <1>2, <2>3 DEF HoldFit, HeldInv
    <3> QED BY <2>1, <3>1, <3>3, <3>4 DEF NetHeld
  <2> QED BY <1>1, <1>2, <2>2, <2>3, QueueTail
<1> QED BY <1>5, <1>6, <1>8, <1>9, <1>10 DEF LockInv, HoldFit

(* The arc visited first: its net has been unbound and agrees with its map.*)
LEMMA HeadAgrees ==
    ASSUME PlanInv, QueueInv, pc = "bind", bind_queue # <<>>, NEW a \in Arc,
           Head(bind_queue) = a
    PROVE  /\ ArcNet[a] \in Net /\ Src(a) = NetSrc[ArcNet[a]] /\ Src(a) \in Wire
           /\ SinkWire[a] \in Wire /\ a \in ToSet(NetArcs[ArcNet[a]])
           /\ ArcNet[a] \notin Undriven => Agrees(ArcNet[a])
           /\ \A m \in Net : Head(bind_queue) # m
<1>1. PICK n \in Net : a \in ToSet(NetArcs[n])
  BY Router2Assumption
<1>2. ArcNet[a] = n /\ Src(a) = NetSrc[n] /\ NetSrc[n] \in Wire /\ SinkWire[a] \in Wire
  BY <1>1, ArcNetIs, ArcsOfNet, Router2Assumption
<1> PICK s : s = bind_queue
  OBVIOUS
<1>3. s \in Seq(Net \cup Arc) /\ s # <<>>
  BY DEF PlanInv
<1>4. 1 \in DOMAIN s /\ s[1] = a
  BY <1>3
<1>5. n \notin Undriven => Agrees(n) \/ Before(s, 1, n)
  BY <1>2, <1>4 DEF QueueInv
<1>6. ~Before(s, 1, n)
  BY DEF Before
<1>7. \A m \in Net : Head(bind_queue) # m
  BY Router2Assumption
<1> QED BY <1>1, <1>2, <1>5, <1>6, <1>7

(* A source that is its own sink is bound where nothing is bound.          *)
LEMMA BindUnroutedLock ==
    ASSUME IInv, IInv', PlanInv, LockInv, NEW a \in Arc, BindUnrouted(a)
    PROVE  LockInv' /\ FabKept
<1> DEFINE n == ArcNet[a]
           w == Src(a)
<1>1. /\ pc = "bind" /\ bind_queue # <<>> /\ Head(bind_queue) = a
      /\ bind_queue' = Tail(bind_queue)
      /\ UNCHANGED <<routing, late, th>>
      /\ (n \in Undriven \/ ~routed[a]) /\ FabricAsserts(a)
      /\ fab' = IF n \notin Undriven /\ w = SinkWire[a] /\ fab.wire_to_net[w] # n
                THEN BindWire(fab, w, n, STRENGTH_WEAK) ELSE fab
  BY DEF BindUnrouted
<1>2. /\ fab \in FabricState /\ FabricConsistent(fab) /\ HoldFit /\ QueueInv
      /\ bind_queue \in Seq(Net \cup Arc)
  BY DEF PlanInv, LockInv, HoldFit
<1>3. n \in Net /\ w \in Wire /\ w = NetSrc[n] /\ \A m \in Net : Head(bind_queue) # m
  BY <1>1, <1>2, HeadAgrees
<1>4. net_wires' = net_wires
  BY <1>1 DEF routing
<1> HIDE DEF n, w
<1>5. CASE fab' = fab
  <2>1. FabKept
    BY <1>5 DEF FabKept, Held
  <2>2. \A m \in Net \ Undriven : Agrees(m) => Agrees(m)'
    BY <1>4, <1>5 DEF Agrees, Uses
  <2>3. HoldFit' /\ QueueInv'
    BY <1>1, <1>2, <1>3, <2>1, <2>2, FabHeld, QueueTail
  <2> QED BY <1>2, <1>5, <2>1, <2>3 DEF LockInv, HoldFit
<1>6. CASE fab' # fab
  <2>1. fab' = BindWire(fab, w, n, STRENGTH_WEAK) /\ n \notin Undriven
        /\ w = SinkWire[a] /\ fab.wire_to_net[w] # n
    BY <1>1, <1>6
  <2>2. fab.wire_to_net[w] = NoNet
    BY <1>1, <2>1 DEF FabricAsserts, n, w
  <2>3. FabricConsistent(fab')
    BY <1>2, <1>3, <2>1, <2>2, BindWireConsistent, WeakEntry DEF CanBindWire
  <2>4. /\ fab'.wires[n][w] = [pip |-> NoPip, strength |-> STRENGTH_WEAK]
        /\ \A m \in Net, v \in Wire : m # n \/ v # w => fab'.wires[m][v] = fab.wires[m][v]
    BY <1>2, <1>3, <2>1 DEF BindWire, FabricState
  <2>5. fab.wires[n][w] = NoEntry
    BY <1>2, <1>3, <2>2, FabricAssumption DEF FabricConsistent, WireMapsAgree, HasWire
  <2>6. FabKept
    BY <2>4, <2>5, WeakEntry DEF FabKept, Held
  <2>7. \A m \in Net \ Undriven : Agrees(m) => Agrees(m)'
    BY <1>3, <1>4, <2>4 DEF Agrees, Uses
  <2>8. HoldFit' /\ QueueInv'
    BY <1>1, <1>2, <1>3, <2>6, <2>7, FabHeld, QueueTail
  <2> QED BY <2>3, <2>6, <2>8 DEF LockInv, HoldFit
<1> QED BY <1>5, <1>6

(* Binding free pips to wires that are free, or the net's own without a    *)
(* pip, keeps the maps of the fabric consistent (bindPip).                 *)
LEMMA BindPipsConsistent ==
    ASSUME NEW f \in FabricState, FabricConsistent(f), NEW n \in Net,
           NEW P \in SUBSET Pip,
           \A p \in P : /\ f.pip_to_net[p] = NoNet
                        /\ f.wire_to_net[PipDst[p]] \in {NoNet, n}
                        /\ f.wires[n][PipDst[p]].pip = NoPip,
           \A p, q \in P : PipDst[p] = PipDst[q] => p = q
    PROVE  /\ FabricConsistent(BindPips(f, n, P))
           /\ \A m \in Net, w \in Wire : m # n \/ (\A p \in P : PipDst[p] # w)
                 => BindPips(f, n, P).wires[m][w] = f.wires[m][w]
           /\ \A p \in P : BindPips(f, n, P).wires[n][PipDst[p]]
                               = [pip |-> p, strength |-> STRENGTH_WEAK]
<1> DEFINE g == BindPips(f, n, P)
           W == {PipDst[p] : p \in P}
<1> USE FabricAssumption
<1>1. /\ \A w \in Wire : g.wire_to_net[w] = IF w \in W THEN n ELSE f.wire_to_net[w]
      /\ \A p \in Pip : g.pip_to_net[p] = IF p \in P THEN n ELSE f.pip_to_net[p]
      /\ \A m \in Net, w \in Wire : m # n \/ w \notin W => g.wires[m][w] = f.wires[m][w]
  BY DEF BindPips, FabricState
<1>2. ASSUME NEW p \in P
      PROVE  g.wires[n][PipDst[p]] = [pip |-> p, strength |-> STRENGTH_WEAK]
  <2>1. PipDst[p] \in Wire /\ PipDst[p] \in W
    OBVIOUS
  <2>2. (CHOOSE q \in P : PipDst[q] = PipDst[p]) = p
    OBVIOUS
  <2> QED BY <2>1, <2>2 DEF BindPips, FabricState
<1> HIDE DEF g
<1>3. \A p \in P : p \in Pip /\ p # NoPip /\ PipDst[p] \in Wire /\ PipDst[p] \in W
  OBVIOUS
<1>4. \A w \in W : \E p \in P : w = PipDst[p]
  OBVIOUS
<1> HIDE DEF W
<1>5. WireMapsAgree(g)
  <2> SUFFICES ASSUME NEW m \in Net, NEW w \in Wire
               PROVE  HasWire(g, m, w) <=> g.wire_to_net[w] = m
    BY DEF WireMapsAgree
  <2>0. HasWire(f, m, w) <=> f.wire_to_net[w] = m
    BY DEF FabricConsistent, WireMapsAgree
  <2>1. CASE w \notin W
    BY <1>1, <2>0, <2>1 DEF HasWire
  <2>2. CASE w \in W
    <3>1. PICK p \in P : w = PipDst[p]
      BY <1>4, <2>2
    <3>2. CASE m = n
      <4>1. g.wires[m][w] = [pip |-> p, strength |-> STRENGTH_WEAK]
        BY <1>2, <3>1, <3>2
      <4>2. g.wires[m][w].pip # NoPip
        BY <1>3, <4>1
      <4> QED BY <1>1, <2>2, <3>2, <4>2 DEF HasWire, NoEntry
    <3>3. CASE m # n
      BY <1>1, <2>0, <2>2, <3>1, <3>3 DEF HasWire
    <3> QED BY <3>2, <3>3
  <2> QED BY <2>1, <2>2
<1>6. DriversBound(g)
  <2> SUFFICES ASSUME NEW m \in Net, NEW w \in Wire, g.wires[m][w].pip # NoPip
               PROVE  /\ PipDst[g.wires[m][w].pip] = w
                      /\ g.pip_to_net[g.wires[m][w].pip] = m
    BY DEF DriversBound
  <2>1. CASE m = n /\ w \in W
    <3>1. PICK p \in P : w = PipDst[p]
      BY <1>4, <2>1
    <3>2. g.wires[n][w] = [pip |-> p, strength |-> STRENGTH_WEAK]
      BY <1>2, <3>1
    <3> QED BY <1>1, <1>3, <2>1, <3>1, <3>2
  <2>2. CASE ~(m = n /\ w \in W)
    <3> DEFINE q == f.wires[m][w].pip
    <3>1. g.wires[m][w] = f.wires[m][w]
      BY <1>1, <2>2
    <3>2. q \in Pip
      BY <3>1 DEF FabricState, PipMap, NoEntry
    <3>3. PipDst[q] = w /\ f.pip_to_net[q] = m
      BY <3>1 DEF FabricConsistent, DriversBound
    <3>4. q \notin P
      BY <3>3
    <3> QED BY <1>1, <3>1, <3>2, <3>3, <3>4
  <2> QED BY <2>1, <2>2
<1>7. NoPipLeak(g)
  <2> SUFFICES ASSUME NEW p \in Pip, NEW m \in Net, g.pip_to_net[p] = m
               PROVE  g.wires[m][PipDst[p]].pip = p
    BY DEF NoPipLeak
  <2>1. CASE p \in P
    <3>1. m = n
      BY <1>1, <2>1
    <3>2. g.wires[n][PipDst[p]] = [pip |-> p, strength |-> STRENGTH_WEAK]
      BY <1>2, <2>1
    <3> QED BY <3>1, <3>2
  <2>2. CASE p \notin P
    <3>1. f.wires[m][PipDst[p]].pip = p
      BY <1>1, <2>2 DEF FabricConsistent, NoPipLeak
    <3>2. ~(m = n /\ PipDst[p] \in W)
      BY <1>4, <3>1
    <3> QED BY <1>1, <3>1, <3>2
  <2> QED BY <2>1, <2>2
<1>8. \A m \in Net, w \in Wire : m # n \/ (\A p \in P : PipDst[p] # w)
         => g.wires[m][w] = f.wires[m][w]
  BY <1>1, <1>4
<1> QED BY <1>2, <1>5, <1>6, <1>7, <1>8 DEF FabricConsistent, g

(* bind_and_check binds a routed arc on free wires only: what is held on   *)
(* its way is bound already, and on the pips of the map.                   *)
LEMMA BindArcLock ==
    ASSUME IInv, IInv', PlanInv, LockInv, NEW a \in Arc, BindArc(a)
    PROVE  LockInv' /\ FabKept
<1> DEFINE n == ArcNet[a]
           s == Src(a)
           W == Trunk(n, SinkWire[a])
           nw == net_wires[n]
           P == {p \in DriversOf(n, W) : fab.pip_to_net[p] = NoNet}
           f == IF fab.wire_to_net[s] = NoNet
                THEN BindWire(fab, s, n, STRENGTH_WEAK) ELSE fab
<1>1. /\ pc = "bind" /\ bind_queue # <<>> /\ Head(bind_queue) = a
      /\ bind_queue' = Tail(bind_queue)
      /\ UNCHANGED <<routing, late, th>>
      /\ n \notin Undriven /\ routed[a] /\ FabricAsserts(a) /\ Bindable(n, W)
      /\ fab' = BindPips(f, n, P)
  BY DEF BindArc
<1>2. /\ fab \in FabricState /\ FabricConsistent(fab) /\ HoldFit /\ QueueInv
      /\ bind_queue \in Seq(Net \cup Arc) /\ HeldInv /\ PipsFit
  BY DEF PlanInv, LockInv, HoldFit
<1>3. /\ n \in Net /\ s \in Wire /\ s = NetSrc[n] /\ \A m \in Net : Head(bind_queue) # m
      /\ SinkWire[a] \in Wire /\ Agrees(n)
  BY <1>1, <1>2, HeadAgrees
<1>4. net_wires' = net_wires
  BY <1>1 DEF routing
<1>5. nw \in NetWires
  BY <1>3 DEF IInv, TypeInv
<1>6. ReachesIn(nw, n, SinkWire[a]) /\ W = TrunkIn(nw, n, SinkWire[a])
  BY <1>1, SameNames DEF FabricAsserts
<1>7. ASSUME NEW w \in W
      PROVE  /\ w \in Wire \ {s} /\ nw[w] # NoUse /\ nw[w].pip \in Pip
             /\ PipDst[nw[w].pip] = w
             /\ nw[w].pip \in DriversOf(n, W)
  <2>1. w \in Wire /\ w # s /\ nw[w] # NoUse /\ nw[w].pip \in Pip
    BY <1>3, <1>5, <1>6, <1>7, TrunkIs
  <2>2. PipDst[nw[w].pip] = w
    BY <1>2, <1>3, <2>1, FabricAssumption DEF PipsFit, Fits, Step
  <2> QED BY <2>1, <2>2 DEF DriversOf
<1>8. /\ \A w \in W : fab.wire_to_net[w] \in {NoNet, n}
      /\ \A p \in DriversOf(n, W) : fab.pip_to_net[p] \in {NoNet, n}
  BY <1>1 DEF Bindable, CheckPipAvailForNet
<1> HIDE DEF n, s, W
<1>9. \A p \in P : \E w \in W : p = nw[w].pip
  BY DEF DriversOf
<1>10. ASSUME NEW p \in P
       PROVE  /\ p \in Pip /\ PipDst[p] \in W /\ p = nw[PipDst[p]].pip
              /\ fab.pip_to_net[p] = NoNet
              /\ PipDst[p] \in Wire \ {s} /\ nw[PipDst[p]] # NoUse
              /\ fab.wire_to_net[PipDst[p]] \in {NoNet, n}
  <2>1. PICK w \in W : p = nw[w].pip
    BY <1>9
  <2> QED BY <1>7, <1>8, <2>1
<1> HIDE DEF P
<1>11. ASSUME NEW p \in P
       PROVE  fab.wires[n][PipDst[p]].pip = NoPip /\ ~Held(n, PipDst[p])
  <2> DEFINE w == PipDst[p]
  <2>1. fab.wires[n][w].pip = NoPip
    <3> SUFFICES ASSUME fab.wires[n][w].pip # NoPip PROVE FALSE
      OBVIOUS
    <3>1. fab.wires[n][w].pip = p
      BY <1>3, <1>10 DEF Agrees, Uses
    <3>2. fab.pip_to_net[p] = n
      BY <1>2, <1>3, <1>10, <3>1, FabricAssumption DEF FabricConsistent, DriversBound
    <3> QED BY <1>3, <1>10, <3>2, FabricAssumption
  <2>2. ~Held(n, w)
    <3> SUFFICES ASSUME Held(n, w) PROVE FALSE
      OBVIOUS
    <3>1. nw[w].pip = fab.wires[n][w].pip
      BY <1>1, <1>2, <1>3, <1>10 DEF HeldInv, NetHeld
    <3> QED BY <1>10, <2>1, <3>1, FabricAssumption
  <2> QED BY <2>1, <2>2
<1>12. /\ f \in FabricState /\ FabricConsistent(f) /\ f.pip_to_net = fab.pip_to_net
       /\ \A m \in Net, w \in Wire : m # n \/ w # s => f.wires[m][w] = fab.wires[m][w]
       /\ \A w \in Wire : w # s => f.wire_to_net[w] = fab.wire_to_net[w]
       /\ \/ f.wires[n][s] = fab.wires[n][s]
          \/ ~Held(n, s) /\ f.wires[n][s].strength = STRENGTH_WEAK
  <2>1. CASE fab.wire_to_net[s] # NoNet
    <3>1. f = fab
      BY <2>1
    <3> HIDE DEF f
    <3> QED BY <1>2, <3>1
  <2>2. CASE fab.wire_to_net[s] = NoNet
    <3>1. f = BindWire(fab, s, n, STRENGTH_WEAK)
      BY <2>2
    <3>2. f \in FabricState /\ FabricConsistent(f)
      BY <1>2, <1>3, <2>2, <3>1, BindWireConsistent, WeakEntry DEF CanBindWire
    <3>3. /\ f.wires[n][s] = [pip |-> NoPip, strength |-> STRENGTH_WEAK]
          /\ \A m \in Net, v \in Wire : m # n \/ v # s => f.wires[m][v] = fab.wires[m][v]
          /\ f.pip_to_net = fab.pip_to_net
          /\ \A w \in Wire : w # s => f.wire_to_net[w] = fab.wire_to_net[w]
      BY <1>2, <1>3, <3>1 DEF BindWire, FabricState
    <3>4. ~Held(n, s)
      <4>1. fab.wires[n][s] = NoEntry
        BY <1>2, <1>3, <2>2, FabricAssumption DEF FabricConsistent, WireMapsAgree, HasWire
      <4> QED BY <4>1, WeakEntry DEF Held
    <3> QED BY <3>2, <3>3, <3>4
  <2> QED BY <2>1, <2>2
<1> HIDE DEF f
<1>13. /\ FabricConsistent(fab')
       /\ \A m \in Net, w \in Wire : m # n \/ (\A p \in P : PipDst[p] # w)
             => fab'.wires[m][w] = f.wires[m][w]
       /\ \A p \in P : fab'.wires[n][PipDst[p]] = [pip |-> p, strength |-> STRENGTH_WEAK]
  <2>1. P \in SUBSET Pip
    BY <1>10
  <2>2. \A p \in P : /\ f.pip_to_net[p] = NoNet
                     /\ f.wire_to_net[PipDst[p]] \in {NoNet, n}
                     /\ f.wires[n][PipDst[p]].pip = NoPip
    BY <1>3, <1>10, <1>11, <1>12
  <2>3. \A p, q \in P : PipDst[p] = PipDst[q] => p = q
    BY <1>10
  <2>4. fab' = BindPips(f, n, P)
    BY <1>1
  <2> HIDE DEF n
  <2> QED BY <1>3, <1>12, <2>1, <2>2, <2>3, <2>4, BindPipsConsistent
<1>14. FabKept
  <2> SUFFICES ASSUME NEW m \in Net, NEW w \in Wire
               PROVE  /\ Held(m, w)' <=> Held(m, w)
                      /\ Held(m, w) => fab'.wires[m][w] = fab.wires[m][w]
    BY DEF FabKept
  <2>1. CASE m # n \/ (\A p \in P : PipDst[p] # w)
    BY <1>12, <1>13, <2>1, WeakEntry DEF Held
  <2>2. CASE m = n /\ \E p \in P : PipDst[p] = w
    <3>1. PICK p \in P : PipDst[p] = w
      BY <2>2
    <3>2. ~Held(n, w) /\ fab'.wires[n][w] = [pip |-> p, strength |-> STRENGTH_WEAK]
      BY <1>11, <1>13, <3>1
    <3> QED BY <2>2, <3>2, WeakEntry DEF Held
  <2> QED BY <2>1, <2>2
<1>15. ASSUME NEW m \in Net \ Undriven, Agrees(m) PROVE Agrees(m)'
  <2> SUFFICES ASSUME NEW w \in Wire \ {NetSrc[m]}, fab'.wires[m][w].pip # NoPip,
                      net_wires[m][w] # NoUse
               PROVE  net_wires[m][w].pip = fab'.wires[m][w].pip
    BY <1>4 DEF Agrees, Uses
  <2>1. CASE m # n \/ (\A p \in P : PipDst[p] # w)
    BY <1>3, <1>12, <1>13, <1>15, <2>1 DEF Agrees, Uses
  <2>2. CASE m = n /\ \E p \in P : PipDst[p] = w
    <3>1. PICK p \in P : PipDst[p] = w
      BY <2>2
    <3>2. fab'.wires[n][w] = [pip |-> p, strength |-> STRENGTH_WEAK]
      BY <1>13, <3>1
    <3>3. net_wires[n][w].pip = p
      BY <1>10, <3>1
    <3> QED BY <2>2, <3>2, <3>3
  <2> QED BY <2>1, <2>2
<1>16. HoldFit' /\ QueueInv'
  BY <1>1, <1>2, <1>3, <1>14, <1>15, FabHeld, QueueTail
<1> QED BY <1>13, <1>14, <1>16 DEF LockInv, HoldFit

(* The fabric refuses no arc that is held all the way: its wires and their *)
(* pips are bound to the net.                                              *)
LEMMA LockedBindable ==
    ASSUME TypeInv, NEW n \in Net, NEW a \in ToSet(NetArcs[n]), NetHeld(n),
           fab \in FabricState, FabricConsistent(fab), LockedArc(n, a)
    PROVE  Bindable(n, Trunk(n, SinkWire[a]))
<1> DEFINE T == TrunkIn(net_wires[n], n, SinkWire[a])
<1>1. /\ SinkWire[a] \in Wire /\ net_wires[n] \in NetWires
      /\ ReachesIn(net_wires[n], n, SinkWire[a])
      /\ T \subseteq ToSet(Walk(n, SinkWire[a])) /\ Trunk(n, SinkWire[a]) = T
  BY ArcsOfNet, SameNames DEF TypeInv, LockedArc, TrunkIn
<1>2. ASSUME NEW w \in T
      PROVE  /\ fab.wire_to_net[w] = n
             /\ fab.pip_to_net[net_wires[n][w].pip] = n
  <2>1. w \in Wire /\ net_wires[n][w].pip \in Pip
    BY <1>1, TrunkIs
  <2>2. Held(n, w)
    BY <1>1 DEF LockedArc
  <2>3. net_wires[n][w].pip = fab.wires[n][w].pip
    BY <2>1, <2>2 DEF NetHeld
  <2>4. fab.wires[n][w].pip # NoPip
    BY <2>1, <2>3, FabricAssumption
  <2>5. fab.pip_to_net[fab.wires[n][w].pip] = n
    BY <2>1, <2>4 DEF FabricConsistent, DriversBound
  <2>6. fab.wire_to_net[w] = n
    BY <2>1, <2>2, WeakEntry DEF FabricConsistent, WireMapsAgree, HasWire, Held
  <2> QED BY <2>3, <2>5, <2>6
<1> HIDE DEF T
<1> QED BY <1>1, <1>2 DEF Bindable, DriversOf, CheckPipAvailForNet

(* An arc that the fabric refuses is ripped up, and it is none that is     *)
(* held: what is freed no other arc needs, so it is not held either.       *)
LEMMA BindFailsLock ==
    ASSUME IInv, IInv', PlanInv, LockInv, NEW a \in Arc, BindFails(a)
    PROVE  LockInv' /\ FabKept
<1> DEFINE n == ArcNet[a]
           nw == net_wires[n]
           T == TrunkIn(nw, n, SinkWire[a])
           freed == {v \in T : nw[v].count = 1}
           mw == GivenUp(nw, T)
<1>1. /\ pc = "bind" /\ bind_queue # <<>> /\ Head(bind_queue) = a /\ n \notin Undriven
      /\ bind_queue' = Tail(bind_queue) /\ routed[a]
      /\ routed' = [routed EXCEPT ![a] = FALSE]
      /\ ~Bindable(n, Trunk(n, SinkWire[a]))
      /\ UNCHANGED <<fab, late, th>>
  BY DEF BindFails
<1>2. /\ fab \in FabricState /\ FabricConsistent(fab) /\ HoldFit /\ QueueInv
      /\ bind_queue \in Seq(Net \cup Arc) /\ HeldInv /\ PipsFit
  BY DEF PlanInv, LockInv, HoldFit
<1>3. /\ n \in Net \ Undriven /\ \A m \in Net : Head(bind_queue) # m
      /\ SinkWire[a] \in Wire /\ a \in ToSet(NetArcs[n])
  BY <1>1, <1>2, HeadAgrees
<1>4. Trunk(n, SinkWire[a]) = T
  BY SameNames
<1>5. /\ net_wires' = [net_wires EXCEPT ![n] = mw]
      /\ curr_cong' = [w \in Wire |-> IF w \in freed THEN curr_cong[w] - 1
                                                     ELSE curr_cong[w]]
  <2> HIDE DEF T, n
  <2> QED BY <1>4 DEF BindFails, GivenUp, n
<1>6. /\ TypeInv /\ TypeInv' /\ nw \in NetWires /\ routed \in [Arc -> BOOLEAN]
      /\ curr_cong \in [Wire -> Int] /\ net_wires \in [Net -> NetWires]
      /\ WholeBut(nw, routed, n, NoReg, {}) /\ NetHeld(n)
  <2>1. stage = 0 /\ Staged /\ TypeInv /\ TreesInv
    BY <1>1 DEF IInv, Staged
  <2>2. ~InWork(n)
    BY <2>1, AllAtRest DEF InWork
  <2> QED BY <1>2, <1>3, <2>1, <2>2 DEF IInv, TypeInv, TreesInv, NetsWhole, HeldInv
<1> HIDE DEF n
<1>7. ~LockedArc(n, a)
  BY <1>1, <1>2, <1>3, <1>6, LockedBindable
<1>8. /\ ReachesIn(nw, n, SinkWire[a])
      /\ WholeBut(nw, routed, n, a, T)
  BY <1>1, <1>3, <1>6, TakeOut
<1>9. \A v \in T : v \in Wire \ {NetSrc[n]} /\ nw[v] # NoUse
  BY <1>3, <1>6, <1>8, TrunkIs
<1>10. ASSUME NEW v \in freed PROVE ~Held(n, v) /\ ~Foreign(n, v)
  <2>1. v \in Wire \ {NetSrc[n]} /\ Uses(n, v) /\ v \in T /\ nw[v].count = 1
    BY <1>9 DEF Uses
  <2>2. ~Foreign(n, v)
    BY <1>6, <2>1 DEF NetHeld
  <2>3. ~Held(n, v)
    <3> SUFFICES ASSUME Held(n, v) PROVE FALSE
      OBVIOUS
    <3>1. PICK b \in ToSet(NetArcs[n]) :
             LockedArc(n, b) /\ routed[b] /\ v \in TrunkIn(nw, n, SinkWire[b])
      BY <1>3, <1>6, <2>1, HeldOnArc
    <3>2. b \in OthersIn(nw, routed, n, a, v)
      BY <1>7, <3>1 DEF OthersIn
    <3> DEFINE k == Cardinality(OthersIn(nw, routed, n, a, v))
    <3>3. nw[v].count = k + 1
      BY <1>8, <1>9, <2>1 DEF WholeBut
    <3>4. k \in Nat /\ k # 0
      BY <1>3, <3>2, OthersFinite, FS_EmptySet
    <3> QED BY <2>1, <3>3, <3>4
  <2> QED BY <2>2, <2>3
<1>11. \A v \in Wire : mw[v] # NoUse <=> nw[v] # NoUse /\ v \notin freed
  <2>1. \A v \in Wire : mw[v] # NoUse <=> nw[v] # NoUse /\ ~(v \in T /\ nw[v].count = 1)
    <3>1. /\ routed[a] /\ n \in Net /\ a \in ToSet(NetArcs[n]) /\ nw \in NetWires
          /\ routed \in [Arc -> BOOLEAN] /\ WholeBut(nw, routed, n, NoReg, {})
      BY <1>1, <1>3, <1>6
    <3> HIDE DEF nw
    <3> QED BY <3>1, GiveUpWhole
  <2> QED BY <2>1
<1>12. ASSUME NEW v \in Wire
       PROVE  /\ mw[v] # NoUse <=> nw[v] # NoUse /\ v \notin freed
              /\ v \in freed => mw[v] = NoUse
              /\ v \notin freed => mw[v].pip = nw[v].pip
  <2>1. CASE v \in freed
    BY <1>11, <2>1 DEF GivenUp
  <2>2. CASE v \notin freed /\ v \in T
    <3>1. nw[v] \in Use
      BY <1>6, <1>9, <2>2 DEF NetWires
    <3>2. mw[v] = [nw[v] EXCEPT !.count = nw[v].count - 1] /\ nw[v].count # 1
      BY <2>2 DEF GivenUp
    <3>3. mw[v].pip = nw[v].pip
      BY <3>1, <3>2 DEF Use
    <3> QED BY <1>11, <2>2, <3>3
  <2>3. CASE v \notin T
    BY <1>11, <2>3 DEF GivenUp
  <2> QED BY <2>1, <2>2, <2>3
<1> HIDE DEF mw, T, freed
<1>13. /\ net_wires'[n] = mw
       /\ \A m \in Net : m # n => net_wires'[m] = net_wires[m]
       /\ \A b \in Arc : b # a => routed'[b] = routed[b]
  BY <1>1, <1>3, <1>5, <1>6
<1>14. Works(0, n)
  BY <1>1, <1>3, <1>13 DEF Works, OnlyNet
<1>15. Spares(n)
  <2>1. \A w \in Wire :
           /\ Held(n, w) => /\ Uses(n, w) => net_wires'[n][w] # NoUse
                            /\ net_wires'[n][w].pip = net_wires[n][w].pip
           /\ net_wires'[n][w] # NoUse => Uses(n, w) \/ ~Foreign(n, w)
           /\ curr_cong'[w] # curr_cong[w] => ~Held(n, w) /\ ~Foreign(n, w)
    BY <1>5, <1>10, <1>12, <1>13 DEF Uses, freed
  <2>2. \A b \in ToSet(NetArcs[n]) : LockedArc(n, b) /\ routed[b] => routed'[b]
    <3>1. ToSet(NetArcs[n]) \subseteq Arc
      BY <1>3, ArcsOfNet
    <3> QED BY <1>7, <1>13, <3>1
  <2> QED BY <2>1, <2>2 DEF Spares
<1>16. 0 \in Thread /\ Mindful(th'[0]) /\ PathFits(th'[0].path)
  BY <1>1, <1>2 DEF HeldInv, PipsFit, PathFits, Thread
<1>17. HeldInv'
  BY <1>2, <1>3, <1>6, <1>14, <1>15, <1>16, WorkerHeld
<1>18. PipsFit'
  <2>1. \A w \in Wire : Fits(Step(w, net_wires'[n][w].pip))
    BY <1>2, <1>3, <1>12, <1>13 DEF PipsFit, Fits, Step, NoUse
  <2> QED BY <1>2, <1>3, <1>14, <1>16, <2>1, WorkerFits
<1>19. QueueInv'
  <2>1. ASSUME NEW m \in Net \ Undriven, Agrees(m) PROVE Agrees(m)'
    <3>1. \A w \in Wire : net_wires'[m][w] # NoUse =>
             net_wires[m][w] # NoUse /\ net_wires'[m][w].pip = net_wires[m][w].pip
      BY <1>12, <1>13
    <3> QED BY <1>1, <2>1, <3>1 DEF Agrees, Uses
  <2> QED BY <1>1, <1>2, <1>3, <2>1, QueueTail
<1>20. FabKept
  BY <1>1 DEF FabKept, Held
<1> QED BY <1>1, <1>2, <1>17, <1>18, <1>19, <1>20 DEF LockInv, HoldFit

(* Only a running thread takes a step.                                     *)
LEMMA RunningSteps ==
    ASSUME NEW t \in Thread, ThreadStep(t)
    PROVE  pc = "route"
<1>1. ASSUME NEW n \in th[t].nets, TakeNet(t, n) PROVE pc = "route"
  BY <1>1 DEF TakeNet, InPhase, Running
<1>2. CASE CheckArc(t) \/ RipStore(t) \/ RipDone(t)
  BY <1>2 DEF CheckArc, RipStore, RipDone, InPhase, Running
<1>3. CASE RipLoad(t)
  BY <1>3, ZenonT(60) DEF RipLoad, InPhase, Running
<1>4. ASSUME NEW a \in th[t].arcs, \/ FindPath(t, a) \/ FindAtOnce(t, a)
                                   \/ SkipArc(t, a) \/ GiveUpArc(t, a)
                                   \/ RouteError(t, a)
      PROVE  pc = "route"
  BY <1>4, ZenonT(60) DEF FindPath, FindAtOnce, SkipArc, GiveUpArc, RouteError, Searching, InPhase, Running
<1>5. CASE Disturb(t)
  BY <1>5 DEF Disturb, InRouteArc, Searching, InPhase, Running
<1>6. CASE BindLoad(t) \/ BindStore(t) \/ BindDone(t) \/ LeaveNet(t)
  BY <1>6 DEF BindLoad, BindStore, BindDone, LeaveNet, InPhase, Running
<1> QED BY <1>1, <1>2, <1>3, <1>4, <1>5, <1>6 DEF ThreadStep

(* No step of a thread touches what is held (route_net).                   *)
LEMMA ThreadHeld ==
    ASSUME IInv, IInv', PlanInv, FabricConsistent(fab), HoldFit,
           NEW t \in Thread, ThreadStep(t)
    PROVE  HoldFit'
<1>1. ASSUME NEW n \in th[t].nets, TakeNet(t, n) PROVE HoldFit'
  BY <1>1, TakeNetHeld
<1>2. CASE CheckArc(t)
  BY <1>2, CheckArcHeld
<1>3. CASE RipLoad(t)
  BY <1>3, RipLoadHeld
<1>4. CASE RipStore(t)
  BY <1>4, RipStoreHeld
<1>5. CASE RipDone(t)
  BY <1>5, RipDoneHeld
<1>6. ASSUME NEW a \in th[t].arcs, FindPath(t, a) PROVE HoldFit'
  BY <1>6, FindPathHeld
<1>7. ASSUME NEW a \in th[t].arcs, FindAtOnce(t, a) PROVE HoldFit'
  BY <1>7, FindAtOnceHeld
<1>8. ASSUME NEW a \in th[t].arcs, SkipArc(t, a) \/ GiveUpArc(t, a) PROVE HoldFit'
  BY <1>8, SetAsideHeld
<1>9. ASSUME NEW a \in th[t].arcs, RouteError(t, a) PROVE HoldFit'
  <2>1. UNCHANGED <<fab, routing, late, th>>
    BY <1>9 DEF RouteError, plan
  <2> QED BY <2>1, SameHeld
<1>10. CASE Disturb(t)
  <2>1. UNCHANGED <<fab, routing, late, th>>
    BY <1>10 DEF Disturb, plan
  <2> QED BY <2>1, SameHeld
<1>11. CASE BindLoad(t)
  BY <1>11, BindLoadHeld
<1>12. CASE BindStore(t)
  BY <1>12, BindStoreHeld
<1>13. CASE BindDone(t)
  BY <1>13, BindDoneHeld
<1>14. CASE LeaveNet(t)
  BY <1>14, LeaveNetHeld
<1> QED BY <1>1, <1>2, <1>3, <1>4, <1>5, <1>6, <1>7, <1>8, <1>9, <1>10, <1>11,
           <1>12, <1>13, <1>14 DEF ThreadStep

(* Between two iterations nothing is bound; what bind_and_check_all is to  *)
(* visit begins with the net of each arc.                                  *)
LEMMA BetweenLock ==
    ASSUME IInv, IInv', PlanInv, LockInv,
           (\E l \in SUBSET MayBeLate : UpdateCongestion(l)) \/ EndIteration
    PROVE  LockInv' /\ fab' = fab
<1>1. HoldFit /\ FabricConsistent(fab)
  BY DEF LockInv, HoldFit
<1>2. ASSUME NEW l \in SUBSET MayBeLate, UpdateCongestion(l) PROVE LockInv' /\ fab' = fab
  <2>1. /\ UNCHANGED <<fab, routing, th>> /\ late' \subseteq MayBeLate
        /\ \/ pc' = "again"
           \/ bind_queue' = FlattenSeq([i \in DOMAIN NetOrder |->
                               <<NetOrder[i]>> \o NetArcs[NetOrder[i]]])
    BY <1>2 DEF UpdateCongestion
  <2>2. HoldFit'
    BY <1>1, <2>1, StageHeld
  <2>3. QueueInv'
    <3>1. CASE pc' = "again"
      BY <3>1 DEF QueueInv
    <3>2. CASE pc' # "again"
      <4> PICK s : s = bind_queue'
        OBVIOUS
      <4>1. s \in VisitSeqs
        <5> HIDE DEF FlattenSeq
        <5> QED BY <2>1, <3>2, VisitsOrdered
      <4>2. \A j \in DOMAIN s : s[j] \in Arc => Before(s, j, ArcNet[s[j]])
        BY <4>1 DEF VisitSeqs, Ordered
      <4> QED BY <4>2 DEF QueueInv
    <3> QED BY <3>1, <3>2
  <2> QED BY <1>1, <2>1, <2>2, <2>3 DEF LockInv, HoldFit
<1>3. CASE EndIteration
  <2>1. UNCHANGED <<fab, routing, late, th>> /\ pc' # "bind"
    BY <1>3 DEF EndIteration
  <2>2. HoldFit'
    BY <1>1, <2>1, SameHeld
  <2> QED BY <1>1, <2>1, <2>2 DEF LockInv, HoldFit, QueueInv
<1> QED BY <1>2, <1>3

(* Every step keeps what is held, and the fabric consistent.               *)
LEMMA LockKeeps ==
    ASSUME IInv, IInv', PlanInv, LockInv, [Next]_vars
    PROVE  LockInv' /\ FabKept
<1>0. /\ HoldFit /\ FabricConsistent(fab)
      /\ fab' = fab => FabKept
  BY DEF LockInv, HoldFit, FabKept, Held
<1>1. CASE BeginRoute \/ NextStage
  <2>1. HoldFit'
    BY <1>0, <1>1, StagesHeld
  <2>2. fab' = fab /\ pc' # "bind"
    BY <1>1 DEF BeginRoute, NextStage
  <2> QED BY <1>0, <2>1, <2>2 DEF LockInv, HoldFit, QueueInv
<1>2. ASSUME NEW t \in Thread, ThreadStep(t) PROVE LockInv' /\ FabKept
  <2>1. HoldFit'
    BY <1>0, <1>2, ThreadHeld
  <2>2. fab' = fab /\ pc' # "bind"
    BY <1>2, ThreadPlan, RunningSteps
  <2> QED BY <1>0, <2>1, <2>2 DEF LockInv, HoldFit, QueueInv
<1>3. CASE (\E l \in SUBSET MayBeLate : UpdateCongestion(l)) \/ EndIteration
  BY <1>0, <1>3, BetweenLock
<1>4. ASSUME NEW n \in Net, UnbindNet(n) PROVE LockInv' /\ FabKept
  BY <1>4, UnbindNetLock
<1>5. ASSUME NEW a \in Arc, BindUnrouted(a) \/ BindArc(a) \/ BindFails(a)
      PROVE  LockInv' /\ FabKept
  BY <1>5, BindUnroutedLock, BindArcLock, BindFailsLock
<1>6. CASE UNCHANGED vars \/ Returned
  <2>1. UNCHANGED <<fab, routing, late, th, pc, bind_queue>>
    BY <1>6 DEF Returned, vars, plan
  <2>2. HoldFit'
    BY <1>0, <2>1, SameHeld
  <2>3. QueueInv'
    <3>1. \A m : Agrees(m)' <=> Agrees(m)
      BY <2>1 DEF Agrees, Uses, routing
    <3> QED BY <2>1, <3>1 DEF LockInv, QueueInv
  <2> QED BY <1>0, <2>1, <2>2, <2>3 DEF LockInv, HoldFit
<1> QED BY <1>1, <1>2, <1>3, <1>4, <1>5, <1>6 DEF Next

(* setup_wires counts each bound wire for the net that has it, on the pip  *)
(* it hangs on in the fabric.                                              *)
LEMMA SetupAgrees ==
    ASSUME NEW f \in FabricState, NEW n \in Net, NEW w \in Wire
    PROVE  /\ SetupUses(f)[n][w] # NoUse <=> HasWire(f, n, w)
           /\ SetupUses(f)[n][w].pip = f.wires[n][w].pip
<1>1. SetupUses(f)[n][w] # NoUse <=> HasWire(f, n, w)
  BY SetupWhole
<1>2. CASE HasWire(f, n, w)
  <2>1. SetupUses(f)[n][w].pip = f.wires[n][w].pip
    BY <1>2 DEF SetupUses
  <2> QED BY <1>1, <2>1
<1>3. CASE ~HasWire(f, n, w)
  <2>1. SetupUses(f)[n][w] = NoUse /\ f.wires[n][w] = NoEntry
    BY <1>1, <1>3 DEF HasWire
  <2> QED BY <1>1, <2>1 DEF NoUse, NoEntry
<1> QED BY <1>2, <1>3

(* The router starts with what is held in the maps of the nets that hold   *)
(* it, if these are whole routes (setup_wires).                            *)
LEMMA LockInit ==
    ASSUME Init, LockedPrior
    PROVE  LockInv
<1>1. /\ fab \in FabricState /\ FabricConsistent(fab)
      /\ net_wires = SetupUses(fab)
      /\ curr_cong = [w \in Wire |-> IF fab.wire_to_net[w] = NoNet THEN 0 ELSE 1]
      /\ routed = [a \in Arc |-> ArcNet[a] \notin Undriven
                                 /\ Reaches(ArcNet[a], SinkWire[a])]
      /\ late \subseteq MayBeLate /\ pc = "loop"
      /\ th = [t \in Thread |-> Idle]
  BY Router2Assumption DEF Init
<1>2. ASSUME NEW n \in Net, NEW w \in Wire
      PROVE  /\ Uses(n, w) <=> fab.wire_to_net[w] = n
             /\ net_wires[n][w].pip = fab.wires[n][w].pip
             /\ Held(n, w) => fab.wire_to_net[w] = n
             /\ fab.wires[n][w].pip # NoPip => PipDst[fab.wires[n][w].pip] = w
  <2>1. HasWire(fab, n, w) <=> fab.wire_to_net[w] = n
    BY <1>1 DEF FabricConsistent, WireMapsAgree
  <2>2. Held(n, w) => HasWire(fab, n, w)
    BY WeakEntry DEF Held, HasWire
  <2>3. fab.wires[n][w].pip # NoPip => PipDst[fab.wires[n][w].pip] = w
    BY <1>1 DEF FabricConsistent, DriversBound
  <2>4. net_wires[n][w] = SetupUses(fab)[n][w]
    BY <1>1
  <2> QED BY <1>1, <2>1, <2>2, <2>3, <2>4, SetupAgrees DEF Uses
<1>3. ASSUME NEW n \in Net \ Undriven PROVE NetHeld(n)
  <2>1. ASSUME NEW w \in Wire, Held(n, w)
        PROVE  /\ Uses(n, w) /\ curr_cong[w] = 1
               /\ net_wires[n][w].pip = fab.wires[n][w].pip
    BY <1>1, <1>2, <2>1, FabricAssumption
  <2>2. ASSUME NEW w \in Wire, Uses(n, w) PROVE ~Foreign(n, w)
    BY <1>2, <2>2 DEF Foreign
  <2>3. ASSUME NEW a \in ToSet(NetArcs[n]), LockedArc(n, a) PROVE routed[a]
    <3>1. a \in Arc /\ ArcNet[a] = n
      BY ArcNetIs
    <3> QED BY <1>1, <2>3, <3>1 DEF LockedArc
  <2>4. LockedRoutes(n) /\ OwnEnds(n)
    BY DEF LockedPrior
  <2> QED BY <2>1, <2>2, <2>3, <2>4 DEF NetHeld
<1>4. ASSUME NEW t \in Thread PROVE Mindful(th[t]) /\ th[t].path = <<>>
  <2>1. th[t].net = NoNet /\ th[t].path = <<>>
    BY <1>1 DEF Idle
  <2> QED BY <2>1, FabricAssumption DEF Mindful
<1>5. HeldInv
  BY <1>1, <1>3, <1>4 DEF HeldInv
<1>6. PipsFit
  <2>1. \A n \in Net, w \in Wire : Fits(Step(w, net_wires[n][w].pip))
    BY <1>2 DEF Fits, Step
  <2>2. \A t \in Thread : ToSet(th[t].path) = {}
    BY <1>4 DEF ToSet
  <2> QED BY <2>1, <2>2 DEF PipsFit
<1> QED BY <1>1, <1>5, <1>6 DEF LockInv, QueueInv

(* What the lemmas above need at once.                                     *)
LockFacts == IInv /\ PlanInv /\ LockInv

(* Every step keeps them and leaves what is held bound as it was.          *)
LEMMA LockSteps ==
    ASSUME LockFacts, [Next]_vars
    PROVE  LockFacts' /\ FabKept
<1>1. IInv' /\ PlanInv'
  BY StepKeeps, PlanKeeps DEF LockFacts
<1>2. LockInv' /\ FabKept
  BY <1>1, LockKeeps DEF LockFacts
<1> QED BY <1>1, <1>2 DEF LockFacts

(* They hold at the start, if what is locked are whole routes.             *)
LEMMA LockStart ==
    ASSUME Init, LockedPrior
    PROVE  LockFacts
<1>1. 0 \in Range0(GrowPeriod - 1) /\ 1 \in 1 .. MaxIter + 1
  BY Router2Assumption DEF Range0
<1>2. PlanInv
  BY <1>1, Router2Assumption DEF Init, PlanInv
<1> QED BY <1>2, InitInv, LockInit DEF LockFacts

(* "Check that the arch is still internally consistent!" does: if what is  *)
(* locked when the router starts are whole routes, as routeClock leaves    *)
(* them, the maps of the fabric agree after each step of it.               *)
THEOREM ArchStaysConsistent == LockedPrior /\ Spec => []ArchConsistent
<1>1. Init /\ LockedPrior => LockFacts
  BY LockStart
<1>2. LockFacts /\ [Next]_vars => LockFacts'
  BY LockSteps
<1>3. LockFacts => ArchConsistent
  BY DEF LockFacts, LockInv, ArchConsistent
<1> QED BY <1>1, <1>2, <1>3, PTL DEF Spec

(* And what is locked stays bound as it was, whatever is ripped up around  *)
(* it.                                                                     *)
THEOREM LockedBindingsStay == LockedPrior /\ Spec => LockedStays
<1> DEFINE Stays == \A n \in Net, w \in Wire :
                       fab.wires[n][w].strength > STRENGTH_STRONG
                       => fab'.wires[n][w] = fab.wires[n][w]
<1>1. Init /\ LockedPrior => LockFacts
  BY LockStart
<1>2. LockFacts /\ [Next]_vars => LockFacts'
  BY LockSteps
<1>3. LockFacts /\ [Next]_vars => [Stays]_vars
  BY LockSteps DEF FabKept, Held
<1> QED BY <1>1, <1>2, <1>3, PTL DEF Spec, LockedStays
=============================================================================
