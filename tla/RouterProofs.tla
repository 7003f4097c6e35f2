----------------------------- MODULE RouterProofs ------------------------------
(* Proofs about the Router.  Of Routing.tla and DataPath.tla: the types, that  *)
(* no frame goes round before the first fault, and that a packet comes nearer  *)
(* with each hop.  Of SeenFrames.tla: the types, and that the ring is a window *)
(* of the last broadcasts.                                                     *)
EXTENDS DataPath, SeenFrames, Induction, FiniteSetTheorems, TLAPS

Table == [Node -> Entry \cup {NoRoute}]

\* An advertisement a node may receive.
Adverts(adv) == \A d \in DOMAIN adv : d \in Node /\ adv[d] \in 2..Infinity

-----------------------------------------------------------------------------
(* The table.                                                              *)

LEMMA Constants ==
  /\ IsFiniteSet(Node) /\ NoNode \notin Node /\ NoRoute \notin Entry
  /\ Infinity \in Nat /\ Infinity > 2 /\ Lifetime \in Nat /\ Silence \in Nat
  /\ MaxRoutes \in Nat \ {0} /\ MaxAdv \in Nat \ {0}
  /\ MaxFaults \in Nat /\ MaxLosses \in Nat /\ MaxDelays \in Nat
  /\ \A l \in Links : l \subseteq Node /\ Cardinality(l) = 2
  BY RoutingAssumption DEF RoutingAssumption, NoRoute, Entry

LEMMA NewEntry ==
  ASSUME NEW p \in Node, NEW h \in 1..(Infinity - 1)
  PROVE  [next |-> p, hops |-> h, age |-> 0] \in Entry
  BY Constants DEF Entry

\* What is written to a table, in a slot that is there or not, leaves it a table.
LEMMA Written ==
  ASSUME NEW t \in Table, NEW d, NEW e \in Entry \cup {NoRoute}
  PROVE  [t EXCEPT ![d] = e] \in Table
  BY DEF Table

LEMMA AddRouteTyped ==
  ASSUME NEW t \in Table, NEW d \in Node, NEW p \in Node, NEW h \in 1..(Infinity - 1)
  PROVE  AddRoute(t, d, p, h) \in Table
<1> DEFINE new == [next |-> p, hops |-> h, age |-> 0]
           v == Victim(t)
<1>1. new \in Entry
  BY NewEntry
<1>2. [t EXCEPT ![d] = new] \in Table
  BY <1>1, Written
<1>3. [t EXCEPT ![v] = NoRoute, ![d] = new] \in Table
  <2> HIDE DEF new, v
  <2>1. [t EXCEPT ![v] = NoRoute] \in Table
    BY Written
  <2>2. [[t EXCEPT ![v] = NoRoute] EXCEPT ![d] = new] \in Table
    BY <1>1, <2>1, Written
  <2>3. QED BY <2>2
<1>4. AddRoute(t, d, p, h) \in {t, [t EXCEPT ![d] = new], [t EXCEPT ![v] = NoRoute, ![d] = new]}
  BY DEF AddRoute
<1> HIDE DEF new, v
<1>5. QED BY <1>2, <1>3, <1>4

LEMMA LearnEntryTyped ==
  ASSUME NEW t \in Table, NEW n \in Node, NEW p \in Node, NEW d \in Node, NEW h \in 2..Infinity
  PROVE  LearnEntry(t, n, p, d, h) \in Table
<1>1. Without(t, d) \in Table
  BY Written DEF Without
<1>2. h < Infinity => AddRoute(t, d, p, h) \in Table
  BY AddRouteTyped, Constants
<1>3. h \in Nat /\ Infinity \in Nat
  BY Constants
<1>4. QED BY <1>1, <1>2, <1>3 DEF LearnEntry

\* The slots hold every node once.
LEMMA SlotFacts ==
  /\ Cardinality(Node) \in Nat
  /\ Slot \in [1..Cardinality(Node) -> Node]
  /\ \A d \in Node : \E i \in 1..Cardinality(Node) : Slot[i] = d
  /\ \A i, j \in 1..Cardinality(Node) : Slot[i] = Slot[j] => i = j
<1>1. Cardinality(Node) \in Nat /\ ExistsBijection(1..Cardinality(Node), Node)
  BY Constants, FS_CardinalityType
<1>2. Slot \in Bijection(1..Cardinality(Node), Node)
  BY <1>1, Zenon DEF Slot, ExistsBijection
<1>3. QED BY <1>1, <1>2 DEF Bijection, Injection, Surjection, IsInjective

\* The table after the slots up to i.
LEMMA LearnSteps ==
  ASSUME NEW t \in Table, NEW n \in Node, NEW p \in Node, NEW adv, Adverts(adv)
  PROVE  \E g \in [0..Cardinality(Node) -> Table] :
            /\ g[0] = t
            /\ \A i \in 1..Cardinality(Node) :
                  g[i] = IF Slot[i] \in DOMAIN adv
                         THEN LearnEntry(g[i - 1], n, p, Slot[i], adv[Slot[i]])
                         ELSE g[i - 1]
            /\ Learn(t, n, p, adv) = g[Cardinality(Node)]
<1> DEFINE N == Cardinality(Node)
           G == [i \in 1..N |-> [s \in Table |->
                    IF Slot[i] \in DOMAIN adv THEN LearnEntry(s, n, p, Slot[i], adv[Slot[i]])
                    ELSE s]]
<1>0. N \in Nat /\ Slot \in [1..N -> Node]
  BY SlotFacts
<1>1. G \in Steps(N, Table)
  <2>1. ASSUME NEW i \in 1..N, NEW s \in Table, Slot[i] \in DOMAIN adv
        PROVE  LearnEntry(s, n, p, Slot[i], adv[Slot[i]]) \in Table
    <3>1. Slot[i] \in Node /\ adv[Slot[i]] \in 2..Infinity
      BY <2>1 DEF Adverts
    <3>2. QED BY <3>1, LearnEntryTyped
  <2>2. QED BY <2>1 DEF Steps
<1>2. PICK g : Follows(g, N, Table, t, G)
  <2> HIDE DEF G, N
  <2>1. QED BY <1>0, <1>1, Recursive
<1>3. g \in [0..N -> Table] /\ g[0] = t /\ \A i \in 1..N : g[i] = G[i][g[i - 1]]
  BY <1>2 DEF Follows
<1>4. ASSUME NEW i \in 1..N
      PROVE  g[i] = IF Slot[i] \in DOMAIN adv
                    THEN LearnEntry(g[i - 1], n, p, Slot[i], adv[Slot[i]]) ELSE g[i - 1]
  <2>1. i - 1 \in 0..N
    BY <1>0
  <2>2. g[i - 1] \in Table
    BY <1>3, <2>1
  <2>3. QED BY <1>3, <2>2
<1>5. g = [i \in 0..N |->
            CASE i = 0 -> t
              [] i > 0 /\ Slot[i] \in DOMAIN adv ->
                    LearnEntry(g[i - 1], n, p, Slot[i], adv[Slot[i]])
              [] OTHER -> g[i - 1]]
  <2> DEFINE H == [i \in 0..N |->
            CASE i = 0 -> t
              [] i > 0 /\ Slot[i] \in DOMAIN adv ->
                    LearnEntry(g[i - 1], n, p, Slot[i], adv[Slot[i]])
              [] OTHER -> g[i - 1]]
  <2>1. ASSUME NEW i \in 0..N
        PROVE  g[i] = H[i]
    <3>1. CASE i = 0
      BY <1>3, <3>1
    <3>2. CASE i # 0
      <4>1. i \in 1..N /\ i > 0
        BY <1>0, <3>2
      <4>2. QED BY <1>4, <3>2, <4>1
    <3>3. QED BY <3>1, <3>2
  <2>2. H = [i \in 0..N |-> H[i]] /\ g = [i \in 0..N |-> g[i]]
    BY <1>3
  <2> HIDE DEF H
  <2>3. g = H
    BY <2>1, <2>2
  <2>4. QED BY <2>3 DEF H
<1>6. PICK h : /\ h = [i \in 0..N |->
                       CASE i = 0 -> t
                         [] i > 0 /\ Slot[i] \in DOMAIN adv ->
                               LearnEntry(h[i - 1], n, p, Slot[i], adv[Slot[i]])
                         [] OTHER -> h[i - 1]]
             /\ Learn(t, n, p, adv) = h[N]
  BY <1>5, Zenon DEF Learn
<1>7. /\ h[0] = t
      /\ \A i \in 1..N : h[i] = IF Slot[i] \in DOMAIN adv
                                THEN LearnEntry(h[i - 1], n, p, Slot[i], adv[Slot[i]])
                                ELSE h[i - 1]
  <2>1. h[0] = t
    BY <1>0, <1>6
  <2>2. ASSUME NEW i \in 1..N
        PROVE  h[i] = IF Slot[i] \in DOMAIN adv
                      THEN LearnEntry(h[i - 1], n, p, Slot[i], adv[Slot[i]]) ELSE h[i - 1]
    <3>1. i \in 0..N /\ i # 0 /\ i > 0
      BY <1>0
    <3>2. QED BY <1>6, <3>1
  <2>3. QED BY <2>1, <2>2
<1> DEFINE S == {i \in 0..N : h[i] \in Table}
<1>8. ASSUME NEW i \in 1..N, i - 1 \in S
      PROVE  i \in S
  <2>1. h[i - 1] \in Table
    BY <1>8
  <2>2. CASE Slot[i] \in DOMAIN adv
    <3>1. Slot[i] \in Node /\ adv[Slot[i]] \in 2..Infinity
      BY <2>2 DEF Adverts
    <3>2. LearnEntry(h[i - 1], n, p, Slot[i], adv[Slot[i]]) \in Table
      BY <2>1, <3>1, LearnEntryTyped
    <3>3. QED BY <1>0, <1>7, <2>2, <3>2
  <2>3. QED BY <1>0, <1>7, <2>1, <2>2
<1>9. \A i \in 0..N : i \in S
  <2>1. 0 \in S
    BY <1>0, <1>7
  <2> HIDE DEF S
  <2>2. QED BY <1>0, <1>8, <2>1, Inductive
<1>10. h \in [0..N -> Table]
  BY <1>6, <1>9
<1>11. QED BY <1>6, <1>7, <1>10

LEMMA LearnTyped ==
  ASSUME NEW t \in Table, NEW n \in Node, NEW p \in Node, NEW adv, Adverts(adv)
  PROVE  Learn(t, n, p, adv) \in Table
<1>1. Cardinality(Node) \in 0..Cardinality(Node)
  BY SlotFacts
<1>2. QED BY <1>1, LearnSteps

\* Whether n takes the route to d that p advertises, given that there is room.
Takes(t, n, p, adv, d) ==
    /\ d \in DOMAIN adv /\ d # n /\ adv[d] < Infinity
    /\ \/ d \notin Known(t) \/ t[d].next = p
       \/ t[d].hops # 1 /\ adv[d] < t[d].hops

\* A node has no route to itself and none that p poisons.
Receives(t, n, p, adv) ==
    /\ Adverts(adv) /\ t[n] = NoRoute
    /\ \A d \in DOMAIN adv : t[d].next = p => adv[d] < Infinity

\* Every destination has a slot in the table.
Roomy == Cardinality(Node) <= MaxRoutes + 1

LEMMA LearnEntryFacts ==
  ASSUME Roomy, NEW t \in Table, NEW n \in Node, NEW p \in Node, NEW adv,
         Receives(t, n, p, adv), NEW d \in DOMAIN adv
  PROVE  LearnEntry(t, n, p, d, adv[d]) =
            IF Takes(t, n, p, adv, d)
            THEN [t EXCEPT ![d] = [next |-> p, hops |-> adv[d], age |-> 0]] ELSE t
<1>1. d \in Node /\ adv[d] \in 2..Infinity /\ adv[d] \in Nat /\ Infinity \in Nat
  BY Constants DEF Receives, Adverts
<1>2. CASE d = n \/ adv[d] >= Infinity
  <2>1. ~ Takes(t, n, p, adv, d)
    BY <1>1, <1>2 DEF Takes
  <2>2. adv[d] >= Infinity => t[d].next # p
    BY <1>1 DEF Receives
  <2>3. LearnEntry(t, n, p, d, adv[d]) = t
    BY <1>2, <2>2 DEF LearnEntry
  <2>4. QED BY <2>1, <2>3
<1>3. CASE d # n /\ ~(adv[d] >= Infinity)
  <2>1. LearnEntry(t, n, p, d, adv[d]) = AddRoute(t, d, p, adv[d])
    BY <1>3 DEF LearnEntry
  <2>2. CASE d \in Known(t)
    BY <1>1, <1>3, <2>1, <2>2 DEF AddRoute, Takes
  <2>3. CASE d \notin Known(t)
    <3>1. Known(t) \subseteq (Node \ {n}) \ {d}
      BY <2>3 DEF Known, Receives
    <3>2. /\ IsFiniteSet((Node \ {n}) \ {d})
          /\ Cardinality((Node \ {n}) \ {d}) = Cardinality(Node) - 2
      <4>1. IsFiniteSet(Node \ {n}) /\ Cardinality(Node \ {n}) = Cardinality(Node) - 1
        BY Constants, FS_RemoveElement
      <4>2. d \in Node \ {n}
        BY <1>1, <1>3
      <4> DEFINE R == Node \ {n}
      <4> HIDE DEF R
      <4>3. IsFiniteSet(R \ {d}) /\ Cardinality(R \ {d}) = Cardinality(R) - 1
        BY <4>1, <4>2, FS_RemoveElement DEF R
      <4>4. QED BY <4>1, <4>3, SlotFacts DEF R
    <3>3. Cardinality(Known(t)) < MaxRoutes
      <4>1. Cardinality(Known(t)) <= Cardinality(Node) - 2 /\ Cardinality(Known(t)) \in Nat
        BY <3>1, <3>2, FS_Subset, FS_CardinalityType
      <4>2. QED BY <4>1, SlotFacts, Constants DEF Roomy
    <3>4. AddRoute(t, d, p, adv[d]) = [t EXCEPT ![d] = [next |-> p, hops |-> adv[d], age |-> 0]]
      BY <2>3, <3>3 DEF AddRoute
    <3>5. Takes(t, n, p, adv, d)
      BY <1>1, <1>3, <2>3 DEF Takes
    <3>6. QED BY <2>1, <3>4, <3>5
  <2>4. QED BY <2>2, <2>3
<1>4. QED BY <1>2, <1>3

\* What a node knows after an advertisement.
LEMMA LearnFacts ==
  ASSUME Roomy, NEW t \in Table, NEW n \in Node, NEW p \in Node, NEW adv,
         Receives(t, n, p, adv), NEW d \in Node
  PROVE  Learn(t, n, p, adv)[d] = IF Takes(t, n, p, adv, d)
                                  THEN [next |-> p, hops |-> adv[d], age |-> 0] ELSE t[d]
<1> DEFINE N == Cardinality(Node)
           Entered(e) == IF Takes(t, n, p, adv, e)
                         THEN [next |-> p, hops |-> adv[e], age |-> 0] ELSE t[e]
<1>0. /\ N \in Nat /\ Slot \in [1..N -> Node]
      /\ \A e \in Node : \E i \in 1..N : Slot[i] = e
      /\ \A i, j \in 1..N : Slot[i] = Slot[j] => i = j
  BY SlotFacts
<1>1. PICK g \in [0..N -> Table] :
            /\ g[0] = t
            /\ \A i \in 1..N :
                  g[i] = IF Slot[i] \in DOMAIN adv
                         THEN LearnEntry(g[i - 1], n, p, Slot[i], adv[Slot[i]])
                         ELSE g[i - 1]
            /\ Learn(t, n, p, adv) = g[N]
  BY LearnSteps DEF Receives
<1> DEFINE S == {i \in 0..N : \A j \in 1..N : g[i][Slot[j]] = IF j <= i THEN Entered(Slot[j])
                                                          ELSE t[Slot[j]]}
<1>2. 0 \in S
  BY <1>0, <1>1
<1>3. ASSUME NEW i \in 1..N, i - 1 \in S
      PROVE  i \in S
  <2> DEFINE e == Slot[i]
             s == g[i - 1]
  <2>0. i - 1 \in 0..N /\ s \in Table /\ e \in Node /\ i \in 0..N /\ ~(i <= i - 1) /\ i \in Nat
    BY <1>0, <1>1
  <2>1. \A j \in 1..N : s[Slot[j]] = IF j <= i - 1 THEN Entered(Slot[j]) ELSE t[Slot[j]]
    BY <1>3
  <2>2. s[e] = t[e]
    BY <2>0, <2>1
  <2>3. g[i] = IF Takes(t, n, p, adv, e)
               THEN [s EXCEPT ![e] = [next |-> p, hops |-> adv[e], age |-> 0]] ELSE s
    <3>1. \A c \in Node : s[c] = Entered(c) \/ s[c] = t[c]
      BY <1>0, <2>1
    <3>2. s[n] = NoRoute
      BY <3>1 DEF Receives, Takes
    <3>3. \A c \in DOMAIN adv : s[c].next = p => adv[c] < Infinity
      BY <3>1 DEF Receives, Takes, Adverts
    <3>4. Receives(s, n, p, adv)
      BY <3>2, <3>3 DEF Receives
    <3>5. Takes(s, n, p, adv, e) <=> Takes(t, n, p, adv, e)
      BY <2>0, <2>2 DEF Takes, Known
    <3> HIDE DEF e, s
    <3>6. CASE e \in DOMAIN adv
      <4>1. g[i] = LearnEntry(s, n, p, e, adv[e])
        BY <1>1, <3>6 DEF e, s
      <4>2. LearnEntry(s, n, p, e, adv[e]) =
              IF Takes(s, n, p, adv, e)
              THEN [s EXCEPT ![e] = [next |-> p, hops |-> adv[e], age |-> 0]] ELSE s
        BY <2>0, <3>4, <3>6, LearnEntryFacts
      <4>3. QED BY <3>5, <4>1, <4>2
    <3>7. CASE e \notin DOMAIN adv
      <4>1. g[i] = s
        BY <1>1, <3>7 DEF e, s
      <4>2. ~ Takes(t, n, p, adv, e)
        BY <3>7 DEF Takes
      <4>3. QED BY <4>1, <4>2
    <3>8. QED BY <3>6, <3>7
  <2>4. g[i][e] = Entered(e)
    BY <2>0, <2>2, <2>3 DEF Table
  <2>5. \A c \in Node : c # e => g[i][c] = s[c]
    BY <2>0, <2>3 DEF Table
  <2>6. ASSUME NEW j \in 1..N
        PROVE  g[i][Slot[j]] = IF j <= i THEN Entered(Slot[j]) ELSE t[Slot[j]]
    <3>1. CASE j = i
      BY <2>0, <2>4, <3>1
    <3>2. CASE j # i
      <4>1. Slot[j] \in Node /\ Slot[j] # e /\ (j <= i <=> j <= i - 1)
        BY <1>0, <3>2
      <4>2. QED BY <2>1, <2>5, <4>1
    <3>3. QED BY <3>1, <3>2
  <2>7. QED BY <2>0, <2>6
<1>4. N \in S
  <2>1. \A i \in 0..N : i \in S
    <3> HIDE DEF S
    <3>1. QED BY <1>0, <1>2, <1>3, Inductive
  <2>2. N \in 0..N
    BY <1>0
  <2>3. QED BY <2>1, <2>2
<1>5. PICK j \in 1..N : Slot[j] = d
  BY <1>0
<1>6. g[N][Slot[j]] = Entered(Slot[j])
  <2>1. j <= N
    BY <1>0
  <2>2. QED BY <1>4, <2>1
<1>7. QED BY <1>1, <1>5, <1>6

-----------------------------------------------------------------------------
(* The types.                                                              *)

\* A node that is off knows no peer: Tick ages those of the others only.
DeadForgot == \A n \in Node \ alive : \A p \in Node : peers[n][p] = Stranger

Typed == TypeOK /\ DeadForgot

LEMMA TableFacts ==
  \A t \in Table : \A d \in Known(t) : /\ t[d] \in Entry /\ t[d].next \in Node
                                     /\ t[d].hops \in 1..(Infinity - 1) /\ t[d].hops \in Nat
  BY Constants DEF Table, Known, Entry

LEMMA TypeFacts ==
  ASSUME TypeOK
  PROVE  /\ routes \in [Node -> Table] /\ peers \in [Node -> [Node -> Stranger..(Silence + 1)]]
         /\ \A t \in Table : \A d \in Known(t) : t[d] \in Entry /\ t[d].next \in Node
                                                 /\ t[d].hops \in 1..(Infinity - 1)
         /\ \A n \in Node : routes[n] \in Table
         /\ \A l \in links : l \subseteq Node /\ Cardinality(l) = 2
  BY Constants DEF TypeOK, Table, Known, Entry

\* An advertisement is one.
LEMMA AdvertTyped ==
  ASSUME NEW t \in Table, NEW p \in Node, NEW D \in SUBSET Known(t)
  PROVE  Adverts(Advert(t, p, D)) /\ DOMAIN Advert(t, p, D) = D
<1>1. \A d \in D : d \in Node /\ t[d] \in Entry
  BY DEF Table, Known
<1>2. \A d \in D : t[d].hops \in 1..(Infinity - 1)
  BY <1>1 DEF Entry
<1>3. \A d \in D : (IF t[d].next = p THEN Infinity ELSE t[d].hops + 1) \in 2..Infinity
  BY <1>2, Constants
<1>4. QED BY <1>1, <1>3 DEF Advert, Adverts

LEMMA InitTyped == Init => Typed
<1> SUFFICES ASSUME Init
             PROVE  Typed
  OBVIOUS
<1>1. \A d \in Node : [next |-> d, hops |-> 1, age |-> 0] \in Entry
  BY NewEntry, Constants
<1>2. routes \in [Node -> [Node -> Entry \cup {NoRoute}]]
  BY <1>1 DEF Init
<1>3. peers \in [Node -> [Node -> Stranger..(Silence + 1)]]
  BY Constants DEF Init, Stranger
<1>4. alive \subseteq Node /\ links \subseteq Links /\ sent \subseteq alive /\ DeadForgot
  BY DEF Init, DeadForgot
<1>5. faults \in 0..MaxFaults /\ losses \in 0..MaxLosses /\ delays \in 0..MaxDelays
  BY Constants DEF Init
<1>6. \A f \in wire : FALSE
  BY DEF Init
<1>7. QED BY <1>2, <1>3, <1>4, <1>5, <1>6 DEF Typed, TypeOK

LEMMA JoinTyped ==
  ASSUME Typed, NEW n \in Node, NEW p \in Node, Join(n, p)
  PROVE  Typed'
<1>1. routes' \in [Node -> Table]
  <2>1. AddRoute(routes[n], p, p, 1) \in Table
    BY TypeFacts, AddRouteTyped, Constants DEF Typed
  <2>2. QED BY <2>1, TypeFacts DEF Join, Typed
<1>2. peers' \in [Node -> [Node -> Stranger..(Silence + 1)]]
  BY TypeFacts, Constants DEF Join, Typed, Stranger
<1>3. DeadForgot'
  BY TypeFacts DEF Join, Typed, DeadForgot, Linked
<1>4. QED BY <1>1, <1>2, <1>3 DEF Typed, TypeOK, Join, Table

LEMMA SendTyped ==
  ASSUME Typed, NEW n \in Node, SendRouteAdv(n)
  PROVE  Typed'
<1> DEFINE Hear == {p \in Peers(n) : Linked(n, p)}
<1>1. PICK lost \in SUBSET Hear, late \in SUBSET Hear, D \in Fits(routes[n]) :
          /\ Cardinality(lost) <= losses /\ Cardinality(late) <= delays
          /\ losses' = losses - Cardinality(lost)
          /\ delays' = delays - Cardinality(late)
          /\ routes' = [p \in Node |-> IF p \in (Hear \ lost) \ late
                         THEN Learn(routes[p], p, n, Advert(routes[n], p, D)) ELSE routes[p]]
          /\ peers' = [p \in Node |-> IF p \in (Hear \ lost) \ late
                        THEN [peers[p] EXCEPT ![n] = Heard(n, p)] ELSE peers[p]]
          /\ wire' = wire \cup
                {[from |-> n, to |-> p, adv |-> Advert(routes[n], p, D)] : p \in late}
  BY DEF SendRouteAdv
<1>2. Hear \subseteq Node /\ IsFiniteSet(lost) /\ IsFiniteSet(late)
  BY Constants, FS_Subset DEF Peers
<1>3. losses' \in 0..MaxLosses /\ delays' \in 0..MaxDelays
  <2>1. Cardinality(lost) \in Nat /\ Cardinality(late) \in Nat
    BY <1>2, FS_CardinalityType
  <2>2. QED BY <1>1, <2>1, Constants DEF Typed, TypeOK
<1>4. D \in SUBSET Known(routes[n])
  BY DEF Fits
<1>5. \A p \in Node : /\ Adverts(Advert(routes[n], p, D))
                      /\ DOMAIN Advert(routes[n], p, D) = D
  BY <1>4, TypeFacts, AdvertTyped DEF Typed
<1>6. routes' \in [Node -> Table]
  <2>1. \A p \in Node : Learn(routes[p], p, n, Advert(routes[n], p, D)) \in Table
    BY <1>5, TypeFacts, LearnTyped DEF Typed
  <2>2. QED BY <1>1, <2>1, TypeFacts DEF Typed
<1>7. peers' \in [Node -> [Node -> Stranger..(Silence + 1)]]
  <2>1. \A p \in Node : Heard(n, p) \in Stranger..(Silence + 1)
    BY Constants DEF Heard, Stranger
  <2>2. QED BY <1>1, <2>1, TypeFacts DEF Typed
<1>8. \A f \in wire' : /\ {f.from, f.to} \subseteq Node
                       /\ \A d \in DOMAIN f.adv : d \in Node /\ f.adv[d] \in 2..Infinity
  <2>1. ASSUME NEW p \in late
        PROVE  p \in Node /\ Adverts(Advert(routes[n], p, D))
    BY <1>2, <1>5
  <2>2. \A f \in wire' : f \in wire \/ \E p \in late : /\ f.from = n /\ f.to = p
                                                     /\ f.adv = Advert(routes[n], p, D)
    BY <1>1
  <2>3. QED BY <2>1, <2>2 DEF Typed, TypeOK, Adverts
<1>9. DeadForgot'
  <2>1. \A p \in Hear : p \in alive
    BY DEF Linked
  <2>2. alive' = alive
    BY DEF SendRouteAdv
  <2> HIDE DEF Hear
  <2>3. QED BY <1>1, <2>1, <2>2 DEF Typed, DeadForgot
<1>10. sent' \subseteq alive' /\ UNCHANGED <<alive, links, faults>>
  BY DEF SendRouteAdv, Typed, TypeOK
<1>11. QED BY <1>3, <1>6, <1>7, <1>8, <1>9, <1>10 DEF Typed, TypeOK, Table

LEMMA LateTyped ==
  ASSUME Typed, NEW f \in wire, RecvLate(f)
  PROVE  Typed'
<1>1. f.from \in Node /\ f.to \in Node /\ Adverts(f.adv)
  BY DEF Typed, TypeOK, Adverts
<1>2. routes' \in [Node -> Table]
  <2>1. Learn(routes[f.to], f.to, f.from, f.adv) \in Table
    BY <1>1, TypeFacts, LearnTyped DEF Typed
  <2>2. QED BY <1>1, <2>1, TypeFacts DEF Typed, RecvLate
<1>3. peers' \in [Node -> [Node -> Stranger..(Silence + 1)]] /\ DeadForgot'
  <2>1. Heard(f.from, f.to) \in Stranger..(Silence + 1)
    BY Constants DEF Heard, Stranger
  <2>2. CASE Linked(f.from, f.to)
    <3>1. peers' = [peers EXCEPT ![f.to] = [peers[f.to] EXCEPT ![f.from] = Heard(f.from, f.to)]]
          /\ f.to \in alive /\ alive' = alive
      BY <2>2 DEF RecvLate, Linked
    <3>2. [peers[f.to] EXCEPT ![f.from] = Heard(f.from, f.to)] \in
              [Node -> Stranger..(Silence + 1)]
      BY <1>1, <2>1, TypeFacts DEF Typed
    <3>3. QED BY <1>1, <3>1, <3>2, TypeFacts DEF Typed, DeadForgot
  <2>3. CASE ~ Linked(f.from, f.to)
    BY <2>3, TypeFacts DEF Typed, RecvLate, DeadForgot
  <2>4. QED BY <2>2, <2>3
<1>4. QED BY <1>2, <1>3 DEF Typed, TypeOK, Table, RecvLate

LEMMA ExpireTyped ==
  ASSUME Typed, NEW n \in Node, ExpireRoutes(n)
  PROVE  Typed'
<1>1. routes' \in [Node -> Table]
  BY TypeFacts DEF Typed, ExpireRoutes, Table
<1>2. QED BY <1>1 DEF Typed, TypeOK, DeadForgot, ExpireRoutes, Table

LEMMA TimeoutTyped ==
  ASSUME Typed, NEW n \in Node, NEW p \in Node, CheckPeerTimeouts(n, p)
  PROVE  Typed'
<1>1. PICK lost \in SUBSET {m \in Node : Linked(n, m)} :
          /\ Cardinality(lost) <= losses
          /\ losses' = losses - Cardinality(lost)
          /\ \E Drop \in SUBSET Node :
                /\ routes' = [m \in Node |-> IF m \in Drop THEN Without(routes[m], p)
                                             ELSE routes[m]]
                /\ peers' = [m \in Node |-> IF m \in Drop
                                            THEN [peers[m] EXCEPT ![p] = Stranger]
                                            ELSE peers[m]]
  BY ZenonT(60) DEF CheckPeerTimeouts
<1>2. losses' \in 0..MaxLosses
  <2>1. Cardinality(lost) \in Nat
    BY Constants, FS_Subset, FS_CardinalityType
  <2>2. QED BY <1>1, <2>1, Constants DEF Typed, TypeOK
<1>3. \A m \in Node : Without(routes[m], p) \in Table
  BY TypeFacts, Written DEF Typed, Without
<1>4. routes' \in [Node -> Table]
  BY <1>1, <1>3, TypeFacts DEF Typed
<1>5. peers' \in [Node -> [Node -> Stranger..(Silence + 1)]]
  <2>1. Stranger \in Stranger..(Silence + 1)
    BY Constants DEF Stranger
  <2>2. QED BY <1>1, <2>1, TypeFacts DEF Typed
<1>6. DeadForgot'
  BY <1>1, TypeFacts DEF Typed, DeadForgot, CheckPeerTimeouts
<1>7. QED BY <1>2, <1>4, <1>5, <1>6 DEF Typed, TypeOK, CheckPeerTimeouts, Table

LEMMA TickTyped ==
  ASSUME Typed, Tick
  PROVE  Typed'
<1> DEFINE Aged(n, d) ==
              IF d \notin Known(routes[n]) THEN NoRoute
              ELSE [routes[n][d] EXCEPT !.age = CASE Linked(n, d) -> 0
                                                 [] ~Linked(n, d) /\ @ <= Lifetime -> @ + 1
                                                 [] OTHER -> @]
           Silent(n, p) == CASE p \notin Peers(n) -> Stranger
                             [] Linked(n, p) -> 0
                             [] OTHER -> peers[n][p] + 1
<1>1. ASSUME NEW n \in Node, NEW d \in Node
      PROVE  Aged(n, d) \in Entry \cup {NoRoute}
  <2>1. CASE d \in Known(routes[n])
    <3>1. routes[n][d] \in Entry
      BY <2>1, TypeFacts DEF Typed
    <3> DEFINE e == routes[n][d]
    <3>2. PICK a : Aged(n, d) = [e EXCEPT !.age = a] /\ a = CASE Linked(n, d) -> 0
                                                 [] ~Linked(n, d) /\ e.age <= Lifetime -> e.age + 1
                                                 [] OTHER -> e.age
      BY <2>1
    <3>3. a \in 0..(Lifetime + 1)
      BY <3>1, <3>2, Constants DEF Entry
    <3>4. [e EXCEPT !.age = a] \in Entry
      BY <3>1, <3>3 DEF Entry
    <3>5. QED BY <3>2, <3>4
  <2>2. CASE d \notin Known(routes[n])
    BY <2>2
  <2>3. QED BY <2>1, <2>2
<1>2. routes' = [n \in Node |-> [d \in Node |-> Aged(n, d)]]
  BY DEF Tick
<1>3. routes' \in [Node -> Table]
  <2> HIDE DEF Aged
  <2>1. QED BY <1>1, <1>2 DEF Table
<1>4. ASSUME NEW n \in Node, NEW p \in Node
      PROVE  /\ Silent(n, p) \in Stranger..(Silence + 1)
             /\ n \notin alive => Silent(n, p) = Stranger
  <2>1. peers[n][p] \in Stranger..(Silence + 1)
    BY TypeFacts DEF Typed
  <2>2. n \notin alive => p \notin Peers(n)
    BY DEF Typed, DeadForgot, Peers
  <2>3. n \in alive => peers[n][p] <= Silence
    BY DEF Tick
  <2>4. Linked(n, p) => p \in Peers(n)
    BY DEF Tick
  <2>5. p \in Peers(n) => peers[n][p] \in 0..(Silence + 1)
    BY <2>1, Constants DEF Peers, Stranger
  <2>6. CASE p \in Peers(n)
    BY <2>2, <2>3, <2>5, <2>6, Constants DEF Stranger
  <2>7. CASE p \notin Peers(n)
    BY <2>4, <2>7, Constants DEF Stranger
  <2>8. QED BY <2>6, <2>7
<1>5. peers' = [n \in Node |-> [p \in Node |-> Silent(n, p)]]
  BY DEF Tick
<1>6. peers' \in [Node -> [Node -> Stranger..(Silence + 1)]] /\ DeadForgot'
  <2>1. alive' = alive
    BY DEF Tick
  <2> HIDE DEF Silent
  <2>2. QED BY <1>4, <1>5, <2>1 DEF DeadForgot
<1>7. sent' \subseteq alive' /\ UNCHANGED <<alive, links, wire, faults, losses, delays>>
  BY DEF Tick
<1>8. QED BY <1>3, <1>6, <1>7 DEF Typed, TypeOK, Table

LEMMA FaultTyped ==
  ASSUME Typed, (\E n \in Node : Off(n) \/ On(n)) \/ (\E l \in Links : Cut(l))
  PROVE  Typed'
<1>1. ASSUME NEW n \in Node, Off(n)
      PROVE  Typed'
  <2>1. routes' \in [Node -> Table]
    BY <1>1, TypeFacts DEF Off, Typed, Table
  <2>2. peers' \in [Node -> [Node -> Stranger..(Silence + 1)]] /\ DeadForgot'
    <3>1. Stranger \in Stranger..(Silence + 1)
      BY Constants DEF Stranger
    <3>2. QED BY <1>1, <3>1, TypeFacts DEF Off, Typed, DeadForgot
  <2>3. faults' \in 0..MaxFaults
    BY <1>1, Constants DEF Off, Typed, TypeOK
  <2>4. QED BY <1>1, <2>1, <2>2, <2>3 DEF Off, Typed, TypeOK, Table
<1>2. ASSUME NEW n \in Node, On(n)
      PROVE  Typed'
  BY <1>2 DEF On, Typed, TypeOK, DeadForgot
<1>3. ASSUME NEW l \in Links, Cut(l)
      PROVE  Typed'
  <2>1. faults' \in 0..MaxFaults
    BY <1>3, Constants DEF Cut, Typed, TypeOK
  <2>2. QED BY <1>3, <2>1 DEF Cut, Typed, TypeOK, DeadForgot
<1>4. QED BY <1>1, <1>2, <1>3

LEMMA NextTyped == Typed /\ [Next]_vars => Typed'
<1> SUFFICES ASSUME Typed, [Next]_vars
             PROVE  Typed'
  OBVIOUS
<1>1. CASE UNCHANGED vars
  BY <1>1 DEF vars, Typed, TypeOK, DeadForgot
<1>2. CASE Step
  BY <1>2, JoinTyped, TimeoutTyped, SendTyped, ExpireTyped, LateTyped, TickTyped DEF Step
<1>3. CASE Next /\ ~Step
  BY <1>3, FaultTyped DEF Next
<1>4. QED BY <1>1, <1>2, <1>3

\* The tables, the peers and the advertisements under way keep their types, dead
\* nodes and lost frames included: hops below Infinity, ages and silences bounded
\* (Router.cpp, MeshNetwork.cpp).
THEOREM RoutingTypeCorrect == Spec => []TypeOK
<1>1. Typed => TypeOK
  BY DEF Typed
<1>2. QED BY <1>1, InitTyped, NextTyped, PTL DEF Spec

-----------------------------------------------------------------------------
(* No frame goes round.                                                    *)

\* A mesh whose routes fit in a table and in an advertisement, and last from one
\* advertisement to the next (MESH_MAX_ROUTES 64, ROUTE_ADV_MAX_ENTRIES 18 and
\* ROUTE_EXPIRE_MS three intervals in the code).
SmallMesh == Roomy /\ Cardinality(Node) <= MaxAdv + 1 /\ Lifetime > 0

Calm == faults = MaxFaults /\ losses = MaxLosses

\* The neighbours have met and hear each other.
Met ==
    /\ alive = Node /\ links = Links
    /\ \A n, p \in Node : peers[n][p] = IF {n, p} \in Links THEN 0 ELSE Stranger

NoSelf == \A n \in Node : routes[n][n] = NoRoute

\* A next hop is a neighbour, and the destination or nearer to it.
NextIsNearer(n, d) ==
    LET p == routes[n][d].next IN
    /\ {n, p} \in Links
    /\ p # d => d \in Known(routes[p]) /\ routes[p][d].hops < routes[n][d].hops

Nearer == \A n \in Node : \A d \in Known(routes[n]) : NextIsNearer(n, d)

\* What n says to p, now or late, is of routes n has, not shorter than they are; and
\* of those that p has through n, not longer than p thinks.
Timely(n, p, adv) ==
    \A d \in DOMAIN adv :
        /\ d \in Known(routes[n])
        /\ adv[d] < Infinity => routes[n][d].hops < adv[d]
        /\ routes[p][d].next = n => adv[d] < Infinity /\ adv[d] <= routes[p][d].hops

WireTimely ==
    \A f \in wire :
        /\ f.from \in sent /\ {f.from, f.to} \in Links /\ Timely(f.from, f.to, f.adv)
        /\ \A g \in wire : g.from = f.from /\ g.to = f.to => g = f

\* p has not advertised d to n in this interval, or what it said is under way.
Awaited(n, p, d) ==
    p \in sent => \E f \in wire : f.from = p /\ f.to = n /\ d \in DOMAIN f.adv

\* A route through another node was refreshed in this interval, or will be.
Refreshed ==
    \A n \in Node : \A d \in Known(routes[n]) :
        routes[n][d].next # d =>
            /\ routes[n][d].age \in {0, 1}
            /\ routes[n][d].age = 1 => Awaited(n, routes[n][d].next, d)

Loopless == Met /\ NoSelf /\ Nearer /\ WireTimely /\ Refreshed

LEMMA NextKnown ==
  ASSUME Typed
  PROVE  /\ \A m, d, n \in Node : routes[m][d].next = n => d \in Known(routes[m])
         /\ \A m \in Node : \A d \in Known(routes[m]) :
                d \in Node /\ routes[m][d].next \in Node
                /\ routes[m][d].hops \in 1..(Infinity - 1) /\ routes[m][d].hops \in Nat
  BY TypeFacts, Constants DEF Typed, Known, NoRoute

\* What n's advertisements a to the nodes Now change.
Changed(n, Now, a) ==
    \A m, d \in Node :
        \/ routes'[m][d] = routes[m][d]
        \/ /\ m \in Now /\ d \in DOMAIN a[m] /\ d # m
           /\ routes'[m][d] = [next |-> n, hops |-> a[m][d], age |-> 0]

\* No route is lost and none gets longer.
Shorter ==
    \A m \in Node : \A d \in Known(routes[m]) :
        d \in Known(routes'[m]) /\ routes'[m][d].hops <= routes[m][d].hops

\* The routes through n are as n just said.
Renewed(n, Now, a) ==
    \A m \in Now : \A d \in DOMAIN a[m] :
        routes[m][d].next = n => routes'[m][d].age = 0

Advanced(n, Now, a) ==
    NoSelf' /\ Nearer' /\ Changed(n, Now, a) /\ Shorter /\ Renewed(n, Now, a)

LEMMA NotOwnNeighbour == \A n, p \in Node : {n, p} \in Links => n # p
<1> SUFFICES ASSUME NEW n \in Node, {n, n} \in Links
             PROVE  FALSE
  OBVIOUS
<1>1. Cardinality({n, n}) = 2
  BY Constants
<1>2. Cardinality({n, n}) = 1
  <2>1. {n, n} = {n}
    OBVIOUS
  <2>2. QED BY <2>1, FS_Singleton
<1>3. QED BY <1>1, <1>2

\* A node that hears timely advertisements of one neighbour keeps its next hops nearer,
\* and does not lengthen the way of those that forward to it.
LEMMA AdvertsAdvance ==
  ASSUME SmallMesh, Typed, NoSelf, Nearer, NEW n \in Node,
         NEW Now \in SUBSET {p \in Node : {n, p} \in Links}, NEW a,
         \A p \in Now : Adverts(a[p]) /\ Timely(n, p, a[p]),
         routes' = [p \in Node |-> IF p \in Now THEN Learn(routes[p], p, n, a[p])
                                   ELSE routes[p]]
  PROVE  Advanced(n, Now, a)
<1>0. n \notin Now /\ routes'[n] = routes[n] /\ Now \subseteq Node
  BY NotOwnNeighbour
<1>1. ASSUME NEW m \in Now, NEW d \in Node
      PROVE  routes'[m][d] = IF Takes(routes[m], m, n, a[m], d)
                             THEN [next |-> n, hops |-> a[m][d], age |-> 0] ELSE routes[m][d]
  <2>1. routes[m] \in Table /\ m \in Node
    BY <1>0, TypeFacts DEF Typed
  <2>2. Receives(routes[m], m, n, a[m])
    BY <2>1 DEF NoSelf, Timely, Receives
  <2>3. Learn(routes[m], m, n, a[m])[d] = IF Takes(routes[m], m, n, a[m], d)
                             THEN [next |-> n, hops |-> a[m][d], age |-> 0] ELSE routes[m][d]
    BY <2>1, <2>2, LearnFacts DEF SmallMesh
  <2>4. routes'[m] = Learn(routes[m], m, n, a[m])
    BY <2>1
  <2>5. QED BY <2>3, <2>4
<1>2. Changed(n, Now, a)
  <2>1. ASSUME NEW m \in Node, NEW d \in Node
        PROVE  \/ routes'[m][d] = routes[m][d]
               \/ /\ m \in Now /\ d \in DOMAIN a[m] /\ d # m
                  /\ routes'[m][d] = [next |-> n, hops |-> a[m][d], age |-> 0]
    <3>1. CASE m \in Now
      BY <1>1, <3>1 DEF Takes
    <3>2. CASE m \notin Now
      BY <3>2
    <3>3. QED BY <3>1, <3>2
  <2>2. QED BY <2>1 DEF Changed
<1>3. Shorter
  <2>1. ASSUME NEW m \in Node, NEW d \in Known(routes[m])
        PROVE  d \in Known(routes'[m]) /\ routes'[m][d].hops <= routes[m][d].hops
    <3>0. d \in Node /\ routes[m][d] # NoRoute /\ routes[m][d].hops \in Nat
      BY NextKnown DEF Known
    <3>1. CASE routes'[m][d] = routes[m][d]
      BY <3>0, <3>1 DEF Known
    <3>2. CASE m \in Now /\ Takes(routes[m], m, n, a[m], d)
      <4>1. routes'[m][d] = [next |-> n, hops |-> a[m][d], age |-> 0]
        BY <1>1, <3>0, <3>2
      <4>2. routes'[m][d].hops = a[m][d] /\ routes'[m][d] # NoRoute
        BY <4>1, Constants DEF NoRoute
      <4>3. a[m][d] \in Nat /\ d \in DOMAIN a[m]
        BY <3>2, Constants DEF Adverts, Takes
      <4>4. a[m][d] <= routes[m][d].hops
        <5>1. CASE routes[m][d].next = n
          BY <3>2, <4>3, <5>1 DEF Timely
        <5>2. CASE routes[m][d].next # n
          BY <3>0, <3>2, <4>3, <5>2 DEF Takes
        <5>3. QED BY <5>1, <5>2
      <4>5. QED BY <3>0, <4>2, <4>4 DEF Known
    <3>3. QED BY <1>1, <3>0, <3>1, <3>2
  <2>2. QED BY <2>1 DEF Shorter
<1>4. Renewed(n, Now, a)
  <2>1. ASSUME NEW m \in Now, NEW d \in DOMAIN a[m], routes[m][d].next = n
        PROVE  routes'[m][d].age = 0
    <3>1. d \in Node /\ a[m][d] < Infinity /\ d # m
      BY <1>0, <2>1, Constants DEF Adverts, Timely, NoSelf, NoRoute
    <3>2. Takes(routes[m], m, n, a[m], d)
      BY <2>1, <3>1 DEF Takes
    <3>3. routes'[m][d] = [next |-> n, hops |-> a[m][d], age |-> 0]
      BY <1>1, <3>1, <3>2
    <3>4. QED BY <3>3
  <2>2. QED BY <2>1 DEF Renewed
<1>5. NoSelf'
  BY <1>2 DEF Changed, NoSelf
<1>6. Nearer'
  <2>1. ASSUME NEW m \in Node, NEW d \in Known(routes'[m])
        PROVE  NextIsNearer(m, d)'
    <3>0. d \in Node /\ routes'[m][d] # NoRoute
      BY DEF Known
    <3>1. CASE routes'[m][d] = routes[m][d]
      <4> DEFINE p == routes[m][d].next
      <4>1. d \in Known(routes[m]) /\ p \in Node /\ {m, p} \in Links
            /\ (p # d => d \in Known(routes[p]) /\ routes[p][d].hops < routes[m][d].hops)
        <5>1. d \in Known(routes[m])
          BY <3>0, <3>1 DEF Known
        <5>2. QED BY <5>1, NextKnown DEF Nearer, NextIsNearer
      <4>2. p # d => d \in Known(routes'[p]) /\ routes'[p][d].hops <= routes[p][d].hops
                     /\ routes[p][d].hops \in Nat /\ routes'[p][d].hops \in Nat
        <5>1. \A q, e \in Node : routes'[q][e].hops = routes[q][e].hops
                                \/ (q \in Now /\ e \in DOMAIN a[q] /\ routes'[q][e].hops = a[q][e])
          <6>1. ASSUME NEW q \in Node, NEW e \in Node, routes'[q][e] # routes[q][e]
                PROVE  q \in Now /\ e \in DOMAIN a[q] /\ routes'[q][e].hops = a[q][e]
            <7>1. /\ q \in Now /\ e \in DOMAIN a[q]
                  /\ routes'[q][e] = [next |-> n, hops |-> a[q][e], age |-> 0]
              BY <1>2, <6>1, Zenon DEF Changed
            <7>2. QED BY <7>1
          <6>2. QED BY <6>1, Zenon
        <5>2. \A q \in Now : \A e \in DOMAIN a[q] : a[q][e] \in Nat
          BY Constants DEF Adverts
        <5>3. QED BY <1>3, <3>0, <4>1, <5>1, <5>2, NextKnown DEF Shorter
      <4>3. routes[m][d].hops \in Nat
        BY <4>1, NextKnown
      <4>4. p # d => d \in Known(routes'[p]) /\ routes'[p][d].hops < routes'[m][d].hops
        <5> DEFINE x == routes'[p][d].hops
                   y == routes[p][d].hops
                   z == routes[m][d].hops
        <5>1. p # d => d \in Known(routes'[p]) /\ x \in Nat /\ y \in Nat /\ x <= y /\ y < z
          BY <4>1, <4>2
        <5>2. z \in Nat /\ z = routes'[m][d].hops
          BY <3>1, <4>3
        <5> HIDE DEF x, y, z
        <5>3. p # d => x < z
          BY <5>1, <5>2
        <5>4. QED BY <5>1, <5>2, <5>3 DEF x
      <4>5. routes'[m][d].next = p
        BY <3>1
      <4> HIDE DEF p
      <4>6. QED BY <4>1, <4>4, <4>5 DEF NextIsNearer
    <3>2. CASE m \in Now /\ Takes(routes[m], m, n, a[m], d)
      <4>1. /\ routes'[m][d].next = n /\ routes'[m][d].hops = a[m][d]
            /\ d \in DOMAIN a[m] /\ a[m][d] < Infinity
        <5>1. routes'[m][d] = [next |-> n, hops |-> a[m][d], age |-> 0]
          BY <1>1, <3>0, <3>2
        <5>2. QED BY <3>2, <5>1 DEF Takes
      <4>2. d \in Known(routes[n]) /\ routes[n][d].hops < a[m][d] /\ {n, m} \in Links
        BY <3>2, <4>1 DEF Timely
      <4>3. {m, n} \in Links
        <5>1. {m, n} = {n, m}
          OBVIOUS
        <5>2. QED BY <4>2, <5>1
      <4>4. d \in Known(routes'[n]) /\ routes'[n][d].hops < routes'[m][d].hops
        BY <1>0, <4>1, <4>2
      <4>5. QED BY <4>1, <4>3, <4>4 DEF NextIsNearer
    <3>3. QED BY <1>1, <3>0, <3>1, <3>2
  <2>2. QED BY <2>1 DEF Nearer
<1>7. QED BY <1>2, <1>3, <1>4, <1>5, <1>6 DEF Advanced

\* What is under way from other nodes, or to other nodes, stays timely.
LEMMA TimelyStays ==
  ASSUME Typed, Typed', NEW n \in Node, NEW Now, NEW a, Advanced(n, Now, a), NEW p \in Node, NEW q \in Node,
         p # n \/ q \notin Now, NEW adv, Adverts(adv), Timely(p, q, adv)
  PROVE  Timely(p, q, adv)'
<1>1. ASSUME NEW d \in DOMAIN adv
      PROVE  /\ d \in Known(routes'[p])
             /\ adv[d] < Infinity => routes'[p][d].hops < adv[d]
             /\ routes'[q][d].next = p => adv[d] < Infinity /\ adv[d] <= routes'[q][d].hops
  <2>0. d \in Node /\ adv[d] \in Nat /\ Infinity \in Nat
    BY Constants DEF Adverts
  <2>1. d \in Known(routes[p]) /\ (adv[d] < Infinity => routes[p][d].hops < adv[d])
    BY DEF Timely
  <2>2. d \in Known(routes'[p]) /\ routes'[p][d].hops <= routes[p][d].hops
    BY <2>1 DEF Advanced, Shorter
  <2>3. routes[p][d].hops \in Nat
    BY <2>1, NextKnown
  <2>4. routes'[p][d].hops \in Nat
    <3>1. routes'[p] \in Table
      BY DEF Typed, TypeOK, Table
    <3>2. QED BY <2>2, <3>1, TableFacts
  <2>5. adv[d] < Infinity => routes'[p][d].hops < adv[d]
    BY <2>0, <2>1, <2>2, <2>3, <2>4
  <2>6. ASSUME routes'[q][d].next = p
        PROVE  adv[d] < Infinity /\ adv[d] <= routes'[q][d].hops
    <3>1. CASE routes'[q][d] = routes[q][d]
      BY <2>6, <3>1 DEF Timely
    <3>2. CASE q \in Now /\ routes'[q][d] = [next |-> n, hops |-> a[q][d], age |-> 0]
      <4>1. routes'[q][d].next = n
        BY <3>2
      <4>2. QED BY <2>6, <3>2, <4>1
    <3>3. QED BY <2>0, <3>1, <3>2, Zenon DEF Advanced, Changed
  <2>7. QED BY <2>2, <2>5, <2>6
<1>2. QED BY <1>1 DEF Timely

\* sendRouteAdv, when no frame is lost.
LEMMA SendLoopless ==
  ASSUME SmallMesh, Typed, Typed', Loopless, NEW n \in Node, SendRouteAdv(n), losses' = losses
  PROVE  Loopless' /\ Shorter
<1> DEFINE Hear == {p \in Peers(n) : Linked(n, p)}
<1>1. PICK lost \in SUBSET Hear, late \in SUBSET Hear, D \in Fits(routes[n]) :
          /\ losses' = losses - Cardinality(lost)
          /\ routes' = [p \in Node |-> IF p \in (Hear \ lost) \ late
                         THEN Learn(routes[p], p, n, Advert(routes[n], p, D)) ELSE routes[p]]
          /\ peers' = [p \in Node |-> IF p \in (Hear \ lost) \ late
                        THEN [peers[p] EXCEPT ![n] = Heard(n, p)] ELSE peers[p]]
          /\ wire' = wire \cup
                {[from |-> n, to |-> p, adv |-> Advert(routes[n], p, D)] : p \in late}
  BY DEF SendRouteAdv
<1>2. lost = {}
  <2>1. IsFiniteSet(lost) /\ Cardinality(lost) \in Nat
    BY Constants, FS_Subset, FS_CardinalityType DEF Peers
  <2>2. Cardinality(lost) = 0
    <3>1. losses \in Nat
      BY Constants DEF Typed, TypeOK
    <3>2. losses = losses - Cardinality(lost)
      BY <1>1
    <3>3. QED BY <2>1, <3>1, <3>2
  <2>3. QED BY <2>1, <2>2, FS_EmptySet
<1>3. D = Known(routes[n])
  <2>1. Known(routes[n]) \subseteq Node \ {n}
    BY DEF Known, Loopless, NoSelf
  <2>2. IsFiniteSet(Node \ {n}) /\ Cardinality(Node \ {n}) = Cardinality(Node) - 1
    BY Constants, FS_RemoveElement
  <2>3. Cardinality(Known(routes[n])) <= MaxAdv
    <3>1. Cardinality(Known(routes[n])) \in Nat
          /\ Cardinality(Known(routes[n])) <= Cardinality(Node) - 1
      BY <2>1, <2>2, FS_Subset, FS_CardinalityType
    <3>2. QED BY <3>1, SlotFacts, Constants DEF SmallMesh
  <2>4. QED BY <2>3 DEF Fits
<1>4. Hear = {p \in Node : {n, p} \in Links}
  <2>1. \A p \in Node : peers[p][n] \in Int /\ {n, p} = {p, n}
    BY TypeFacts, Constants DEF Typed, Stranger
  <2>2. QED BY Constants DEF Loopless, Met, Linked, Peers, Stranger
<1> DEFINE Near == {p \in Node : {n, p} \in Links}
           Now == Near \ late
<1>a. PICK a : a = [p \in Node |-> Advert(routes[n], p, D)]
  OBVIOUS
<1>5. ASSUME NEW p \in Near
      PROVE  Adverts(a[p]) /\ Timely(n, p, a[p]) /\ DOMAIN a[p] = D /\ p \in Node
  <2>0. p \in Node /\ {n, p} \in Links /\ p # n
    BY NotOwnNeighbour
  <2>1. Adverts(a[p]) /\ DOMAIN a[p] = D
    BY <1>a, <1>3, <2>0, TypeFacts, AdvertTyped DEF Typed
  <2>2. ASSUME NEW d \in D
        PROVE  /\ a[p][d] < Infinity => routes[n][d].hops < a[p][d]
               /\ routes[p][d].next = n => a[p][d] < Infinity /\ a[p][d] <= routes[p][d].hops
    <3>0. /\ d \in Known(routes[n]) /\ d \in Node /\ d # n /\ Infinity \in Nat
          /\ routes[n][d].hops \in Nat /\ routes[n][d].next \in Node
      BY <1>3, NextKnown, Constants DEF Known, Loopless, NoSelf
    <3>1. a[p][d] = IF routes[n][d].next = p THEN Infinity ELSE routes[n][d].hops + 1
      BY <1>a, <2>0 DEF Advert
    <3>2. a[p][d] < Infinity => routes[n][d].hops < a[p][d]
      BY <3>0, <3>1
    <3>3. ASSUME routes[p][d].next = n
          PROVE  a[p][d] < Infinity /\ a[p][d] <= routes[p][d].hops
      <4>1. d \in Known(routes[p]) /\ routes[p][d].hops \in Nat /\ routes[p][d].hops < Infinity
        BY <2>0, <3>0, <3>3, NextKnown, Constants
      <4>2. routes[n][d].hops < routes[p][d].hops
        BY <2>0, <3>0, <3>3, <4>1 DEF Loopless, Nearer, NextIsNearer
      <4>3. routes[n][d].next # p
        <5> SUFFICES ASSUME routes[n][d].next = p
                     PROVE  FALSE
          OBVIOUS
        <5>1. p # d
          BY <3>0, <4>1 DEF Known, Loopless, NoSelf
        <5>2. routes[p][d].hops < routes[n][d].hops
          BY <3>0, <5>1 DEF Loopless, Nearer, NextIsNearer
        <5>3. QED BY <3>0, <4>1, <4>2, <5>2
      <4>4. QED BY <3>0, <3>1, <4>1, <4>2, <4>3
    <3>4. QED BY <3>2, <3>3
  <2>3. QED BY <1>3, <2>0, <2>1, <2>2 DEF Timely
<1> HIDE DEF Hear
<1>6. Advanced(n, Now, a)
  <2>1. Now \in SUBSET {p \in Node : {n, p} \in Links}
    OBVIOUS
  <2>2. \A p \in Now : Adverts(a[p]) /\ Timely(n, p, a[p])
    BY <1>5
  <2>3. routes' = [p \in Node |-> IF p \in Now THEN Learn(routes[p], p, n, a[p]) ELSE routes[p]]
    BY <1>1, <1>2, <1>4, <1>a
  <2> HIDE DEF Now
  <2>4. QED BY <2>1, <2>2, <2>3, AdvertsAdvance DEF Loopless
<1>7. Met'
  <2>1. \A p \in Now : peers[p][n] = 0 /\ Heard(n, p) = 0
    <3>1. ASSUME NEW p \in Now
          PROVE  peers[p][n] = 0 /\ Heard(n, p) = 0
      <4>1. {p, n} \in Links /\ p \in Node
        <5>1. {p, n} = {n, p}
          OBVIOUS
        <5>2. QED BY <1>4, <5>1
      <4>2. QED BY <4>1 DEF Loopless, Met, Heard, Peers, Stranger
    <3>2. QED BY <3>1
  <2>2. peers' = peers
    <3>1. \A p \in Now : [peers[p] EXCEPT ![n] = Heard(n, p)] = peers[p]
      BY <1>4, <2>1, TypeFacts DEF Typed
    <3>2. peers = [p \in Node |-> peers[p]]
      BY TypeFacts DEF Typed
    <3>3. \A p \in Node : peers'[p] = peers[p]
      BY <1>1, <1>2, <1>4, <3>1
    <3>4. peers' = [p \in Node |-> peers'[p]]
      BY <1>1
    <3>5. QED BY <3>2, <3>3, <3>4
  <2>3. QED BY <2>2 DEF Loopless, Met, SendRouteAdv
<1>8. \A f \in wire' : \/ f \in wire /\ f.from # n
                       \/ \E p \in late : f.from = n /\ f.to = p /\ f.adv = a[p]
                                           /\ f = [from |-> n, to |-> p, adv |-> a[p]]
  <2>1. \A f \in wire : f.from # n
    BY DEF Loopless, WireTimely, SendRouteAdv
  <2>2. \A p \in late : p \in Node
    BY <1>4
  <2>3. \A p \in late : [from |-> n, to |-> p, adv |-> Advert(routes[n], p, D)] =
                         [from |-> n, to |-> p, adv |-> a[p]]
    BY <1>a, <2>2
  <2>4. ASSUME NEW f \in wire', f \notin wire
        PROVE  \E p \in late : f.from = n /\ f.to = p /\ f.adv = a[p]
                              /\ f = [from |-> n, to |-> p, adv |-> a[p]]
    <3>1. PICK p \in late : f = [from |-> n, to |-> p, adv |-> a[p]]
      BY <1>1, <2>3, <2>4
    <3>2. QED BY <3>1
  <2>5. QED BY <2>1, <2>4
<1>9. WireTimely'
  <2>1. sent' = sent \cup {n}
    BY DEF SendRouteAdv
  <2>2. ASSUME NEW f \in wire'
        PROVE  f.from \in sent' /\ {f.from, f.to} \in Links /\ Timely(f.from, f.to, f.adv)'
    <3>1. CASE f \in wire /\ f.from # n
      <4>1. f.from \in sent /\ {f.from, f.to} \in Links /\ Timely(f.from, f.to, f.adv)
        BY <3>1 DEF Loopless, WireTimely
      <4>2. f.from \in Node /\ f.to \in Node /\ Adverts(f.adv)
        BY <3>1 DEF Typed, TypeOK, Adverts
      <4>3. Timely(f.from, f.to, f.adv)'
        BY <1>6, <3>1, <4>1, <4>2, TimelyStays
      <4>4. QED BY <2>1, <4>1, <4>3
    <3>2. ASSUME NEW p \in late, f.from = n, f.to = p, f.adv = a[p]
          PROVE  f.from \in sent' /\ {f.from, f.to} \in Links /\ Timely(f.from, f.to, f.adv)'
      <4>1. Adverts(a[p]) /\ Timely(n, p, a[p]) /\ p \in Node /\ {n, p} \in Links /\ p \notin Now
        BY <1>4, <1>5
      <4> HIDE DEF Now
      <4>2. Timely(n, p, a[p])'
        BY <1>6, <4>1, TimelyStays
      <4>3. QED BY <2>1, <3>2, <4>1, <4>2
    <3>3. QED BY <1>8, <3>1, <3>2
  <2>3. ASSUME NEW f \in wire', NEW g \in wire', g.from = f.from, g.to = f.to
        PROVE  g = f
    <3>1. CASE f.from # n
      <4>1. f \in wire /\ g \in wire
        BY <1>8, <2>3, <3>1
      <4>2. QED BY <2>3, <4>1 DEF Loopless, WireTimely
    <3>2. CASE f.from = n
      <4>1. PICK p \in late : f.to = p /\ f = [from |-> n, to |-> p, adv |-> a[p]]
        BY <1>8, <3>2
      <4>2. PICK q \in late : g.to = q /\ g = [from |-> n, to |-> q, adv |-> a[q]]
        BY <1>8, <2>3, <3>2
      <4>3. p = q
        BY <2>3, <4>1, <4>2
      <4>4. QED BY <4>1, <4>2, <4>3
    <3>3. QED BY <3>1, <3>2
  <2>4. QED BY <2>2, <2>3 DEF WireTimely
<1>10. Refreshed'
  <2>1. ASSUME NEW m \in Node, NEW d \in Known(routes'[m]), NEW q, q = routes'[m][d].next, q # d
        PROVE  routes'[m][d].age \in {0, 1} /\ (routes'[m][d].age = 1 => Awaited(m, q, d)')
    <3>0. d \in Node /\ routes'[m][d] # NoRoute
      BY DEF Known
    <3>1. CASE routes'[m][d] = [next |-> n, hops |-> a[m][d], age |-> 0]
      <4>1. routes'[m][d].age = 0
        BY <3>1
      <4>2. QED BY <4>1
    <3>2. CASE routes'[m][d] = routes[m][d]
      <4>0. q = routes[m][d].next
        BY <2>1, <3>2
      <4>1. d \in Known(routes[m]) /\ q \in Node /\ q # d
            /\ routes'[m][d].age = routes[m][d].age
        BY <2>1, <3>0, <3>2, <4>0, NextKnown DEF Known
      <4>2. routes[m][d].age \in {0, 1} /\ (routes[m][d].age = 1 => Awaited(m, q, d))
        BY <4>0, <4>1 DEF Loopless, Refreshed
      <4>3. {m, q} \in Links /\ d \in Known(routes[q])
        BY <4>0, <4>1 DEF Loopless, Nearer, NextIsNearer
      <4>4. CASE q # n
        <5>1. sent' = sent \cup {n} /\ wire \subseteq wire'
          BY <1>1 DEF SendRouteAdv
        <5>2. Awaited(m, q, d) => Awaited(m, q, d)'
          BY <4>4, <5>1 DEF Awaited
        <5>3. QED BY <4>1, <4>2, <5>2
      <4>5. CASE q = n
        <5>1. m \in Near
          <6>1. {m, n} = {n, m}
            OBVIOUS
          <6>2. QED BY <1>4, <4>3, <4>5, <6>1
        <5>2. d \in DOMAIN a[m]
          BY <1>3, <1>5, <4>3, <4>5, <5>1
        <5>3. CASE m \in late
          <6>1. [from |-> n, to |-> m, adv |-> a[m]] \in wire'
            BY <1>1, <1>a, <5>3
          <6>2. Awaited(m, q, d)'
            BY <4>5, <5>2, <6>1 DEF Awaited
          <6>3. QED BY <4>1, <4>2, <6>2
        <5>4. CASE m \notin late
          <6>1. routes'[m][d].age = 0
            BY <1>6, <4>0, <4>5, <5>1, <5>2, <5>4 DEF Advanced, Renewed
          <6>2. QED BY <6>1
        <5>5. QED BY <5>3, <5>4
      <4>6. QED BY <4>4, <4>5
    <3>3. QED BY <1>6, <3>0, <3>1, <3>2, Zenon DEF Advanced, Changed
  <2>2. QED BY <2>1 DEF Refreshed, Awaited
<1>11. QED BY <1>6, <1>7, <1>9, <1>10 DEF Loopless, Advanced

\* An advertisement that comes late.
LEMMA LateLoopless ==
  ASSUME SmallMesh, Typed, Typed', Loopless, NEW f \in wire, RecvLate(f)
  PROVE  Loopless' /\ Shorter
<1> DEFINE n == f.from
           m == f.to
           Now == {m}
           a == [p \in {m} |-> f.adv]
<1>1. /\ n \in Node /\ m \in Node /\ Adverts(f.adv) /\ {n, m} \in Links
      /\ Timely(n, m, f.adv) /\ m # n
  <2>1. n \in Node /\ m \in Node /\ Adverts(f.adv)
    BY DEF Typed, TypeOK, Adverts
  <2>2. {n, m} \in Links /\ Timely(n, m, f.adv)
    BY DEF Loopless, WireTimely
  <2>3. QED BY <2>1, <2>2, NotOwnNeighbour
<1>2. /\ routes' = [routes EXCEPT ![m] = Learn(routes[m], m, n, f.adv)]
      /\ peers' = [peers EXCEPT ![m] = [peers[m] EXCEPT ![n] = Heard(n, m)]]
  <2>1. Linked(n, m)
    BY <1>1 DEF Linked, Loopless, Met
  <2>2. QED BY <2>1 DEF RecvLate
<1>3. wire' = wire \ {f} /\ sent' = sent /\ alive' = alive /\ links' = links
  BY DEF RecvLate
<1>4. \A g \in wire' : g.from # n \/ g.to \notin Now
  BY <1>3 DEF Loopless, WireTimely
<1>5. m \in Now /\ a[m] = f.adv /\ DOMAIN a[m] = DOMAIN f.adv
  OBVIOUS
<1> HIDE DEF n, m
<1>6. Advanced(n, Now, a)
  <2>1. Now \in SUBSET {p \in Node : {n, p} \in Links}
    BY <1>1
  <2>2. \A p \in Now : Adverts(a[p]) /\ Timely(n, p, a[p])
    BY <1>1
  <2>3. routes' = [p \in Node |-> IF p \in Now THEN Learn(routes[p], p, n, a[p]) ELSE routes[p]]
    <3>1. routes = [p \in Node |-> routes[p]]
      BY TypeFacts DEF Typed
    <3>2. QED BY <1>1, <1>2, <1>5, <3>1
  <2> HIDE DEF Now, a
  <2>4. QED BY <1>1, <2>1, <2>2, <2>3, AdvertsAdvance DEF Loopless
<1>7. Met'
  <2>1. peers[m][n] = 0 /\ Heard(n, m) = 0
    <3>1. {m, n} \in Links
      <4>1. {m, n} = {n, m}
        OBVIOUS
      <4>2. QED BY <1>1, <4>1
    <3>2. QED BY <1>1, <3>1 DEF Loopless, Met, Heard, Peers, Stranger
  <2>2. peers' = peers
    <3>1. [peers[m] EXCEPT ![n] = Heard(n, m)] = peers[m]
      BY <1>1, <2>1, TypeFacts DEF Typed
    <3>2. QED BY <1>1, <1>2, <3>1, TypeFacts DEF Typed
  <2>3. QED BY <1>3, <2>2 DEF Loopless, Met
<1>8. WireTimely'
  <2>1. ASSUME NEW g \in wire'
        PROVE  g.from \in sent' /\ {g.from, g.to} \in Links /\ Timely(g.from, g.to, g.adv)'
    <3>1. g.from \in sent /\ {g.from, g.to} \in Links /\ Timely(g.from, g.to, g.adv)
      BY <1>3 DEF Loopless, WireTimely
    <3>2. g.from \in Node /\ g.to \in Node /\ Adverts(g.adv)
      BY <1>3 DEF Typed, TypeOK, Adverts
    <3>3. g.from # n \/ g.to \notin Now
      BY <1>4
    <3> HIDE DEF Now, a
    <3>4. Timely(g.from, g.to, g.adv)'
      BY <1>1, <1>6, <3>1, <3>2, <3>3, TimelyStays
    <3>5. QED BY <1>3, <3>1, <3>4
  <2>2. QED BY <1>3, <2>1 DEF Loopless, WireTimely
<1>9. Refreshed'
  <2>1. ASSUME NEW k \in Node, NEW d \in Known(routes'[k]), NEW q, q = routes'[k][d].next, q # d
        PROVE  routes'[k][d].age \in {0, 1} /\ (routes'[k][d].age = 1 => Awaited(k, q, d)')
    <3>0. d \in Node /\ routes'[k][d] # NoRoute
      BY DEF Known
    <3>1. CASE routes'[k][d] = [next |-> n, hops |-> a[k][d], age |-> 0]
      <4>1. routes'[k][d].age = 0
        BY <3>1
      <4>2. QED BY <4>1
    <3>2. CASE routes'[k][d] = routes[k][d]
      <4>0. q = routes[k][d].next
        BY <2>1, <3>2
      <4>1. d \in Known(routes[k]) /\ routes'[k][d].age = routes[k][d].age
        BY <3>0, <3>2 DEF Known
      <4>2. routes[k][d].age \in {0, 1} /\ (routes[k][d].age = 1 => Awaited(k, q, d))
        BY <2>1, <4>0, <4>1 DEF Loopless, Refreshed
      <4>3. CASE Awaited(k, q, d)'
        BY <4>1, <4>2, <4>3
      <4>4. CASE Awaited(k, q, d) /\ ~ Awaited(k, q, d)'
        <5>1. q = n /\ k = m /\ d \in DOMAIN f.adv
          BY <1>3, <4>4 DEF Awaited, n, m
        <5>2. k \in Now /\ d \in DOMAIN a[k]
          BY <1>5, <5>1
        <5>3. routes'[k][d].age = 0
          BY <1>6, <4>0, <5>1, <5>2 DEF Advanced, Renewed
        <5>4. QED BY <5>3
      <4>5. QED BY <4>1, <4>2, <4>3, <4>4
    <3>3. QED BY <1>6, <3>0, <3>1, <3>2, Zenon DEF Advanced, Changed
  <2>2. QED BY <2>1 DEF Refreshed, Awaited
<1>10. QED BY <1>6, <1>7, <1>8, <1>9 DEF Loopless, Advanced

\* The end of an interval: all that was awaited has come.
LEMMA TickLoopless ==
  ASSUME SmallMesh, Typed, Loopless, Tick
  PROVE  Loopless' /\ Shorter
<1>0. alive' = alive /\ links' = links /\ sent' = {} /\ wire' = {} /\ sent = Node /\ wire = {}
  BY DEF Tick, Loopless, Met
<1>1. ASSUME NEW n \in Node, NEW d \in Known(routes[n])
      PROVE  /\ d \in Known(routes'[n]) /\ routes'[n][d].next = routes[n][d].next
             /\ routes'[n][d].hops = routes[n][d].hops
             /\ routes[n][d].next # d => routes'[n][d].age \in {0, 1}
  <2> DEFINE e == routes[n][d]
  <2>0. d \in Node /\ e \in Entry /\ e.next \in Node
    BY TypeFacts DEF Typed, Known
  <2>1. routes'[n][d] = [e EXCEPT !.age = CASE Linked(n, d) -> 0
                                            [] ~Linked(n, d) /\ e.age <= Lifetime -> e.age + 1
                                            [] OTHER -> e.age]
    BY <2>0 DEF Tick
  <2>2. PICK x : /\ routes'[n][d] = [e EXCEPT !.age = x]
                 /\ x = CASE Linked(n, d) -> 0
                          [] ~Linked(n, d) /\ e.age <= Lifetime -> e.age + 1
                          [] OTHER -> e.age
    BY <2>1
  <2>3. /\ routes'[n][d].next = e.next /\ routes'[n][d].hops = e.hops /\ routes'[n][d].age = x
        /\ routes'[n][d] # NoRoute
    BY <2>0, <2>2, Constants DEF Entry, NoRoute
  <2>4. e.next # d => e.age = 0
    BY <1>0, <2>0 DEF Loopless, Refreshed, Awaited
  <2>5. e.next # d => x \in {0, 1}
    BY <2>2, <2>4, Constants
  <2>6. QED BY <2>0, <2>3, <2>5 DEF Known
<1>2. ASSUME NEW n \in Node
      PROVE  Known(routes'[n]) = Known(routes[n])
  <2>1. \A d \in Node : d \notin Known(routes[n]) => routes'[n][d] = NoRoute
    BY DEF Tick
  <2>2. QED BY <1>1, <2>1 DEF Known
<1>3. Met'
  <2>1. ASSUME NEW n \in Node, NEW p \in Node
        PROVE  peers'[n][p] = IF {n, p} \in Links THEN 0 ELSE Stranger
    <3>1. peers'[n][p] = CASE p \notin Peers(n) -> Stranger
                           [] Linked(n, p) -> 0
                           [] OTHER -> peers[n][p] + 1
      BY DEF Tick
    <3>2. (p \in Peers(n) <=> {n, p} \in Links) /\ (Linked(n, p) <=> {n, p} \in Links)
      BY DEF Loopless, Met, Peers, Linked, Stranger
    <3>3. QED BY <3>1, <3>2
  <2>2. QED BY <1>0, <2>1 DEF Loopless, Met
<1>4. NoSelf'
  BY <1>2 DEF Loopless, NoSelf, Known
<1>5. Nearer'
  <2>1. ASSUME NEW n \in Node, NEW d \in Known(routes[n])
        PROVE  NextIsNearer(n, d)'
    <3>1. NextIsNearer(n, d) /\ routes[n][d].next \in Node
      BY NextKnown DEF Loopless, Nearer
    <3>2. QED BY <1>1, <3>1 DEF NextIsNearer
  <2>2. QED BY <1>2, <2>1 DEF Nearer
<1>6. WireTimely'
  BY <1>0 DEF WireTimely
<1>7. Refreshed'
  BY <1>0, <1>1, <1>2 DEF Refreshed, Awaited
<1>8. Shorter
  BY <1>1, NextKnown DEF Shorter
<1>9. QED BY <1>3, <1>4, <1>5, <1>6, <1>7, <1>8 DEF Loopless

LEMMA InitLoopless == Init => Loopless
<1> SUFFICES ASSUME Init
             PROVE  Loopless
  OBVIOUS
<1>1. Met
  BY DEF Init, Met
<1>2. NoSelf
  BY NotOwnNeighbour DEF Init, NoSelf
<1>3. \A n \in Node : \A d \in Known(routes[n]) : routes[n][d].next = d /\ {n, d} \in Links
  BY DEF Init, Known
<1>4. Nearer /\ Refreshed
  BY <1>3 DEF Nearer, NextIsNearer, Refreshed
<1>5. WireTimely
  BY DEF Init, WireTimely
<1>6. QED BY <1>1, <1>2, <1>4, <1>5 DEF Loopless

\* A fault is never taken back.
LEMMA CalmBefore == Typed /\ [Next]_vars /\ Calm' => Calm /\ UNCHANGED <<faults, losses>>
<1> SUFFICES ASSUME Typed, [Next]_vars, Calm'
             PROVE  Calm /\ UNCHANGED <<faults, losses>>
  OBVIOUS
<1>0. /\ faults \in Nat /\ faults <= MaxFaults /\ MaxFaults \in Nat
      /\ losses \in Nat /\ losses <= MaxLosses /\ MaxLosses \in Nat
      /\ faults' = MaxFaults /\ losses' = MaxLosses
  BY Constants DEF Typed, TypeOK, Calm
<1>1. faults' = faults \/ faults' = faults - 1
  BY DEF vars, Next, Step, Join, CheckPeerTimeouts, SendRouteAdv, ExpireRoutes, RecvLate, Tick,
         Off, On, Cut
<1>2. losses' = losses \/ \E lost \in SUBSET Node : losses' = losses - Cardinality(lost)
  <2>1. ASSUME NEW n \in Node, SendRouteAdv(n)
        PROVE  \E lost \in SUBSET Node : losses' = losses - Cardinality(lost)
    <3>1. PICK lost \in SUBSET {p \in Peers(n) : Linked(n, p)} :
                  losses' = losses - Cardinality(lost)
      BY <2>1 DEF SendRouteAdv
    <3>2. lost \in SUBSET Node
      BY DEF Peers
    <3>3. QED BY <3>1, <3>2
  <2>2. ASSUME NEW n \in Node, NEW p \in Node, CheckPeerTimeouts(n, p)
        PROVE  \E lost \in SUBSET Node : losses' = losses - Cardinality(lost)
    BY <2>2 DEF CheckPeerTimeouts
  <2>3. QED BY <2>1, <2>2 DEF vars, Next, Step, Join, ExpireRoutes, RecvLate, Tick, Off, On, Cut
<1>3. \A lost \in SUBSET Node : Cardinality(lost) \in Nat
  BY Constants, FS_Subset, FS_CardinalityType
<1>4. QED BY <1>0, <1>1, <1>2, <1>3 DEF Calm

\* A step after which no fault has happened yet.
LEMMA CalmStep ==
  ASSUME SmallMesh, Typed, Typed', Calm => Loopless, [Next]_vars, Calm'
  PROVE  Loopless' /\ Shorter
<1>0. Calm /\ Loopless /\ losses' = losses /\ faults' = faults
  BY CalmBefore
<1>1. CASE UNCHANGED vars
  <2>1. /\ routes' = routes /\ peers' = peers /\ alive' = alive /\ links' = links
        /\ sent' = sent /\ wire' = wire
    BY <1>1 DEF vars
  <2>2. Met' /\ NoSelf'
    BY <1>0, <2>1 DEF Loopless, Met, NoSelf
  <2>3. Nearer'
    BY <1>0, <2>1 DEF Loopless, Nearer, NextIsNearer
  <2>4. WireTimely'
    BY <1>0, <2>1 DEF Loopless, WireTimely, Timely
  <2>5. Refreshed'
    BY <1>0, <2>1 DEF Loopless, Refreshed, Awaited
  <2>6. Shorter
    BY <2>1, NextKnown DEF Shorter
  <2>7. QED BY <2>2, <2>3, <2>4, <2>5, <2>6 DEF Loopless
<1>2. ASSUME NEW n \in Node, NEW p \in Node, Join(n, p)
      PROVE  FALSE
  BY <1>0, <1>2 DEF Join, Loopless, Met, Linked, Peers, Stranger
<1>3. ASSUME NEW n \in Node, NEW p \in Node, CheckPeerTimeouts(n, p)
      PROVE  FALSE
  <2>1. peers[n][p] = IF {n, p} \in Links THEN 0 ELSE -1
    BY <1>0 DEF Loopless, Met, Stranger
  <2>2. peers[n][p] > Silence
    BY <1>3 DEF CheckPeerTimeouts
  <2>3. QED BY <2>1, <2>2, Constants
<1>4. ASSUME NEW n \in Node, SendRouteAdv(n)
      PROVE  Loopless' /\ Shorter
  BY <1>0, <1>4, SendLoopless
<1>5. ASSUME NEW n \in Node, ExpireRoutes(n)
      PROVE  FALSE
  <2>1. \A d \in Known(routes[n]) : routes[n][d].next # d => routes[n][d].age \in {0, 1}
    BY <1>0 DEF Loopless, Refreshed
  <2>2. QED BY <1>5, <2>1, Constants DEF ExpireRoutes, Expired, SmallMesh
<1>6. ASSUME NEW f \in wire, RecvLate(f)
      PROVE  Loopless' /\ Shorter
  BY <1>0, <1>6, LateLoopless
<1>7. CASE Tick
  BY <1>0, <1>7, TickLoopless
<1>8. ASSUME NEW n \in Node, Off(n) \/ On(n)
      PROVE  FALSE
  <2>1. ~ On(n)
    BY <1>0 DEF On, Loopless, Met
  <2>2. ~ Off(n)
    BY <1>0, Constants DEF Off, Calm
  <2>3. QED BY <1>8, <2>1, <2>2
<1>9. ASSUME NEW l \in Links, Cut(l)
      PROVE  FALSE
  BY <1>0, <1>9, Constants DEF Cut, Calm
<1>10. QED BY <1>1, <1>2, <1>3, <1>4, <1>5, <1>6, <1>7, <1>8, <1>9 DEF Next, Step

\* In a mesh whose routes fit in a table and in an advertisement, every next hop is
\* nearer to the destination until the first fault: advertisements that come late and
\* in any order make no frame go round (Router.cpp:99-166).
THEOREM RoutingLoopFree ==
  ASSUME SmallMesh
  PROVE  Spec => []LoopFreeUntilFault
<1> DEFINE Inv == Typed /\ (Calm => Loopless)
<1>1. Init => Inv
  BY InitTyped, InitLoopless
<1>2. Inv /\ [Next]_vars => Inv'
  BY NextTyped, CalmStep
<1>3. Inv => LoopFreeUntilFault
  BY DEF Calm, Loopless, Nearer, NextIsNearer, LoopFreeUntilFault
<1>4. QED BY <1>1, <1>2, <1>3, PTL DEF Spec

-----------------------------------------------------------------------------
(* A packet on its way (DataPath.tla).                                     *)

\* A node that does not relay, one on battery, is at the edge of the mesh.
RelaysBetween ==
    \A n \in Node \ Relays : \A p, q \in Node : {n, p} \in Links /\ {n, q} \in Links => p = q

\* A packet that follows a route is where it should be, or nearer and relayed.
OnItsWay(f) ==
    /\ f.from \in Node /\ f.to \in Node /\ f.dst \in Node
    /\ f.hops \in Nat /\ {f.from, f.to} \in Links
    /\ f.to # f.dst => /\ f.to \in Relays /\ f.dst \in Known(routes[f.to])
                      /\ routes[f.to][f.dst].hops < f.hops

PacketOnItsWay == pkt # NoPacket /\ pkt.hops < Infinity => OnItsWay(pkt)

NetInv == Typed /\ (Calm => Loopless /\ PacketOnItsWay)

\* What is sent by a route is on its way.
LEMMA RoutedOnItsWay ==
  ASSUME RelaysBetween, Typed, Loopless, NEW n \in Node, NEW d \in Known(routes[n]),
         NEW large
  PROVE  OnItsWay(Routed(n, d, large))
<1> DEFINE p == routes[n][d].next
           f == Routed(n, d, large)
<1>1. /\ d \in Node /\ p \in Node /\ routes[n][d].hops \in Nat /\ {n, p} \in Links
      /\ p # d => d \in Known(routes[p]) /\ routes[p][d].hops < routes[n][d].hops
  BY NextKnown DEF Loopless, Nearer, NextIsNearer
<1>2. p # d => p \in Relays
  <2> SUFFICES ASSUME p # d, p \notin Relays
               PROVE  FALSE
    OBVIOUS
  <2> DEFINE q == routes[p][d].next
  <2>1. d \in Known(routes[p]) /\ routes[p][d].hops < routes[n][d].hops
    BY <1>1
  <2>2. /\ q \in Node /\ routes[p][d].hops \in Nat /\ {p, q} \in Links
        /\ q # d => routes[q][d].hops < routes[p][d].hops
    BY <1>1, <2>1, NextKnown DEF Loopless, Nearer, NextIsNearer
  <2>3. {p, n} \in Links
    <3>1. {p, n} = {n, p}
      OBVIOUS
    <3>2. QED BY <1>1, <3>1
  <2>4. q = n
    <3> HIDE DEF p, q
    <3>1. QED BY <1>1, <2>2, <2>3 DEF RelaysBetween
  <2>5. n # d
    BY DEF Loopless, NoSelf, Known
  <2>6. routes[n][d].hops < routes[p][d].hops
    BY <2>2, <2>4, <2>5
  <2>7. QED
    <3> DEFINE x == routes[n][d].hops
               y == routes[p][d].hops
    <3>1. x \in Nat /\ y \in Nat
      BY <1>1, <2>2
    <3>2. y < x /\ x < y
      BY <2>1, <2>6
    <3> HIDE DEF x, y
    <3>3. QED BY <3>1, <3>2
<1>3. /\ f.from = n /\ f.to = p /\ f.dst = d /\ f.hops = routes[n][d].hops
  BY DEF Routed, FrameVia
<1> HIDE DEF f, p
<1>4. OnItsWay(f)
  BY <1>1, <1>2, <1>3 DEF OnItsWay
<1>5. QED BY <1>4 DEF f

\* What the tables learn meanwhile leaves it there.
LEMMA OnItsWayStays ==
  ASSUME Typed, Typed', Shorter, NEW f, OnItsWay(f)
  PROVE  OnItsWay(f)'
<1>1. f.to # f.dst => f.dst \in Known(routes'[f.to]) /\ routes'[f.to][f.dst].hops < f.hops
  <2> SUFFICES ASSUME f.to # f.dst
               PROVE  f.dst \in Known(routes'[f.to]) /\ routes'[f.to][f.dst].hops < f.hops
    OBVIOUS
  <2>1. /\ f.to \in Node /\ f.hops \in Nat /\ f.dst \in Known(routes[f.to])
        /\ routes[f.to][f.dst].hops < f.hops
    BY DEF OnItsWay
  <2>2. /\ f.dst \in Known(routes'[f.to])
        /\ routes'[f.to][f.dst].hops <= routes[f.to][f.dst].hops
    BY <2>1 DEF Shorter
  <2>3. routes[f.to][f.dst].hops \in Nat /\ routes'[f.to][f.dst].hops \in Nat
    <3>1. routes'[f.to] \in Table /\ routes[f.to] \in Table
      BY <2>1, TypeFacts DEF Typed, TypeOK, Table
    <3>2. QED BY <2>1, <2>2, <3>1, TableFacts
  <2>4. QED BY <2>1, <2>2, <2>3
<1>2. QED BY <1>1 DEF OnItsWay

\* The mesh goes on while the packet is in the air.
LEMMA MeshStep ==
  ASSUME SmallMesh, NetInv, [Next]_vars, UNCHANGED pkt
  PROVE  NetInv'
<1>1. Typed'
  BY NextTyped DEF NetInv
<1>2. ASSUME Calm'
      PROVE  Loopless' /\ PacketOnItsWay'
  <2>1. Loopless' /\ Shorter
    BY <1>1, <1>2, CalmStep DEF NetInv
  <2>2. Calm
    BY <1>2, CalmBefore DEF NetInv
  <2>3. PacketOnItsWay /\ pkt' = pkt
    BY <2>2 DEF NetInv
  <2>4. ASSUME NEW f, OnItsWay(f)
        PROVE  OnItsWay(f)'
    BY <1>1, <2>1, <2>4, OnItsWayStays DEF NetInv
  <2>5. PICK f : f = pkt
    OBVIOUS
  <2>6. f # NoPacket /\ f.hops < Infinity => OnItsWay(f)'
    BY <2>3, <2>4, <2>5 DEF PacketOnItsWay
  <2>7. QED BY <2>1, <2>3, <2>5, <2>6 DEF PacketOnItsWay, OnItsWay
<1>3. QED BY <1>1, <1>2 DEF NetInv

\* A packet is sent.
LEMMA SourceStep ==
  ASSUME SmallMesh, RelaysBetween, NetInv, UNCHANGED vars,
         \/ pkt' = NoPacket
         \/ \E n \in Node : \E d \in Known(routes[n]) : \E large : pkt' = Routed(n, d, large)
         \/ \E n, d, large : pkt' = FrameVia(n, d, d, Infinity, large)
  PROVE  NetInv'
<1>1. Typed' /\ (Calm' <=> Calm) /\ routes' = routes
  BY NextTyped DEF NetInv, vars, Calm
<1>2. ASSUME Calm
      PROVE  Loopless' /\ PacketOnItsWay'
  <2>1. Loopless'
    BY <1>1, <1>2, CalmStep DEF NetInv
  <2>2. PICK f : f = pkt'
    OBVIOUS
  <2>3. f # NoPacket /\ f.hops < Infinity => OnItsWay(f)
    <3>1. ASSUME NEW n \in Node, NEW d \in Known(routes[n]), NEW large, f = Routed(n, d, large)
          PROVE  OnItsWay(f)
      BY <1>2, <3>1, RoutedOnItsWay DEF NetInv
    <3>2. ASSUME NEW n, NEW d, NEW large, f = FrameVia(n, d, d, Infinity, large)
          PROVE  ~(f.hops < Infinity)
      BY <3>2, Constants DEF FrameVia
    <3>3. QED BY <2>2, <3>1, <3>2
  <2>4. PacketOnItsWay'
    BY <1>1, <2>2, <2>3 DEF PacketOnItsWay, OnItsWay
  <2>5. QED BY <2>1, <2>4
<1>3. QED BY <1>1, <1>2 DEF NetInv

\* The frame is handled: it goes on by the route of its receiver.
LEMMA HandleDataStep ==
  ASSUME SmallMesh, RelaysBetween, NetInv, HandleData
  PROVE  /\ NetInv'
         /\ Calm /\ pkt.to # pkt.dst /\ ~pkt.large /\ pkt.hops < Infinity
              => /\ pkt' # NoPacket /\ pkt'.hops < pkt.hops
                 /\ Linked(pkt'.from, pkt'.to)
<1> DEFINE n == pkt.from
           m == pkt.to
           d == pkt.dst
<1>1. /\ n \in Node /\ m \in Node /\ m \in alive /\ {n, m} \in links /\ pkt # NoPacket
      /\ peers' = [peers EXCEPT ![m] = [peers[m] EXCEPT ![n] = Heard(n, m)]]
      /\ pkt' = IF m = d THEN NoPacket ELSE Relayed(m)
      /\ UNCHANGED <<routes, alive, links, sent, wire, faults, losses, delays>>
  BY DEF HandleData, Linked, NetInv, Typed, TypeOK
<1>2. Typed'
  <2>1. [peers[m] EXCEPT ![n] = Heard(n, m)] \in [Node -> Stranger..(Silence + 1)]
    <3>1. Heard(n, m) \in Stranger..(Silence + 1)
      BY Constants DEF Heard, Stranger
    <3>2. QED BY <1>1, <3>1, TypeFacts DEF NetInv, Typed
  <2> HIDE DEF n, m
  <2>2. peers' \in [Node -> [Node -> Stranger..(Silence + 1)]] /\ DeadForgot'
    BY <1>1, <2>1, TypeFacts DEF NetInv, Typed, DeadForgot
  <2>3. QED BY <1>1, <2>2 DEF NetInv, Typed, TypeOK
<1>3. Relayed(m) # NoPacket => d \in Known(routes[m]) /\ Relayed(m) = Routed(m, d, FALSE)
  BY DEF Relayed
<1>4. ASSUME Calm
      PROVE  UNCHANGED vars
  <2>1. {m, n} \in Links
    <3>1. {m, n} = {n, m}
      OBVIOUS
    <3>2. QED BY <1>1, <1>4, <3>1 DEF NetInv, Loopless, Met
  <2>2. peers[m][n] = 0 /\ Heard(n, m) = 0
    BY <1>1, <1>4, <2>1 DEF NetInv, Loopless, Met, Heard, Peers, Stranger
  <2>3. [peers[m] EXCEPT ![n] = Heard(n, m)] = peers[m]
    BY <1>1, <2>2, TypeFacts DEF NetInv, Typed
  <2> HIDE DEF n, m
  <2>4. peers' = peers
    BY <1>1, <2>3, TypeFacts DEF NetInv, Typed
  <2>5. QED BY <1>1, <2>4 DEF vars
<1>5. NetInv'
  <2>1. CASE Calm
    <3>1. pkt' = NoPacket \/ (d \in Known(routes[m]) /\ pkt' = Routed(m, d, FALSE))
      BY <1>1, <1>3
    <3> HIDE DEF m, d
    <3>2. QED BY <1>1, <1>4, <2>1, <3>1, SourceStep
  <2>2. CASE ~Calm
    BY <1>1, <1>2, <2>2 DEF NetInv, Calm
  <2>3. QED BY <2>1, <2>2
<1>6. ASSUME Calm, m # d, ~pkt.large, pkt.hops < Infinity
      PROVE  pkt' # NoPacket /\ pkt'.hops < pkt.hops /\ Linked(pkt'.from, pkt'.to)
  <2>1. /\ m \in Relays /\ d \in Known(routes[m]) /\ routes[m][d].hops < pkt.hops
    BY <1>1, <1>6 DEF NetInv, PacketOnItsWay, OnItsWay
  <2>2. pkt' = Routed(m, d, FALSE)
    BY <1>1, <1>6, <2>1 DEF Relayed
  <2>3. pkt'.hops = routes[m][d].hops /\ pkt'.from = m /\ pkt'.to = routes[m][d].next
    BY <2>2 DEF Routed, FrameVia
  <2>4. {m, routes[m][d].next} \in Links /\ routes[m][d].next \in Node
    BY <1>1, <1>6, <2>1, NextKnown DEF NetInv, Loopless, Nearer, NextIsNearer
  <2>5. Linked(m, routes[m][d].next)
    BY <1>1, <1>6, <2>4 DEF NetInv, Loopless, Met, Linked
  <2>6. m # NoNode
    BY <1>1, Constants
  <2>7. pkt' # NoPacket
    BY <2>3, <2>6 DEF NoPacket
  <2> HIDE DEF m, d
  <2>8. QED BY <2>1, <2>3, <2>5, <2>7
<1>7. QED BY <1>5, <1>6

LEMMA NetStep ==
  ASSUME SmallMesh, RelaysBetween, NetInv, [NetNext]_netVars
  PROVE  NetInv'
<1>1. CASE Next /\ UNCHANGED pkt
  BY <1>1, MeshStep
<1>2. ASSUME NEW n \in Sources, NEW d \in Traffic, NEW large \in BOOLEAN,
             NetifTx(n, d, large)
      PROVE  NetInv'
  <2>1. /\ n \in Node /\ UNCHANGED vars
        /\ \E v \in Known(routes[n]) : pkt' = Routed(n, v, large)
    BY <1>2, DataPathAssumption DEF NetifTx, DataPathAssumption
  <2>2. QED BY <2>1, SourceStep
<1>3. ASSUME NEW n \in Sources, NEW d \in Traffic \cap Node, NEW large \in BOOLEAN,
             SendData(n, d, large)
      PROVE  NetInv'
  <2>1. /\ n \in Node /\ UNCHANGED vars
        /\ \/ d \in Known(routes[n]) /\ pkt' = Routed(n, d, large)
           \/ pkt' = FrameVia(n, d, d, Infinity, large)
    BY <1>3, DataPathAssumption DEF SendData, DataPathAssumption
  <2>2. QED BY <2>1, SourceStep
<1>4. CASE HandleData
  BY <1>4, HandleDataStep
<1>5. CASE FrameFails
  BY <1>5, SourceStep DEF FrameFails
<1>6. CASE UNCHANGED netVars
  BY <1>6, MeshStep DEF netVars, vars
<1>7. QED BY <1>1, <1>2, <1>3, <1>4, <1>5, <1>6 DEF NetNext, Transmit

\* Before the first fault a packet that goes by a route comes nearer to its destination
\* with each hop, if nodes that do not relay are at the edge of the mesh: whoever it is
\* sent to relays it, to a node in reach (MeshNetwork.cpp:746-755).
THEOREM PacketComesNearer ==
  ASSUME SmallMesh, RelaysBetween
  PROVE  NetSpec => NearerEachHop
<1>1. NetInit => NetInv
  BY InitTyped, InitLoopless DEF NetInit, NetInv, PacketOnItsWay
<1>2. NetInv /\ [NetNext]_netVars => NetInv'
  BY NetStep
<1> DEFINE Nears == HandleData /\ faults = MaxFaults /\ losses = MaxLosses
                        /\ pkt.to # pkt.dst /\ ~pkt.large /\ pkt.hops < Infinity
                    => pkt' # NoPacket /\ pkt'.hops < pkt.hops /\ Linked(pkt'.from, pkt'.to)
<1>3. NetInv => Nears
  BY HandleDataStep DEF Calm
<1>4. NetSpec => [][Nears]_netVars
  <2> HIDE DEF Nears
  <2>1. QED BY <1>1, <1>2, <1>3, PTL DEF NetSpec
<1>5. QED BY <1>4 DEF NearerEachHop


-----------------------------------------------------------------------------
(* The Seen-Frame cache.  The inductive invariant: the ring holds the window. *)

Frame == [src : Sender \cup {NoSender}, seq : 0..(Seqs - 1)]
SeenEntry == [src : Sender \cup {NoSender}, seq : 0..(Seqs - 1), age : 0..(Ttl + 1), valid : BOOLEAN]
Handled == [src : Sender \cup {NoSender}, seq : 0..(Seqs - 1), age : 0..(Ttl + 1)]

\* The place in the ring of the k-th of the last n broadcasts, when the next one
\* goes to place i.
Place(i, n, k) == IF i + k - n - 1 < 0 THEN i + k - n - 1 + CacheSize ELSE i + k - n - 1

WindowOK == window \in Seq(Handled) /\ Len(window) <= CacheSize

\* An entry that is valid is the broadcast of its place, and one given up had expired.
EntryIs(e, w) ==
    /\ e.valid => e.src = w.src /\ e.seq = w.seq /\ e.age = w.age
    /\ ~e.valid => Ttl <= w.age

RingIsWindow ==
    /\ \A k \in 1..Len(window) : EntryIs(seenCache[Place(idx, Len(window), k)], window[k])
    /\ \A i \in Ring : seenCache[i].valid =>
          \E k \in 1..Len(window) : i = Place(idx, Len(window), k)

TypeInv == SeenTypeOK /\ WindowOK

-----------------------------------------------------------------------------
(* Places of the ring.                                                      *)

\* The index goes round the ring.
LEMMA NextIdxValue ==
  ASSUME SeenAssumption, NEW i \in Ring
  PROVE  NextIdx(i) = IF i + 1 = CacheSize THEN 0 ELSE i + 1
<1>1. CacheSize \in Nat \ {0} /\ i \in 0..(CacheSize - 1)
  BY DEF SeenAssumption, Ring
<1>2. CASE i + 1 = CacheSize
  BY <1>1, <1>2 DEF NextIdx
<1>3. CASE i + 1 # CacheSize
  BY <1>1, <1>3 DEF NextIdx
<1>4. QED BY <1>2, <1>3

\* A broadcast of the window has a place.
LEMMA PlaceType ==
  ASSUME SeenAssumption, NEW i \in Ring, NEW n \in 0..CacheSize, NEW k \in 1..n
  PROVE  Place(i, n, k) \in Ring
BY DEF Place, Ring, SeenAssumption

\* The place of the next broadcast is free until the window is full; then it is
\* that of the oldest.
LEMMA PlaceFree ==
  ASSUME SeenAssumption, NEW i \in Ring, NEW n \in 0..CacheSize, NEW k \in 1..n
  PROVE  Place(i, n, k) = i <=> (n = CacheSize /\ k = 1)
BY DEF Place, Ring, SeenAssumption

\* The places stay when a broadcast is added, and when the oldest is dropped for it.
LEMMA PlaceNext ==
  ASSUME SeenAssumption, NEW i \in Ring, NEW n \in 0..CacheSize
  PROVE  /\ n < CacheSize =>
               /\ \A k \in 1..n : Place(NextIdx(i), n + 1, k) = Place(i, n, k)
               /\ Place(NextIdx(i), n + 1, n + 1) = i
         /\ n = CacheSize =>
               /\ \A k \in 1..(n - 1) : Place(NextIdx(i), n, k) = Place(i, n, k + 1)
               /\ Place(NextIdx(i), n, n) = i
<1>1. CacheSize \in Nat \ {0} /\ i \in 0..(CacheSize - 1)
  BY DEF SeenAssumption, Ring
<1>2. CASE i + 1 = CacheSize
  <2>1. NextIdx(i) = 0
    BY <1>2, NextIdxValue
  <2>2. QED BY <1>1, <1>2, <2>1 DEF Place
<1>3. CASE i + 1 # CacheSize
  <2>1. NextIdx(i) = i + 1
    BY <1>3, NextIdxValue
  <2>2. QED BY <1>1, <1>3, <2>1 DEF Place
<1>4. QED BY <1>2, <1>3

-----------------------------------------------------------------------------
(* Type correctness.                                                        *)

\* Giving entries up keeps their type.
LEMMA GiveUpType ==
  ASSUME seenCache \in [Ring -> SeenEntry], NEW S
  PROVE  GiveUp(S) \in [Ring -> SeenEntry]
BY DEF GiveUp, SeenEntry

\* The window a handled broadcast leaves.
After(f) == LET w == Append(window, [src |-> f.src, seq |-> f.seq, age |-> 0])
            IN  IF Len(w) > CacheSize THEN Tail(w) ELSE w

\* The window keeps its size, its last element is the broadcast, and the others
\* stay in their order.
LEMMA AfterFacts ==
  ASSUME SeenAssumption, WindowOK, NEW f \in Frame
  PROVE  LET w == [src |-> f.src, seq |-> f.seq, age |-> 0]
             L == Len(window)
         IN  /\ After(f) \in Seq(Handled)
             /\ L < CacheSize => /\ Len(After(f)) = L + 1
                                 /\ After(f)[L + 1] = w
                                 /\ \A k \in 1..L : After(f)[k] = window[k]
             /\ L = CacheSize => /\ Len(After(f)) = L
                                 /\ After(f)[L] = w
                                 /\ \A k \in 1..(L - 1) : After(f)[k] = window[k + 1]
<1> DEFINE w == [src |-> f.src, seq |-> f.seq, age |-> 0]
           L == Len(window)
           a == Append(window, w)
<1>1. w \in Handled
  BY DEF Frame, Handled, SeenAssumption
<1>2. window \in Seq(Handled) /\ L \in Nat /\ L <= CacheSize /\ CacheSize \in Nat \ {0}
  BY DEF WindowOK, SeenAssumption
<1> HIDE DEF w
<1>3. /\ a \in Seq(Handled) /\ Len(a) = L + 1 /\ a[L + 1] = w
      /\ \A k \in 1..L : a[k] = window[k]
  BY <1>1, <1>2
<1>4. CASE L < CacheSize
  <2>1. After(f) = a
    BY <1>2, <1>3, <1>4 DEF After, w
  <2>2. QED BY <1>2, <1>3, <1>4, <2>1 DEF w
<1>5. CASE L = CacheSize
  <2>1. After(f) = Tail(a)
    BY <1>2, <1>3, <1>5 DEF After, w
  <2>2. Tail(a) \in Seq(Handled) /\ Len(Tail(a)) = L /\ \A k \in 1..L : Tail(a)[k] = a[k + 1]
    BY <1>2, <1>3
  <2>3. QED BY <1>2, <1>3, <1>5, <2>1, <2>2 DEF w
<1>6. QED BY <1>2, <1>4, <1>5

\* A broadcast keeps the types of the cache.
LEMMA HandleType ==
  ASSUME SeenAssumption, TypeInv, NEW f \in Frame, HandleBroadcast(f)
  PROVE  /\ seenCache' \in [Ring -> SeenEntry] /\ idx' \in Ring
         /\ heard' \in Sender \cup {NoSender} /\ WindowOK'
<1>0. seenCache \in [Ring -> SeenEntry] /\ idx \in Ring /\ heard \in Sender \cup {NoSender} /\ WindowOK
  BY DEF TypeInv, SeenTypeOK, SeenEntry
<1>1. CASE IsFrameSeen(f)
  BY <1>0, <1>1, GiveUpType DEF HandleBroadcast, AfterSeen, WindowOK
<1>2. CASE ~IsFrameSeen(f)
  <2>1. [src |-> f.src, seq |-> f.seq, age |-> 0, valid |-> TRUE] \in SeenEntry
    BY DEF Frame, SeenEntry, SeenAssumption
  <2>2. seenCache' \in [Ring -> SeenEntry]
    BY <1>0, <1>2, <2>1, GiveUpType DEF HandleBroadcast
  <2>3. idx' \in Ring
    BY <1>0, <1>2, NextIdxValue DEF HandleBroadcast, Ring, SeenAssumption
  <2>4. window' = After(f) /\ heard' = f.src
    BY <1>2 DEF HandleBroadcast, After
  <2>5. WindowOK'
    <3>1. Len(window) \in Nat /\ (Len(window) < CacheSize \/ Len(window) = CacheSize)
          /\ CacheSize \in Nat
      BY <1>0 DEF WindowOK, SeenAssumption
    <3>2. /\ After(f) \in Seq(Handled)
          /\ Len(window) < CacheSize => Len(After(f)) = Len(window) + 1
          /\ Len(window) = CacheSize => Len(After(f)) = Len(window)
      BY <1>0, AfterFacts
    <3>4. Len(After(f)) <= CacheSize
      BY <3>1, <3>2
    <3>3. QED BY <2>4, <3>2, <3>4 DEF WindowOK
  <2>6. QED BY <2>2, <2>3, <2>4, <2>5 DEF Frame
<1>3. QED BY <1>1, <1>2

LEMMA TypeStep == SeenAssumption /\ TypeInv /\ [SeenNext]_seenVars => TypeInv'
<1> SUFFICES ASSUME SeenAssumption, TypeInv, [SeenNext]_seenVars
             PROVE  TypeInv'
  OBVIOUS
<1>0. /\ seenCache \in [Ring -> SeenEntry] /\ copy \in Frame /\ WindowOK
      /\ seqCounter \in [Sender -> 0..(Seqs - 1)] /\ Seqs \in Nat \ {0} /\ Ttl \in Nat
  BY DEF TypeInv, SeenTypeOK, SeenEntry, Frame, SeenAssumption
<1>1. ASSUME NEW s \in Sender
      PROVE  NextSeq(s) \in 0..(Seqs - 1)
  BY <1>0 DEF NextSeq
<1>2. ASSUME NEW s \in Sender, SendBroadcast(s)
      PROVE  TypeInv'
  <2> DEFINE f == [src |-> s, seq |-> NextSeq(s)]
  <2>1. f \in Frame
    BY <1>1 DEF Frame
  <2>2. seqCounter' \in [Sender -> 0..(Seqs - 1)]
    BY <1>0, <1>1, <1>2 DEF SendBroadcast
  <2>3. CASE HandleBroadcast(f) /\ copy' \in {copy, f} /\ UNCHANGED unheard
    <3>1. /\ seenCache' \in [Ring -> SeenEntry] /\ idx' \in Ring
          /\ heard' \in Sender \cup {NoSender} /\ WindowOK'
      BY <2>1, <2>3, HandleType
    <3>2. copy' \in Frame /\ unheard' \in 0..MaxUnheard
      BY <1>0, <2>1, <2>3 DEF TypeInv, SeenTypeOK
    <3>3. QED BY <2>2, <3>1, <3>2 DEF TypeInv, SeenTypeOK, WindowOK, Frame, SeenEntry
  <2>4. CASE /\ unheard > 0 /\ unheard' = unheard - 1
             /\ UNCHANGED <<seenCache, idx, copy, heard, window>>
    <3>1. unheard' \in 0..MaxUnheard
      BY <2>4 DEF TypeInv, SeenTypeOK, SeenAssumption
    <3>2. QED BY <2>2, <2>4, <3>1 DEF TypeInv, SeenTypeOK, WindowOK
  <2>5. QED BY <1>2, <2>3, <2>4 DEF SendBroadcast
<1>3. ASSUME NEW s \in Sender, SendUnicast(s)
      PROVE  TypeInv'
  BY <1>0, <1>1, <1>3 DEF SendUnicast, TypeInv, SeenTypeOK, WindowOK
<1>4. ASSUME NEW s \in Sender, Restart(s)
      PROVE  TypeInv'
  BY <1>0, <1>4 DEF Restart, TypeInv, SeenTypeOK, WindowOK
<1>5. CASE RecvCopy
  <2>1. NoFrame \in Frame
    BY <1>0 DEF NoFrame, Frame
  <2>2. QED BY <1>0, <1>5, <2>1, HandleType
            DEF RecvCopy, TypeInv, SeenTypeOK, WindowOK, Frame, SeenEntry
<1>6. CASE CleanCache
  BY <1>0, <1>6, GiveUpType DEF CleanCache, TypeInv, SeenTypeOK, WindowOK, SeenEntry
<1>7. CASE Age
  <2>1. \A n \in 0..(Ttl + 1) : Older(n) \in 0..(Ttl + 1)
    BY <1>0 DEF Older
  <2>2. seenCache' \in [Ring -> SeenEntry]
    BY <1>0, <1>7, <2>1 DEF Age, SeenEntry
  <2>3. window' \in Seq(Handled) /\ Len(window') = Len(window)
    <3>1. Len(window) \in Nat /\ window \in [1..Len(window) -> Handled]
      BY <1>0 DEF WindowOK
    <3>2. window' \in [1..Len(window) -> Handled]
      BY <1>7, <2>1, <3>1 DEF Age, Handled
    <3>3. QED BY <3>1, <3>2
  <2>4. QED BY <1>7, <2>2, <2>3 DEF Age, TypeInv, SeenTypeOK, WindowOK, SeenEntry
<1>8. CASE UNCHANGED seenVars
  BY <1>8 DEF seenVars, TypeInv, SeenTypeOK, WindowOK
<1>9. QED BY <1>2, <1>3, <1>4, <1>5, <1>6, <1>7, <1>8 DEF SeenNext

\* They hold initially.
LEMMA InitType == SeenAssumption /\ SeenInit => TypeInv
<1> SUFFICES ASSUME SeenAssumption, SeenInit
             PROVE  TypeInv
  OBVIOUS
<1>1. 0 \in 0..(Seqs - 1) /\ 0 \in 0..(Ttl + 1) /\ 0 \in Ring /\ MaxUnheard \in 0..MaxUnheard
  BY DEF SeenAssumption, Ring
<1>2. NoEntry \in SeenEntry /\ NoFrame \in Frame
  BY <1>1 DEF NoEntry, NoFrame, SeenEntry, Frame
<1>3. WindowOK
  BY DEF SeenInit, WindowOK, SeenAssumption
<1>4. QED BY <1>1, <1>2, <1>3 DEF SeenInit, TypeInv, SeenTypeOK, SeenEntry, Frame

\* The cache keeps its types.
THEOREM SeenTypeCorrect == SeenSpec => []SeenTypeOK
<1>1. SeenInit => TypeInv
  BY InitType, SeenAssumption
<1>2. TypeInv /\ [SeenNext]_seenVars => TypeInv'
  BY TypeStep, SeenAssumption
<1>3. TypeInv => SeenTypeOK
  BY DEF TypeInv
<1>4. QED BY <1>1, <1>2, <1>3, PTL DEF SeenSpec

-----------------------------------------------------------------------------
(* The ring is the window.                                                  *)

\* Giving up entries that have expired leaves the ring the window.
LEMMA GiveUpRing ==
  ASSUME SeenAssumption, TypeInv, RingIsWindow,
         NEW S, \A i \in S \cap Ring : seenCache[i].valid => Ttl <= seenCache[i].age,
         seenCache' = GiveUp(S), UNCHANGED <<idx, window>>
  PROVE  RingIsWindow'
<1>0. /\ seenCache \in [Ring -> SeenEntry] /\ idx \in Ring /\ WindowOK
      /\ Len(window) \in 0..CacheSize
  BY DEF TypeInv, SeenTypeOK, WindowOK, SeenEntry, SeenAssumption
<1>1. \A i \in Ring : \/ seenCache'[i] = seenCache[i]
                      \/ /\ seenCache[i].valid => Ttl <= seenCache[i].age
                         /\ seenCache'[i].valid = FALSE
  BY <1>0 DEF GiveUp, SeenEntry
<1>2. ASSUME NEW k \in 1..Len(window)
      PROVE  EntryIs(seenCache'[Place(idx, Len(window), k)], window[k])
  <2> DEFINE i == Place(idx, Len(window), k)
  <2>1. i \in Ring
    BY <1>0, PlaceType
  <2>2. EntryIs(seenCache[i], window[k])
    BY DEF RingIsWindow
  <2> HIDE DEF i
  <2>3. EntryIs(seenCache'[i], window[k])
    BY <1>1, <2>1, <2>2 DEF EntryIs
  <2>4. QED BY <2>3 DEF i
<1>3. ASSUME NEW i \in Ring, seenCache'[i].valid
      PROVE  \E k \in 1..Len(window) : i = Place(idx, Len(window), k)
  <2>1. seenCache[i].valid
    BY <1>1, <1>3
  <2>2. QED BY <2>1 DEF RingIsWindow
<1>4. QED BY <1>2, <1>3 DEF RingIsWindow

\* A broadcast is dropped exactly if it is in the window.
LEMMA DropIff ==
  ASSUME SeenAssumption, TypeInv, RingIsWindow, NEW f \in Frame
  PROVE  IsFrameSeen(f) <=> Recent(f)
<1>0. /\ seenCache \in [Ring -> SeenEntry] /\ idx \in Ring
      /\ window \in Seq(Handled) /\ Len(window) \in 0..CacheSize
      /\ DOMAIN window = 1..Len(window) /\ Ttl \in Nat
  BY DEF TypeInv, SeenTypeOK, WindowOK, SeenEntry, SeenAssumption
<1>1. ASSUME NEW i \in Live(f)
      PROVE  Recent(f)
  <2>1. i \in Ring /\ seenCache[i].valid /\ seenCache[i].src = f.src /\ seenCache[i].seq = f.seq
        /\ seenCache[i].age < Ttl
    BY DEF Live, Matches
  <2>2. PICK k \in 1..Len(window) : i = Place(idx, Len(window), k)
    BY <2>1 DEF RingIsWindow
  <2>3. EntryIs(seenCache[i], window[k])
    BY <2>2 DEF RingIsWindow
  <2>4. QED BY <1>0, <2>1, <2>3 DEF EntryIs, Recent
<1>2. ASSUME NEW k \in DOMAIN window, window[k].src = f.src, window[k].seq = f.seq,
             window[k].age < Ttl
      PROVE  Live(f) # {}
  <2> DEFINE i == Place(idx, Len(window), k)
  <2>1. i \in Ring
    BY <1>0, PlaceType
  <2>2. EntryIs(seenCache[i], window[k])
    BY <1>0 DEF RingIsWindow
  <2>3. window[k].age \in Nat
    <3>1. window[k] \in Handled
      BY <1>0
    <3>2. QED BY <1>0, <3>1 DEF Handled
  <2> HIDE DEF i
  <2>4. seenCache[i].valid
    <3>1. seenCache[i].valid \in BOOLEAN
      BY <1>0, <2>1 DEF SeenEntry
    <3>2. QED BY <1>0, <1>2, <2>2, <2>3, <3>1 DEF EntryIs
  <2>5. i \in Live(f)
    BY <1>2, <2>1, <2>2, <2>4 DEF EntryIs, Live, Matches
  <2>6. QED BY <2>5
<1>3. QED BY <1>1, <1>2 DEF IsFrameSeen, Recent

\* A broadcast keeps the ring the window, handled or dropped.
LEMMA HandleRing ==
  ASSUME SeenAssumption, TypeInv, RingIsWindow, NEW f \in Frame, HandleBroadcast(f)
  PROVE  RingIsWindow'
<1>0. /\ seenCache \in [Ring -> SeenEntry] /\ idx \in Ring /\ WindowOK
      /\ Len(window) \in 0..CacheSize /\ CacheSize \in Nat \ {0} /\ Ttl \in Nat \ {0}
  BY DEF TypeInv, SeenTypeOK, WindowOK, SeenEntry, SeenAssumption
<1>1. \A i \in Stale(f) \cap Ring : Ttl <= seenCache[i].age
  BY <1>0 DEF Stale, Live, SeenEntry
<1>2. CASE IsFrameSeen(f)
  BY <1>1, <1>2, GiveUpRing DEF HandleBroadcast, AfterSeen
<1>3. CASE ~IsFrameSeen(f)
  <2> DEFINE L == Len(window)
             c == GiveUp(Stale(f))
             e == [src |-> f.src, seq |-> f.seq, age |-> 0, valid |-> TRUE]
             w == [src |-> f.src, seq |-> f.seq, age |-> 0]
  <2>1. /\ seenCache' = [c EXCEPT ![idx] = e]
        /\ idx' = NextIdx(idx)
        /\ window' = After(f)
    BY <1>3 DEF HandleBroadcast, After
  <2>2. c \in [Ring -> SeenEntry]
    BY <1>0, GiveUpType
  <2>3. \A i \in Ring : \/ c[i] = seenCache[i]
                        \/ Ttl <= seenCache[i].age /\ c[i].valid = FALSE
    BY <1>0, <1>1 DEF GiveUp, SeenEntry
  <2>4. EntryIs(e, w)
    BY <1>0 DEF EntryIs
  <2> HIDE DEF c, e, w
  <2>5. seenCache'[idx] = e /\ \A i \in Ring : i # idx => seenCache'[i] = c[i]
    BY <1>0, <2>1, <2>2
  <2>6. ASSUME NEW k \in 1..L
        PROVE  /\ Place(idx, L, k) \in Ring
               /\ EntryIs(c[Place(idx, L, k)], window[k])
    <3>1. Place(idx, L, k) \in Ring
      BY <1>0, PlaceType
    <3>2. EntryIs(seenCache[Place(idx, L, k)], window[k])
      BY DEF RingIsWindow
    <3>3. seenCache[Place(idx, L, k)].valid \in BOOLEAN
      BY <1>0, <3>1 DEF SeenEntry
    <3>4. QED BY <2>3, <3>1, <3>2, <3>3 DEF EntryIs
  <2>7. \A i \in Ring : c[i].valid => \E k \in 1..L : i = Place(idx, L, k)
    BY <2>3 DEF RingIsWindow
  <2>8. CASE L < CacheSize
    <3>1. /\ Len(window') = L + 1 /\ window'[L + 1] = w
          /\ \A k \in 1..L : window'[k] = window[k]
      BY <1>0, <2>1, <2>8, AfterFacts DEF TypeInv, w
    <3>2. /\ \A k \in 1..L : Place(idx', L + 1, k) = Place(idx, L, k)
          /\ Place(idx', L + 1, L + 1) = idx
      BY <1>0, <2>1, <2>8, PlaceNext
    <3>3. ASSUME NEW k \in 1..(L + 1)
          PROVE  EntryIs(seenCache'[Place(idx', L + 1, k)], window'[k])
      <4>1. CASE k = L + 1
        BY <2>4, <2>5, <3>1, <3>2, <4>1
      <4>2. CASE k \in 1..L
        <5>1. Place(idx, L, k) # idx
          BY <1>0, <2>8, <4>2, PlaceFree
        <5>2. QED BY <2>5, <2>6, <3>1, <3>2, <4>2, <5>1
      <4>3. QED BY <1>0, <4>1, <4>2
    <3>4. ASSUME NEW i \in Ring, seenCache'[i].valid
          PROVE  \E k \in 1..(L + 1) : i = Place(idx', L + 1, k)
      <4>1. CASE i = idx
        BY <1>0, <3>2, <4>1
      <4>2. CASE i # idx
        <5>1. PICK k \in 1..L : i = Place(idx, L, k)
          BY <2>5, <2>7, <3>4, <4>2
        <5>2. k \in 1..(L + 1) /\ i = Place(idx', L + 1, k)
          BY <1>0, <3>2, <5>1
        <5>3. QED BY <5>2
      <4>3. QED BY <4>1, <4>2
    <3>5. QED BY <3>1, <3>3, <3>4 DEF RingIsWindow
  <2>9. CASE L = CacheSize
    <3>1. /\ Len(window') = L /\ window'[L] = w
          /\ \A k \in 1..(L - 1) : window'[k] = window[k + 1]
      BY <1>0, <2>1, <2>9, AfterFacts DEF TypeInv, w
    <3>2. /\ \A k \in 1..(L - 1) : Place(idx', L, k) = Place(idx, L, k + 1)
          /\ Place(idx', L, L) = idx
      BY <1>0, <2>1, <2>9, PlaceNext
    <3>3. ASSUME NEW k \in 1..L
          PROVE  EntryIs(seenCache'[Place(idx', L, k)], window'[k])
      <4>1. CASE k = L
        BY <2>4, <2>5, <3>1, <3>2, <4>1
      <4>2. CASE k \in 1..(L - 1)
        <5>1. k + 1 \in 1..L /\ k + 1 # 1
          BY <1>0, <4>2
        <5>2. Place(idx, L, k + 1) # idx
          BY <1>0, <5>1, PlaceFree
        <5>3. QED BY <2>5, <2>6, <3>1, <3>2, <4>2, <5>1, <5>2
      <4>3. QED BY <1>0, <4>1, <4>2
    <3>4. ASSUME NEW i \in Ring, seenCache'[i].valid
          PROVE  \E k \in 1..L : i = Place(idx', L, k)
      <4>1. CASE i = idx
        BY <1>0, <2>9, <3>2, <4>1
      <4>2. CASE i # idx
        <5>1. PICK k \in 1..L : i = Place(idx, L, k)
          BY <2>5, <2>7, <3>4, <4>2
        <5>2. k # 1
          BY <1>0, <2>9, <4>2, <5>1, PlaceFree
        <5>3. k - 1 \in 1..(L - 1) /\ (k - 1) + 1 = k
          BY <1>0, <5>1, <5>2
        <5>4. i = Place(idx', L, k - 1)
          BY <3>2, <5>1, <5>3
        <5>5. QED BY <1>0, <5>3, <5>4
      <4>3. QED BY <4>1, <4>2
    <3>5. QED BY <3>1, <3>3, <3>4 DEF RingIsWindow
  <2>10. QED BY <1>0, <2>8, <2>9
<1>4. QED BY <1>2, <1>3

\* Time passes for the ring and the window together.
LEMMA TickRing ==
  ASSUME SeenAssumption, TypeInv, RingIsWindow, Age
  PROVE  RingIsWindow'
<1>0. /\ seenCache \in [Ring -> SeenEntry] /\ idx \in Ring
      /\ window \in Seq(Handled) /\ Len(window) \in 0..CacheSize
      /\ DOMAIN window = 1..Len(window) /\ Ttl \in Nat
  BY DEF TypeInv, SeenTypeOK, WindowOK, SeenEntry, SeenAssumption
<1>1. \A i \in Ring : /\ seenCache'[i].src = seenCache[i].src /\ seenCache'[i].seq = seenCache[i].seq
                      /\ seenCache'[i].age = Older(seenCache[i].age)
                      /\ seenCache'[i].valid = seenCache[i].valid
  BY <1>0 DEF Age, SeenEntry
<1>2. /\ window' = [k \in 1..Len(window) |-> [window[k] EXCEPT !.age = Older(window[k].age)]]
      /\ idx' = idx
  BY <1>0 DEF Age
<1>3. Len(window') = Len(window)
  BY <1>0, <1>2
<1>4. ASSUME NEW k \in 1..Len(window)
      PROVE  /\ window'[k].src = window[k].src /\ window'[k].seq = window[k].seq
             /\ window'[k].age = Older(window[k].age)
             /\ Ttl <= window[k].age => Ttl <= window'[k].age
  <2>1. window[k] \in Handled
    BY <1>0
  <2>2. window'[k] = [window[k] EXCEPT !.age = Older(window[k].age)]
    BY <1>2
  <2>3. QED BY <1>0, <2>1, <2>2 DEF Handled, Older
<1>5. ASSUME NEW k \in 1..Len(window)
      PROVE  EntryIs(seenCache'[Place(idx, Len(window), k)], window'[k])
  <2> DEFINE i == Place(idx, Len(window), k)
  <2>1. i \in Ring
    BY <1>0, PlaceType
  <2>2. EntryIs(seenCache[i], window[k])
    BY DEF RingIsWindow
  <2> HIDE DEF i
  <2>3. EntryIs(seenCache'[i], window'[k])
    BY <1>1, <1>4, <2>1, <2>2 DEF EntryIs
  <2>4. QED BY <2>3 DEF i
<1>6. QED BY <1>1, <1>2, <1>3, <1>5 DEF RingIsWindow

LEMMA RingStep ==
  ASSUME SeenAssumption, TypeInv, RingIsWindow, [SeenNext]_seenVars
  PROVE  RingIsWindow'
<1>0. /\ seenCache \in [Ring -> SeenEntry] /\ copy \in Frame
      /\ seqCounter \in [Sender -> 0..(Seqs - 1)] /\ Seqs \in Nat \ {0} /\ Ttl \in Nat
  BY DEF TypeInv, SeenTypeOK, SeenEntry, Frame, SeenAssumption
<1>1. ASSUME NEW s \in Sender
      PROVE  [src |-> s, seq |-> NextSeq(s)] \in Frame
  BY <1>0 DEF NextSeq, Frame
<1>2. ASSUME UNCHANGED <<seenCache, idx, window>>
      PROVE  RingIsWindow'
  BY <1>2 DEF RingIsWindow
<1>3. ASSUME NEW s \in Sender, SendBroadcast(s)
      PROVE  RingIsWindow'
  BY <1>1, <1>2, <1>3, HandleRing DEF SendBroadcast
<1>4. CASE RecvCopy
  BY <1>0, <1>4, HandleRing DEF RecvCopy
<1>5. CASE CleanCache
  <2> DEFINE S == {i \in Ring : seenCache[i].age > Ttl}
  <2>1. \A i \in S \cap Ring : seenCache[i].valid => Ttl <= seenCache[i].age
    BY <1>0 DEF SeenEntry
  <2>2. QED BY <1>5, <2>1, GiveUpRing DEF CleanCache
<1>6. CASE Age
  BY <1>6, TickRing
<1>7. QED BY <1>2, <1>3, <1>4, <1>5, <1>6 DEF SeenNext, SendUnicast, Restart, seenVars

\* A copy of a broadcast is dropped exactly as long as the broadcast is recent.
THEOREM SeenDropsTheRecent == SeenSpec => []DropsTheRecent
<1>1. SeenInit => TypeInv
  BY InitType, SeenAssumption
<1>2. SeenInit => RingIsWindow
  BY DEF SeenInit, RingIsWindow, NoEntry
<1>3. TypeInv /\ RingIsWindow /\ [SeenNext]_seenVars => TypeInv' /\ RingIsWindow'
  BY TypeStep, RingStep, SeenAssumption
<1>4. TypeInv /\ RingIsWindow => DropsTheRecent
  BY DropIff, SeenAssumption DEF DropsTheRecent, Frame
<1>5. QED BY <1>1, <1>2, <1>3, <1>4, PTL DEF SeenSpec
================================================================================
