------------------------------ MODULE TableProofs ------------------------------
(* Theorems about PeerTable.tla, for every set of MACs, every hash and every   *)
(* size of the table, and about ServiceDiscovery.tla, for every set of nodes   *)
(* and names and every size of its arrays.                                     *)
EXTENDS PeerTable, ServiceDiscovery, Induction, FiniteSetTheorems, SequenceTheorems, TLAPS

-----------------------------------------------------------------------------
(* Going round the table.                                                   *)

\* How far b is behind a.
Gap(a, b) == (b - a) % Size

Behind(p) == (p + 1) % Size

\* The remainder of a difference of positions, and of a step.
LEMMA GapValue ==
  ASSUME PeerTableAssumption
  PROVE  /\ \A a, b \in Pos : Gap(a, b) = IF a <= b THEN b - a ELSE b - a + Size
         /\ \A p \in Pos : Behind(p) = IF p + 1 = Size THEN 0 ELSE p + 1
<1>0. Size \in Nat \ {0} /\ Pos = 0..(Size - 1)
  BY DEF PeerTableAssumption, Pos
<1>1. ASSUME NEW x \in 0..(Size - 1)
      PROVE  x % Size = x
  BY <1>0, <1>1
<1>2. ASSUME NEW x \in Int, -Size <= x, x < 0
      PROVE  x % Size = x + Size
  <2>1. x + Size \in 0..(Size - 1) /\ x = Size * (-1) + (x + Size)
    BY <1>0, <1>2
  <2>2. QED BY <1>0, <1>2, <2>1
<1>3. ASSUME NEW a \in Pos, NEW b \in Pos
      PROVE  Gap(a, b) = IF a <= b THEN b - a ELSE b - a + Size
  <2>1. a \in 0..(Size - 1) /\ b \in 0..(Size - 1)
    BY <1>0
  <2>2. CASE a <= b
    <3>1. b - a \in 0..(Size - 1)
      BY <1>0, <2>1, <2>2
    <3>2. QED BY <1>1, <2>2, <3>1 DEF Gap
  <2>3. CASE ~(a <= b)
    <3>1. b - a \in Int /\ -Size <= b - a /\ b - a < 0
      BY <1>0, <2>1, <2>3
    <3>2. QED BY <1>2, <2>3, <3>1 DEF Gap
  <2>4. QED BY <2>2, <2>3
<1>4. ASSUME NEW p \in Pos
      PROVE  Behind(p) = IF p + 1 = Size THEN 0 ELSE p + 1
  <2>1. p \in 0..(Size - 1)
    BY <1>0
  <2>2. CASE p + 1 = Size
    <3>1. Size = Size * 1 + 0 /\ Size % Size = 0
      BY <1>0
    <3>2. QED BY <2>2, <3>1 DEF Behind
  <2>3. CASE p + 1 # Size
    <3>1. p + 1 \in 0..(Size - 1)
      BY <1>0, <2>1, <2>3
    <3>2. QED BY <1>1, <2>3, <3>1 DEF Behind
  <2>4. QED BY <2>2, <2>3
<1>5. QED BY <1>3, <1>4

\* What lies between two positions.
LEMMA GapFacts ==
  ASSUME PeerTableAssumption
  PROVE  /\ \A a, b \in Pos : Gap(a, b) \in 0..(Size - 1) /\ Gap(a, a) = 0
         /\ \A a, b, c \in Pos : Gap(a, b) = Gap(a, c) => b = c
         /\ \A p \in Pos : Behind(p) \in Pos
         /\ \A h, c, q, x \in Pos :
                Gap(h, c) < Gap(h, x) /\ Gap(c, q) <= Gap(c, x) /\ q # x => Gap(h, q) < Gap(h, x)
         /\ \A c, q, x \in Pos :
                q # c /\ Gap(c, q) <= Gap(c, x) <=>
                x # c /\ Gap(Behind(c), q) <= Gap(Behind(c), x)
<1>0. Size \in Nat \ {0} /\ Pos = 0..(Size - 1)
  BY DEF PeerTableAssumption, Pos
<1>1. /\ \A a, b \in Pos : Gap(a, b) = IF a <= b THEN b - a ELSE b - a + Size
      /\ \A p \in Pos : Behind(p) = IF p + 1 = Size THEN 0 ELSE p + 1
  BY GapValue
<1>2. \A p \in Pos : Behind(p) \in Pos
  BY <1>0, <1>1
<1>3. ASSUME NEW a \in Pos, NEW b \in Pos
      PROVE  Gap(a, b) \in 0..(Size - 1) /\ Gap(a, a) = 0
  <2>1. /\ Gap(a, b) = (IF a <= b THEN b - a ELSE b - a + Size)
        /\ Gap(a, a) = (IF a <= a THEN a - a ELSE a - a + Size)
    BY <1>1
  <2>2. QED BY <1>0, <2>1
<1>4. ASSUME NEW a \in Pos, NEW b \in Pos, NEW c \in Pos, Gap(a, b) = Gap(a, c)
      PROVE  b = c
  <2>1. /\ Gap(a, b) = (IF a <= b THEN b - a ELSE b - a + Size)
        /\ Gap(a, c) = (IF a <= c THEN c - a ELSE c - a + Size)
    BY <1>1
  <2> HIDE DEF Gap
  <2>2. (IF a <= b THEN b - a ELSE b - a + Size) = (IF a <= c THEN c - a ELSE c - a + Size)
    BY <1>4, <2>1, Zenon
  <2>3. a \in 0..(Size - 1) /\ b \in 0..(Size - 1) /\ c \in 0..(Size - 1)
    BY <1>0
  <2>4. CASE a <= b /\ a <= c
    BY <1>0, <2>2, <2>3, <2>4
  <2>5. CASE a <= b /\ ~(a <= c)
    BY <1>0, <2>2, <2>3, <2>5
  <2>6. CASE ~(a <= b) /\ a <= c
    BY <1>0, <2>2, <2>3, <2>6
  <2>7. CASE ~(a <= b) /\ ~(a <= c)
    BY <1>0, <2>2, <2>3, <2>7
  <2>8. QED BY <2>4, <2>5, <2>6, <2>7
<1>5. ASSUME NEW h \in Pos, NEW c \in Pos, NEW q \in Pos, NEW x \in Pos,
             Gap(h, c) < Gap(h, x), Gap(c, q) <= Gap(c, x), q # x
      PROVE  Gap(h, q) < Gap(h, x)
  <2>1. /\ Gap(h, c) = (IF h <= c THEN c - h ELSE c - h + Size)
        /\ Gap(h, x) = (IF h <= x THEN x - h ELSE x - h + Size)
        /\ Gap(h, q) = (IF h <= q THEN q - h ELSE q - h + Size)
        /\ Gap(c, q) = (IF c <= q THEN q - c ELSE q - c + Size)
        /\ Gap(c, x) = (IF c <= x THEN x - c ELSE x - c + Size)
    BY <1>1
  <2>2. QED BY <1>0, <1>5, <2>1
<1>6. ASSUME NEW c \in Pos, NEW q \in Pos, NEW x \in Pos
      PROVE  q # c /\ Gap(c, q) <= Gap(c, x) <=>
             x # c /\ Gap(Behind(c), q) <= Gap(Behind(c), x)
  <2>1. Behind(c) = (IF c + 1 = Size THEN 0 ELSE c + 1) /\ Behind(c) \in Pos
    BY <1>1, <1>2
  <2>2. /\ Gap(c, q) = (IF c <= q THEN q - c ELSE q - c + Size)
        /\ Gap(c, x) = (IF c <= x THEN x - c ELSE x - c + Size)
        /\ Gap(Behind(c), q) = (IF Behind(c) <= q THEN q - Behind(c) ELSE q - Behind(c) + Size)
        /\ Gap(Behind(c), x) = (IF Behind(c) <= x THEN x - Behind(c) ELSE x - Behind(c) + Size)
    BY <1>1, <2>1
  <2>3. QED BY <1>0, <2>1, <2>2, SMTT(60)
<1>7. QED BY <1>2, <1>3, <1>4, <1>5, <1>6

\* A remainder is what is left of a multiple.
LEMMA Remainder ==
  ASSUME NEW n \in Nat \ {0}, NEW a \in Int, NEW q \in Int, NEW r \in 0..(n - 1), a = n * q + r
  PROVE  a % n = r
OBVIOUS

\* A remainder may be taken of a part of a sum first.
LEMMA RemainderOfSum ==
  ASSUME NEW n \in Nat \ {0}, NEW a \in Int, NEW b \in Int
  PROVE  ((a % n) + b) % n = (a + b) % n
<1>1. a = n * (a \div n) + (a % n) /\ a % n \in 0..(n - 1) /\ a \div n \in Int
  OBVIOUS
<1> DEFINE c == (a % n) + b
<1>2. c = n * (c \div n) + (c % n) /\ c % n \in 0..(n - 1) /\ c \div n \in Int /\ c \in Int
  BY <1>1
<1>3. a + b = n * ((a \div n) + (c \div n)) + (c % n)
  <2>1. n * ((a \div n) + (c \div n)) = n * (a \div n) + n * (c \div n)
    BY <1>1, <1>2
  <2>2. QED BY <1>1, <1>2, <2>1
<1> DEFINE q == (a \div n) + (c \div n)
           r == c % n
<1>4. q \in Int /\ r \in 0..(n - 1) /\ a + b \in Int /\ a + b = n * q + r
  BY <1>1, <1>2, <1>3
<1> HIDE DEF c, q, r
<1>5. (a + b) % n = r
  BY <1>4, Remainder
<1>6. QED BY <1>5 DEF c, r

\* The positions met one after the other from p on.
LEMMA RoundFacts ==
  ASSUME PeerTableAssumption, NEW p \in Pos
  PROVE  /\ (p + 0) % Size = p
         /\ \A k \in Nat : (p + k) % Size \in Pos
         /\ \A k \in Nat : Behind((p + k) % Size) = (p + (k + 1)) % Size
         /\ \A k \in Nat : (p + (k + Size)) % Size = (p + k) % Size
         /\ \A n \in Nat : \A f \in Pos : Gap(f, (p + n) % Size) <= n =>
                (p + (n - Gap(f, (p + n) % Size))) % Size = f
<1>0. Size \in Nat \ {0} /\ Pos = 0..(Size - 1) /\ p \in Int
  BY DEF PeerTableAssumption, Pos
<1>1. \A x \in Pos : x % Size = x
  <2>1. ASSUME NEW x \in 0..(Size - 1)
        PROVE  x % Size = x
    BY <1>0
  <2>2. QED BY <1>0, <2>1
<1>2. \A k \in Nat : (p + k) % Size \in Pos
  BY <1>0
<1>3. ASSUME NEW k \in Nat
      PROVE  Behind((p + k) % Size) = (p + (k + 1)) % Size
  <2>1. (((p + k) % Size) + 1) % Size = ((p + k) + 1) % Size
    <3>1. p + k \in Int /\ 1 \in Int
      BY <1>0
    <3>2. QED BY <1>0, <3>1, RemainderOfSum
  <2>2. (p + k) + 1 = p + (k + 1)
    BY <1>0
  <2>3. QED BY <2>1, <2>2 DEF Behind
<1>4. ASSUME NEW a \in Int
      PROVE  (a + Size) % Size = a % Size
  <2>1. a = Size * (a \div Size) + (a % Size) /\ a % Size \in 0..(Size - 1) /\ a \div Size \in Int
    BY <1>0
  <2> DEFINE q == (a \div Size) + 1
             r == a % Size
  <2>2. q \in Int /\ r \in 0..(Size - 1) /\ a + Size \in Int /\ a + Size = Size * q + r
    <3>1. Size * ((a \div Size) + 1) = Size * (a \div Size) + Size
      BY <1>0, <2>1
    <3>2. QED BY <1>0, <2>1, <3>1
  <2> HIDE DEF q, r
  <2>3. (a + Size) % Size = r
    BY <1>0, <2>2, Remainder
  <2>4. QED BY <2>3 DEF r
<1>5. ASSUME NEW k \in Nat
      PROVE  (p + (k + Size)) % Size = (p + k) % Size
  <2>1. p + k \in Int /\ p + (k + Size) = (p + k) + Size
    BY <1>0
  <2>2. QED BY <1>4, <2>1
<1>6. ASSUME NEW n \in Nat, NEW f \in Pos, Gap(f, (p + n) % Size) <= n
      PROVE  (p + (n - Gap(f, (p + n) % Size))) % Size = f
  <2> DEFINE c == (p + n) % Size
             d == Gap(f, c)
  <2>1. c \in Pos /\ d \in Int /\ f \in Int /\ d = IF f <= c THEN c - f ELSE c - f + Size
    <3>1. c \in Pos
      BY <1>2
    <3> HIDE DEF c
    <3>2. d = (IF f <= c THEN c - f ELSE c - f + Size) /\ d \in 0..(Size - 1)
      BY <3>1, GapValue, GapFacts
    <3>3. QED BY <1>0, <3>1, <3>2
  <2> HIDE DEF d
  <2>2. (f + d) % Size = c
    <3> HIDE DEF c
    <3>1. CASE f <= c
      <4>1. f + d = c
        BY <1>0, <2>1, <3>1
      <4>2. QED BY <1>1, <2>1, <4>1
    <3>2. CASE ~(f <= c)
      <4>1. f + d = c + Size /\ c \in Int
        BY <1>0, <2>1, <3>2
      <4>2. QED BY <1>1, <1>4, <2>1, <4>1
    <3>3. QED BY <3>1, <3>2
  <2>3. (((f + d) % Size) + (-d)) % Size = f
    <3>1. f + d \in Int /\ -d \in Int /\ (f + d) + (-d) = f
      BY <2>1
    <3>2. (((f + d) % Size) + (-d)) % Size = ((f + d) + (-d)) % Size
      BY <1>0, <3>1, RemainderOfSum
    <3>3. QED BY <1>1, <3>1, <3>2
  <2>4. (((p + n) % Size) + (-d)) % Size = (p + (n - d)) % Size
    <3>1. p + n \in Int /\ -d \in Int /\ (p + n) + (-d) = p + (n - d)
      BY <1>0, <2>1
    <3>2. (((p + n) % Size) + (-d)) % Size = ((p + n) + (-d)) % Size
      BY <1>0, <3>1, RemainderOfSum
    <3>3. QED BY <3>1, <3>2
  <2>5. (p + (n - d)) % Size = f
    BY <2>2, <2>3, <2>4
  <2>6. QED BY <2>5 DEF d
<1>7. (p + 0) % Size = p
  <2>1. p + 0 = p
    BY <1>0
  <2>2. QED BY <1>1, <2>1
<1>8. QED BY <1>2, <1>3, <1>5, <1>6, <1>7

-----------------------------------------------------------------------------
(* Tables in which every peer is found.                                     *)

Slots == Entries \cup {NoEntry}
Tables == [Pos -> Slots]

\* What is in a table.
Held(t) == {t[p] : p \in {q \in Pos : Valid(t, q)}}

\* The entry at x is met before a free position.
Reached(t, x) == \A q \in Pos : Distance(t[x].mac, q) < Distance(t[x].mac, x) => Valid(t, q)

\* No peer is there twice.
Single(t) == \A p, q \in Pos : Valid(t, p) /\ t[p].mac = t[q].mac => p = q

Sound(t) == Single(t) /\ \A x \in Pos : Valid(t, x) => Reached(t, x)

\* The positions from c to the next that is free.
Ahead(t, c) == {x \in Pos : \A q \in Pos : Gap(c, q) <= Gap(c, x) => Valid(t, q)}

\* Only peers from c on, up to the next free position, may not be reached.
SoundBut(t, c) == Single(t) /\ \A x \in Pos : Valid(t, x) => x \in Ahead(t, c) \/ Reached(t, x)

\* The entry at c goes to f.
Moved(t, c, f) == [p \in Pos |-> IF p = f THEN t[c] ELSE IF p = c THEN NoEntry ELSE t[p]]

LEMMA EntryFacts ==
  ASSUME PeerTableAssumption
  PROVE  /\ \A m \in Mac : Home(m) \in Pos /\ m # NoMac
         /\ \A e \in Entries : e.mac \in Mac /\ e # NoEntry
         /\ NoEntry.mac = NoMac
         /\ \A t \in Tables : \A p \in Pos : t[p] \in Slots /\ (Valid(t, p) <=> t[p] \in Entries)
<1>1. ASSUME NEW m \in Mac
      PROVE  Home(m) \in Pos /\ m # NoMac
  <2>1. Hash[m] \in Nat /\ Size \in Nat \ {0} /\ m # NoMac
    BY DEF PeerTableAssumption
  <2>2. QED BY <2>1 DEF Home, Pos
<1>2. NoEntry.mac = NoMac
  BY DEF NoEntry
<1>3. \A e \in Entries : e.mac \in Mac /\ e # NoEntry
  <2>1. \A e \in Entries : e.mac \in Mac
    BY DEF Entries
  <2>2. QED BY <1>1, <1>2, <2>1
<1>4. ASSUME NEW t \in Tables, NEW p \in Pos
      PROVE  t[p] \in Slots /\ (Valid(t, p) <=> t[p] \in Entries)
  <2>1. t[p] \in Slots
    BY DEF Tables
  <2>2. QED BY <1>1, <1>2, <1>3, <2>1 DEF Valid, Slots
<1>5. QED BY <1>1, <1>2, <1>3, <1>4

\* Where there is a free position, an entry goes to the first.
LEMMA FirstFree ==
  ASSUME PeerTableAssumption, NEW t, NEW m \in Mac, \E q \in Pos : ~Valid(t, q)
  PROVE  \E f \in Pos :
            /\ ~Valid(t, f) /\ Free(t, m) = {f}
            /\ \A q \in Pos : Distance(m, q) < Distance(m, f) => Valid(t, q)
            /\ \A q \in Pos : ~Valid(t, q) => Distance(m, f) <= Distance(m, q)
            /\ \A e : Insert(t, m, e) = [t EXCEPT ![f] = e]
<1>0. Home(m) \in Pos /\ \A q \in Pos : Distance(m, q) = Gap(Home(m), q) /\ Distance(m, q) \in Nat
  <2>1. Home(m) \in Pos
    BY EntryFacts
  <2>2. \A q \in Pos : Gap(Home(m), q) \in 0..(Size - 1)
    BY <2>1, GapFacts
  <2>3. QED BY <2>1, <2>2 DEF Distance, Gap
<1> DEFINE S == {Distance(m, q) : q \in {p \in Pos : ~Valid(t, p)}}
<1>1. S \in SUBSET Nat /\ S # {}
  BY <1>0
<1>2. PICK n \in S : \A k \in S : n <= k
  <2> HIDE DEF S
  <2>1. QED BY <1>1, Least
<1>3. PICK f \in Pos : ~Valid(t, f) /\ n = Distance(m, f)
  BY <1>2
<1>4. \A q \in Pos : ~Valid(t, q) => Distance(m, f) <= Distance(m, q)
  BY <1>2, <1>3
<1>5. \A q \in Pos : Distance(m, q) < Distance(m, f) => Valid(t, q)
  BY <1>0, <1>4
<1>6. Free(t, m) = {f}
  <2>1. f \in Free(t, m)
    BY <1>3, <1>5 DEF Free, Before
  <2>2. ASSUME NEW p \in Free(t, m)
        PROVE  p = f
    <3>1. p \in Pos /\ ~Valid(t, p) /\ ~(Distance(m, f) < Distance(m, p))
      BY <1>3, <2>2 DEF Free, Before
    <3>2. Distance(m, p) = Distance(m, f)
      BY <1>0, <1>4, <3>1
    <3>3. Gap(Home(m), p) = Gap(Home(m), f)
      BY <1>0, <3>1, <3>2
    <3>4. QED BY <1>0, <3>1, <3>3, GapFacts
  <2>3. QED BY <2>1, <2>2
<1>7. \A e : Insert(t, m, e) = [t EXCEPT ![f] = e]
  <2>1. (CHOOSE p \in {f} : TRUE) = f
    OBVIOUS
  <2>2. QED BY <1>6, <2>1 DEF Insert
<1>8. QED BY <1>3, <1>4, <1>5, <1>6, <1>7

\* Taken out of the table and put in again, an entry stays, or goes to a position
\* that is free and met earlier.
LEMMA Reinserted ==
  ASSUME PeerTableAssumption, NEW t \in Tables, NEW c \in Pos, Valid(t, c)
  PROVE  \E f \in Pos :
            /\ Insert([t EXCEPT ![c] = NoEntry], t[c].mac, t[c]) = Moved(t, c, f)
            /\ f # c => ~Valid(t, f) /\ Distance(t[c].mac, f) < Distance(t[c].mac, c)
            /\ \A q \in Pos : Distance(t[c].mac, q) < Distance(t[c].mac, f) => Valid(t, q)
<1> DEFINE u == [t EXCEPT ![c] = NoEntry]
           m == t[c].mac
<1>1. /\ m \in Mac /\ t \in [Pos -> Slots]
      /\ u = [p \in Pos |-> IF p = c THEN NoEntry ELSE t[p]]
      /\ Home(m) \in Pos
  BY EntryFacts DEF Tables
<1>2. /\ ~Valid(u, c)
      /\ \A q \in Pos : q # c => (Valid(u, q) <=> Valid(t, q))
  BY <1>1, EntryFacts DEF Valid
<1> HIDE DEF u, m
<1>3. PICK f \in Pos :
          /\ ~Valid(u, f)
          /\ \A q \in Pos : Distance(m, q) < Distance(m, f) => Valid(u, q)
          /\ \A q \in Pos : ~Valid(u, q) => Distance(m, f) <= Distance(m, q)
          /\ Insert(u, m, t[c]) = [u EXCEPT ![f] = t[c]]
  <2>1. m \in Mac /\ \E q \in Pos : ~Valid(u, q)
    BY <1>1, <1>2
  <2>2. QED BY <2>1, FirstFree, ZenonT(60)
<1>4. Distance(m, f) <= Distance(m, c)
  BY <1>2, <1>3
<1>5. f # c => ~Valid(t, f) /\ Distance(m, f) < Distance(m, c)
  <2> SUFFICES ASSUME f # c
               PROVE  ~Valid(t, f) /\ Distance(m, f) < Distance(m, c)
    OBVIOUS
  <2>1. Gap(Home(m), f) # Gap(Home(m), c) /\ Gap(Home(m), f) \in Int /\ Gap(Home(m), c) \in Int
    BY <1>1, GapFacts
  <2>2. QED BY <1>2, <1>3, <1>4, <2>1 DEF Distance, Gap
<1>6. \A q \in Pos : Distance(m, q) < Distance(m, f) => Valid(t, q)
  <2>1. \A q \in Pos : Valid(u, q) => Valid(t, q)
    BY <1>2
  <2>2. QED BY <1>3, <2>1
<1>7. [u EXCEPT ![f] = t[c]] = Moved(t, c, f)
  BY <1>1 DEF Moved
<1>8. Insert(u, m, t[c]) = Moved(t, c, f)
  BY <1>3, <1>7, Zenon
<1> DEFINE Good(g) ==
        /\ Insert(u, m, t[c]) = Moved(t, c, g)
        /\ g # c => ~Valid(t, g) /\ Distance(m, g) < Distance(m, c)
        /\ \A q \in Pos : Distance(m, q) < Distance(m, g) => Valid(t, q)
<1>9. Good(f)
  BY <1>5, <1>6, <1>8, Zenon
<1>10. \E g \in Pos : Good(g)
  BY <1>9
<1>11. QED BY <1>10, Zenon DEF u, m
\* What a move to a free position leaves as it was.
LEMMA MoveKeeps ==
  ASSUME PeerTableAssumption, NEW t \in Tables, NEW c \in Pos, NEW f \in Pos, Valid(t, c),
         f # c => ~Valid(t, f)
  PROVE  /\ Moved(t, c, f) \in Tables
         /\ \A q \in Pos : Moved(t, c, f)[q] = IF q = f THEN t[c] ELSE IF q = c THEN NoEntry ELSE t[q]
         /\ \A q \in Pos : Valid(Moved(t, c, f), q) <=> q = f \/ (q # c /\ Valid(t, q))
         /\ Held(Moved(t, c, f)) = Held(t)
         /\ Single(t) => Single(Moved(t, c, f))
<1> DEFINE u == Moved(t, c, f)
<1>1. /\ \A q \in Pos : u[q] = IF q = f THEN t[c] ELSE IF q = c THEN NoEntry ELSE t[q]
      /\ u = [q \in Pos |-> u[q]]
  BY DEF Moved
<1>2. NoEntry \in Slots /\ \A q \in Pos : t[q] \in Slots
  BY DEF Tables, Slots
<1> HIDE DEF u
<1>3. u \in Tables
  <2>1. \A q \in Pos : u[q] \in Slots
    BY <1>1, <1>2
  <2>2. QED BY <1>1, <2>1 DEF Tables
<1>4. \A q \in Pos : Valid(u, q) <=> q = f \/ (q # c /\ Valid(t, q))
  <2> SUFFICES ASSUME NEW q \in Pos
               PROVE  Valid(u, q) <=> q = f \/ (q # c /\ Valid(t, q))
    OBVIOUS
  <2>1. u[q] = IF q = f THEN t[c] ELSE IF q = c THEN NoEntry ELSE t[q]
    BY <1>1
  <2>2. NoEntry.mac = NoMac /\ t[c].mac # NoMac
    BY EntryFacts DEF Valid
  <2>3. QED BY <2>1, <2>2, Zenon DEF Valid
<1>5. Held(u) = Held(t)
  <2>1. ASSUME NEW q \in Pos, Valid(u, q)
        PROVE  \E p \in Pos : Valid(t, p) /\ t[p] = u[q]
    BY <1>1, <1>4, <2>1
  <2>2. ASSUME NEW p \in Pos, Valid(t, p)
        PROVE  \E q \in Pos : Valid(u, q) /\ u[q] = t[p]
    <3>1. CASE p = c
      <4>1. Valid(u, f) /\ u[f] = t[c]
        BY <1>1, <1>4
      <4>2. QED BY <3>1, <4>1
    <3>2. CASE p # c
      BY <1>1, <1>4, <2>2, <3>2
    <3>3. QED BY <3>1, <3>2
  <2>3. QED BY <2>1, <2>2 DEF Held
<1>6. ASSUME Single(t)
      PROVE  Single(u)
  <2> SUFFICES ASSUME NEW p \in Pos, NEW q \in Pos, Valid(u, p), u[p].mac = u[q].mac
               PROVE  p = q
    BY DEF Single
  <2>1. Valid(u, q)
    BY DEF Valid
  <2>2. \A x, y \in Pos : Valid(t, x) /\ t[x].mac = t[y].mac => x = y
    BY <1>6 DEF Single
  <2>3. QED BY <1>1, <1>4, <2>1, <2>2
<1>7. QED BY <1>1, <1>3, <1>4, <1>5, <1>6 DEF u

-----------------------------------------------------------------------------
(* The loop of removePeer.                                                  *)

\* One iteration at a valid position: what was taken out and put in again is
\* found, and what it may hide comes later.
LEMMA RehashStep ==
  ASSUME PeerTableAssumption, NEW t \in Tables, NEW c \in Pos, NEW f \in Pos, Valid(t, c),
         SoundBut(t, c), f # c => ~Valid(t, f) /\ Distance(t[c].mac, f) < Distance(t[c].mac, c),
         \A q \in Pos : Distance(t[c].mac, q) < Distance(t[c].mac, f) => Valid(t, q)
  PROVE  SoundBut(Moved(t, c, f), Behind(c))
<1> DEFINE u == Moved(t, c, f)
<1>1. /\ u \in Tables
      /\ \A q \in Pos : u[q] = IF q = f THEN t[c] ELSE IF q = c THEN NoEntry ELSE t[q]
      /\ \A q \in Pos : Valid(u, q) <=> q = f \/ (q # c /\ Valid(t, q))
      /\ Single(u)
  BY MoveKeeps DEF SoundBut
<1> HIDE DEF u
<1>2. \A q, x \in Pos : q # c /\ Gap(c, q) <= Gap(c, x) <=>
                        x # c /\ Gap(Behind(c), q) <= Gap(Behind(c), x)
  BY GapFacts
<1>3. ASSUME NEW x \in Pos, x # c, Valid(u, x),
             \A q \in Pos : Gap(c, q) <= Gap(c, x) => Valid(t, q)
      PROVE  x \in Ahead(u, Behind(c))
  <2> SUFFICES ASSUME NEW q \in Pos, Gap(Behind(c), q) <= Gap(Behind(c), x)
               PROVE  Valid(u, q)
    BY DEF Ahead
  <2>1. q # c /\ Gap(c, q) <= Gap(c, x)
    BY <1>2, <1>3
  <2>2. QED BY <1>1, <1>3, <2>1
<1>4. ASSUME NEW x \in Pos, Valid(u, x), x # f
      PROVE  x \in Ahead(u, Behind(c)) \/ Reached(u, x)
  <2>1. x # c /\ Valid(t, x) /\ u[x] = t[x]
    BY <1>1, <1>4
  <2>2. CASE x \in Ahead(t, c)
    BY <1>3, <1>4, <2>1, <2>2 DEF Ahead
  <2>3. CASE Reached(t, x) /\ ~(Distance(t[x].mac, c) < Distance(t[x].mac, x))
    BY <1>1, <2>1, <2>3 DEF Reached
  <2>4. CASE Reached(t, x) /\ Distance(t[x].mac, c) < Distance(t[x].mac, x)
    <3> DEFINE h == Home(t[x].mac)
    <3>1. h \in Pos /\ \A q \in Pos : Distance(t[x].mac, q) = Gap(h, q)
      BY <2>1, EntryFacts DEF Distance, Gap
    <3> HIDE DEF h
    <3>2. ASSUME NEW q \in Pos, Gap(c, q) <= Gap(c, x)
          PROVE  Valid(t, q)
      <4>1. q # x => Gap(h, q) < Gap(h, x)
        BY <2>4, <3>1, <3>2, GapFacts
      <4>2. QED BY <2>1, <2>4, <3>1, <4>1 DEF Reached
    <3>3. QED BY <1>3, <1>4, <2>1, <3>2
  <2>5. QED BY <2>1, <2>2, <2>3, <2>4 DEF SoundBut
<1>5. ASSUME Valid(u, f)
      PROVE  Reached(u, f)
  <2>1. Distance(t[c].mac, c) \in Int /\ Distance(t[c].mac, f) \in Int
    <3>1. Home(t[c].mac) \in Pos
      BY EntryFacts
    <3>2. QED BY <3>1, GapFacts DEF Distance, Gap
  <2>2. ~(Distance(t[c].mac, c) < Distance(t[c].mac, f))
    BY <2>1
  <2>3. QED BY <1>1, <2>2 DEF Reached
<1>6. QED BY <1>1, <1>4, <1>5 DEF SoundBut, u
\* Before the loop: an entry is gone, and what it stood in front of is ahead.
LEMMA RemovalStart ==
  ASSUME PeerTableAssumption, NEW t \in Tables, NEW p \in Pos, Valid(t, p), Sound(t)
  PROVE  /\ [t EXCEPT ![p] = NoEntry] \in Tables
         /\ ~Valid([t EXCEPT ![p] = NoEntry], p)
         /\ SoundBut([t EXCEPT ![p] = NoEntry], Behind(p))
         /\ Held([t EXCEPT ![p] = NoEntry]) = Held(t) \ {t[p]}
<1> DEFINE u == [t EXCEPT ![p] = NoEntry]
<1>1. /\ u \in Tables /\ \A q \in Pos : u[q] = IF q = p THEN NoEntry ELSE t[q]
      /\ ~Valid(u, p)
      /\ \A q \in Pos : q # p => (Valid(u, q) <=> Valid(t, q))
  <2>1. t \in [Pos -> Slots] /\ NoEntry \in Slots /\ NoEntry.mac = NoMac
    BY EntryFacts DEF Tables, Slots
  <2>2. u \in [Pos -> Slots] /\ \A q \in Pos : u[q] = IF q = p THEN NoEntry ELSE t[q]
    BY <2>1
  <2> HIDE DEF u
  <2>3. QED BY <2>1, <2>2 DEF Valid, Tables
<1> HIDE DEF u
<1>2. Single(t) /\ \A x \in Pos : Valid(t, x) => Reached(t, x)
  BY DEF Sound
<1>3. \A q, x \in Pos : q # p /\ Gap(p, q) <= Gap(p, x) <=>
                        x # p /\ Gap(Behind(p), q) <= Gap(Behind(p), x)
  BY GapFacts
<1>4. ASSUME NEW x \in Pos, Valid(u, x)
      PROVE  x \in Ahead(u, Behind(p)) \/ Reached(u, x)
  <2>1. x # p /\ Valid(t, x) /\ u[x] = t[x] /\ Reached(t, x)
    BY <1>1, <1>2, <1>4
  <2>2. CASE ~(Distance(t[x].mac, p) < Distance(t[x].mac, x))
    BY <1>1, <2>1, <2>2 DEF Reached
  <2>3. CASE Distance(t[x].mac, p) < Distance(t[x].mac, x)
    <3> DEFINE h == Home(t[x].mac)
    <3>1. h \in Pos /\ \A q \in Pos : Distance(t[x].mac, q) = Gap(h, q)
      BY <2>1, EntryFacts DEF Distance, Gap
    <3> HIDE DEF h
    <3> SUFFICES ASSUME NEW q \in Pos, Gap(Behind(p), q) <= Gap(Behind(p), x)
                 PROVE  Valid(u, q)
      BY DEF Ahead
    <3>2. q # p /\ Gap(p, q) <= Gap(p, x)
      BY <1>3, <2>1
    <3>3. q # x => Gap(h, q) < Gap(h, x)
      BY <2>3, <3>1, <3>2, GapFacts
    <3>4. QED BY <1>1, <1>4, <2>1, <3>1, <3>2, <3>3 DEF Reached
  <2>4. QED BY <2>2, <2>3
<1>5. Single(u)
  <2> SUFFICES ASSUME NEW x \in Pos, NEW y \in Pos, Valid(u, x), u[x].mac = u[y].mac
               PROVE  x = y
    BY DEF Single
  <2>1. Valid(u, y)
    BY DEF Valid
  <2>2. QED BY <1>1, <1>2, <2>1 DEF Single
<1>6. Held(u) = Held(t) \ {t[p]}
  <2>1. ASSUME NEW q \in Pos, q # p, Valid(t, q)
        PROVE  t[q] # t[p]
    BY <1>2, <2>1 DEF Single
  <2>2. ASSUME NEW q \in Pos, Valid(u, q)
        PROVE  u[q] \in Held(t) \ {t[p]}
    BY <1>1, <2>1, <2>2 DEF Held
  <2>3. ASSUME NEW q \in Pos, Valid(t, q), t[q] # t[p]
        PROVE  Valid(u, q) /\ t[q] = u[q]
    <3>1. q # p
      BY <2>3
    <3>2. QED BY <1>1, <2>3, <3>1
  <2>4. QED BY <2>2, <2>3 DEF Held
<1>7. QED BY <1>1, <1>4, <1>5, <1>6 DEF SoundBut, u

\* After the loop: at a free position nothing is ahead.
LEMMA RemovalEnd ==
  ASSUME PeerTableAssumption, NEW t, NEW c \in Pos, ~Valid(t, c), SoundBut(t, c)
  PROVE  Sound(t)
<1>1. \A x \in Pos : Gap(c, c) <= Gap(c, x)
  BY GapFacts
<1>2. \A x \in Pos : x \notin Ahead(t, c)
  BY <1>1 DEF Ahead
<1>3. QED BY <1>2 DEF SoundBut, Sound

\* How far the entries are from home, in all.
Lag(t) == {x \in Held(t) \X (0..(Size - 2)) :
             \E q \in Pos : t[q] = x[1] /\ x[2] < Distance(x[1].mac, q)}

LEMMA LagBound ==
  ASSUME PeerTableAssumption, NEW t
  PROVE  /\ IsFiniteSet(Lag(t)) /\ Cardinality(Lag(t)) \in Nat
         /\ Cardinality(Lag(t)) <= Size * (Size - 1)
<1>0. Size \in Nat \ {0} /\ Pos = 0..(Size - 1)
  BY DEF PeerTableAssumption, Pos
<1>1. IsFiniteSet(Pos) /\ Cardinality(Pos) = Size
  BY <1>0, FS_Interval
<1> DEFINE V == {q \in Pos : Valid(t, q)}
           D == 0..(Size - 2)
<1>2. IsFiniteSet(V) /\ Cardinality(V) \in Nat /\ Cardinality(V) <= Size
  <2>1. V \in SUBSET Pos
    OBVIOUS
  <2>2. QED BY <1>1, <2>1, FS_Subset, FS_CardinalityType
<1>3. IsFiniteSet(Held(t)) /\ Cardinality(Held(t)) \in Nat /\ Cardinality(Held(t)) <= Size
  <2>1. [q \in V |-> t[q]] \in Surjection(V, Held(t))
    BY DEF Held, Surjection
  <2>2. IsFiniteSet(Held(t)) /\ Cardinality(Held(t)) <= Cardinality(V)
    <3> HIDE DEF V
    <3>1. QED BY <1>2, <2>1, FS_Surjection
  <2>3. Cardinality(Held(t)) \in Nat
    BY <2>2, FS_CardinalityType
  <2> HIDE DEF V
  <2>4. QED BY <1>0, <1>2, <2>2, <2>3
<1>4. IsFiniteSet(D) /\ Cardinality(D) = Size - 1
  <2>1. 0 \in Int /\ Size - 2 \in Int
    BY <1>0
  <2>2. IsFiniteSet(D) /\ Cardinality(D) = IF 0 > Size - 2 THEN 0 ELSE (Size - 2) - 0 + 1
    BY <2>1, FS_Interval
  <2>3. QED BY <1>0, <2>2
<1>5. IsFiniteSet(Held(t) \X D) /\ Cardinality(Held(t) \X D) = Cardinality(Held(t)) * (Size - 1)
  BY <1>3, <1>4, FS_Product
<1>6. Cardinality(Held(t)) * (Size - 1) <= Size * (Size - 1)
  <2> DEFINE n == Cardinality(Held(t))
  <2>1. n \in Nat /\ n <= Size
    BY <1>3
  <2> HIDE DEF n
  <2>2. Size - n \in Nat /\ Size - 1 \in Nat
    BY <1>0, <2>1
  <2>3. (Size - n) * (Size - 1) \in Nat
    BY <2>2
  <2>4. (Size - n) * (Size - 1) = Size * (Size - 1) - n * (Size - 1)
    BY <1>0, <2>1
  <2>5. n * (Size - 1) \in Int /\ Size * (Size - 1) \in Int
    BY <1>0, <2>1
  <2>6. n * (Size - 1) <= Size * (Size - 1)
    BY <2>3, <2>4, <2>5
  <2>7. QED BY <2>6 DEF n
<1>7. Lag(t) \in SUBSET (Held(t) \X D)
  BY DEF Lag
<1>8. IsFiniteSet(Lag(t)) /\ Cardinality(Lag(t)) <= Cardinality(Held(t) \X D)
  <2> HIDE DEF D
  <2>1. QED BY <1>5, <1>7, FS_Subset
<1>9. Cardinality(Lag(t)) \in Nat
  BY <1>8, FS_CardinalityType
<1>10. Cardinality(Held(t)) * (Size - 1) \in Int /\ Size * (Size - 1) \in Int
  BY <1>0, <1>3
<1>11. QED BY <1>5, <1>6, <1>8, <1>9, <1>10
\* A move takes the entry as many steps nearer home as it goes back.
LEMMA LagDrops ==
  ASSUME PeerTableAssumption, NEW t \in Tables, NEW c \in Pos, NEW f \in Pos, Valid(t, c),
         Single(t), ~Valid(t, f), Distance(t[c].mac, f) < Distance(t[c].mac, c)
  PROVE  Cardinality(Lag(Moved(t, c, f))) + Gap(f, c) <= Cardinality(Lag(t))
<1> DEFINE u == Moved(t, c, f)
           e == t[c]
           a == Distance(e.mac, f)
           b == Distance(e.mac, c)
           R == {e} \X (a..(b - 1))
<1>0. Size \in Nat \ {0} /\ Pos = 0..(Size - 1)
  BY DEF PeerTableAssumption, Pos
<1>1. /\ \A q \in Pos : u[q] = IF q = f THEN e ELSE IF q = c THEN NoEntry ELSE t[q]
      /\ Held(u) = Held(t) /\ f # c
  BY MoveKeeps
<1>2. /\ a \in 0..(Size - 1) /\ b \in 0..(Size - 1) /\ a < b /\ Gap(f, c) = b - a
      /\ e \in Entries /\ e \in Held(t)
  <2> DEFINE h == Home(e.mac)
  <2>1. e \in Entries /\ h \in Pos
    BY EntryFacts
  <2>2. a = Gap(h, f) /\ b = Gap(h, c) /\ a < b
    BY DEF Distance, Gap
  <2> HIDE DEF h, a, b
  <2>3. /\ Gap(h, f) = (IF h <= f THEN f - h ELSE f - h + Size)
        /\ Gap(h, c) = (IF h <= c THEN c - h ELSE c - h + Size)
        /\ Gap(f, c) = (IF f <= c THEN c - f ELSE c - f + Size)
    BY <2>1, GapValue
  <2>4. a \in 0..(Size - 1) /\ b \in 0..(Size - 1)
    BY <2>1, <2>2, GapFacts
  <2>5. Gap(f, c) = b - a
    BY <1>0, <2>1, <2>2, <2>3
  <2>6. e \in Held(t)
    BY DEF Held
  <2>7. QED BY <2>1, <2>2, <2>4, <2>5, <2>6
<1>3. \A q \in Pos : t[q] = e => q = c
  BY <1>2 DEF Single, Valid
<1> HIDE DEF u, e, a, b
<1>4. R \in SUBSET Lag(t)
  <2> SUFFICES ASSUME NEW x \in R
               PROVE  x \in Lag(t)
    OBVIOUS
  <2>1. x[1] = e /\ x[2] \in Int /\ a <= x[2] /\ x[2] <= b - 1 /\ x = <<x[1], x[2]>>
    BY <1>2
  <2>2. x[2] \in 0..(Size - 2) /\ x[2] < b
    BY <1>0, <1>2, <2>1
  <2>3. t[c] = x[1] /\ x[2] < Distance(x[1].mac, c)
    BY <2>1, <2>2 DEF e, b
  <2>4. x \in Held(t) \X (0..(Size - 2))
    BY <1>2, <2>1, <2>2
  <2>5. QED BY <2>3, <2>4 DEF Lag
<1>5. ASSUME NEW x \in Lag(u)
      PROVE  x \in Lag(t) \ R
  <2>1. /\ x \in Held(t) \X (0..(Size - 2))
        /\ x[1] \in Entries /\ x[2] \in 0..(Size - 2)
    <3>1. x \in Held(t) \X (0..(Size - 2))
      BY <1>1, <1>5 DEF Lag
    <3>2. Held(t) \in SUBSET Entries
      BY EntryFacts DEF Held
    <3>3. QED BY <3>1, <3>2
  <2>2. PICK q \in Pos : u[q] = x[1] /\ x[2] < Distance(x[1].mac, q)
    BY <1>5 DEF Lag
  <2>3. CASE q = f
    <3>1. x[1] = e /\ x[2] < a
      BY <1>1, <2>2, <2>3 DEF a
    <3>2. x[2] < b
      BY <1>2, <2>1, <3>1
    <3>3. t[c] = x[1] /\ x[2] < Distance(x[1].mac, c)
      BY <3>1, <3>2 DEF e, b
    <3>4. x \in Lag(t)
      BY <2>1, <3>3 DEF Lag
    <3>5. x \notin R
      <4>1. \A y \in R : a <= y[2]
        BY <1>2
      <4>2. QED BY <1>2, <2>1, <3>1, <4>1
    <3>6. QED BY <3>4, <3>5
  <2>4. CASE q # f
    <3>1. q # c
      <4>1. x[1] # NoEntry
        BY <2>1, EntryFacts
      <4>2. QED BY <1>1, <2>2, <2>4, <4>1
    <3>2. u[q] = t[q]
      BY <1>1, <2>4, <3>1
    <3>3. x \in Lag(t)
      BY <2>1, <2>2, <3>2 DEF Lag
    <3>4. x[1] # e
      BY <1>3, <2>2, <3>1, <3>2
    <3>5. \A y \in R : y[1] = e
      OBVIOUS
    <3>6. QED BY <3>3, <3>4, <3>5
  <2>5. QED BY <2>3, <2>4
<1>6. IsFiniteSet(R) /\ Cardinality(R) = b - a
  <2> DEFINE I == a..(b - 1)
  <2>1. a \in Int /\ b - 1 \in Int
    BY <1>2
  <2>2. IsFiniteSet(I) /\ Cardinality(I) = IF a > b - 1 THEN 0 ELSE (b - 1) - a + 1
    BY <2>1, FS_Interval
  <2>3. IsFiniteSet(I) /\ Cardinality(I) = b - a
    BY <1>2, <2>2
  <2>4. IsFiniteSet({e}) /\ Cardinality({e}) = 1
    BY FS_Singleton
  <2> HIDE DEF I
  <2>5. IsFiniteSet({e} \X I) /\ Cardinality({e} \X I) = Cardinality({e}) * Cardinality(I)
    BY <2>3, <2>4, FS_Product
  <2>6. b - a \in Int
    BY <1>2
  <2>7. Cardinality({e} \X I) = b - a
    BY <2>3, <2>4, <2>5, <2>6
  <2>8. QED BY <2>5, <2>7 DEF I
<1>7. IsFiniteSet(Lag(t)) /\ Cardinality(Lag(t)) \in Nat /\ Cardinality(Lag(u)) \in Nat
  BY LagBound
<1>8. IsFiniteSet(Lag(t) \ R) /\ Cardinality(Lag(t) \ R) = Cardinality(Lag(t)) - Cardinality(R)
  <2>1. /\ IsFiniteSet(Lag(t) \ R)
        /\ Cardinality(Lag(t) \ R) = Cardinality(Lag(t)) - Cardinality(Lag(t) \cap R)
    <3> HIDE DEF R
    <3>1. QED BY <1>7, FS_Difference
  <2>2. Lag(t) \cap R = R
    BY <1>4
  <2>3. QED BY <2>1, <2>2
<1>9. Cardinality(Lag(u)) <= Cardinality(Lag(t) \ R)
  <2>1. Lag(u) \in SUBSET (Lag(t) \ R)
    BY <1>5
  <2> HIDE DEF R
  <2>2. QED BY <1>8, <2>1, FS_Subset
<1>10. Cardinality(Lag(u)) + Gap(f, c) <= Cardinality(Lag(t))
  BY <1>2, <1>6, <1>7, <1>8, <1>9
<1>11. QED BY <1>10 DEF u
\* k iterations on: the position g steps on is free, those since are not, and
\* every step that was made to g is paid for.
Opened(p, t, g, k) ==
    /\ ~Valid(t, (p + g) % Size)
    /\ \A j \in (g + 1)..k : Valid(t, (p + j) % Size)
    /\ Cardinality(Lag(t)) + g <= Size * (Size - 1)

\* The loop from p on, k iterations on.
Passed(p, acc, k) ==
    /\ acc \in [t : Tables, done : BOOLEAN]
    /\ acc.done => Sound(acc.t)
    /\ ~acc.done => /\ SoundBut(acc.t, (p + (k + 1)) % Size)
                    /\ \E g \in 0..k : Opened(p, acc.t, g, k)

LEMMA RehashPasses ==
  ASSUME PeerTableAssumption, NEW p \in Pos, NEW k \in Nat, NEW acc, Passed(p, acc, k)
  PROVE  /\ Passed(p, Rehash(acc, (p + (k + 1)) % Size), k + 1)
         /\ Held(Rehash(acc, (p + (k + 1)) % Size).t) = Held(acc.t)
<1> DEFINE c == (p + (k + 1)) % Size
           t == acc.t
           r == Rehash(acc, c)
<1>0. /\ Size \in Nat \ {0} /\ k + 1 \in Nat /\ c \in Pos
      /\ Behind(c) = (p + ((k + 1) + 1)) % Size
  <2>1. Size \in Nat \ {0} /\ k + 1 \in Nat
    BY DEF PeerTableAssumption
  <2>2. QED BY <2>1, RoundFacts
<1>1. acc \in [t : Tables, done : BOOLEAN] /\ t \in Tables
  BY DEF Passed
<1>2. acc = [t |-> t, done |-> acc.done]
  BY <1>1
<1> HIDE DEF c, t
<1>3. CASE acc.done \/ ~Valid(t, c)
  <2>1. r = [t |-> t, done |-> TRUE]
    BY <1>2, <1>3, Zenon DEF Rehash, t
  <2>2. Sound(t)
    BY <1>0, <1>1, <1>3, RemovalEnd DEF Passed, t, c
  <2> HIDE DEF r
  <2>3. r \in [t : Tables, done : BOOLEAN] /\ r.t = t /\ r.done
    BY <1>1, <2>1
  <2>4. QED BY <2>2, <2>3 DEF Passed, r, c, t
<1>4. CASE ~acc.done /\ Valid(t, c)
  <2>1. PICK f \in Pos :
            /\ Insert([t EXCEPT ![c] = NoEntry], t[c].mac, t[c]) = Moved(t, c, f)
            /\ f # c => ~Valid(t, f) /\ Distance(t[c].mac, f) < Distance(t[c].mac, c)
            /\ \A q \in Pos : Distance(t[c].mac, q) < Distance(t[c].mac, f) => Valid(t, q)
    BY <1>0, <1>1, <1>4, Reinserted
  <2> DEFINE u == Moved(t, c, f)
  <2>2. r = [t |-> u, done |-> FALSE]
    <3>1. r = [acc EXCEPT !.t = Insert([t EXCEPT ![c] = NoEntry], t[c].mac, t[c])]
      BY <1>4, Zenon DEF Rehash, t
    <3>2. r = [acc EXCEPT !.t = u]
      BY <2>1, <3>1, Zenon
    <3> HIDE DEF r, u
    <3>3. acc.done = FALSE
      BY <1>1, <1>4
    <3>4. QED BY <1>1, <3>2, <3>3
  <2>3. SoundBut(t, c) /\ \E g \in 0..k : Opened(p, t, g, k)
    BY <1>4 DEF Passed, t, c
  <2>4. /\ u \in Tables /\ Held(u) = Held(t)
        /\ \A q \in Pos : Valid(u, q) <=> q = f \/ (q # c /\ Valid(t, q))
    BY <1>0, <1>1, <1>4, <2>1, MoveKeeps
  <2>5. SoundBut(u, (p + ((k + 1) + 1)) % Size)
    <3>1. SoundBut(u, Behind(c))
      BY <1>0, <1>1, <1>4, <2>1, <2>3, RehashStep
    <3>2. QED BY <1>0, <3>1
  <2>6. PICK g \in 0..k : Opened(p, t, g, k)
    BY <2>3
  <2>7. CASE f = c
    <3>1. u = t
      BY <1>1, <2>7 DEF Moved, Tables
    <3>2. \A j \in (g + 1)..(k + 1) : Valid(t, (p + j) % Size)
      <4> SUFFICES ASSUME NEW j \in (g + 1)..(k + 1)
                   PROVE  Valid(t, (p + j) % Size)
        OBVIOUS
      <4>1. CASE j = k + 1
        BY <1>4, <4>1 DEF c
      <4>2. CASE j # k + 1
        <5>1. j \in (g + 1)..k
          BY <4>2
        <5>2. QED BY <2>6, <5>1 DEF Opened
      <4>3. QED BY <4>1, <4>2
    <3>3. Opened(p, u, g, k + 1) /\ g \in 0..(k + 1)
      BY <2>6, <3>1, <3>2 DEF Opened
    <3> HIDE DEF r, u
    <3>4. Passed(p, r, k + 1) /\ r.t = u
      BY <2>2, <2>4, <2>5, <3>3 DEF Passed
    <3>5. QED BY <2>4, <3>4 DEF r, c, t
  <2>8. CASE f # c
    <3>1. ~Valid(u, c)
      BY <1>0, <2>4, <2>8
    <3>2. Gap(f, c) \in Nat /\ Gap(f, c) >= (k + 1) - g
      <4>1. Gap(f, c) \in Nat
        BY <1>0, GapFacts
      <4>2. ASSUME Gap(f, c) < (k + 1) - g
            PROVE  FALSE
        <5> DEFINE j == (k + 1) - Gap(f, c)
        <5>1. Gap(f, c) <= k + 1 /\ j \in (g + 1)..(k + 1)
          BY <4>1, <4>2
        <5>2. (p + j) % Size = f
          BY <1>0, <5>1, RoundFacts DEF c
        <5> HIDE DEF j
        <5>3. CASE j = k + 1
          BY <2>8, <5>2, <5>3 DEF c
        <5>4. CASE j # k + 1
          <6>1. j \in (g + 1)..k
            BY <5>1, <5>4
          <6>2. Valid(t, f)
            BY <2>6, <5>2, <6>1 DEF Opened
          <6>3. QED BY <2>1, <2>8, <6>2
        <5>5. QED BY <5>3, <5>4
      <4>3. QED BY <4>1, <4>2
    <3>3. Cardinality(Lag(u)) + (k + 1) <= Size * (Size - 1)
      <4>1. Cardinality(Lag(u)) + Gap(f, c) <= Cardinality(Lag(t))
        BY <1>0, <1>1, <1>4, <2>1, <2>3, <2>8, LagDrops DEF SoundBut
      <4>2. Cardinality(Lag(u)) \in Nat /\ Cardinality(Lag(t)) \in Nat
        BY LagBound
      <4>3. Cardinality(Lag(t)) + g <= Size * (Size - 1) /\ Size * (Size - 1) \in Int
        BY <1>0, <2>6 DEF Opened
      <4> HIDE DEF u
      <4>4. QED BY <3>2, <4>1, <4>2, <4>3
    <3>4. Opened(p, u, k + 1, k + 1) /\ k + 1 \in 0..(k + 1)
      <4>1. \A j \in ((k + 1) + 1)..(k + 1) : FALSE
        OBVIOUS
      <4>2. QED BY <3>1, <3>3, <4>1 DEF Opened, c
    <3> HIDE DEF r, u
    <3>5. Passed(p, r, k + 1) /\ r.t = u
      BY <2>2, <2>4, <2>5, <3>4 DEF Passed
    <3>6. QED BY <2>4, <3>5 DEF r, c, t
  <2>9. QED BY <2>7, <2>8
<1>5. QED BY <1>3, <1>4

\* The loop ends within MaxRehash iterations.
LEMMA RehashEnds ==
  ASSUME PeerTableAssumption, NEW p \in Pos, NEW acc, Passed(p, acc, MaxRehash)
  PROVE  acc.done
<1>0. Size \in Nat \ {0}
  BY DEF PeerTableAssumption
<1> SUFFICES ASSUME ~acc.done
             PROVE  FALSE
  OBVIOUS
<1>1. PICK g \in 0..MaxRehash : Opened(p, acc.t, g, MaxRehash)
  BY DEF Passed
<1>2. g <= Size * (Size - 1)
  <2>1. Cardinality(Lag(acc.t)) \in Nat
    BY LagBound
  <2>2. Cardinality(Lag(acc.t)) + g <= Size * (Size - 1) /\ Size * (Size - 1) \in Int
    BY <1>0, <1>1 DEF Opened
  <2>3. QED BY <2>1, <2>2
<1>3. Size * Size \in Nat /\ Size * (Size - 1) = Size * Size - Size
  BY <1>0
<1>4. g \in Nat /\ g + Size \in (g + 1)..MaxRehash
  BY <1>0, <1>2, <1>3 DEF MaxRehash
<1>5. Valid(acc.t, (p + (g + Size)) % Size)
  BY <1>1, <1>4 DEF Opened
<1>6. (p + (g + Size)) % Size = (p + g) % Size
  BY <1>4, RoundFacts
<1>7. QED BY <1>1, <1>5, <1>6 DEF Opened
\* One iteration leaves a table, whatever it begins with.
LEMMA RehashType ==
  ASSUME PeerTableAssumption, NEW acc \in [t : Tables, done : BOOLEAN], NEW c \in Pos
  PROVE  Rehash(acc, c) \in [t : Tables, done : BOOLEAN]
<1> DEFINE t == acc.t
           r == Rehash(acc, c)
<1>1. t \in Tables
  OBVIOUS
<1>2. CASE acc.done \/ ~Valid(t, c)
  <2>1. r = [acc EXCEPT !.done = TRUE]
    BY <1>2, Zenon DEF Rehash, t
  <2>2. QED BY <2>1
<1>3. CASE ~acc.done /\ Valid(t, c)
  <2> HIDE DEF t
  <2>1. PICK f \in Pos :
            /\ Insert([t EXCEPT ![c] = NoEntry], t[c].mac, t[c]) = Moved(t, c, f)
            /\ f # c => ~Valid(t, f)
    BY <1>1, <1>3, Reinserted
  <2>2. Moved(t, c, f) \in Tables
    BY <1>1, <1>3, <2>1, MoveKeeps
  <2>3. r = [acc EXCEPT !.t = Insert([t EXCEPT ![c] = NoEntry], t[c].mac, t[c])]
    BY <1>3, Zenon DEF Rehash, t
  <2>4. r = [acc EXCEPT !.t = Moved(t, c, f)]
    BY <2>1, <2>3, Zenon
  <2> HIDE DEF r
  <2>5. r \in [t : Tables, done : BOOLEAN]
    BY <2>2, <2>4
  <2>6. QED BY <2>5 DEF r
<1>4. QED BY <1>2, <1>3

\* removePeer takes one entry out of a table, and every other peer is still found.
LEMMA ClearFacts ==
  ASSUME PeerTableAssumption, NEW t \in Tables, NEW p \in Pos, Valid(t, p), Sound(t)
  PROVE  \E u \in Tables : Clear(t, p) = {u} /\ Sound(u) /\ Held(u) = Held(t) \ {t[p]}
<1> DEFINE S == [t : Tables, done : BOOLEAN]
           N == MaxRehash
           start == [t |-> [t EXCEPT ![p] = NoEntry], done |-> FALSE]
           G == [i \in 1..N |-> [x \in S |-> Rehash(x, (p + i) % Size)]]
<1>0. N \in Nat /\ Size \in Nat \ {0}
  BY DEF MaxRehash, PeerTableAssumption
<1>1. /\ start.t \in Tables /\ ~Valid(start.t, p) /\ SoundBut(start.t, Behind(p))
      /\ Held(start.t) = Held(t) \ {t[p]}
  BY RemovalStart
<1>2. start \in S
  BY <1>1
<1> HIDE DEF N
<1>3. G \in Steps(N, S)
  <2>1. ASSUME NEW i \in 1..N, NEW x \in S
        PROVE  Rehash(x, (p + i) % Size) \in S
    <3>1. i \in Nat /\ (p + i) % Size \in Pos
      BY <1>0, RoundFacts
    <3>2. QED BY <3>1, RehashType
  <2> HIDE DEF S
  <2>2. QED BY <2>1 DEF Steps
<1>4. PICK f : Follows(f, N, S, start, G)
  <2> HIDE DEF G, S, start
  <2>1. QED BY <1>0, <1>2, <1>3, Recursive
<1>5. f \in [0..N -> S] /\ f[0] = start /\ \A k \in 1..N : f[k] = G[k][f[k - 1]]
  BY <1>4 DEF Follows
<1>6. ASSUME NEW k \in 1..N
      PROVE  f[k] = Rehash(f[k - 1], (p + k) % Size)
  <2>1. f[k - 1] \in S
    <3>1. k - 1 \in 0..N
      BY <1>0
    <3> HIDE DEF S
    <3>2. QED BY <1>5, <3>1
  <2> HIDE DEF S
  <2>2. QED BY <1>5, <2>1
<1> DEFINE h == [k \in 0..N |-> {f[k]}]
<1>7. h = [k \in 0..N |-> IF k = 0 THEN {start} ELSE {Rehash(acc, (p + k) % Size) : acc \in h[k - 1]}]
  <2>1. ASSUME NEW k \in 0..N
        PROVE  h[k] = IF k = 0 THEN {start} ELSE {Rehash(acc, (p + k) % Size) : acc \in h[k - 1]}
    <3>1. CASE k = 0
      BY <1>5, <3>1
    <3>2. CASE k # 0
      <4>1. k \in 1..N /\ k - 1 \in 0..N
        BY <1>0, <3>2
      <4>2. h[k] = {f[k]} /\ h[k - 1] = {f[k - 1]}
        BY <4>1
      <4> HIDE DEF h
      <4>3. QED BY <1>6, <3>2, <4>1, <4>2
    <3>3. QED BY <3>1, <3>2
  <2>2. h = [k \in 0..N |-> h[k]]
    OBVIOUS
  <2> HIDE DEF h
  <2>3. QED BY <2>1, <2>2
<1> HIDE DEF h
<1>8. PICK g : /\ g = [k \in 0..N |-> IF k = 0 THEN {start}
                                    ELSE {Rehash(acc, (p + k) % Size) : acc \in g[k - 1]}]
               /\ Removal(t, p) = g[N]
  BY <1>7 DEF Removal, N
<1>9. g[0] = {start} /\ \A k \in 1..N : g[k] = {Rehash(acc, (p + k) % Size) : acc \in g[k - 1]}
  <2> HIDE DEF start
  <2>1. 0 \in 0..N /\ \A k \in 1..N : k \in 0..N /\ k # 0
    BY <1>0
  <2>2. \A k \in 0..N : g[k] = IF k = 0 THEN {start}
                                ELSE {Rehash(acc, (p + k) % Size) : acc \in g[k - 1]}
    BY <1>8
  <2>3. QED BY <2>1, <2>2
<1> DEFINE T == {k \in 0..N : \E acc : /\ g[k] = {acc} /\ Passed(p, acc, k)
                                      /\ Held(acc.t) = Held(t) \ {t[p]}}
<1>10. 0 \in T
  <2>1. (p + 0) % Size = p /\ Behind(p) = (p + (0 + 1)) % Size
    <3>1. (p + 0) % Size = p /\ Behind((p + 0) % Size) = (p + (0 + 1)) % Size
      BY RoundFacts
    <3>2. QED BY <3>1
  <2>2. Opened(p, start.t, 0, 0)
    <3>1. Cardinality(Lag(start.t)) + 0 <= Size * (Size - 1)
      <4> HIDE DEF start
      <4>1. Cardinality(Lag(start.t)) \in Nat /\ Cardinality(Lag(start.t)) <= Size * (Size - 1)
        BY LagBound
      <4>2. QED BY <4>1
    <3> HIDE DEF start
    <3>2. QED BY <1>1, <2>1, <3>1 DEF Opened
  <2>3. ~start.done /\ 0 \in 0..0
    OBVIOUS
  <2> HIDE DEF start
  <2>4. Passed(p, start, 0)
    BY <1>1, <1>2, <2>1, <2>2, <2>3 DEF Passed
  <2>5. QED BY <1>0, <1>1, <1>9, <2>4
<1>11. ASSUME NEW k \in 1..N, k - 1 \in T
       PROVE  k \in T
  <2>1. PICK acc : /\ g[k - 1] = {acc} /\ Passed(p, acc, k - 1)
                   /\ Held(acc.t) = Held(t) \ {t[p]}
    BY <1>11
  <2>2. g[k] = {Rehash(acc, (p + k) % Size)}
    BY <1>9, <2>1
  <2>3. k - 1 \in Nat /\ (k - 1) + 1 = k
    BY <1>0
  <2>4. /\ Passed(p, Rehash(acc, (p + ((k - 1) + 1)) % Size), (k - 1) + 1)
        /\ Held(Rehash(acc, (p + ((k - 1) + 1)) % Size).t) = Held(acc.t)
    BY <2>1, <2>3, RehashPasses
  <2>5. Passed(p, Rehash(acc, (p + k) % Size), k) /\ Held(Rehash(acc, (p + k) % Size).t) = Held(acc.t)
    BY <2>3, <2>4
  <2>6. QED BY <2>1, <2>2, <2>5
<1>12. N \in T
  <2> HIDE DEF T
  <2>1. \A k \in 0..N : k \in T
    BY <1>0, <1>10, <1>11, Inductive
  <2>2. QED BY <1>0, <2>1
<1>13. PICK acc : /\ Removal(t, p) = {acc} /\ Passed(p, acc, MaxRehash)
                  /\ Held(acc.t) = Held(t) \ {t[p]}
  BY <1>8, <1>12 DEF N
<1>14. acc.done
  BY <1>13, RehashEnds
<1>15. acc.t \in Tables /\ Sound(acc.t)
  BY <1>13, <1>14 DEF Passed
<1>16. Clear(t, p) = {acc.t}
  BY <1>13 DEF Clear
<1>17. QED BY <1>13, <1>15, <1>16
-----------------------------------------------------------------------------
(* What the operations do to the entries held.                              *)

\* The positions in use.
Used(t) == {p \in Pos : Valid(t, p)}

\* There is one entry for each position in use.
LEMMA Counting ==
  ASSUME PeerTableAssumption, NEW t, Single(t)
  PROVE  /\ IsFiniteSet(Held(t)) /\ Cardinality(Held(t)) \in 0..Size
         /\ IsFiniteSet(Used(t)) /\ Cardinality(Used(t)) = Cardinality(Held(t))
         /\ Cardinality(Held(t)) = Size <=> \A p \in Pos : Valid(t, p)
<1>0. Size \in Nat \ {0} /\ Pos = 0..(Size - 1)
  BY DEF PeerTableAssumption, Pos
<1>1. IsFiniteSet(Pos) /\ Cardinality(Pos) = Size
  <2>1. 0 \in Int /\ Size - 1 \in Int
    BY <1>0
  <2>2. /\ IsFiniteSet(0..(Size - 1))
        /\ Cardinality(0..(Size - 1)) = IF 0 > Size - 1 THEN 0 ELSE (Size - 1) - 0 + 1
    BY <2>1, FS_Interval, Zenon
  <2>3. QED BY <1>0, <2>2
<1>2. Used(t) \in SUBSET Pos
  BY DEF Used
<1>3. /\ IsFiniteSet(Used(t)) /\ Cardinality(Used(t)) <= Size
      /\ Cardinality(Used(t)) = Size => Used(t) = Pos
  BY <1>1, <1>2, FS_Subset
<1>4. Cardinality(Used(t)) \in Nat
  BY <1>3, FS_CardinalityType
<1> DEFINE f == [p \in Used(t) |-> t[p]]
<1>5. f \in Surjection(Used(t), Held(t))
  BY DEF Held, Used, Surjection
<1>6. f \in Injection(Used(t), Held(t))
  <2>1. f \in [Used(t) -> Held(t)]
    BY DEF Held, Used
  <2>2. \A p, q \in Used(t) : f[p] = f[q] => p = q
    BY DEF Single, Used
  <2>3. QED BY <2>1, <2>2 DEF Injection, IsInjective
<1>7. IsFiniteSet(Held(t)) /\ Cardinality(Held(t)) = Cardinality(Used(t))
  <2> HIDE DEF f
  <2>1. QED BY <1>3, <1>5, <1>6, FS_Surjection
<1>8. Used(t) = Pos <=> \A p \in Pos : Valid(t, p)
  BY DEF Used
<1>9. QED BY <1>0, <1>1, <1>3, <1>4, <1>7, <1>8

\* findPeer finds the entry of a MAC where there is one.
LEMMA ProbeFacts ==
  ASSUME PeerTableAssumption, NEW t \in Tables, Sound(t)
  PROVE  /\ \A p \in Pos : Valid(t, p) => Probe(t, t[p].mac) = {p}
         /\ \A m \in Mac : \A p \in Probe(t, m) : p \in Pos /\ Valid(t, p) /\ t[p].mac = m
         /\ \A m \in Mac : Probe(t, m) = {} => \A e \in Held(t) : e.mac # m
<1>1. ASSUME NEW p \in Pos, Valid(t, p)
      PROVE  Probe(t, t[p].mac) = {p}
  <2>1. \A q \in Pos : t[q].mac = t[p].mac => q = p
    BY <1>1 DEF Sound, Single
  <2>2. ASSUME NEW q \in Before(t[p].mac, p)
        PROVE  Valid(t, q) /\ t[q].mac # t[p].mac
    <3>1. q \in Pos /\ Distance(t[p].mac, q) < Distance(t[p].mac, p)
      BY DEF Before
    <3>2. Valid(t, q)
      BY <1>1, <3>1 DEF Sound, Reached
    <3>3. q # p
      <4>1. Home(t[p].mac) \in Pos
        BY <1>1, EntryFacts
      <4>2. Distance(t[p].mac, p) \in Int
        BY <4>1, GapFacts DEF Distance, Gap
      <4>3. QED BY <3>1, <4>2
    <3>4. QED BY <2>1, <3>1, <3>2, <3>3
  <2>3. p \in Probe(t, t[p].mac)
    BY <2>2 DEF Probe
  <2>4. \A q \in Probe(t, t[p].mac) : q \in Pos /\ t[q].mac = t[p].mac
    BY DEF Probe
  <2>5. QED BY <2>1, <2>3, <2>4
<1>2. ASSUME NEW m \in Mac, NEW p \in Probe(t, m)
      PROVE  p \in Pos /\ Valid(t, p) /\ t[p].mac = m
  BY EntryFacts DEF Probe, Valid
<1>3. ASSUME NEW m \in Mac, Probe(t, m) = {}, NEW e \in Held(t)
      PROVE  e.mac # m
  <2>1. PICK p \in Pos : Valid(t, p) /\ t[p] = e
    BY DEF Held
  <2>2. Probe(t, e.mac) = {p}
    BY <1>1, <2>1
  <2>3. QED BY <1>3, <2>2
<1>4. QED BY <1>1, <1>2, <1>3

\* A new entry goes to a free position, where it is found.
LEMMA InsertFacts ==
  ASSUME PeerTableAssumption, NEW t \in Tables, Sound(t), NEW e \in Entries,
         \A x \in Held(t) : x.mac # e.mac, \E q \in Pos : ~Valid(t, q)
  PROVE  /\ Insert(t, e.mac, e) \in Tables /\ Sound(Insert(t, e.mac, e))
         /\ Held(Insert(t, e.mac, e)) = Held(t) \cup {e}
<1>1. e.mac \in Mac
  BY EntryFacts
<1>2. PICK f \in Pos :
          /\ ~Valid(t, f)
          /\ \A q \in Pos : Distance(e.mac, q) < Distance(e.mac, f) => Valid(t, q)
          /\ Insert(t, e.mac, e) = [t EXCEPT ![f] = e]
  BY <1>1, FirstFree
<1> DEFINE u == [t EXCEPT ![f] = e]
<1>3. u \in Tables /\ \A q \in Pos : u[q] = IF q = f THEN e ELSE t[q]
  BY DEF Tables, Slots
<1> HIDE DEF u
<1>4. \A q \in Pos : Valid(u, q) <=> (q = f \/ Valid(t, q))
  <2>1. e.mac # NoMac
    BY <1>1, EntryFacts
  <2>2. QED BY <1>3, <2>1 DEF Valid
<1>5. \A q \in Pos : Valid(t, q) => q # f /\ u[q] = t[q] /\ t[q].mac # e.mac
  BY <1>2, <1>3 DEF Held
<1>6. Single(u)
  <2> SUFFICES ASSUME NEW p \in Pos, NEW q \in Pos, Valid(u, p), u[p].mac = u[q].mac
               PROVE  p = q
    BY DEF Single
  <2>1. Valid(u, q)
    BY DEF Valid
  <2>2. CASE p = f /\ q = f
    BY <2>2
  <2>3. CASE p = f /\ q # f
    <3>1. u[p] = e /\ Valid(t, q)
      BY <1>3, <1>4, <2>1, <2>3
    <3>2. QED BY <1>5, <3>1
  <2>4. CASE p # f /\ q = f
    <3>1. u[q] = e /\ Valid(t, p)
      BY <1>3, <1>4, <2>4
    <3>2. QED BY <1>5, <3>1
  <2>5. CASE p # f /\ q # f
    <3>1. Valid(t, p) /\ t[p].mac = t[q].mac
      BY <1>3, <1>4, <2>5
    <3>2. QED BY <3>1 DEF Sound, Single
  <2>6. QED BY <2>2, <2>3, <2>4, <2>5
<1>7. ASSUME NEW x \in Pos, Valid(u, x)
      PROVE  Reached(u, x)
  <2>1. CASE x = f
    BY <1>2, <1>3, <1>4, <2>1 DEF Reached
  <2>2. CASE x # f
    <3>1. Valid(t, x) /\ u[x] = t[x]
      BY <1>3, <1>4, <1>7, <2>2
    <3>2. QED BY <1>4, <3>1 DEF Sound, Reached
  <2>3. QED BY <2>1, <2>2
<1>8. Held(u) = Held(t) \cup {e}
  <2>1. ASSUME NEW q \in Pos, Valid(u, q)
        PROVE  u[q] \in Held(t) \cup {e}
    BY <1>3, <1>4, <2>1 DEF Held
  <2>2. e \in Held(u)
    BY <1>3, <1>4 DEF Held
  <2>3. ASSUME NEW q \in Pos, Valid(t, q)
        PROVE  t[q] \in Held(u)
    <3>1. Valid(u, q) /\ u[q] = t[q]
      BY <1>4, <1>5, <2>3
    <3>2. QED BY <3>1 DEF Held
  <2>4. QED BY <2>1, <2>2, <2>3 DEF Held
<1>9. QED BY <1>2, <1>3, <1>6, <1>7, <1>8 DEF Sound, u

\* Where the MACs stay, all stays found.
LEMMA SameMacs ==
  ASSUME PeerTableAssumption, NEW t, NEW u, Sound(t), \A p \in Pos : u[p].mac = t[p].mac
  PROVE  Sound(u) /\ (\A p \in Pos : Valid(u, p) <=> Valid(t, p))
         /\ Cardinality(Held(u)) = Cardinality(Held(t))
<1>1. \A p \in Pos : Valid(u, p) <=> Valid(t, p)
  BY DEF Valid
<1>2. Single(u)
  BY <1>1 DEF Sound, Single
<1>3. Sound(u)
  BY <1>1, <1>2 DEF Sound, Reached
<1>4. Used(u) = Used(t)
  BY <1>1 DEF Used
<1>5. Cardinality(Held(u)) = Cardinality(Held(t))
  BY <1>2, <1>4, Counting DEF Sound
<1>6. QED BY <1>1, <1>3, <1>5
\* An entry is written over with one of the same MAC.
LEMMA Rewritten ==
  ASSUME PeerTableAssumption, NEW t \in Tables, Sound(t), NEW p \in Pos, Valid(t, p),
         NEW e \in Entries, e.mac = t[p].mac
  PROVE  /\ [t EXCEPT ![p] = e] \in Tables /\ Sound([t EXCEPT ![p] = e])
         /\ Cardinality(Held([t EXCEPT ![p] = e])) = Cardinality(Held(t))
         /\ Held([t EXCEPT ![p] = e]) = {x \in Held(t) : x.mac # e.mac} \cup {e}
<1> DEFINE u == [t EXCEPT ![p] = e]
<1>1. u \in Tables /\ \A q \in Pos : u[q] = IF q = p THEN e ELSE t[q]
  BY DEF Tables, Slots
<1> HIDE DEF u
<1>2. \A q \in Pos : u[q].mac = t[q].mac
  BY <1>1
<1>3. /\ Sound(u) /\ \A q \in Pos : Valid(u, q) <=> Valid(t, q)
      /\ Cardinality(Held(u)) = Cardinality(Held(t))
  BY <1>2, SameMacs
<1>4. \A q \in Pos : t[q].mac = e.mac => q = p
  BY DEF Sound, Single
<1>5. Held(u) = {x \in Held(t) : x.mac # e.mac} \cup {e}
  <2>1. ASSUME NEW q \in Pos, Valid(u, q)
        PROVE  u[q] \in {x \in Held(t) : x.mac # e.mac} \cup {e}
    <3>1. CASE q = p
      BY <1>1, <3>1
    <3>2. CASE q # p
      <4>1. u[q] = t[q] /\ Valid(t, q) /\ t[q].mac # e.mac
        BY <1>1, <1>3, <1>4, <2>1, <3>2
      <4>2. QED BY <4>1 DEF Held
    <3>3. QED BY <3>1, <3>2
  <2>2. e \in Held(u)
    BY <1>1, <1>3 DEF Held
  <2>3. ASSUME NEW q \in Pos, Valid(t, q), t[q].mac # e.mac
        PROVE  t[q] \in Held(u)
    <3>1. q # p
      BY <2>3
    <3>2. Valid(u, q) /\ u[q] = t[q]
      BY <1>1, <1>3, <2>3, <3>1
    <3>3. QED BY <3>2 DEF Held
  <2>4. \A x \in Held(t) : \E q \in Pos : Valid(t, q) /\ x = t[q]
    BY DEF Held
  <2>5. \A x \in Held(u) : \E q \in Pos : Valid(u, q) /\ x = u[q]
    BY DEF Held
  <2>6. ASSUME NEW x \in Held(u)
        PROVE  x \in {y \in Held(t) : y.mac # e.mac} \cup {e}
    BY <2>1, <2>5
  <2>7. ASSUME NEW x \in {y \in Held(t) : y.mac # e.mac} \cup {e}
        PROVE  x \in Held(u)
    BY <2>2, <2>3, <2>4
  <2>8. QED BY <2>6, <2>7
<1>6. QED BY <1>1, <1>3, <1>5 DEF u

-----------------------------------------------------------------------------
(* The set of peers that callers see.                                       *)

\* What findPeer shows of an entry, and of a whole table.
Face(e) == [seen |-> e.seen, est |-> e.est]

FoundIn(t) == {m \in {t[p].mac : p \in Pos} \ {NoMac} : Probe(t, m) # {}}

View(t) == [m \in FoundIn(t) |-> LET p == CHOOSE q \in Pos : t[q].mac = m
                                 IN  [seen |-> t[p].seen, est |-> t[p].est]]

LEMMA SameCardinality ==
  \A S : Abstract!Cardinality(S) = Cardinality(S)
BY DEF Abstract!Cardinality, Cardinality, Abstract!IsFiniteSet, IsFiniteSet

LEMMA PeersIsView ==
  Peers = View(table) /\ Peers' = View(table')
BY DEF Peers, Found, View, FoundIn

\* The callers see each entry under its MAC, and nothing else.
LEMMA ViewFacts ==
  ASSUME PeerTableAssumption, NEW t \in Tables, Sound(t)
  PROVE  /\ DOMAIN View(t) = {e.mac : e \in Held(t)}
         /\ \A e \in Held(t) : View(t)[e.mac] = Face(e)
         /\ View(t) = [m \in DOMAIN View(t) |-> View(t)[m]]
         /\ \A e, x \in Held(t) : e.mac = x.mac => e = x
         /\ Held(t) \in SUBSET Entries
<1>1. FoundIn(t) = {e.mac : e \in Held(t)}
  <2>1. ASSUME NEW m \in FoundIn(t)
        PROVE  m \in {e.mac : e \in Held(t)}
    <3>1. PICK p \in Pos : m = t[p].mac /\ m # NoMac
      BY DEF FoundIn
    <3>2. t[p] \in Held(t)
      BY <3>1 DEF Held, Valid
    <3>3. QED BY <3>1, <3>2
  <2>2. ASSUME NEW e \in Held(t)
        PROVE  e.mac \in FoundIn(t)
    <3>1. PICK p \in Pos : Valid(t, p) /\ t[p] = e
      BY DEF Held
    <3>2. Probe(t, e.mac) # {}
      BY <3>1, ProbeFacts
    <3>3. QED BY <3>1, <3>2 DEF FoundIn, Valid
  <2>3. QED BY <2>1, <2>2
<1>2. ASSUME NEW e \in Held(t)
      PROVE  View(t)[e.mac] = Face(e)
  <2>1. PICK p \in Pos : Valid(t, p) /\ t[p] = e
    BY DEF Held
  <2>2. \A q \in Pos : t[q].mac = e.mac => q = p
    BY <2>1 DEF Sound, Single
  <2>3. (CHOOSE q \in Pos : t[q].mac = e.mac) = p
    BY <2>1, <2>2
  <2>4. e.mac \in FoundIn(t)
    BY <1>1
  <2>5. View(t)[e.mac] = LET p0 == CHOOSE q \in Pos : t[q].mac = e.mac
                         IN  [seen |-> t[p0].seen, est |-> t[p0].est]
    BY <2>4 DEF View
  <2>6. QED BY <2>1, <2>3, <2>5 DEF Face
<1>3. \A e, x \in Held(t) : e.mac = x.mac => e = x
  BY DEF Sound, Single, Held
<1>4. Held(t) \in SUBSET Entries
  BY EntryFacts DEF Held
<1>5. DOMAIN View(t) = FoundIn(t) /\ View(t) = [m \in DOMAIN View(t) |-> View(t)[m]]
  BY DEF View
<1>6. QED BY <1>1, <1>2, <1>3, <1>4, <1>5

\* They are as many as the entries.
LEMMA ViewSize ==
  ASSUME PeerTableAssumption, NEW t \in Tables, Sound(t)
  PROVE  Cardinality(DOMAIN View(t)) = Cardinality(Held(t))
<1> DEFINE f == [e \in Held(t) |-> e.mac]
           M == {e.mac : e \in Held(t)}
<1>1. f \in Surjection(Held(t), M) /\ f \in [Held(t) -> M]
  BY DEF Surjection
<1>2. f \in Injection(Held(t), M)
  <2>1. \A e, x \in Held(t) : f[e] = f[x] => e = x
    BY ViewFacts
  <2>2. QED BY <1>1, <2>1 DEF Injection, IsInjective
<1>3. IsFiniteSet(Held(t))
  BY Counting DEF Sound
<1>4. Cardinality(M) = Cardinality(Held(t))
  <2> HIDE DEF f, M
  <2>1. QED BY <1>1, <1>2, <1>3, FS_Surjection
<1>5. QED BY <1>4, ViewFacts

\* A function that shows the entries under their MACs is the view.
LEMMA ViewIs ==
  ASSUME PeerTableAssumption, NEW t \in Tables, Sound(t), NEW F,
         F = [m \in DOMAIN F |-> F[m]], DOMAIN F = {e.mac : e \in Held(t)},
         \A e \in Held(t) : F[e.mac] = Face(e)
  PROVE  View(t) = F
<1>1. /\ DOMAIN View(t) = {e.mac : e \in Held(t)}
      /\ \A e \in Held(t) : View(t)[e.mac] = Face(e)
      /\ View(t) = [m \in DOMAIN View(t) |-> View(t)[m]]
  BY ViewFacts
<1>2. \A m \in DOMAIN F : View(t)[m] = F[m]
  BY <1>1
<1>3. QED BY <1>1, <1>2
\* A peer joins, or is refreshed.
LEMMA ViewJoin ==
  ASSUME PeerTableAssumption, NEW t \in Tables, Sound(t), NEW u \in Tables, Sound(u),
         NEW e, Held(u) = {x \in Held(t) : x.mac # e.mac} \cup {e}
  PROVE  View(u) = Abstract!With(View(t), e.mac, Face(e))
<1> DEFINE F == Abstract!With(View(t), e.mac, Face(e))
<1>1. /\ DOMAIN View(t) = {x.mac : x \in Held(t)}
      /\ \A x \in Held(t) : View(t)[x.mac] = Face(x)
  BY ViewFacts
<1>2. /\ DOMAIN F = DOMAIN View(t) \cup {e.mac}
      /\ \A m \in DOMAIN F : F[m] = IF m = e.mac THEN Face(e) ELSE View(t)[m]
      /\ F = [m \in DOMAIN F |-> F[m]]
  BY DEF Abstract!With
<1> HIDE DEF F
<1>3. DOMAIN F = {x.mac : x \in Held(u)}
  BY <1>1, <1>2
<1>4. ASSUME NEW x \in Held(u)
      PROVE  F[x.mac] = Face(x)
  <2>1. CASE x = e
    BY <1>2, <2>1
  <2>2. CASE x \in Held(t) /\ x.mac # e.mac
    <3>1. x.mac \in DOMAIN F
      BY <1>3
    <3>2. QED BY <1>1, <1>2, <2>2, <3>1
  <2>3. QED BY <2>1, <2>2
<1>5. View(u) = F
  BY <1>2, <1>3, <1>4, ViewIs
<1>6. QED BY <1>5 DEF F

\* A peer leaves.
LEMMA ViewLeave ==
  ASSUME PeerTableAssumption, NEW t \in Tables, Sound(t), NEW u \in Tables, Sound(u),
         NEW e \in Held(t), Held(u) = Held(t) \ {e}
  PROVE  /\ View(u) = Restrict(View(t), DOMAIN View(t) \ {e.mac})
         /\ e.mac \in DOMAIN View(t)
<1> DEFINE F == Restrict(View(t), DOMAIN View(t) \ {e.mac})
<1>1. /\ DOMAIN View(t) = {x.mac : x \in Held(t)}
      /\ \A x \in Held(t) : View(t)[x.mac] = Face(x)
      /\ \A x \in Held(t) : x.mac = e.mac => x = e
  BY ViewFacts
<1>2. /\ DOMAIN F = DOMAIN View(t) \ {e.mac}
      /\ \A m \in DOMAIN F : F[m] = View(t)[m]
      /\ F = [m \in DOMAIN F |-> F[m]]
  BY DEF Restrict
<1> HIDE DEF F
<1>3. DOMAIN F = {x.mac : x \in Held(u)}
  BY <1>1, <1>2
<1>4. ASSUME NEW x \in Held(u)
      PROVE  F[x.mac] = Face(x)
  <2>1. x.mac \in DOMAIN F /\ x \in Held(t)
    BY <1>3
  <2>2. QED BY <1>1, <1>2, <2>1
<1>5. View(u) = F
  BY <1>2, <1>3, <1>4, ViewIs
<1>6. QED BY <1>1, <1>5 DEF F

-----------------------------------------------------------------------------
(* The invariant, and what each operation does to it and to the set.        *)

PeerInv == TypeOK /\ Sound(table) /\ count = Cardinality(Held(table))

LEMMA InvFacts ==
  ASSUME PeerTableAssumption, PeerInv
  PROVE  /\ table \in Tables /\ Sound(table) /\ count = Cardinality(Held(table))
         /\ count \in 0..Size /\ IsFiniteSet(Held(table))
         /\ clock \in 0..MaxClock /\ sweep \in [i : -1..(Size - 1), now : 0..MaxClock]
<1>1. TypeOK /\ Sound(table) /\ count = Cardinality(Held(table))
  BY DEF PeerInv
<1>2. IsFiniteSet(Held(table))
  BY <1>1, Counting DEF Sound
<1>3. QED BY <1>1, <1>2 DEF TypeOK, Tables, Slots

LEMMA InvAgain ==
  ASSUME PeerTableAssumption, table' \in Tables, Sound(table'), count' = Cardinality(Held(table')),
         clock' \in 0..MaxClock, sweep' \in [i : -1..(Size - 1), now : 0..MaxClock]
  PROVE  PeerInv'
<1>1. Cardinality(Held(table')) \in 0..Size
  BY Counting DEF Sound
<1>2. count' \in 0..Size
  BY <1>1
<1>3. TypeOK'
  BY <1>2 DEF TypeOK, Tables, Slots
<1>4. PeerInv' = (TypeOK' /\ Sound(table') /\ count' = Cardinality(Held(table')))
  BY DEF PeerInv, Sound, Single, Reached, Valid, Held, Distance
<1>5. QED BY <1>3, <1>4

\* An entry heard now, of a MAC that is in the table.
LEMMA HeardEntry ==
  ASSUME PeerTableAssumption, NEW e \in Entries, NEW now \in 0..MaxClock
  PROVE  /\ [e EXCEPT !.seen = now, !.est = TRUE] \in Entries
         /\ [e EXCEPT !.seen = now] \in Entries
         /\ \A m \in Mac : [e EXCEPT !.seen = now, !.sleep = Sleep[m]] \in Entries
         /\ [e EXCEPT !.est = FALSE] \in Entries
<1> DEFINE Z == {Sleep[m] : m \in Mac} \cup {0}
<1>1. Entries = [mac : Mac, seen : 0..MaxClock, est : BOOLEAN, sleep : Z]
  BY DEF Entries
<1>2. 0 \in Z /\ \A m \in Mac : Sleep[m] \in Z
  OBVIOUS
<1> HIDE DEF Z
<1>3. QED BY <1>1, <1>2

\* The entry of a peer that joins now.
LEMMA NewEntry ==
  ASSUME PeerTableAssumption, NEW m \in Mac, NEW now \in 0..MaxClock
  PROVE  [mac |-> m, seen |-> now, est |-> TRUE, sleep |-> 0] \in Entries
BY DEF Entries

\* A frame of a peer in the table refreshes it.
LEMMA HearStep ==
  ASSUME PeerTableAssumption, PeerInv, NEW m \in Mac, HearPeer(m) \/ HearBeacon(m)
  PROVE  PeerInv' /\ Abstract!Hear(m)
<1>1. /\ table \in Tables /\ Sound(table) /\ count = Cardinality(Held(table))
      /\ clock \in 0..MaxClock /\ sweep \in [i : -1..(Size - 1), now : 0..MaxClock]
      /\ UNCHANGED <<count, clock, sweep>>
  BY InvFacts DEF HearPeer, HearBeacon
<1>2. PICK p \in Probe(table, m) :
          \/ table' = [table EXCEPT ![p].seen = clock]
          \/ table' = [table EXCEPT ![p].seen = clock, ![p].sleep = Sleep[m]]
  BY DEF HearPeer, HearBeacon
<1>3. p \in Pos /\ Valid(table, p) /\ table[p].mac = m /\ table[p] \in Entries /\ table[p] \in Held(table)
  <2>1. p \in Pos /\ Valid(table, p) /\ table[p].mac = m
    BY <1>1, ProbeFacts
  <2>2. QED BY <1>1, <2>1, EntryFacts DEF Held
<1>4. PICK e \in Entries : /\ table' = [table EXCEPT ![p] = e] /\ e.mac = m
                           /\ e.seen = clock /\ e.est = table[p].est
  <2>1. CASE table' = [table EXCEPT ![p].seen = clock]
    <3> DEFINE e == [table[p] EXCEPT !.seen = clock]
    <3>1. e \in Entries /\ table' = [table EXCEPT ![p] = e]
      BY <1>1, <1>3, <2>1, HeardEntry
    <3>2. e.mac = m /\ e.seen = clock /\ e.est = table[p].est
      BY <1>3 DEF Entries
    <3>3. QED BY <3>1, <3>2
  <2>2. CASE table' = [table EXCEPT ![p].seen = clock, ![p].sleep = Sleep[m]]
    <3> DEFINE e == [table[p] EXCEPT !.seen = clock, !.sleep = Sleep[m]]
    <3>1. e \in Entries /\ table' = [table EXCEPT ![p] = e]
      BY <1>1, <1>3, <2>2, HeardEntry DEF Tables
    <3>2. e.mac = m /\ e.seen = clock /\ e.est = table[p].est
      BY <1>3 DEF Entries
    <3>3. QED BY <3>1, <3>2
  <2>3. QED BY <1>2, <2>1, <2>2
<1>5. /\ table' \in Tables /\ Sound(table') /\ Cardinality(Held(table')) = Cardinality(Held(table))
      /\ Held(table') = {x \in Held(table) : x.mac # e.mac} \cup {e}
  BY <1>1, <1>3, <1>4, Rewritten
<1>6. PeerInv'
  BY <1>1, <1>5, InvAgain
<1>7. View(table') = Abstract!With(View(table), e.mac, Face(e))
  BY <1>1, <1>5, ViewJoin
<1>8. m \in DOMAIN View(table) /\ View(table)[m] = Face(table[p])
  <2>1. /\ DOMAIN View(table) = {x.mac : x \in Held(table)}
        /\ \A x \in Held(table) : View(table)[x.mac] = Face(x)
    BY <1>1, ViewFacts
  <2>2. table[p].mac \in DOMAIN View(table) /\ View(table)[table[p].mac] = Face(table[p])
    BY <1>3, <2>1
  <2>3. QED BY <1>3, <2>2
<1>9. View(table') = [View(table) EXCEPT ![m].seen = clock]
  <2> DEFINE V == View(table)
  <2>1. Face(e) = [V[m] EXCEPT !.seen = clock]
    BY <1>4, <1>8 DEF Face
  <2>2. V = [x \in DOMAIN V |-> V[x]]
    BY <1>1, ViewFacts
  <2>3. Abstract!With(V, m, Face(e)) = [x \in DOMAIN V |-> IF x = m THEN Face(e) ELSE V[x]]
    <3>1. DOMAIN V \cup {m} = DOMAIN V
      BY <1>8
    <3>2. QED BY <3>1 DEF Abstract!With
  <2> HIDE DEF V
  <2>4. [V EXCEPT ![m].seen = clock] = [x \in DOMAIN V |-> IF x = m THEN Face(e) ELSE V[x]]
    BY <2>1, <2>2
  <2>5. QED BY <1>4, <1>7, <2>3, <2>4 DEF V
<1>10. Abstract!Hear(m)
  BY <1>1, <1>8, <1>9, PeersIsView DEF Abstract!Hear
<1>11. QED BY <1>6, <1>10
\* An entry is taken out of the table.
LEMMA ClearStep ==
  ASSUME PeerTableAssumption, PeerInv, NEW p \in Pos, Valid(table, p), table' \in Clear(table, p),
         count' = count - 1, UNCHANGED clock, sweep' \in [i : -1..(Size - 1), now : 0..MaxClock]
  PROVE  PeerInv' /\ table[p].mac \in Mac /\ Abstract!Leave(table[p].mac)
<1>1. /\ table \in Tables /\ Sound(table) /\ count = Cardinality(Held(table))
      /\ IsFiniteSet(Held(table)) /\ clock \in 0..MaxClock
  BY InvFacts
<1>2. /\ table' \in Tables /\ Sound(table') /\ Held(table') = Held(table) \ {table[p]}
  BY <1>1, ClearFacts
<1>3. table[p] \in Held(table) /\ table[p].mac \in Mac
  BY <1>1, EntryFacts DEF Held
<1>4. count' = Cardinality(Held(table'))
  <2>1. Cardinality(Held(table) \ {table[p]}) = Cardinality(Held(table)) - 1
    BY <1>1, <1>3, FS_RemoveElement
  <2>2. QED BY <1>1, <1>2, <2>1
<1>5. PeerInv'
  BY <1>1, <1>2, <1>4, InvAgain
<1>6. /\ View(table') = Restrict(View(table), DOMAIN View(table) \ {table[p].mac})
      /\ table[p].mac \in DOMAIN View(table)
  BY <1>1, <1>2, <1>3, ViewLeave
<1>7. Abstract!Leave(table[p].mac)
  BY <1>6, PeersIsView DEF Abstract!Leave, Abstract!Restrict, Restrict
<1>8. QED BY <1>3, <1>5, <1>7

\* removePeer, for a peer that is named.
LEMMA RemoveStep ==
  ASSUME PeerTableAssumption, PeerInv, NEW m \in Mac, RemovePeer(m)
  PROVE  PeerInv' /\ Abstract!Leave(m)
<1>1. /\ table \in Tables /\ Sound(table) /\ sweep \in [i : -1..(Size - 1), now : 0..MaxClock]
  BY InvFacts
<1>2. PICK p \in Probe(table, m) : table' \in Clear(table, p)
  BY DEF RemovePeer
<1>3. count' = count - 1 /\ UNCHANGED clock /\ sweep' = sweep
  BY DEF RemovePeer
<1>4. p \in Pos /\ Valid(table, p) /\ table[p].mac = m
  BY <1>1, <1>2, ProbeFacts
<1>5. PeerInv' /\ Abstract!Leave(table[p].mac)
  BY <1>1, <1>2, <1>3, <1>4, ClearStep
<1>6. QED BY <1>4, <1>5

\* An iteration of the sweep takes the peer it looks at out, or does nothing.
LEMMA SweepKeeps ==
  ASSUME PeerTableAssumption, PeerInv, SweepStep
  PROVE  PeerInv' /\ ((\E m \in Mac : Abstract!Leave(m)) \/ UNCHANGED <<table, clock>>)
<1>1. /\ table \in Tables /\ Sound(table) /\ sweep \in [i : -1..(Size - 1), now : 0..MaxClock]
      /\ count = Cardinality(Held(table)) /\ clock \in 0..MaxClock /\ Size \in Nat \ {0}
  BY InvFacts DEF PeerTableAssumption
<1>2. sweep' \in [i : -1..(Size - 1), now : 0..MaxClock] /\ UNCHANGED clock
  <2>1. sweep.i >= 0 /\ sweep' = [sweep EXCEPT !.i = @ - 1] /\ UNCHANGED clock
    BY DEF SweepStep
  <2>2. sweep.i - 1 \in -1..(Size - 1)
    BY <1>1, <2>1
  <2>3. QED BY <1>1, <2>1, <2>2
<1>3. CASE UNCHANGED <<table, count>>
  BY <1>1, <1>2, <1>3, InvAgain
<1>4. ASSUME NEW p \in ByIndex(table, sweep.i), table' \in Clear(table, p), count' = count - 1
      PROVE  PeerInv' /\ \E m \in Mac : Abstract!Leave(m)
  <2>1. p \in Pos /\ Valid(table, p)
    BY <1>4 DEF ByIndex
  <2>2. PeerInv' /\ table[p].mac \in Mac /\ Abstract!Leave(table[p].mac)
    BY <1>2, <1>4, <2>1, ClearStep
  <2>3. QED BY <2>2
<1>5. QED BY <1>3, <1>4 DEF SweepStep

\* A key rotation marks every peer: each has an index that the loop comes to.
LEMMA RotateStep ==
  ASSUME PeerTableAssumption, PeerInv, RotateEpoch
  PROVE  PeerInv' /\ Abstract!Rotate
<1>1. /\ table \in Tables /\ Sound(table) /\ sweep \in [i : -1..(Size - 1), now : 0..MaxClock]
      /\ count = Cardinality(Held(table)) /\ clock \in 0..MaxClock
  BY InvFacts
<1>2. UNCHANGED <<count, clock, sweep>>
  BY DEF RotateEpoch
<1>3. ASSUME NEW p \in Pos
      PROVE  Valid(table, p) <=> \E i \in 0..(count - 1) : p \in ByIndex(table, i)
  <2>1. ASSUME Valid(table, p)
        PROVE  \E i \in 0..(count - 1) : p \in ByIndex(table, i)
    <3> DEFINE B == {q \in Pos : q < p /\ Valid(table, q)}
               U == Used(table)
    <3>1. IsFiniteSet(U) /\ Cardinality(U) = count
      BY <1>1, Counting DEF Sound
    <3>2. B \in SUBSET U /\ p \in U /\ p \notin B
      <4>1. ~(p < p)
        BY DEF Pos
      <4>2. QED BY <2>1, <4>1 DEF Used
    <3>3. B \in SUBSET U /\ B # U
      BY <3>2
    <3> HIDE DEF B, U
    <3>4. IsFiniteSet(B) /\ Cardinality(B) <= Cardinality(U) /\ Cardinality(B) # Cardinality(U)
      BY <3>1, <3>3, FS_Subset
    <3>5. Cardinality(B) \in Nat /\ Cardinality(U) \in Nat
      BY <3>1, <3>4, FS_CardinalityType
    <3>6. Cardinality(B) \in 0..(count - 1)
      BY <3>1, <3>4, <3>5
    <3>7. p \in ByIndex(table, Cardinality(B))
      BY <2>1 DEF ByIndex, B
    <3>8. QED BY <3>6, <3>7
  <2>2. QED BY <2>1 DEF ByIndex
<1>4. \A p \in Pos : table'[p] = IF Valid(table, p) THEN [table[p] EXCEPT !.est = FALSE] ELSE table[p]
  BY <1>3 DEF RotateEpoch
<1>5. \A p \in Pos : Valid(table, p) => table[p] \in Entries
  BY <1>1, EntryFacts
<1>6. \A p \in Pos : table'[p].mac = table[p].mac
  <2>1. \A e \in Entries : [e EXCEPT !.est = FALSE].mac = e.mac
    BY DEF Entries
  <2>2. QED BY <1>4, <1>5, <2>1
<1>7. table' \in Tables
  <2>1. \A e \in Entries : [e EXCEPT !.est = FALSE] \in Entries
    BY DEF Entries
  <2>2. \A p \in Pos : table'[p] \in Slots
    BY <1>1, <1>4, <1>5, <2>1 DEF Tables, Slots
  <2>3. table' = [p \in Pos |-> table'[p]]
    BY DEF RotateEpoch
  <2>4. QED BY <2>2, <2>3 DEF Tables
<1>8. /\ Sound(table') /\ Cardinality(Held(table')) = Cardinality(Held(table))
      /\ \A p \in Pos : Valid(table', p) <=> Valid(table, p)
  BY <1>1, <1>6, SameMacs
<1>9. PeerInv'
  BY <1>1, <1>2, <1>7, <1>8, InvAgain
<1> DEFINE V == View(table)
           F == [m \in DOMAIN V |-> [V[m] EXCEPT !.est = FALSE]]
<1>10. View(table') = F
  <2>1. /\ DOMAIN V = {x.mac : x \in Held(table)}
        /\ \A x \in Held(table) : V[x.mac] = Face(x)
    BY <1>1, ViewFacts
  <2> HIDE DEF V
  <2>2. ASSUME NEW p \in Pos, Valid(table, p)
        PROVE  /\ table'[p] \in Held(table') /\ table[p] \in Held(table)
               /\ table'[p].mac = table[p].mac /\ Face(table'[p]) = F[table[p].mac]
    <3>1. table'[p] \in Held(table') /\ table[p] \in Held(table)
      BY <1>8, <2>2 DEF Held
    <3>2. table[p].mac \in DOMAIN V /\ V[table[p].mac] = Face(table[p])
      BY <2>1, <3>1
    <3>3. F[table[p].mac] = [Face(table[p]) EXCEPT !.est = FALSE]
      BY <3>2
    <3>4. Face([table[p] EXCEPT !.est = FALSE]) = [Face(table[p]) EXCEPT !.est = FALSE]
      <4>1. \A e \in Entries : /\ [e EXCEPT !.est = FALSE].seen = e.seen
                              /\ [e EXCEPT !.est = FALSE].est = FALSE
        BY DEF Entries
      <4>2. table[p] \in Entries
        BY <1>5, <2>2
      <4> DEFINE x == [table[p] EXCEPT !.est = FALSE]
      <4>3. x.seen = table[p].seen /\ x.est = FALSE
        BY <4>1, <4>2
      <4> HIDE DEF x
      <4>4. Face(x) = [Face(table[p]) EXCEPT !.est = FALSE]
        <5>1. Face(x) = [seen |-> table[p].seen, est |-> FALSE]
          BY <4>3, Zenon DEF Face
        <5> DEFINE y == Face(table[p])
        <5>2. y \in [seen : {table[p].seen}, est : {table[p].est}]
          BY DEF Face
        <5>3. y.seen = table[p].seen
          BY DEF Face
        <5> DEFINE no == FALSE
        <5> HIDE DEF y, no
        <5>4. [y EXCEPT !.est = no] = [seen |-> table[p].seen, est |-> no]
          BY <5>2, <5>3
        <5>5. QED BY <5>1, <5>4, Zenon DEF y, no
      <4>5. QED BY <4>4 DEF x
    <3>5. QED BY <1>4, <1>6, <2>2, <3>1, <3>3, <3>4
  <2>3. \A x \in Held(table) : \E p \in Pos : Valid(table, p) /\ x = table[p]
    BY DEF Held
  <2>4. \A x \in Held(table') : \E p \in Pos : Valid(table, p) /\ x = table'[p]
    BY <1>8 DEF Held
  <2>5. DOMAIN F = {x.mac : x \in Held(table')}
    <3> HIDE DEF F
    <3>1. DOMAIN F = {x.mac : x \in Held(table)}
      BY <2>1 DEF F
    <3>2. \A x \in Held(table) : \E y \in Held(table') : y.mac = x.mac
      BY <2>2, <2>3
    <3>3. \A y \in Held(table') : \E x \in Held(table) : y.mac = x.mac
      BY <2>2, <2>4
    <3>4. {x.mac : x \in Held(table)} = {x.mac : x \in Held(table')}
      BY <3>2, <3>3
    <3>5. QED BY <3>1, <3>4
  <2>6. \A x \in Held(table') : F[x.mac] = Face(x)
    <3> HIDE DEF F
    <3>1. QED BY <2>2, <2>4
  <2>7. F = [m \in DOMAIN F |-> F[m]]
    OBVIOUS
  <2> HIDE DEF F
  <2>8. QED BY <1>7, <1>8, <2>5, <2>6, <2>7, ViewIs
<1>11. Abstract!Rotate
  BY <1>2, <1>10, PeersIsView DEF Abstract!Rotate
<1>12. QED BY <1>9, <1>11
\* A peer that is known is refreshed, a new one joins, in a full table at the
\* cost of the one heard longest ago.
LEMMA AddStep ==
  ASSUME PeerTableAssumption, PeerInv, NEW m \in Mac, AddPeer(m)
  PROVE  PeerInv' /\ Abstract!Join(m)
<1> DEFINE e == [mac |-> m, seen |-> clock, est |-> TRUE, sleep |-> 0]
           V == View(table)
<1>1. /\ table \in Tables /\ Sound(table) /\ count = Cardinality(Held(table))
      /\ IsFiniteSet(Held(table)) /\ count \in 0..Size
      /\ clock \in 0..MaxClock /\ sweep \in [i : -1..(Size - 1), now : 0..MaxClock]
      /\ UNCHANGED <<clock, sweep>>
  BY InvFacts DEF AddPeer
<1>2. e \in Entries /\ e.mac = m /\ Face(e) = [seen |-> clock, est |-> TRUE]
  <2>1. e \in Entries
    BY <1>1, NewEntry
  <2>2. e.mac = m /\ e.seen = clock /\ e.est = TRUE
    OBVIOUS
  <2> HIDE DEF e
  <2>3. QED BY <2>1, <2>2 DEF Face
<1>3. /\ DOMAIN V = {x.mac : x \in Held(table)}
      /\ \A x \in Held(table) : V[x.mac] = Face(x)
      /\ Held(table) \in SUBSET Entries
      /\ Cardinality(DOMAIN V) = count
  BY <1>1, ViewFacts, ViewSize
<1> HIDE DEF e, V
<1>4. ASSUME NEW p \in Probe(table, m), table' = [table EXCEPT ![p].seen = clock, ![p].est = TRUE],
             UNCHANGED count
      PROVE  PeerInv' /\ Abstract!Join(m)
  <2> DEFINE x == [table[p] EXCEPT !.seen = clock, !.est = TRUE]
  <2>1. p \in Pos /\ Valid(table, p) /\ table[p].mac = m
    BY <1>1, ProbeFacts
  <2>2. table[p] \in Entries /\ table[p] \in Held(table)
    BY <1>1, <2>1, EntryFacts DEF Held
  <2>3. x \in Entries
    BY <1>1, <2>2, HeardEntry
  <2>4. table' = [table EXCEPT ![p] = x]
    BY <1>1, <1>4, <2>1 DEF Tables
  <2>5. x.mac = m /\ Face(x) = [seen |-> clock, est |-> TRUE]
    BY <2>1, <2>2 DEF Face, Entries
  <2> HIDE DEF x
  <2>6. /\ table' \in Tables /\ Sound(table') /\ Cardinality(Held(table')) = Cardinality(Held(table))
        /\ Held(table') = {y \in Held(table) : y.mac # x.mac} \cup {x}
    BY <1>1, <2>1, <2>3, <2>4, <2>5, Rewritten
  <2>7. PeerInv'
    BY <1>1, <1>4, <2>6, InvAgain
  <2>8. View(table') = Abstract!With(V, m, [seen |-> clock, est |-> TRUE])
    <3>1. View(table') = Abstract!With(View(table), x.mac, Face(x))
      BY <1>1, <2>6, ViewJoin
    <3>2. QED BY <2>5, <3>1 DEF V
  <2>9. m \in DOMAIN V
    BY <1>3, <2>1, <2>2
  <2>10. QED BY <1>1, <2>7, <2>8, <2>9, PeersIsView DEF Abstract!Join, V
<1>5. ASSUME Probe(table, m) = {}
      PROVE  /\ \A x \in Held(table) : x.mac # m
             /\ m \notin DOMAIN V
  <2>1. \A x \in Held(table) : x.mac # m
    BY <1>1, <1>5, ProbeFacts
  <2>2. QED BY <1>3, <2>1
<1>6. ASSUME Probe(table, m) = {}, Free(table, m) # {}, table' = Insert(table, m, e), count' = count + 1
      PROVE  PeerInv' /\ Abstract!Join(m)
  <2>1. \E q \in Pos : ~Valid(table, q)
    BY <1>6 DEF Free
  <2>2. /\ table' \in Tables /\ Sound(table') /\ Held(table') = Held(table) \cup {e}
    BY <1>1, <1>2, <1>5, <1>6, <2>1, InsertFacts
  <2>3. e \notin Held(table) /\ Held(table) = {y \in Held(table) : y.mac # e.mac}
    BY <1>2, <1>5, <1>6
  <2>4. count' = Cardinality(Held(table'))
    <3>1. Cardinality(Held(table) \cup {e}) = Cardinality(Held(table)) + 1
      BY <1>1, <2>3, FS_AddElement
    <3>2. QED BY <1>1, <1>6, <2>2, <3>1
  <2>5. PeerInv'
    BY <1>1, <2>2, <2>4, InvAgain
  <2>6. Held(table') = {y \in Held(table) : y.mac # e.mac} \cup {e}
    BY <2>2, <2>3
  <2>7. View(table') = Abstract!With(V, m, [seen |-> clock, est |-> TRUE])
    <3>1. View(table') = Abstract!With(View(table), e.mac, Face(e))
      BY <1>1, <2>2, <2>6, ViewJoin
    <3>2. QED BY <1>2, <3>1 DEF V
  <2>8. Cardinality(DOMAIN V) < Size
    <3>1. Cardinality(Held(table)) # Size
      BY <1>1, <2>1, Counting DEF Sound
    <3>2. Size \in Nat
      BY DEF PeerTableAssumption
    <3>3. QED BY <1>1, <1>3, <3>1, <3>2
  <2>9. Peers = V /\ Peers' = View(table')
    BY PeersIsView DEF V
  <2>10. Abstract!Join(m)
    <3>1. Abstract!Cardinality(DOMAIN Peers) < Size
      BY <2>8, <2>9, SameCardinality
    <3>2. Peers' = Abstract!With(Peers, m, [seen |-> clock, est |-> TRUE])
      BY <2>7, <2>9
    <3>3. QED BY <1>1, <3>1, <3>2, Zenon DEF Abstract!Join
  <2>11. QED BY <2>5, <2>10
<1>7. ASSUME Probe(table, m) = {}, Free(table, m) = {}, NEW v \in Victim(table),
             NEW t \in Clear(table, v), table' = Insert(t, m, e), UNCHANGED count
      PROVE  PeerInv' /\ Abstract!Join(m)
  <2>1. /\ v \in Pos /\ Valid(table, v)
        /\ \A q \in Pos : Valid(table, q) =>
               table[v].seen < table[q].seen \/ (table[v].seen = table[q].seen /\ v <= q)
    BY DEF Victim
  <2>2. \A q \in Pos : Valid(table, q)
    <3>1. ASSUME NEW q \in Pos, ~Valid(table, q)
          PROVE  FALSE
      <4>1. \E f \in Pos : Free(table, m) = {f}
        BY <3>1, FirstFree
      <4>2. QED BY <1>7, <4>1
    <3>2. QED BY <3>1
  <2>3. count = Size
    BY <1>1, <2>2, Counting DEF Sound
  <2>4. t \in Tables /\ Sound(t) /\ Held(t) = Held(table) \ {table[v]}
    BY <1>1, <1>7, <2>1, ClearFacts
  <2>5. table[v] \in Held(table)
    BY <2>1 DEF Held
  <2>6. IsFiniteSet(Held(t)) /\ Cardinality(Held(t)) = Size - 1
    <3>1. /\ IsFiniteSet(Held(table) \ {table[v]})
          /\ Cardinality(Held(table) \ {table[v]}) = Cardinality(Held(table)) - 1
      BY <1>1, <2>5, FS_RemoveElement
    <3>2. QED BY <1>1, <2>3, <2>4, <3>1
  <2>7. \E q \in Pos : ~Valid(t, q)
    <3>1. Size - 1 # Size
      BY DEF PeerTableAssumption
    <3>2. QED BY <2>4, <2>6, <3>1, Counting DEF Sound
  <2>8. \A x \in Held(t) : x.mac # e.mac
    BY <1>2, <1>5, <1>7, <2>4
  <2>9. /\ table' \in Tables /\ Sound(table') /\ Held(table') = Held(t) \cup {e}
    BY <1>2, <1>7, <2>4, <2>7, <2>8, InsertFacts
  <2>10. e \notin Held(t) /\ Held(t) = {y \in Held(t) : y.mac # e.mac}
    BY <2>8
  <2>11. count' = Cardinality(Held(table'))
    <3>1. Cardinality(Held(t) \cup {e}) = Cardinality(Held(t)) + 1
      BY <2>6, <2>10, FS_AddElement
    <3>2. Size \in Nat
      BY DEF PeerTableAssumption
    <3>3. QED BY <1>7, <2>3, <2>6, <2>9, <3>1, <3>2
  <2>12. PeerInv'
    BY <1>1, <2>9, <2>11, InvAgain
  <2>13. Held(table') = {y \in Held(t) : y.mac # e.mac} \cup {e}
    BY <2>9, <2>10
  <2>14. View(table') = Abstract!With(View(t), m, [seen |-> clock, est |-> TRUE])
    <3>1. View(table') = Abstract!With(View(t), e.mac, Face(e))
      BY <2>4, <2>9, <2>13, ViewJoin
    <3>2. QED BY <1>2, <3>1
  <2>15. View(t) = Restrict(V, DOMAIN V \ {table[v].mac}) /\ table[v].mac \in DOMAIN V
    BY <1>1, <2>4, <2>5, ViewLeave DEF V
  <2>16. table[v].mac \in Abstract!Oldest(V)
    <3> SUFFICES ASSUME NEW o \in DOMAIN V
                 PROVE  V[table[v].mac].seen <= V[o].seen
      BY <2>15 DEF Abstract!Oldest
    <3>1. PICK x \in Held(table) : o = x.mac
      BY <1>3
    <3>2. PICK q \in Pos : Valid(table, q) /\ x = table[q]
      BY <3>1 DEF Held
    <3>3. V[o].seen = table[q].seen /\ V[table[v].mac].seen = table[v].seen
      <4>1. V[o] = Face(table[q]) /\ V[table[v].mac] = Face(table[v])
        BY <1>3, <2>5, <3>1, <3>2
      <4>2. QED BY <4>1 DEF Face
    <3>4. table[q].seen \in Int /\ table[v].seen \in Int
      <4>1. table[q] \in Entries /\ table[v] \in Entries
        BY <1>3, <2>5, <3>1, <3>2
      <4>2. \A y \in Entries : y.seen \in Int
        BY DEF Entries
      <4>3. QED BY <4>1, <4>2
    <3>5. QED BY <2>1, <3>2, <3>3, <3>4
  <2>17. m \notin DOMAIN V /\ Cardinality(DOMAIN V) = Size
    BY <1>3, <1>5, <1>7, <2>3
  <2>18. View(table') = Abstract!With(Restrict(V, DOMAIN V \ {table[v].mac}), m, [seen |-> clock, est |-> TRUE])
    BY <2>14, <2>15
  <2>19. Abstract!Join(m)
    <3>1. Peers = V /\ Peers' = View(table')
      BY PeersIsView DEF V
    <3>2. \A f, S : Abstract!Restrict(f, S) = Restrict(f, S)
      BY DEF Abstract!Restrict, Restrict
    <3>3. \E o \in Abstract!Oldest(Peers) :
             Peers' = Abstract!With(Abstract!Restrict(Peers, DOMAIN Peers \ {o}), m,
                                    [seen |-> clock, est |-> TRUE])
      BY <2>16, <2>18, <3>1, <3>2
    <3>4. m \notin DOMAIN Peers /\ Abstract!Cardinality(DOMAIN Peers) = Size
      BY <2>17, <3>1, SameCardinality
    <3>5. QED BY <1>1, <3>3, <3>4, Zenon DEF Abstract!Join
  <2>20. QED BY <2>12, <2>19
<1>8. QED BY <1>4, <1>6, <1>7 DEF AddPeer, e
-----------------------------------------------------------------------------
(* The theorems.                                                            *)

\* At first nothing is held.
LEMMA PeerStart ==
  ASSUME PeerTableAssumption, Init
  PROVE  PeerInv /\ Abstract!Init
<1>0. Size \in Nat \ {0} /\ MaxClock \in Nat
  BY DEF PeerTableAssumption
<1>1. \A p \in Pos : table[p] = NoEntry /\ ~Valid(table, p)
  BY EntryFacts DEF Init, Valid
<1>2. Sound(table) /\ Held(table) = {}
  BY <1>1 DEF Sound, Single, Held
<1>3. table \in Tables
  BY DEF Init, Tables, Slots
<1>4. count = Cardinality(Held(table))
  BY <1>2, FS_EmptySet DEF Init
<1>5. TypeOK
  <2>1. count \in 0..Size /\ clock \in 0..MaxClock
    BY <1>0 DEF Init
  <2>2. sweep \in [i : -1..(Size - 1), now : 0..MaxClock]
    <3>1. -1 \in -1..(Size - 1) /\ 0 \in 0..MaxClock
      BY <1>0
    <3>2. QED BY <3>1 DEF Init
  <2>3. QED BY <1>3, <2>1, <2>2 DEF TypeOK, Tables, Slots
<1>6. View(table) = << >>
  <2>1. DOMAIN View(table) = {} /\ View(table) = [m \in DOMAIN View(table) |-> View(table)[m]]
    BY <1>2, <1>3, ViewFacts
  <2>2. QED BY <2>1
<1>7. Abstract!Init
  BY <1>6, PeersIsView DEF Abstract!Init, Init
<1>8. QED BY <1>2, <1>4, <1>5, <1>7 DEF PeerInv

\* Every step keeps the invariant, and is a step of the set or none.
LEMMA PeerStep ==
  ASSUME PeerTableAssumption, PeerInv, [Next]_vars
  PROVE  PeerInv' /\ [Abstract!Next]_(<<clock, Peers>>)
<1>1. /\ table \in Tables /\ Sound(table) /\ sweep \in [i : -1..(Size - 1), now : 0..MaxClock]
      /\ count = Cardinality(Held(table)) /\ count \in 0..Size /\ clock \in 0..MaxClock
      /\ Size \in Nat \ {0} /\ MaxClock \in Nat
  BY InvFacts DEF PeerTableAssumption
<1>2. ASSUME NEW m \in Mac, AddPeer(m)
      PROVE  PeerInv' /\ [Abstract!Next]_(<<clock, Peers>>)
  BY <1>2, AddStep DEF Abstract!Next
<1>3. ASSUME NEW m \in Mac, HearPeer(m) \/ HearBeacon(m)
      PROVE  PeerInv' /\ [Abstract!Next]_(<<clock, Peers>>)
  BY <1>3, HearStep DEF Abstract!Next
<1>4. ASSUME NEW m \in Mac, RemovePeer(m)
      PROVE  PeerInv' /\ [Abstract!Next]_(<<clock, Peers>>)
  BY <1>4, RemoveStep DEF Abstract!Next
<1>5. CASE RotateEpoch
  BY <1>5, RotateStep DEF Abstract!Next
<1>6. CASE SweepStep
  <2>1. PeerInv' /\ ((\E m \in Mac : Abstract!Leave(m)) \/ UNCHANGED <<table, clock>>)
    BY <1>6, SweepKeeps
  <2>2. CASE \E m \in Mac : Abstract!Leave(m)
    BY <2>1, <2>2 DEF Abstract!Next
  <2>3. CASE UNCHANGED <<table, clock>>
    <3>1. Peers' = Peers /\ clock' = clock
      BY <2>3, PeersIsView
    <3>2. QED BY <2>1, <3>1
  <2>4. QED BY <2>1, <2>2, <2>3
<1>7. CASE SweepBegin
  <2>1. sweep' \in [i : -1..(Size - 1), now : 0..MaxClock] /\ UNCHANGED <<table, count, clock>>
    <3>1. count - 1 \in -1..(Size - 1)
      BY <1>1
    <3>2. QED BY <1>1, <1>7, <3>1 DEF SweepBegin
  <2>2. PeerInv'
    BY <1>1, <2>1, InvAgain
  <2>3. Peers' = Peers
    BY <2>1, PeersIsView
  <2>4. QED BY <2>1, <2>2, <2>3
<1>8. CASE Tick
  <2>1. clock' \in 0..MaxClock /\ clock' = clock + 1 /\ UNCHANGED <<table, count, sweep>>
    BY <1>1, <1>8 DEF Tick
  <2>2. PeerInv'
    BY <1>1, <2>1, InvAgain
  <2>3. Peers' = Peers
    BY <2>1, PeersIsView
  <2>4. Abstract!Tick
    BY <2>1, <2>3 DEF Abstract!Tick
  <2>5. QED BY <2>2, <2>4 DEF Abstract!Next
<1>9. CASE UNCHANGED vars
  <2>1. UNCHANGED <<table, count, clock, sweep>>
    BY <1>9 DEF vars
  <2>2. PeerInv'
    BY <1>1, <2>1, InvAgain
  <2>3. Peers' = Peers
    BY <2>1, PeersIsView
  <2>4. QED BY <2>1, <2>2, <2>3
<1>10. QED BY <1>2, <1>3, <1>4, <1>5, <1>6, <1>7, <1>8, <1>9 DEF Next, Handler

\* What the properties say, of the invariant.
LEMMA PeerInvMeans ==
  ASSUME PeerTableAssumption, PeerInv
  PROVE  TypeOK /\ EveryPeerFound
<1>1. table \in Tables /\ Sound(table) /\ count = Cardinality(Held(table))
  BY InvFacts
<1>2. \A p \in Pos : Valid(table, p) => Probe(table, table[p].mac) = {p}
  BY <1>1, ProbeFacts
<1>3. count = Cardinality({p \in Pos : Valid(table, p)})
  BY <1>1, Counting DEF Sound, Used
<1>4. QED BY <1>2, <1>3 DEF PeerInv, EveryPeerFound

\* The table, the count and the sweep's index stay in their bounds, whatever is
\* added, removed or evicted while the sweep goes on.
THEOREM PeerTypeCorrect == Spec => []TypeOK
<1>1. Init => PeerInv
  BY PeerStart, PeerTableAssumption
<1>2. PeerInv /\ [Next]_vars => PeerInv'
  BY PeerStep, PeerTableAssumption
<1>3. PeerInv => TypeOK
  BY PeerInvMeans, PeerTableAssumption
<1>4. QED BY <1>1, <1>2, <1>3, PTL DEF Spec

\* Whatever was evicted or deleted before it in its cluster, _probe finds every
\* peer that is in the table, and _count is the number of entries.
THEOREM PeerAlwaysFound == Spec => []EveryPeerFound
<1>1. Init => PeerInv
  BY PeerStart, PeerTableAssumption
<1>2. PeerInv /\ [Next]_vars => PeerInv'
  BY PeerStep, PeerTableAssumption
<1>3. PeerInv => EveryPeerFound
  BY PeerInvMeans, PeerTableAssumption
<1>4. QED BY <1>1, <1>2, <1>3, PTL DEF Spec

\* The hash table implements the bounded set of peers that gives up the one heard
\* longest ago: each operation of PeerManager is one step of it, and an iteration
\* of the sweep is a peer's leaving or nothing.
THEOREM PeerTableImplementsSet == Spec => ImplementsPeerSet
<1>1. Init => PeerInv /\ Abstract!Init
  BY PeerStart, PeerTableAssumption
<1>2. PeerInv /\ [Next]_vars => PeerInv' /\ [Abstract!Next]_(<<clock, Peers>>)
  BY PeerStep, PeerTableAssumption
<1>3. QED BY <1>1, <1>2, PTL DEF Spec, ImplementsPeerSet, Abstract!Spec

-----------------------------------------------------------------------------
(* The services that are found.                                            *)

\* Entries of the two tables.
Offers == [valid : {TRUE}, name : Stored, port : Port]
Findings == [valid : {TRUE}, name : Stored, node : Node, port : Port, age : 0..(Lifetime + 1)]

\* The tables and the announcements hold entries of these kinds, and no more of
\* them than their arrays and the buffer do (ServiceDiscovery.cpp:8, 59, 105).
ServiceTypeOK ==
    /\ local \in [Node -> Seq(Offers \cup {Invalid})]
    /\ \A n \in Node : Len(local[n]) <= MaxServices
    /\ discovered \in Seq(Findings \cup {Invalid}) /\ Len(discovered) <= MaxServices
    /\ late \subseteq [from : Node, adv : Seq(Offers)]
    /\ \A f \in late : Len(f.adv) <= MaxAdv
    /\ lates \in 0..MaxLate
    /\ heard \in [Stored -> [node : Node \cup {NoNode}, port : Port \cup {0}, age : 0..(Lifetime + 1)]]

Entry == Findings \cup {Invalid}
Listings == {d \in Seq(Entry) : Len(d) <= MaxServices}
Histories == [Stored -> [node : Node \cup {NoNode}, port : Port \cup {0}, age : 0..(Lifetime + 1)]]

\* The table says of each name what was heard last, at most once, and says it
\* as long as it is recent and the table is not used up.
Current(d, h) ==
    \A i \in DOMAIN d : d[i].valid =>
        /\ d[i].node = h[d[i].name].node
        /\ d[i].port = h[d[i].name].port
        /\ d[i].age = h[d[i].name].age
Once(d) ==
    \A i, j \in DOMAIN d : d[i].valid /\ d[j].valid /\ d[i].name = d[j].name => i = j
Complete(d, h) ==
    \A s \in Stored : h[s].node # NoNode /\ h[s].age <= Lifetime /\ Len(d) < MaxServices =>
        \E i \in DOMAIN d : d[i].valid /\ d[i].name = s
Agrees(d, h) == Current(d, h) /\ Once(d) /\ Complete(d, h)

\* A name that is stored is stored as it is.
LEMMA StoredFacts ==
  ASSUME ServiceAssumption
  PROVE  /\ \A s \in Stored : Cut[s] = s
         /\ MaxServices \in Nat \ {0} /\ MaxAdv \in Nat \ {0} /\ Lifetime \in Nat /\ MaxLate \in Nat
BY DEF ServiceAssumption, Stored

\* A sequence that is given as a function.
LEMMA Listing ==
  ASSUME NEW S, NEW n \in Nat, NEW f \in [1..n -> S]
  PROVE  f \in Seq(S) /\ Len(f) = n
<1>1. f \in Seq(S)
  BY SeqDef
<1>2. Len(f) = n
  BY <1>1, LenProperties
<1>3. QED BY <1>1, <1>2

\* The loops stop at a valid entry of the name, if there is one.
LEMMA FirstFacts ==
  ASSUME NEW S, NEW s \in Seq(S), NEW name
  PROVE  /\ First(s, name) \in SUBSET DOMAIN s
         /\ \A i \in First(s, name) : s[i].valid /\ s[i].name = name
         /\ First(s, name) = {} => \A i \in DOMAIN s : ~(s[i].valid /\ s[i].name = name)
<1>1. First(s, name) \in SUBSET DOMAIN s /\ \A i \in First(s, name) : s[i].valid /\ s[i].name = name
  BY DEF First
<1>2. ASSUME NEW i \in DOMAIN s, s[i].valid /\ s[i].name = name
      PROVE  First(s, name) # {}
  <2> DEFINE T == {j \in DOMAIN s : s[j].valid /\ s[j].name = name}
  <2>1. DOMAIN s = 1..Len(s) /\ Len(s) \in Nat
    BY LenProperties
  <2>2. T \in SUBSET Nat /\ T # {}
    BY <1>2, <2>1
  <2>3. PICK f \in T : \A j \in T : f <= j
    <3> HIDE DEF T
    <3>1. QED BY <2>2, Least
  <2>4. \A j \in 1..(f - 1) : ~(s[j].valid /\ s[j].name = name)
    <3>1. \A j \in 1..(f - 1) : j \in DOMAIN s /\ ~(f <= j)
      BY <2>1
    <3>2. QED BY <2>3, <3>1
  <2>5. f \in First(s, name)
    BY <2>4 DEF First
  <2>6. QED BY <2>5
<1>3. QED BY <1>1, <1>2

\* A finding is the record of its fields.
LEMMA FindingFacts ==
  ASSUME NEW e \in Findings
  PROVE  /\ e.valid = TRUE /\ e.name \in Stored /\ e.node \in Node
         /\ e.port \in Port /\ e.age \in 0..(Lifetime + 1)
         /\ \A age : [e EXCEPT !.age = age] =
                [valid |-> TRUE, name |-> e.name, node |-> e.node, port |-> e.port, age |-> age]
<1>1. /\ e.valid = TRUE /\ e.name \in Stored /\ e.node \in Node
      /\ e.port \in Port /\ e.age \in 0..(Lifetime + 1)
  BY DEF Findings
<1>2. ASSUME NEW age
      PROVE  [e EXCEPT !.age = age] =
                [valid |-> TRUE, name |-> e.name, node |-> e.node, port |-> e.port, age |-> age]
  <2>1. [e EXCEPT !.age = age] =
            [valid |-> e.valid, name |-> e.name, node |-> e.node, port |-> e.port, age |-> age]
    BY DEF Findings
  <2>2. QED BY <1>1, <2>1
<1>3. QED BY <1>1, <1>2

\* An entry that is valid is a finding.
LEMMA ListingFacts ==
  ASSUME NEW d \in Listings
  PROVE  /\ d \in Seq(Entry) /\ Len(d) \in Nat /\ Len(d) <= MaxServices /\ DOMAIN d = 1..Len(d)
         /\ \A i \in 1..Len(d) : d[i] \in Entry /\ (d[i].valid => d[i] \in Findings)
         /\ \A i \in 1..Len(d) : d[i].valid \in BOOLEAN
<1>1. d \in Seq(Entry) /\ Len(d) <= MaxServices
  BY DEF Listings
<1>2. Len(d) \in Nat /\ DOMAIN d = 1..Len(d) /\ \A i \in 1..Len(d) : d[i] \in Entry
  BY <1>1, LenProperties, ElementOfSeq
<1>3. ASSUME NEW e \in Entry
      PROVE  e.valid \in BOOLEAN /\ (e.valid => e \in Findings)
  <2>1. CASE e \in Findings
    BY <2>1, FindingFacts
  <2>2. CASE e = Invalid
    BY <2>2 DEF Invalid
  <2>3. QED BY <2>1, <2>2 DEF Entry
<1>4. QED BY <1>1, <1>2, <1>3

\* The table after a reply holds entries, and no more than its array does.
LEMMA ReplyTyped ==
  ASSUME ServiceAssumption, NEW d \in Listings, NEW m \in Node, NEW name \in Stored, NEW port \in Port
  PROVE  Reply(d, m, name, port) \in Listings
<1> DEFINE found == First(d, name)
           e == Finding(Cut[name], m, port)
<1>0. /\ d \in Seq(Entry) /\ Len(d) \in Nat /\ Len(d) <= MaxServices /\ DOMAIN d = 1..Len(d)
      /\ \A i \in 1..Len(d) : d[i] \in Entry /\ (d[i].valid => d[i] \in Findings)
  BY ListingFacts
<1>1. e \in Entry
  BY StoredFacts DEF Entry, Findings, Finding
<1>2. CASE found # {}
  <2> DEFINE r == [i \in DOMAIN d |-> IF i \in found THEN UpdateEntry(d[i], m, port) ELSE d[i]]
  <2>1. ASSUME NEW i \in found
        PROVE  UpdateEntry(d[i], m, port) \in Entry
    <3>1. i \in DOMAIN d /\ d[i].valid
      BY <1>0, FirstFacts
    <3>2. d[i] \in Findings
      BY <1>0, <3>1
    <3>3. UpdateEntry(d[i], m, port) =
            [valid |-> TRUE, name |-> d[i].name, node |-> m, port |-> port, age |-> 0]
      BY DEF UpdateEntry, Finding
    <3>4. d[i].name \in Stored /\ 0 \in 0..(Lifetime + 1)
      <4>1. d[i].name \in Stored
        BY <3>2, FindingFacts
      <4>2. QED BY <4>1, StoredFacts
    <3>5. QED BY <3>3, <3>4 DEF Findings, Entry
  <2> HIDE DEF found
  <2>2. r \in [1..Len(d) -> Entry]
    BY <1>0, <2>1
  <2>3. r \in Seq(Entry) /\ Len(r) = Len(d)
    BY <1>0, <2>2, Listing
  <2>4. Reply(d, m, name, port) = r
    BY <1>2 DEF Reply, found
  <2>5. QED BY <1>0, <2>3, <2>4 DEF Listings
<1>3. CASE found = {}
  <2>1. Reply(d, m, name, port) = Store(d, e)
    BY <1>3 DEF Reply
  <2>2. CASE Len(d) < MaxServices
    <3>1. Append(d, e) \in Seq(Entry) /\ Len(Append(d, e)) = Len(d) + 1
      BY <1>0, <1>1, AppendProperties
    <3>2. Len(d) + 1 <= MaxServices
      BY <1>0, <2>2, StoredFacts
    <3>3. QED BY <2>1, <2>2, <3>1, <3>2 DEF Store, Listings
  <2>3. CASE ~(Len(d) < MaxServices)
    BY <2>1, <2>3 DEF Store
  <2>4. QED BY <2>2, <2>3
<1>4. QED BY <1>2, <1>3

\* What was heard last, after a reply.
LEMMA HearFacts ==
  ASSUME ServiceAssumption, NEW h \in Histories, NEW m \in Node, NEW name \in Stored, NEW port \in Port
  PROVE  /\ Hear(h, m, name, port) \in Histories
         /\ Hear(h, m, name, port)[name] = [node |-> m, port |-> port, age |-> 0]
         /\ \A s \in Stored : s # name => Hear(h, m, name, port)[s] = h[s]
<1>1. Cut[name] = name /\ 0 \in 0..(Lifetime + 1)
  BY StoredFacts
<1>2. [node |-> m, port |-> port, age |-> 0] \in
        [node : Node \cup {NoNode}, port : Port \cup {0}, age : 0..(Lifetime + 1)]
  BY <1>1
<1>3. QED BY <1>1, <1>2 DEF Hear, Histories

\* After a reply the table says what was heard last, if it did before.
LEMMA ReplyAgrees ==
  ASSUME ServiceAssumption, NEW d \in Listings, NEW h \in Histories, Agrees(d, h),
         NEW m \in Node, NEW name \in Stored, NEW port \in Port
  PROVE  Agrees(Reply(d, m, name, port), Hear(h, m, name, port))
<1> DEFINE found == First(d, name)
           g == Hear(h, m, name, port)
           e == Finding(Cut[name], m, port)
<1>0. /\ d \in Seq(Entry) /\ Len(d) \in Nat /\ Len(d) <= MaxServices /\ DOMAIN d = 1..Len(d)
      /\ \A i \in 1..Len(d) : d[i] \in Entry /\ (d[i].valid => d[i] \in Findings)
      /\ Cut[name] = name /\ MaxServices \in Nat
  BY ListingFacts, StoredFacts
<1>1. /\ g[name].node = m /\ g[name].port = port /\ g[name].age = 0
      /\ \A s \in Stored : s # name => g[s] = h[s]
  <2>1. g[name] = [node |-> m, port |-> port, age |-> 0] /\ \A s \in Stored : s # name => g[s] = h[s]
    BY HearFacts
  <2> HIDE DEF g
  <2>2. QED BY <2>1
<1>2. \A i \in DOMAIN d : d[i].valid => d[i] \in Findings /\ d[i].name \in Stored
  BY <1>0, FindingFacts
<1>3. Current(d, h) /\ Once(d) /\ Complete(d, h)
  BY DEF Agrees
<1> HIDE DEF g
<1>4. CASE found # {}
  <2> DEFINE r == [i \in DOMAIN d |-> IF i \in found THEN UpdateEntry(d[i], m, port) ELSE d[i]]
  <2>1. PICK f \in found : TRUE
    BY <1>4
  <2>2. f \in DOMAIN d /\ d[f].valid /\ d[f].name = name /\ d[f] \in Findings
    BY <1>0, <1>2, FirstFacts
  <2>3. \A i \in DOMAIN d : d[i].valid /\ d[i].name = name <=> i = f
    BY <1>3, <2>2 DEF Once
  <2>4. \A i \in DOMAIN d : i \in found <=> i = f
    BY <1>0, <2>1, <2>3, FirstFacts
  <2>5. UpdateEntry(d[f], m, port) =
            [valid |-> TRUE, name |-> name, node |-> m, port |-> port, age |-> 0]
    BY <2>2 DEF UpdateEntry, Finding
  <2> HIDE DEF found
  <2>6. /\ r[f].valid /\ r[f].name = name /\ r[f].node = m /\ r[f].port = port /\ r[f].age = 0
        /\ \A i \in DOMAIN d : i # f => r[i] = d[i]
        /\ DOMAIN r = DOMAIN d
    BY <2>2, <2>4, <2>5
  <2>7. r \in Listings /\ Reply(d, m, name, port) = r
    <3>1. Reply(d, m, name, port) = r
      BY <1>4 DEF Reply, found
    <3>2. QED BY <3>1, ReplyTyped
  <2>8. Len(r) = Len(d)
    <3>1. r \in Seq(Entry)
      BY <2>7 DEF Listings
    <3>2. DOMAIN r = 1..Len(r) /\ Len(r) \in Nat
      BY <3>1, LenProperties
    <3>3. QED BY <1>0, <2>6, <3>2
  <2> HIDE DEF r
  <2>9. Current(r, g)
    <3> SUFFICES ASSUME NEW i \in DOMAIN r, r[i].valid
                 PROVE  /\ r[i].node = g[r[i].name].node
                        /\ r[i].port = g[r[i].name].port
                        /\ r[i].age = g[r[i].name].age
      BY DEF Current
    <3>1. CASE i = f
      BY <1>1, <2>6, <3>1
    <3>2. CASE i # f
      <4>1. r[i] = d[i] /\ i \in DOMAIN d /\ d[i].valid
        BY <2>6, <3>2
      <4>2. d[i].name \in Stored /\ d[i].name # name
        BY <1>2, <2>3, <3>2, <4>1
      <4>3. g[d[i].name] = h[d[i].name]
        BY <1>1, <4>2
      <4>4. QED BY <1>3, <4>1, <4>3 DEF Current
    <3>3. QED BY <3>1, <3>2
  <2>10. Once(r)
    <3>1. \A i \in DOMAIN d : /\ r[i].valid <=> d[i].valid
                              /\ r[i].valid => r[i].name = d[i].name
      BY <2>2, <2>6
    <3>2. QED BY <1>3, <2>6, <3>1 DEF Once
  <2>11. Complete(r, g)
    <3> SUFFICES ASSUME NEW s \in Stored, g[s].node # NoNode, g[s].age <= Lifetime,
                        Len(r) < MaxServices
                 PROVE  \E i \in DOMAIN r : r[i].valid /\ r[i].name = s
      BY DEF Complete
    <3>1. CASE s = name
      BY <2>2, <2>6, <3>1
    <3>2. CASE s # name
      <4>1. PICK i \in DOMAIN d : d[i].valid /\ d[i].name = s
        BY <1>1, <1>3, <2>8, <3>2 DEF Complete
      <4>2. i # f
        BY <2>2, <3>2, <4>1
      <4>3. QED BY <2>6, <4>1, <4>2
    <3>3. QED BY <3>1, <3>2
  <2>12. QED BY <2>7, <2>9, <2>10, <2>11 DEF Agrees, g
<1>5. CASE found = {}
  <2>1. Reply(d, m, name, port) = Store(d, e)
    BY <1>5 DEF Reply
  <2>2. \A i \in DOMAIN d : ~(d[i].valid /\ d[i].name = name)
    BY <1>0, <1>5, FirstFacts
  <2>3. CASE Len(d) < MaxServices
    <3> DEFINE r == Append(d, e)
               l == Len(d) + 1
    <3>1. e \in Entry
      BY StoredFacts DEF Entry, Findings, Finding
    <3>2. /\ r \in Seq(Entry) /\ Len(r) = l /\ r[l] = e
          /\ \A i \in 1..Len(d) : r[i] = d[i]
      <4> HIDE DEF e
      <4>1. QED BY <1>0, <3>1, AppendProperties
    <3>3. DOMAIN r = 1..l
      BY <3>2, LenProperties
    <3>4. /\ r[l].valid /\ r[l].name = name /\ r[l].node = m /\ r[l].port = port /\ r[l].age = 0
          /\ \A i \in DOMAIN d : i # l /\ i \in DOMAIN r /\ r[i] = d[i]
          /\ l \in DOMAIN r /\ \A i \in DOMAIN r : i # l => i \in DOMAIN d
      <4>1. e.valid /\ e.name = name /\ e.node = m /\ e.port = port /\ e.age = 0
        BY <1>0 DEF Finding
      <4> HIDE DEF e
      <4>2. QED BY <1>0, <3>2, <3>3, <4>1
    <3>5. Reply(d, m, name, port) = r
      BY <2>1, <2>3 DEF Store
    <3> HIDE DEF r, l
    <3>6. Current(r, g)
      <4> SUFFICES ASSUME NEW i \in DOMAIN r, r[i].valid
                   PROVE  /\ r[i].node = g[r[i].name].node
                          /\ r[i].port = g[r[i].name].port
                          /\ r[i].age = g[r[i].name].age
        BY DEF Current
      <4>1. CASE i = l
        BY <1>1, <3>4, <4>1
      <4>2. CASE i # l
        <5>1. r[i] = d[i] /\ i \in DOMAIN d /\ d[i].valid
          BY <3>4, <4>2
        <5>2. d[i].name \in Stored /\ d[i].name # name
          BY <1>2, <2>2, <5>1
        <5>3. g[d[i].name] = h[d[i].name]
          BY <1>1, <5>2
        <5>4. QED BY <1>3, <5>1, <5>3 DEF Current
      <4>3. QED BY <4>1, <4>2
    <3>7. Once(r)
      <4> SUFFICES ASSUME NEW i \in DOMAIN r, NEW j \in DOMAIN r,
                          r[i].valid /\ r[j].valid /\ r[i].name = r[j].name
                   PROVE  i = j
        BY DEF Once
      <4>1. CASE i = l \/ j = l
        BY <2>2, <3>4, <4>1
      <4>2. CASE i # l /\ j # l
        BY <1>3, <3>4, <4>2 DEF Once
      <4>3. QED BY <4>1, <4>2
    <3>8. Complete(r, g)
      <4> SUFFICES ASSUME NEW s \in Stored, g[s].node # NoNode, g[s].age <= Lifetime
                   PROVE  \E i \in DOMAIN r : r[i].valid /\ r[i].name = s
        BY DEF Complete
      <4>1. CASE s = name
        BY <3>4, <4>1
      <4>2. CASE s # name
        <5>1. PICK i \in DOMAIN d : d[i].valid /\ d[i].name = s
          BY <1>1, <1>3, <2>3, <4>2 DEF Complete
        <5>2. QED BY <3>4, <5>1
      <4>3. QED BY <4>1, <4>2
    <3>9. QED BY <3>5, <3>6, <3>7, <3>8 DEF Agrees, g
  <2>4. CASE ~(Len(d) < MaxServices)
    <3>1. Reply(d, m, name, port) = d
      BY <2>1, <2>4 DEF Store
    <3>2. Current(d, g)
      <4> SUFFICES ASSUME NEW i \in DOMAIN d, d[i].valid
                   PROVE  g[d[i].name] = h[d[i].name]
        BY <1>3 DEF Current
      <4>1. QED BY <1>1, <1>2, <2>2
    <3>3. Complete(d, g)
      BY <2>4 DEF Complete
    <3>4. QED BY <1>3, <3>1, <3>2, <3>3 DEF Agrees, g
  <2>5. QED BY <2>3, <2>4
<1>6. QED BY <1>4, <1>5

\* What an announcement holds.
LEMMA OfferFacts ==
  ASSUME NEW adv \in Seq(Offers)
  PROVE  /\ Len(adv) \in Nat
         /\ \A k \in 1..Len(adv) : adv[k].name \in Stored /\ adv[k].port \in Port
<1>1. Len(adv) \in Nat /\ \A k \in 1..Len(adv) : adv[k] \in Offers
  BY LenProperties, ElementOfSeq
<1>2. \A o \in Offers : o.name \in Stored /\ o.port \in Port
  BY DEF Offers
<1>3. QED BY <1>1, <1>2

\* The tables while an announcement is read: one reply after the other.
Reading(t, d, m, adv) ==
    /\ t \in [0..Len(adv) -> Listings]
    /\ t[0] = d
    /\ \A k \in 1..Len(adv) : t[k] = Reply(t[k - 1], m, adv[k].name, adv[k].port)
    /\ Deserialize(d, m, adv) = t[Len(adv)]

LEMMA DeserializeSteps ==
  ASSUME ServiceAssumption, NEW d \in Listings, NEW m \in Node, NEW adv \in Seq(Offers)
  PROVE  \E t : Reading(t, d, m, adv)
<1> DEFINE N == Len(adv)
           G == [k \in 1..N |-> [x \in Listings |-> Reply(x, m, adv[k].name, adv[k].port)]]
<1>0. N \in Nat /\ \A k \in 1..N : adv[k].name \in Stored /\ adv[k].port \in Port
  BY OfferFacts
<1>1. G \in Steps(N, Listings)
  <2>1. ASSUME NEW k \in 1..N, NEW x \in Listings
        PROVE  Reply(x, m, adv[k].name, adv[k].port) \in Listings
    <3>1. adv[k].name \in Stored /\ adv[k].port \in Port
      BY <1>0
    <3>2. QED BY <3>1, ReplyTyped
  <2> HIDE DEF N
  <2>2. QED BY <2>1 DEF Steps
<1>2. PICK t : Follows(t, N, Listings, d, G)
  <2> HIDE DEF G, N
  <2>1. QED BY <1>0, <1>1, Recursive
<1>3. t \in [0..N -> Listings] /\ t[0] = d /\ \A k \in 1..N : t[k] = G[k][t[k - 1]]
  BY <1>2 DEF Follows
<1>4. ASSUME NEW k \in 1..N
      PROVE  t[k] = Reply(t[k - 1], m, adv[k].name, adv[k].port)
  <2>1. k - 1 \in 0..N
    BY <1>0
  <2>2. t[k - 1] \in Listings
    BY <1>3, <2>1
  <2>3. QED BY <1>3, <2>2
<1> HIDE DEF G
<1>5. t = [k \in 0..N |->
              IF k = 0 THEN d ELSE Reply(t[k - 1], m, adv[k].name, adv[k].port)]
  <2>1. DOMAIN t = 0..N /\ \A k \in 0..N : k # 0 => k \in 1..N
    BY <1>0, <1>3
  <2> HIDE DEF N
  <2>2. QED BY <1>3, <1>4, <2>1
<1>6. PICK g : /\ g = [k \in 0..N |->
                          IF k = 0 THEN d ELSE Reply(g[k - 1], m, adv[k].name, adv[k].port)]
               /\ Deserialize(d, m, adv) = g[N]
  BY <1>5 DEF Deserialize
<1>7. g[0] = d /\ \A k \in 1..N : g[k] = Reply(g[k - 1], m, adv[k].name, adv[k].port)
  <2>1. \A k \in 0..N :
            g[k] = IF k = 0 THEN d ELSE Reply(g[k - 1], m, adv[k].name, adv[k].port)
    BY <1>6, Zenon
  <2>2. 0 \in 0..N /\ \A k \in 1..N : k \in 0..N /\ k # 0
    BY <1>0
  <2> HIDE DEF N
  <2>3. QED BY <2>1, <2>2
<1> DEFINE T == {k \in 0..N : g[k] = t[k]}
<1>8. 0 \in T
  BY <1>0, <1>3, <1>7
<1>9. ASSUME NEW k \in 1..N, k - 1 \in T
      PROVE  k \in T
  BY <1>0, <1>4, <1>7, <1>9
<1>10. \A k \in 0..N : k \in T
  <2> HIDE DEF T, N
  <2>1. QED BY <1>0, <1>8, <1>9, Inductive
<1>11. g[N] = t[N]
  BY <1>0, <1>10
<1>12. QED BY <1>3, <1>4, <1>6, <1>11 DEF Reading

\* What was heard last, while an announcement is read.
Hearing(t, h, m, adv) ==
    /\ t \in [0..Len(adv) -> Histories]
    /\ t[0] = h
    /\ \A k \in 1..Len(adv) : t[k] = Hear(t[k - 1], m, adv[k].name, adv[k].port)
    /\ HeardFrom(h, m, adv) = t[Len(adv)]

LEMMA HeardSteps ==
  ASSUME ServiceAssumption, NEW h \in Histories, NEW m \in Node, NEW adv \in Seq(Offers)
  PROVE  \E t : Hearing(t, h, m, adv)
<1> DEFINE N == Len(adv)
           G == [k \in 1..N |-> [x \in Histories |-> Hear(x, m, adv[k].name, adv[k].port)]]
<1>0. N \in Nat /\ \A k \in 1..N : adv[k].name \in Stored /\ adv[k].port \in Port
  BY OfferFacts
<1>1. G \in Steps(N, Histories)
  <2>1. ASSUME NEW k \in 1..N, NEW x \in Histories
        PROVE  Hear(x, m, adv[k].name, adv[k].port) \in Histories
    <3>1. adv[k].name \in Stored /\ adv[k].port \in Port
      BY <1>0
    <3>2. QED BY <3>1, HearFacts
  <2> HIDE DEF N
  <2>2. QED BY <2>1 DEF Steps
<1>2. PICK t : Follows(t, N, Histories, h, G)
  <2> HIDE DEF G, N
  <2>1. QED BY <1>0, <1>1, Recursive
<1>3. t \in [0..N -> Histories] /\ t[0] = h /\ \A k \in 1..N : t[k] = G[k][t[k - 1]]
  BY <1>2 DEF Follows
<1>4. ASSUME NEW k \in 1..N
      PROVE  t[k] = Hear(t[k - 1], m, adv[k].name, adv[k].port)
  <2>1. k - 1 \in 0..N
    BY <1>0
  <2>2. t[k - 1] \in Histories
    BY <1>3, <2>1
  <2>3. QED BY <1>3, <2>2
<1> HIDE DEF G
<1>5. t = [k \in 0..N |->
              IF k = 0 THEN h ELSE Hear(t[k - 1], m, adv[k].name, adv[k].port)]
  <2>1. DOMAIN t = 0..N /\ \A k \in 0..N : k # 0 => k \in 1..N
    BY <1>0, <1>3
  <2> HIDE DEF N
  <2>2. QED BY <1>3, <1>4, <2>1
<1>6. PICK g : /\ g = [k \in 0..N |->
                          IF k = 0 THEN h ELSE Hear(g[k - 1], m, adv[k].name, adv[k].port)]
               /\ HeardFrom(h, m, adv) = g[N]
  BY <1>5 DEF HeardFrom
<1>7. g[0] = h /\ \A k \in 1..N : g[k] = Hear(g[k - 1], m, adv[k].name, adv[k].port)
  <2>1. \A k \in 0..N :
            g[k] = IF k = 0 THEN h ELSE Hear(g[k - 1], m, adv[k].name, adv[k].port)
    BY <1>6, Zenon
  <2>2. 0 \in 0..N /\ \A k \in 1..N : k \in 0..N /\ k # 0
    BY <1>0
  <2> HIDE DEF N
  <2>3. QED BY <2>1, <2>2
<1> DEFINE T == {k \in 0..N : g[k] = t[k]}
<1>8. 0 \in T
  BY <1>0, <1>3, <1>7
<1>9. ASSUME NEW k \in 1..N, k - 1 \in T
      PROVE  k \in T
  BY <1>0, <1>4, <1>7, <1>9
<1>10. \A k \in 0..N : k \in T
  <2> HIDE DEF T, N
  <2>1. QED BY <1>0, <1>8, <1>9, Inductive
<1>11. g[N] = t[N]
  BY <1>0, <1>10
<1>12. QED BY <1>3, <1>4, <1>6, <1>11 DEF Hearing

\* An announcement leaves the table saying what was heard last.
LEMMA DeserializeAgrees ==
  ASSUME ServiceAssumption, NEW d \in Listings, NEW h \in Histories, Agrees(d, h),
         NEW m \in Node, NEW adv \in Seq(Offers)
  PROVE  /\ Deserialize(d, m, adv) \in Listings
         /\ HeardFrom(h, m, adv) \in Histories
         /\ Agrees(Deserialize(d, m, adv), HeardFrom(h, m, adv))
<1> DEFINE N == Len(adv)
<1>0. N \in Nat /\ \A k \in 1..N : adv[k].name \in Stored /\ adv[k].port \in Port
  BY OfferFacts
<1>1. PICK t : Reading(t, d, m, adv)
  BY DeserializeSteps
<1>2. PICK g : Hearing(g, h, m, adv)
  BY HeardSteps
<1>3. /\ t \in [0..N -> Listings] /\ t[0] = d
      /\ \A k \in 1..N : t[k] = Reply(t[k - 1], m, adv[k].name, adv[k].port)
      /\ Deserialize(d, m, adv) = t[N]
  BY <1>1 DEF Reading
<1>4. /\ g \in [0..N -> Histories] /\ g[0] = h
      /\ \A k \in 1..N : g[k] = Hear(g[k - 1], m, adv[k].name, adv[k].port)
      /\ HeardFrom(h, m, adv) = g[N]
  BY <1>2 DEF Hearing
<1> DEFINE T == {k \in 0..N : Agrees(t[k], g[k])}
<1> HIDE DEF N
<1>5. 0 \in T
  <2>1. t[0] = d /\ g[0] = h /\ 0 \in 0..N
    BY <1>0, <1>3, <1>4
  <2>2. Agrees(t[0], g[0])
    BY <2>1, Zenon
  <2>3. QED BY <2>1, <2>2
<1>6. ASSUME NEW k \in 1..N, k - 1 \in T
      PROVE  k \in T
  <2>1. t[k - 1] \in Listings /\ g[k - 1] \in Histories /\ Agrees(t[k - 1], g[k - 1])
    BY <1>0, <1>6, <1>3, <1>4
  <2>2. adv[k].name \in Stored /\ adv[k].port \in Port
    BY <1>0
  <2>3. Agrees(Reply(t[k - 1], m, adv[k].name, adv[k].port),
               Hear(g[k - 1], m, adv[k].name, adv[k].port))
    BY <2>1, <2>2, ReplyAgrees
  <2>4. Agrees(t[k], g[k])
    BY <1>3, <1>4, <2>3
  <2>5. QED BY <1>0, <2>4
<1>7. N \in T
  <2> HIDE DEF T
  <2>1. \A k \in 0..N : k \in T
    BY <1>0, <1>5, <1>6, Inductive
  <2>2. QED BY <1>0, <2>1
<1>8. t[N] \in Listings /\ g[N] \in Histories
  BY <1>0, <1>3, <1>4
<1>9. QED BY <1>3, <1>4, <1>7, <1>8

\* An announcement holds valid entries of the table, and no more than fit.
LEMMA SerializeTyped ==
  ASSUME ServiceAssumption, NEW s \in Seq(Offers \cup {Invalid})
  PROVE  SerializeServices(s) \in Seq(Offers) /\ Len(SerializeServices(s)) <= MaxAdv
<1> DEFINE N == Len(s)
           S == {o \in Seq(Offers) : Len(o) <= MaxAdv}
           Put(k, o) == IF s[k].valid /\ Len(o) < MaxAdv THEN Append(o, s[k]) ELSE o
           G == [k \in 1..N |-> [o \in S |-> Put(k, o)]]
<1>0. N \in Nat /\ \A k \in 1..N : s[k] \in Offers \cup {Invalid}
  BY LenProperties, ElementOfSeq
<1>1. MaxAdv \in Nat /\ << >> \in S
  <2>1. MaxAdv \in Nat
    BY StoredFacts
  <2>2. QED BY <2>1, EmptySeq
<1>2. ASSUME NEW k \in 1..N, NEW o \in S
      PROVE  Put(k, o) \in S
  <2>1. CASE s[k].valid /\ Len(o) < MaxAdv
    <3>1. s[k] \in Offers
      <4>1. s[k] # Invalid
        BY <2>1 DEF Invalid
      <4>2. QED BY <1>0, <4>1
    <3>2. Append(o, s[k]) \in Seq(Offers) /\ Len(Append(o, s[k])) = Len(o) + 1 /\ Len(o) \in Nat
      BY <3>1, AppendProperties, LenProperties
    <3>3. QED BY <1>1, <2>1, <3>2
  <2>2. CASE ~(s[k].valid /\ Len(o) < MaxAdv)
    BY <2>2
  <2>3. QED BY <2>1, <2>2
<1>3. G \in Steps(N, S)
  <2> HIDE DEF N, S, Put
  <2>1. QED BY <1>2 DEF Steps
<1>4. PICK t : Follows(t, N, S, << >>, G)
  <2> HIDE DEF G, N, S
  <2>1. QED BY <1>0, <1>1, <1>3, Recursive
<1>5. t \in [0..N -> S] /\ t[0] = << >> /\ \A k \in 1..N : t[k] = G[k][t[k - 1]]
  BY <1>4 DEF Follows
<1>6. ASSUME NEW k \in 1..N
      PROVE  t[k] = Put(k, t[k - 1])
  <2>1. k - 1 \in 0..N
    BY <1>0
  <2> HIDE DEF S, Put
  <2>2. t[k - 1] \in S
    BY <1>5, <2>1
  <2>3. QED BY <1>5, <2>2
<1> HIDE DEF G
<1>7. t = [k \in 0..N |->
              IF k = 0 THEN << >>
              ELSE IF s[k].valid /\ Len(t[k - 1]) < MaxAdv THEN Append(t[k - 1], s[k])
              ELSE t[k - 1]]
  <2>1. DOMAIN t = 0..N /\ \A k \in 0..N : k # 0 => k \in 1..N
    BY <1>0, <1>5
  <2> HIDE DEF N, S
  <2>2. QED BY <1>5, <1>6, <2>1
<1>8. PICK g : /\ g = [k \in 0..N |->
                          IF k = 0 THEN << >>
                          ELSE IF s[k].valid /\ Len(g[k - 1]) < MaxAdv THEN Append(g[k - 1], s[k])
                          ELSE g[k - 1]]
               /\ SerializeServices(s) = g[N]
  BY <1>7 DEF SerializeServices
<1>9. g[0] = << >> /\ \A k \in 1..N : g[k] = Put(k, g[k - 1])
  <2>1. \A k \in 0..N : g[k] = IF k = 0 THEN << >> ELSE Put(k, g[k - 1])
    BY <1>8, Zenon
  <2>2. 0 \in 0..N /\ \A k \in 1..N : k \in 0..N /\ k # 0
    BY <1>0
  <2> HIDE DEF Put, N
  <2>3. QED BY <2>1, <2>2
<1> DEFINE T == {k \in 0..N : g[k] \in S}
<1>10. 0 \in T
  <2> HIDE DEF S
  <2>1. QED BY <1>0, <1>1, <1>9
<1>11. ASSUME NEW k \in 1..N, k - 1 \in T
       PROVE  k \in T
  <2> HIDE DEF Put, S
  <2>1. QED BY <1>0, <1>2, <1>9, <1>11
<1>12. N \in T
  <2> HIDE DEF T, N
  <2>1. \A k \in 0..N : k \in T
    BY <1>0, <1>10, <1>11, Inductive
  <2>2. QED BY <1>0, <2>1
<1>13. QED BY <1>8, <1>12

\* Only entries that are recent no more are taken out.
LEMMA UpdateKeeps ==
  ASSUME ServiceAssumption, NEW d \in Listings, NEW h \in Histories, Agrees(d, h)
  PROVE  LET r == [i \in DOMAIN d |-> IF i \in Overdue(d) THEN Invalid ELSE d[i]]
         IN  r \in Listings /\ Agrees(r, h)
<1> DEFINE r == [i \in DOMAIN d |-> IF i \in Overdue(d) THEN Invalid ELSE d[i]]
<1>0. /\ d \in Seq(Entry) /\ Len(d) \in Nat /\ Len(d) <= MaxServices /\ DOMAIN d = 1..Len(d)
      /\ \A i \in 1..Len(d) : d[i] \in Entry /\ (d[i].valid => d[i] \in Findings)
      /\ Lifetime \in Nat
  BY ListingFacts, StoredFacts
<1>1. Invalid \in Entry /\ ~Invalid.valid
  BY DEF Entry, Invalid
<1>2. /\ DOMAIN r = DOMAIN d
      /\ \A i \in DOMAIN d : r[i] = IF i \in Overdue(d) THEN Invalid ELSE d[i]
  OBVIOUS
<1>3. r \in Listings /\ Len(r) = Len(d)
  <2>1. r \in [1..Len(d) -> Entry]
    BY <1>0, <1>1
  <2>2. r \in Seq(Entry) /\ Len(r) = Len(d)
    BY <1>0, <2>1, Listing
  <2>3. QED BY <1>0, <2>2 DEF Listings
<1> HIDE DEF r
<1>4. \A i \in DOMAIN d : r[i].valid => i \notin Overdue(d) /\ r[i] = d[i]
  BY <1>1, <1>2
<1>5. Current(r, h) /\ Once(r)
  BY <1>2, <1>4 DEF Agrees, Current, Once
<1>6. Complete(r, h)
  <2> SUFFICES ASSUME NEW s \in Stored, h[s].node # NoNode, h[s].age <= Lifetime,
                      Len(r) < MaxServices
               PROVE  \E i \in DOMAIN r : r[i].valid /\ r[i].name = s
    BY DEF Complete
  <2>1. PICK i \in DOMAIN d : d[i].valid /\ d[i].name = s
    BY <1>3 DEF Agrees, Complete
  <2>2. d[i].age = h[s].age /\ d[i].age \in 0..(Lifetime + 1)
    BY <1>0, <2>1, FindingFacts DEF Agrees, Current
  <2>3. i \notin Overdue(d)
    BY <1>0, <2>2 DEF Overdue
  <2>4. QED BY <1>2, <2>1, <2>3
<1>7. QED BY <1>3, <1>5, <1>6 DEF Agrees, r

\* Entries and what was heard grow old together.
LEMMA AgeKeeps ==
  ASSUME ServiceAssumption, NEW d \in Listings, NEW h \in Histories, Agrees(d, h)
  PROVE  LET r == [i \in DOMAIN d |-> IF d[i].valid THEN [d[i] EXCEPT !.age = Older(@)] ELSE Invalid]
             g == [s \in Stored |-> [h[s] EXCEPT !.age = Older(@)]]
         IN  r \in Listings /\ g \in Histories /\ Agrees(r, g)
<1> DEFINE r == [i \in DOMAIN d |-> IF d[i].valid THEN [d[i] EXCEPT !.age = Older(@)] ELSE Invalid]
           g == [s \in Stored |-> [h[s] EXCEPT !.age = Older(@)]]
<1>0. /\ d \in Seq(Entry) /\ Len(d) \in Nat /\ Len(d) <= MaxServices /\ DOMAIN d = 1..Len(d)
      /\ \A i \in 1..Len(d) : d[i] \in Entry /\ (d[i].valid => d[i] \in Findings)
      /\ Lifetime \in Nat
  BY ListingFacts, StoredFacts
<1>1. Invalid \in Entry /\ ~Invalid.valid
  BY DEF Entry, Invalid
<1>2. \A n \in 0..(Lifetime + 1) : /\ Older(n) \in 0..(Lifetime + 1)
                                   /\ Older(n) <= Lifetime => n <= Lifetime
  BY <1>0 DEF Older
<1>3. ASSUME NEW i \in DOMAIN d, d[i].valid
      PROVE  /\ r[i] = [valid |-> TRUE, name |-> d[i].name, node |-> d[i].node,
                        port |-> d[i].port, age |-> Older(d[i].age)]
             /\ r[i] \in Findings /\ d[i].name \in Stored
  <2>1. d[i] \in Findings
    BY <1>0, <1>3
  <2>2. r[i] = [d[i] EXCEPT !.age = Older(d[i].age)]
    BY <1>3
  <2> HIDE DEF r
  <2>3. r[i] = [valid |-> TRUE, name |-> d[i].name, node |-> d[i].node,
                port |-> d[i].port, age |-> Older(d[i].age)]
    BY <2>1, <2>2, FindingFacts
  <2>4. d[i].name \in Stored /\ d[i].node \in Node /\ d[i].port \in Port /\ Older(d[i].age) \in 0..(Lifetime + 1)
    <3>1. d[i].age \in 0..(Lifetime + 1)
      BY <2>1, FindingFacts
    <3>2. QED BY <1>2, <2>1, <3>1, FindingFacts
  <2>5. QED BY <2>3, <2>4 DEF Findings
<1>4. \A i \in DOMAIN d : ~d[i].valid => r[i] = Invalid
  OBVIOUS
<1>5. DOMAIN r = DOMAIN d /\ r = [i \in 1..Len(d) |-> r[i]]
  BY <1>0
<1> HIDE DEF r
<1>6. r \in Listings /\ Len(r) = Len(d)
  <2>1. \A i \in 1..Len(d) : r[i] \in Entry
    BY <1>0, <1>1, <1>3, <1>4 DEF Entry
  <2>2. r \in [1..Len(d) -> Entry]
    BY <1>5, <2>1
  <2>3. r \in Seq(Entry) /\ Len(r) = Len(d)
    BY <1>0, <2>2, Listing
  <2>4. QED BY <1>0, <2>3 DEF Listings
<1>7. ASSUME NEW s \in Stored
      PROVE  /\ g[s].node = h[s].node /\ g[s].port = h[s].port /\ g[s].age = Older(h[s].age)
             /\ h[s].age \in 0..(Lifetime + 1)
             /\ g[s] \in [node : Node \cup {NoNode}, port : Port \cup {0}, age : 0..(Lifetime + 1)]
  <2>1. h[s] \in [node : Node \cup {NoNode}, port : Port \cup {0}, age : 0..(Lifetime + 1)]
    BY DEF Histories
  <2>2. g[s] = [h[s] EXCEPT !.age = Older(h[s].age)]
    OBVIOUS
  <2> HIDE DEF g
  <2>3. g[s] = [node |-> h[s].node, port |-> h[s].port, age |-> Older(h[s].age)]
    BY <2>1, <2>2
  <2>4. h[s].age \in 0..(Lifetime + 1) /\ Older(h[s].age) \in 0..(Lifetime + 1)
    BY <1>2, <2>1
  <2>5. QED BY <2>1, <2>3, <2>4
<1>8. g \in Histories
  BY <1>7 DEF Histories
<1> HIDE DEF g
<1>9. \A i \in DOMAIN d : /\ r[i].valid <=> d[i].valid
                          /\ d[i].valid => /\ r[i].name = d[i].name /\ r[i].node = d[i].node
                                           /\ r[i].port = d[i].port /\ r[i].age = Older(d[i].age)
                                           /\ d[i].name \in Stored
  <2> SUFFICES ASSUME NEW i \in DOMAIN d
               PROVE  /\ r[i].valid <=> d[i].valid
                      /\ d[i].valid => /\ r[i].name = d[i].name /\ r[i].node = d[i].node
                                       /\ r[i].port = d[i].port /\ r[i].age = Older(d[i].age)
                                       /\ d[i].name \in Stored
    OBVIOUS
  <2>1. CASE d[i].valid
    <3>1. /\ r[i] = [valid |-> TRUE, name |-> d[i].name, node |-> d[i].node,
                     port |-> d[i].port, age |-> Older(d[i].age)]
          /\ d[i].name \in Stored
      BY <1>3, <2>1
    <3>2. r[i].valid
      BY <3>1
    <3>3. /\ r[i].name = d[i].name /\ r[i].node = d[i].node
          /\ r[i].port = d[i].port /\ r[i].age = Older(d[i].age)
      BY <3>1
    <3>4. QED BY <2>1, <3>1, <3>2, <3>3
  <2>2. CASE ~d[i].valid
    BY <1>1, <1>4, <2>2
  <2>3. QED BY <2>1, <2>2
<1>10. Current(r, g)
  <2> SUFFICES ASSUME NEW i \in DOMAIN r, r[i].valid
               PROVE  /\ r[i].node = g[r[i].name].node
                      /\ r[i].port = g[r[i].name].port
                      /\ r[i].age = g[r[i].name].age
    BY DEF Current
  <2>1. /\ i \in DOMAIN d /\ d[i].valid /\ d[i].name \in Stored
        /\ r[i].name = d[i].name /\ r[i].node = d[i].node
        /\ r[i].port = d[i].port /\ r[i].age = Older(d[i].age)
    BY <1>5, <1>9
  <2>2. /\ d[i].node = h[d[i].name].node /\ d[i].port = h[d[i].name].port
        /\ d[i].age = h[d[i].name].age
    BY <2>1 DEF Agrees, Current
  <2>3. QED BY <1>7, <2>1, <2>2
<1>11. Once(r)
  BY <1>5, <1>9 DEF Agrees, Once
<1>12. Complete(r, g)
  <2> SUFFICES ASSUME NEW s \in Stored, g[s].node # NoNode, g[s].age <= Lifetime,
                      Len(r) < MaxServices
               PROVE  \E i \in DOMAIN r : r[i].valid /\ r[i].name = s
    BY DEF Complete
  <2>1. h[s].node # NoNode /\ h[s].age <= Lifetime
    BY <1>2, <1>7
  <2>2. PICK i \in DOMAIN d : d[i].valid /\ d[i].name = s
    BY <1>6, <2>1 DEF Agrees, Complete
  <2>3. QED BY <1>5, <1>9, <2>2
<1>13. QED BY <1>6, <1>8, <1>10, <1>11, <1>12 DEF Agrees, r, g

\* The inductive invariant: what is found is what was heard, entry by entry.
ServiceInv == ServiceTypeOK /\ Agrees(discovered, heard)

LEMMA ServiceStart ==
  ASSUME ServiceAssumption, ServiceInit
  PROVE  ServiceInv
<1>1. /\ local = [n \in Node |-> << >>] /\ discovered = << >> /\ late = {} /\ lates = MaxLate
      /\ heard = [s \in Stored |-> Never]
  BY DEF ServiceInit
<1>2. MaxServices \in Nat \ {0} /\ MaxLate \in Nat /\ Lifetime \in Nat
  BY StoredFacts
<1>3. \A S : << >> \in Seq(S) /\ Len(<< >>) = 0
  BY EmptySeq
<1>4. heard \in Histories
  <2>1. Never \in [node : Node \cup {NoNode}, port : Port \cup {0}, age : 0..(Lifetime + 1)]
    BY <1>2 DEF Never
  <2>2. QED BY <1>1, <2>1 DEF Histories
<1>5. local \in [Node -> Seq(Offers \cup {Invalid})] /\ \A n \in Node : Len(local[n]) <= MaxServices
  BY <1>1, <1>2, <1>3
<1>6. discovered \in Seq(Findings \cup {Invalid}) /\ Len(discovered) <= MaxServices
  BY <1>1, <1>2, <1>3
<1>7. ServiceTypeOK
  BY <1>1, <1>2, <1>4, <1>5, <1>6 DEF ServiceTypeOK, Histories
<1>8. Agrees(discovered, heard)
  <2>1. DOMAIN discovered = {}
    BY <1>1
  <2>2. \A s \in Stored : heard[s].node = NoNode
    BY <1>1 DEF Never
  <2>3. QED BY <2>1, <2>2 DEF Agrees, Current, Once, Complete
<1>9. QED BY <1>7, <1>8 DEF ServiceInv

\* What the node's own services are, and where they are found.
LEMMA LocalFacts ==
  ASSUME NEW s \in Seq(Offers \cup {Invalid})
  PROVE  /\ Len(s) \in Nat /\ DOMAIN s = 1..Len(s)
         /\ \A i \in 1..Len(s) : s[i] \in Offers \cup {Invalid}
         /\ \A name : \A i \in First(s, name) :
                i \in 1..Len(s) /\ name \in Stored /\ s[i].port \in Port
<1>1. Len(s) \in Nat /\ DOMAIN s = 1..Len(s) /\ \A i \in 1..Len(s) : s[i] \in Offers \cup {Invalid}
  BY LenProperties, ElementOfSeq
<1>2. ASSUME NEW name, NEW i \in First(s, name)
      PROVE  i \in 1..Len(s) /\ name \in Stored /\ s[i].port \in Port
  <2>1. i \in 1..Len(s) /\ s[i].valid /\ s[i].name = name
    BY <1>1, FirstFacts
  <2>2. s[i] # Invalid
    BY <2>1 DEF Invalid
  <2>3. s[i] \in Offers
    BY <1>1, <2>1, <2>2
  <2>4. QED BY <2>1, <2>3 DEF Offers
<1>3. QED BY <1>1, <1>2

\* The services a node offers keep to their array.
LEMMA RegisterTyped ==
  ASSUME ServiceAssumption, ServiceTypeOK, NEW n \in Node, NEW name \in Name, NEW port \in Port,
         RegisterService(n, name, port)
  PROVE  /\ local' \in [Node -> Seq(Offers \cup {Invalid})]
         /\ \A x \in Node : Len(local'[x]) <= MaxServices
<1> DEFINE e == [name |-> Cut[name], port |-> port, valid |-> TRUE]
<1>1. /\ local \in [Node -> Seq(Offers \cup {Invalid})]
      /\ \A x \in Node : Len(local[x]) <= MaxServices
      /\ Len(local[n]) \in Nat /\ MaxServices \in Nat
  BY StoredFacts, LocalFacts DEF ServiceTypeOK
<1>2. Len(local[n]) < MaxServices /\ local' = [local EXCEPT ![n] = Append(local[n], e)]
  BY DEF RegisterService, Store
<1>3. e \in Offers \cup {Invalid}
  BY DEF Offers, Stored
<1> HIDE DEF e
<1>4. /\ Append(local[n], e) \in Seq(Offers \cup {Invalid})
      /\ Len(Append(local[n], e)) = Len(local[n]) + 1
  BY <1>1, <1>3, AppendProperties
<1>5. local'[n] = Append(local[n], e) /\ \A x \in Node : x # n => local'[x] = local[x]
  BY <1>1, <1>2
<1>6. local' \in [Node -> Seq(Offers \cup {Invalid})]
  BY <1>1, <1>2, <1>4
<1>7. QED BY <1>1, <1>2, <1>4, <1>5, <1>6

LEMMA UnregisterTyped ==
  ASSUME ServiceAssumption, ServiceTypeOK, NEW n \in Node, NEW name \in Name,
         UnregisterService(n, name)
  PROVE  /\ local' \in [Node -> Seq(Offers \cup {Invalid})]
         /\ \A x \in Node : Len(local'[x]) <= MaxServices
<1>1. /\ local \in [Node -> Seq(Offers \cup {Invalid})]
      /\ \A x \in Node : Len(local[x]) <= MaxServices
  BY DEF ServiceTypeOK
<1>2. PICK i \in First(local[n], name) : local' = [local EXCEPT ![n][i] = Invalid]
  BY DEF UnregisterService
<1> DEFINE s == local[n]
           r == [s EXCEPT ![i] = Invalid]
<1>3. s \in Seq(Offers \cup {Invalid}) /\ i \in 1..Len(s) /\ Len(s) \in Nat
  BY <1>1, LocalFacts
<1>4. local' = [local EXCEPT ![n] = r]
  BY <1>2
<1> HIDE DEF s
<1>5. r \in Seq(Offers \cup {Invalid}) /\ Len(r) = Len(s)
  BY <1>3, ExceptSeq
<1> HIDE DEF r
<1>6. local'[n] = r /\ \A x \in Node : x # n => local'[x] = local[x]
  BY <1>1, <1>4
<1>7. QED BY <1>1, <1>4, <1>5, <1>6 DEF s

\* Every step keeps the invariant.
LEMMA ServiceStep ==
  ASSUME ServiceAssumption, ServiceInv, [ServiceNext]_serviceVars
  PROVE  ServiceInv'
<1>0. /\ ServiceTypeOK /\ Agrees(discovered, heard)
      /\ discovered \in Listings /\ heard \in Histories
      /\ local \in [Node -> Seq(Offers \cup {Invalid})]
      /\ \A n \in Node : Len(local[n]) <= MaxServices
      /\ late \subseteq [from : Node, adv : Seq(Offers)] /\ \A f \in late : Len(f.adv) <= MaxAdv
      /\ lates \in 0..MaxLate /\ MaxLate \in Nat
  BY StoredFacts DEF ServiceInv, ServiceTypeOK, Listings, Histories, Entry
<1>1. ASSUME /\ discovered' \in Listings /\ heard' \in Histories /\ Agrees(discovered', heard')
             /\ UNCHANGED <<local, lates>> /\ late' \subseteq late
      PROVE  ServiceInv'
  BY <1>0, <1>1 DEF ServiceInv, ServiceTypeOK, Listings, Histories, Entry, Agrees, Current, Once, Complete
<1>2. ASSUME /\ local' \in [Node -> Seq(Offers \cup {Invalid})]
             /\ \A x \in Node : Len(local'[x]) <= MaxServices
             /\ UNCHANGED <<discovered, late, lates, heard>>
      PROVE  ServiceInv'
  BY <1>0, <1>2 DEF ServiceInv, ServiceTypeOK, Agrees, Current, Once, Complete
<1>3. ASSUME NEW n \in Node, NEW name \in Name, NEW port \in Port, RegisterService(n, name, port)
      PROVE  ServiceInv'
  <2>1. UNCHANGED <<discovered, late, lates, heard>>
    BY <1>3 DEF RegisterService
  <2>2. QED BY <1>0, <1>2, <1>3, <2>1, RegisterTyped
<1>4. ASSUME NEW n \in Node, NEW name \in Name, UnregisterService(n, name)
      PROVE  ServiceInv'
  <2>1. UNCHANGED <<discovered, late, lates, heard>>
    BY <1>4 DEF UnregisterService
  <2>2. QED BY <1>0, <1>2, <1>4, <2>1, UnregisterTyped
<1>5. ASSUME NEW n \in Node, Restart(n)
      PROVE  ServiceInv'
  <2>1. local' = [local EXCEPT ![n] = << >>] /\ UNCHANGED <<discovered, late, lates, heard>>
    BY <1>5 DEF Restart
  <2>2. << >> \in Seq(Offers \cup {Invalid}) /\ Len(<< >>) = 0 /\ MaxServices \in Nat
    BY EmptySeq, StoredFacts
  <2>3. local'[n] = << >> /\ \A x \in Node : x # n => local'[x] = local[x]
    BY <1>0, <2>1
  <2>4. \A x \in Node : Len(local'[x]) <= MaxServices
    BY <1>0, <2>2, <2>3
  <2>5. local' \in [Node -> Seq(Offers \cup {Invalid})]
    BY <1>0, <2>1, <2>2
  <2>6. QED BY <1>2, <2>1, <2>4, <2>5
<1>6. ASSUME NEW n \in Node, NEW name \in Name, QueryService(n, name)
      PROVE  ServiceInv'
  <2>1. PICK i \in First(local[n], name) :
            /\ discovered' = Reply(discovered, n, name, local[n][i].port)
            /\ heard' = Hear(heard, n, name, local[n][i].port)
    BY <1>6 DEF QueryService
  <2>2. name \in Stored /\ local[n][i].port \in Port
    BY <1>0, LocalFacts
  <2>3. /\ discovered' \in Listings /\ heard' \in Histories /\ Agrees(discovered', heard')
    BY <1>0, <2>1, <2>2, ReplyTyped, HearFacts, ReplyAgrees
  <2>4. QED BY <1>1, <1>6, <2>3 DEF QueryService
<1>7. ASSUME NEW n \in Node, Announce(n)
      PROVE  ServiceInv'
  <2> DEFINE adv == SerializeServices(local[n])
  <2>1. adv \in Seq(Offers) /\ Len(adv) <= MaxAdv
    BY <1>0, SerializeTyped
  <2> HIDE DEF adv
  <2>2. CASE /\ discovered' = Deserialize(discovered, n, adv)
             /\ heard' = HeardFrom(heard, n, adv)
             /\ UNCHANGED <<local, late, lates>>
    <3>1. /\ discovered' \in Listings /\ heard' \in Histories /\ Agrees(discovered', heard')
      BY <1>0, <2>1, <2>2, DeserializeAgrees
    <3>2. QED BY <1>1, <2>2, <3>1
  <2>3. CASE /\ lates > 0 /\ lates' = lates - 1
             /\ late' = late \cup {[from |-> n, adv |-> adv]}
             /\ UNCHANGED <<local, discovered, heard>>
    <3>1. lates' \in 0..MaxLate
      BY <1>0, <2>3
    <3>2. /\ late' \subseteq [from : Node, adv : Seq(Offers)]
          /\ \A f \in late' : Len(f.adv) <= MaxAdv
      BY <1>0, <2>1, <2>3
    <3>3. QED BY <1>0, <2>3, <3>1, <3>2 DEF ServiceInv, ServiceTypeOK, Agrees, Current, Once, Complete
  <2>4. QED BY <1>7, <2>2, <2>3 DEF Announce, adv
<1>8. ASSUME NEW f \in late, RecvLate(f)
      PROVE  ServiceInv'
  <2>1. f.from \in Node /\ f.adv \in Seq(Offers)
    BY <1>0
  <2>2. /\ discovered' = Deserialize(discovered, f.from, f.adv)
        /\ heard' = HeardFrom(heard, f.from, f.adv)
        /\ late' \subseteq late /\ UNCHANGED <<local, lates>>
    BY <1>8 DEF RecvLate
  <2>3. /\ discovered' \in Listings /\ heard' \in Histories /\ Agrees(discovered', heard')
    BY <1>0, <2>1, <2>2, DeserializeAgrees
  <2>4. QED BY <1>1, <2>2, <2>3
<1>9. CASE Update
  <2>1. discovered' \in Listings /\ Agrees(discovered', heard)
    BY <1>0, <1>9, UpdateKeeps DEF Update
  <2>2. QED BY <1>0, <1>1, <1>9, <2>1 DEF Update
<1>10. CASE Age
  <2>1. discovered' \in Listings /\ heard' \in Histories /\ Agrees(discovered', heard')
    BY <1>0, <1>10, AgeKeeps DEF Age
  <2>2. QED BY <1>1, <1>10, <2>1 DEF Age
<1>11. CASE UNCHANGED serviceVars
  BY <1>0, <1>1, <1>11 DEF serviceVars
<1>12. QED BY <1>3, <1>4, <1>5, <1>6, <1>7, <1>8, <1>9, <1>10, <1>11 DEF ServiceNext

LEMMA ServiceInvariant == ServiceSpec => []ServiceInv
<1>1. ServiceInit => ServiceInv
  BY ServiceStart, ServiceAssumption
<1>2. ServiceInv /\ [ServiceNext]_serviceVars => ServiceInv'
  BY ServiceStep, ServiceAssumption
<1>3. QED BY <1>1, <1>2, PTL DEF ServiceSpec

\* The tables and the announcements hold what their types say and no more than
\* their arrays and the buffer do (ServiceDiscovery.cpp:8, 59, 105).
THEOREM ServiceTypeCorrect == ServiceSpec => []ServiceTypeOK
<1>1. ServiceInv => ServiceTypeOK
  BY DEF ServiceInv
<1>2. QED BY <1>1, ServiceInvariant, PTL

\* A name that is stored whole is a stored name.
LEMMA WholeFacts ==
  ASSUME ServiceInv
  PROVE  /\ Whole \subseteq Stored
         /\ discovered \in Listings /\ Agrees(discovered, heard)
<1>1. Whole \subseteq Stored
  BY DEF Whole, Stored
<1>2. discovered \in Listings
  BY DEF ServiceInv, ServiceTypeOK, Listings, Entry
<1>3. QED BY <1>1, <1>2 DEF ServiceInv

\* A service that is found is the one announced last under its name
\* (ServiceDiscovery.cpp:46-68).
THEOREM LatestIsFound == ServiceSpec => []FoundIsLatest
<1>1. ServiceInv => FoundIsLatest
  BY WholeFacts DEF FoundIsLatest, Agrees, Current, Once
<1>2. QED BY <1>1, ServiceInvariant, PTL

\* A service heard within its lifetime is found, unless the table is used up
\* (ServiceDiscovery.cpp:58-67, 132-141).
THEOREM RecentIsFound == ServiceSpec => []HeardIsFound
<1>1. ServiceInv => HeardIsFound
  <2> SUFFICES ASSUME ServiceInv, NEW n \in Whole,
                      heard[n].node # NoNode, heard[n].age <= Lifetime,
                      Len(discovered) < MaxServices
               PROVE  First(discovered, n) # {}
    BY DEF HeardIsFound
  <2>1. \E i \in DOMAIN discovered : discovered[i].valid /\ discovered[i].name = n
    BY WholeFacts DEF Agrees, Complete
  <2>2. discovered \in Seq(Entry)
    BY WholeFacts DEF Listings
  <2>3. QED BY <2>1, <2>2, FirstFacts
<1>2. QED BY <1>1, ServiceInvariant, PTL
=============================================================================
