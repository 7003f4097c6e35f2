--------------------------- MODULE BatteryNodeProofs ---------------------------
(* Theorems about BatteryNode.tla and Downlink.tla, for every set of parents,  *)
(* children and messages and every size of their tables.                       *)
EXTENDS BatteryNode, Induction, FiniteSetTheorems, SequenceTheorems, TLAPS

-----------------------------------------------------------------------------
(* The inductive invariants of a battery node.                              *)

State == [parents : Seq(Parent), lastEpoch : 0..(Epochs - 1), interval : Nat, meshTime : Nat]

\* What the node's variables hold: never more parents than there is room for.
NodeTypes ==
    /\ role \in {"parent", "battery"}
    /\ power \in {"setup", "loop", "asleep"}
    /\ state \in State /\ Len(state.parents) <= MaxParents
    /\ nvs \in State \cup {NoBlob}
    /\ nvs # NoBlob => Len(nvs.parents) <= MaxParents
    /\ epoch \in 0..(Epochs - 1)
    /\ resets \in Nat /\ failures \in Nat

\* NVS holds the parents the node was told of, and so does the state except from a
\* reset until NVS is loaded.
ParentsKept ==
    parents # Unknown.parents =>
        /\ nvs = NoBlob => parents = << >>
        /\ nvs # NoBlob => nvs.parents = parents
        /\ power # "setup" \/ "battery" \in began \/ nvs = NoBlob => state.parents = parents

\* From the sleep until the loop, RTC memory and NVS both hold what the node went to
\* sleep with.
SleepKept ==
    before # Unknown /\ power # "loop" =>
        /\ state = before /\ nvs = before
        /\ power = "setup" /\ "mesh" \in began => epoch = before.lastEpoch

\* The loop is entered when BatteryNode has begun.
BegunFirst == power = "loop" => "battery" \in began

NodeInv == NodeTypes /\ ParentsKept /\ SleepKept /\ BegunFirst

-----------------------------------------------------------------------------
(* What the helpers return.                                                 *)

\* A write to NVS goes well, or fails and is counted.
LEMMA SaveFacts ==
  ASSUME failures \in Nat, NEW s, Save(s)
  PROVE  /\ failures' \in Nat
         /\ \/ nvs' = s /\ failures' = failures
            \/ nvs' = nvs /\ failures' # failures
BY DEF Save

\* A state stays one with room for its parents when one more is told.
LEMMA WithParentType ==
  ASSUME BatteryAssumption, NEW s \in State, Len(s.parents) <= MaxParents, NEW p \in Parent
  PROVE  /\ WithParent(s, p) \in State
         /\ Len(WithParent(s, p).parents) <= MaxParents
<1> DEFINE q == IF Len(s.parents) < MaxParents THEN Append(s.parents, p)
                ELSE [s.parents EXCEPT ![MaxParents] = p]
<1>1. s.parents \in Seq(Parent) /\ MaxParents \in Nat \ {0}
  BY DEF State, BatteryAssumption
<1>2. q \in Seq(Parent) /\ Len(q) <= MaxParents
  <2>1. CASE Len(s.parents) < MaxParents
    BY <1>1, <2>1
  <2>2. CASE ~(Len(s.parents) < MaxParents)
    <3>1. Len(s.parents) = MaxParents
      BY <1>1, <2>2
    <3>2. [s.parents EXCEPT ![MaxParents] = p] \in Seq(Parent)
          /\ Len([s.parents EXCEPT ![MaxParents] = p]) = Len(s.parents)
      BY <1>1, <3>1
    <3>3. QED BY <1>1, <2>2, <3>1, <3>2
  <2>3. QED BY <2>1, <2>2
<1>3. WithParent(s, p) = [s EXCEPT !.parents = q]
  BY DEF WithParent
<1> HIDE DEF q
<1>4. QED BY <1>2, <1>3 DEF State

\* The state that is loaded is the blob's, if there is one.
LEMMA LoadFacts ==
  ASSUME NEW s
  PROVE  /\ nvs = NoBlob => Load(s) = s
         /\ nvs # NoBlob => Load(s) = nvs
BY DEF Load

-----------------------------------------------------------------------------

LEMMA NodeInit == BatteryAssumption /\ Init => NodeInv
<1> SUFFICES ASSUME BatteryAssumption, Init
             PROVE  NodeInv
  OBVIOUS
<1>1. Zeroed \in State /\ Len(Zeroed.parents) = 0 /\ 0 \in 0..(Epochs - 1)
  BY DEF Zeroed, State, BatteryAssumption
<1>2. NodeTypes
  BY <1>1 DEF Init, NodeTypes, BatteryAssumption
<1>3. ParentsKept
  BY DEF Init, ParentsKept, Zeroed, Unknown
<1>4. QED BY <1>2, <1>3 DEF Init, NodeInv, SleepKept, BegunFirst

LEMMA NodeStep ==
  ASSUME BatteryAssumption, NodeInv, NodeNext, UNCHANGED role
  PROVE  NodeInv'
<1>0. /\ NodeTypes /\ ParentsKept /\ SleepKept /\ BegunFirst
      /\ Epochs \in Nat \ {0} /\ Interval \subseteq Nat /\ Time \subseteq Nat
  BY DEF NodeInv, BatteryAssumption
<1>1. CASE MeshBegin
  <2>1. NodeTypes'
    BY <1>0, <1>1 DEF MeshBegin, NodeTypes, State
  <2>2. ParentsKept'
    BY <1>0, <1>1 DEF MeshBegin, ParentsKept
  <2>3. SleepKept'
    BY <1>0, <1>1 DEF MeshBegin, SleepKept
  <2>4. QED BY <1>1, <2>1, <2>2, <2>3 DEF MeshBegin, BegunFirst, NodeInv
<1>2. ASSUME NEW i \in Interval, Begin(i)
      PROVE  NodeInv'
  <2> DEFINE s == [state EXCEPT !.interval = i]
  <2>1. s \in State /\ s.parents = state.parents
    BY <1>0, <1>2 DEF NodeTypes, State
  <2>2. /\ power = "setup" /\ "battery" \notin began /\ began' = began \cup {"battery"}
        /\ UNCHANGED <<power, nvs, epoch, resets, failures, before, parents>>
        /\ nvs = NoBlob => state' = s
        /\ nvs # NoBlob => state' = nvs
    BY <1>2, LoadFacts DEF Begin
  <2> HIDE DEF s
  <2>3. NodeTypes'
    BY <1>0, <2>1, <2>2 DEF NodeTypes
  <2>4. ParentsKept'
    BY <1>0, <2>1, <2>2 DEF ParentsKept
  <2>5. SleepKept'
    BY <1>0, <2>2 DEF SleepKept, NoBlob
  <2>6. QED BY <2>2, <2>3, <2>4, <2>5 DEF BegunFirst, NodeInv
<1>3. CASE SetupEnds
  <2>1. NodeTypes'
    BY <1>0, <1>3 DEF SetupEnds, NodeTypes
  <2>2. ParentsKept'
    BY <1>0, <1>3 DEF SetupEnds, ParentsKept
  <2>3. QED BY <1>3, <2>1, <2>2 DEF SetupEnds, SleepKept, BegunFirst, NodeInv
<1>4. ASSUME NEW p \in Parent, AddParentCandidate(p)
      PROVE  NodeInv'
  <2>1. /\ power = "loop" /\ state' = WithParent(state, p) /\ failures' \in Nat
        /\ \/ nvs' = state' /\ failures' = failures
           \/ nvs' = nvs /\ failures' # failures
        /\ parents' = IF failures' = failures THEN state'.parents ELSE Unknown.parents
        /\ UNCHANGED <<power, epoch, began, resets, before>>
    BY <1>0, <1>4, SaveFacts DEF AddParentCandidate, NodeTypes
  <2>2. state' \in State /\ Len(state'.parents) <= MaxParents
    BY <1>0, <2>1, WithParentType DEF NodeTypes
  <2>3. NodeTypes'
    BY <1>0, <2>1, <2>2 DEF NodeTypes
  <2>4. ParentsKept'
    BY <2>1 DEF ParentsKept, NoBlob
  <2>5. SleepKept' /\ BegunFirst'
    BY <1>0, <2>1 DEF SleepKept, BegunFirst
  <2>6. QED BY <2>3, <2>4, <2>5 DEF NodeInv
<1>5. ASSUME NEW t \in Time, SetMeshTime(t)
      PROVE  NodeInv'
  <2>1. /\ power = "loop" /\ state' = [state EXCEPT !.meshTime = t]
        /\ UNCHANGED <<power, nvs, epoch, began, resets, failures, before, parents>>
    BY <1>5 DEF SetMeshTime
  <2>2. state' \in State /\ state'.parents = state.parents
    BY <1>0, <2>1 DEF NodeTypes, State
  <2>3. NodeTypes'
    BY <1>0, <2>1, <2>2 DEF NodeTypes
  <2>4. ParentsKept' /\ SleepKept' /\ BegunFirst'
    BY <1>0, <2>1, <2>2 DEF ParentsKept, SleepKept, BegunFirst
  <2>5. QED BY <2>3, <2>4 DEF NodeInv
<1>6. CASE RotateEpoch
  <2>1. /\ power = "loop" /\ state' = [state EXCEPT !.lastEpoch = epoch']
        /\ epoch' = (epoch + 1) % Epochs
        /\ UNCHANGED <<power, nvs, began, resets, failures, before, parents>>
    BY <1>6 DEF RotateEpoch
  <2>2. epoch' \in 0..(Epochs - 1)
    BY <1>0, <2>1 DEF NodeTypes
  <2>3. state' \in State /\ state'.parents = state.parents
    BY <1>0, <2>1, <2>2 DEF NodeTypes, State
  <2>4. NodeTypes'
    BY <1>0, <2>1, <2>2, <2>3 DEF NodeTypes
  <2>5. ParentsKept' /\ SleepKept' /\ BegunFirst'
    BY <1>0, <2>1, <2>3 DEF ParentsKept, SleepKept, BegunFirst
  <2>6. QED BY <2>4, <2>5 DEF NodeInv
<1>7. CASE EnterDeepSleep
  <2>1. /\ power = "loop" /\ power' = "asleep" /\ failures' \in Nat
        /\ \/ nvs' = state /\ failures' = failures
           \/ nvs' = nvs /\ failures' # failures
        /\ before' = IF failures' = failures THEN state ELSE Unknown
        /\ UNCHANGED <<state, epoch, began, resets, parents>>
    BY <1>0, <1>7, SaveFacts DEF EnterDeepSleep, NodeTypes
  <2>2. NodeTypes'
    BY <1>0, <2>1 DEF NodeTypes
  <2>3. ParentsKept'
    BY <1>0, <2>1 DEF ParentsKept, NoBlob
  <2>4. SleepKept' /\ BegunFirst'
    BY <2>1 DEF SleepKept, BegunFirst
  <2>5. QED BY <2>2, <2>3, <2>4 DEF NodeInv
<1>8. CASE Wake
  <2>1. NodeTypes'
    BY <1>0, <1>8 DEF Wake, NodeTypes
  <2>2. ParentsKept'
    BY <1>0, <1>8 DEF Wake, ParentsKept
  <2>3. SleepKept'
    BY <1>0, <1>8 DEF Wake, SleepKept
  <2>4. QED BY <1>8, <2>1, <2>2, <2>3 DEF Wake, BegunFirst, NodeInv
<1>9. CASE Reset
  <2>1. Zeroed \in State /\ Len(Zeroed.parents) <= MaxParents
    BY DEF Zeroed, State, BatteryAssumption
  <2>2. NodeTypes'
    BY <1>0, <1>9, <2>1 DEF Reset, NodeTypes
  <2>3. ParentsKept'
    BY <1>0, <1>9 DEF Reset, ParentsKept, Zeroed
  <2>4. QED BY <1>9, <2>2, <2>3 DEF Reset, SleepKept, BegunFirst, NodeInv
<1>10. CASE MeshBeginFails
  <2>1. NodeTypes'
    BY <1>0, <1>10 DEF MeshBeginFails, NodeTypes
  <2>2. ParentsKept'
    BY <1>0, <1>10 DEF MeshBeginFails, ParentsKept
  <2>3. SleepKept'
    BY <1>0, <1>10 DEF MeshBeginFails, SleepKept
  <2>4. QED BY <1>10, <2>1, <2>2, <2>3 DEF MeshBeginFails, BegunFirst, NodeInv
<1>11. QED
  BY <1>1, <1>2, <1>3, <1>4, <1>5, <1>6, <1>7, <1>8, <1>9, <1>10 DEF NodeNext

LEMMA NodeInductive ==
  ASSUME BatteryAssumption, NodeInv, [Next]_<<role, nodeVars, downVars>>
  PROVE  NodeInv'
<1>1. CASE NodeNext /\ UNCHANGED role
  BY <1>1, NodeStep
<1>2. CASE UNCHANGED <<role, nodeVars>>
  BY <1>2 DEF nodeVars, NodeInv, NodeTypes, ParentsKept, SleepKept, BegunFirst
<1>3. QED BY <1>1, <1>2 DEF Next

\* A battery node knows the parents it was told of, in its loop, after any sleeps and
\* resets in any order, unless a write to NVS failed.
THEOREM BatteryParentsSurvive == Spec => []ParentsSurvive
<1>1. Init => NodeInv
  BY NodeInit, BatteryAssumption
<1>2. NodeInv /\ [Next]_<<role, nodeVars, downVars>> => NodeInv'
  BY NodeInductive, BatteryAssumption
<1>3. NodeInv => ParentsSurvive
  BY DEF NodeInv, ParentsKept, ParentsSurvive
<1>4. QED BY <1>1, <1>2, <1>3, PTL DEF Spec

\* A battery node that wakes goes on with the state and the epoch it went to sleep
\* with, whichever of its two begin functions runs first.
THEOREM BatterySleepLosesNothing == Spec => SleepLosesNothing
<1>1. Init => NodeInv
  BY NodeInit, BatteryAssumption
<1>2. NodeInv /\ [Next]_<<role, nodeVars, downVars>> => NodeInv'
  BY NodeInductive, BatteryAssumption
<1>3. NodeInv /\ [Next]_<<role, nodeVars, downVars>>
      => [power = "setup" /\ power' = "loop" /\ before # Unknown
            => state = before /\ ("mesh" \in began => epoch = before.lastEpoch)]_nodeVars
  <2> SUFFICES ASSUME NodeInv, [Next]_<<role, nodeVars, downVars>>,
                      power = "setup", power' = "loop", before # Unknown
               PROVE  state = before /\ ("mesh" \in began => epoch = before.lastEpoch)
    OBVIOUS
  <2>1. NodeNext
    BY DEF Next, nodeVars
  <2>2. SetupEnds
    BY <2>1 DEF NodeNext, MeshBegin, MeshBeginFails, Begin, AddParentCandidate, SetMeshTime, RotateEpoch,
                EnterDeepSleep, Wake, Reset
  <2>3. QED BY <2>2 DEF SetupEnds, NodeInv, SleepKept
<1>4. QED BY <1>1, <1>2, <1>3, PTL DEF Spec, SleepLosesNothing

-----------------------------------------------------------------------------
(* The ring buffer of a child is the queue of its newest messages.          *)

Stored == {m \in Message : m.len <= MsgSize} \cup {NoMessage}

Buffer == [childMac : Child \cup {NoChild}, messages : [Index -> Stored],
           head : Index, tail : Index, count : 0..BufSize]

Ring(b) == b \in Buffer /\ b.head = (b.tail + b.count) % BufSize

\* Below twice the size, the remainder is that less the size at most once.
LEMMA Wrap ==
  ASSUME DownlinkAssumption, NEW x \in 0..(2 * BufSize - 1)
  PROVE  x % BufSize = IF x < BufSize THEN x ELSE x - BufSize
<1>1. BufSize \in Nat \ {0}
  BY DEF DownlinkAssumption
<1>2. CASE x < BufSize
  BY <1>1, <1>2
<1>3. CASE ~(x < BufSize)
  <2>1. x - BufSize \in 0..(BufSize - 1) /\ x = BufSize * 1 + (x - BufSize)
    BY <1>1, <1>3
  <2>2. QED BY <1>1, <1>3, <2>1
<1>4. QED BY <1>2, <1>3

\* Going round: one step after others, and the rest of the way after the first steps.
LEMMA Round ==
  ASSUME DownlinkAssumption, NEW t \in Index
  PROVE  /\ \A n \in 0..(BufSize - 1) : (((t + n) % BufSize) + 1) % BufSize = (t + (n + 1)) % BufSize
         /\ \A n \in 1..BufSize : (((t + n) % BufSize) + (BufSize - n)) % BufSize = t
<1>1. BufSize \in Nat \ {0} /\ t \in 0..(BufSize - 1)
  BY DEF DownlinkAssumption, Index
<1>2. \A x \in 0..(2 * BufSize - 1) : x % BufSize = IF x < BufSize THEN x ELSE x - BufSize
  BY Wrap
<1>3. ASSUME NEW n \in 0..(BufSize - 1)
      PROVE  (((t + n) % BufSize) + 1) % BufSize = (t + (n + 1)) % BufSize
  <2> DEFINE u == (t + n) % BufSize
  <2>1. u = IF t + n < BufSize THEN t + n ELSE t + n - BufSize
    BY <1>1, <1>2
  <2>2. (t + (n + 1)) % BufSize = IF t + (n + 1) < BufSize THEN t + (n + 1) ELSE t + (n + 1) - BufSize
    BY <1>1, <1>2
  <2> HIDE DEF u
  <2>3. (u + 1) % BufSize = IF u + 1 < BufSize THEN u + 1 ELSE u + 1 - BufSize
    BY <1>1, <1>2, <2>1
  <2>4. (u + 1) % BufSize = (t + (n + 1)) % BufSize
    BY <1>1, <2>1, <2>2, <2>3
  <2>5. QED BY <2>4 DEF u
<1>4. ASSUME NEW n \in 1..BufSize
      PROVE  (((t + n) % BufSize) + (BufSize - n)) % BufSize = t
  <2> DEFINE u == (t + n) % BufSize
  <2>1. u = IF t + n < BufSize THEN t + n ELSE t + n - BufSize
    BY <1>1, <1>2
  <2> HIDE DEF u
  <2>2. (u + (BufSize - n)) % BufSize =
            IF u + (BufSize - n) < BufSize THEN u + (BufSize - n) ELSE u + (BufSize - n) - BufSize
    BY <1>1, <1>2, <2>1
  <2>3. (u + (BufSize - n)) % BufSize = t
    BY <1>1, <2>1, <2>2
  <2>4. QED BY <2>3 DEF u
<1>5. QED BY <1>3, <1>4

\* Where the k-th message is.
Place(tail, k) == (tail + k - 1) % BufSize

\* Different messages have different places, the one behind the last is the head's,
\* and they keep them when the oldest goes.
LEMMA PlaceFacts ==
  ASSUME DownlinkAssumption, NEW t \in Index
  PROVE  /\ \A k \in 1..(BufSize + 1) : Place(t, k) \in Index
         /\ \A j, k \in 1..BufSize : Place(t, j) = Place(t, k) => j = k
         /\ \A n \in 0..BufSize : (t + n) % BufSize = Place(t, n + 1)
         /\ Place(t, BufSize + 1) = t /\ Place(t, 1) = t
         /\ \A n \in 0..BufSize : \A k \in 1..(BufSize - n) : Place((t + n) % BufSize, k) = Place(t, k + n)
<1>1. BufSize \in Nat \ {0} /\ t \in 0..(BufSize - 1)
  BY DEF DownlinkAssumption, Index
<1>2. \A x \in 0..(2 * BufSize - 1) : x % BufSize = IF x < BufSize THEN x ELSE x - BufSize
  BY Wrap
<1>3. \A k \in 1..(BufSize + 1) :
        Place(t, k) = IF t + k - 1 < BufSize THEN t + k - 1 ELSE t + k - 1 - BufSize
  BY <1>1, <1>2 DEF Place
<1>4. \A n \in 0..BufSize : (t + n) % BufSize = Place(t, n + 1)
  BY <1>1 DEF Place
<1>5. \A k \in 1..(BufSize + 1) : Place(t, k) \in Index
  BY <1>1, <1>3 DEF Index
<1>6. \A j, k \in 1..BufSize : Place(t, j) = Place(t, k) => j = k
  BY <1>1, <1>3
<1>7. Place(t, BufSize + 1) = t /\ Place(t, 1) = t
  BY <1>1, <1>3
<1>8. ASSUME NEW n \in 0..BufSize, NEW k \in 1..(BufSize - n)
      PROVE  Place((t + n) % BufSize, k) = Place(t, k + n)
  <2> DEFINE u == (t + n) % BufSize
  <2>1. u = IF t + n < BufSize THEN t + n ELSE t + n - BufSize
    BY <1>1, <1>2
  <2> HIDE DEF u
  <2>2. Place(u, k) = IF u + k - 1 < BufSize THEN u + k - 1 ELSE u + k - 1 - BufSize
    BY <1>1, <1>2, <2>1 DEF Place
  <2>3. Place(t, k + n) = IF t + k + n - 1 < BufSize THEN t + k + n - 1 ELSE t + k + n - 1 - BufSize
    BY <1>1, <1>3
  <2>4. QED BY <1>1, <2>1, <2>2, <2>3 DEF u
<1>9. QED BY <1>4, <1>5, <1>6, <1>7, <1>8

\* The messages that wait, in a sequence.
LEMMA WaitingFacts ==
  ASSUME DownlinkAssumption, NEW b, Ring(b)
  PROVE  /\ Waiting(b) \in Seq(Stored) /\ Len(Waiting(b)) = b.count
         /\ \A k \in 1..b.count : Waiting(b)[k] = b.messages[Place(b.tail, k)]
<1>1. /\ b.messages \in [Index -> Stored] /\ b.tail \in Index /\ b.count \in 0..BufSize
      /\ BufSize \in Nat \ {0}
  BY DEF Ring, Buffer, DownlinkAssumption
<1>2. \A k \in 1..b.count : Waiting(b)[k] = b.messages[Place(b.tail, k)]
  BY DEF Waiting, Place
<1>3. \A k \in 1..b.count : Place(b.tail, k) \in Index
  BY <1>1, PlaceFacts
<1>4. Waiting(b) \in [1..b.count -> Stored]
  BY <1>1, <1>2, <1>3 DEF Waiting
<1>5. QED BY <1>1, <1>2, <1>4

\* The message at the head is the last in the queue, whose oldest is given up for it
\* if there is no room.
LEMMA PushFacts ==
  ASSUME DownlinkAssumption, NEW b, Ring(b), NEW m \in Stored
  PROVE  /\ Ring(Push(DropOldest(b), m))
         /\ Push(DropOldest(b), m).childMac = b.childMac
         /\ Waiting(Push(DropOldest(b), m)) = Abstract!Newest(Append(Waiting(b), m))
<1> DEFINE c == DropOldest(b)
           d == Push(c, m)
           w == Waiting(b)
           q == Append(w, m)
<1>0. /\ b \in Buffer /\ b.head = (b.tail + b.count) % BufSize /\ BufSize \in Nat \ {0}
      /\ b.messages \in [Index -> Stored] /\ b.tail \in Index /\ b.count \in 0..BufSize
  BY DEF Ring, Buffer, DownlinkAssumption
<1>1. /\ w \in Seq(Stored) /\ Len(w) = b.count
      /\ \A k \in 1..b.count : w[k] = b.messages[Place(b.tail, k)]
  BY WaitingFacts
<1>p. \A t \in Index :
         /\ \A k \in 1..(BufSize + 1) : Place(t, k) \in Index
         /\ \A j, k \in 1..BufSize : Place(t, j) = Place(t, k) => j = k
         /\ \A n \in 0..BufSize : (t + n) % BufSize = Place(t, n + 1)
         /\ Place(t, BufSize + 1) = t /\ Place(t, 1) = t
         /\ \A n \in 0..BufSize : \A k \in 1..(BufSize - n) : Place((t + n) % BufSize, k) = Place(t, k + n)
  BY PlaceFacts
<1>2. /\ Ring(c) /\ c.count < BufSize /\ c.messages = b.messages /\ c.childMac = b.childMac
      /\ b.count < BufSize => c = b
      /\ b.count = BufSize => c.count = b.count - 1 /\ c.tail = (b.tail + 1) % BufSize
                              /\ c.head = b.head
  <2>1. CASE b.count < BufSize
    <3>1. c = b
      BY <1>0, <2>1 DEF DropOldest
    <3>2. QED BY <1>0, <2>1, <3>1 DEF Ring
  <2>2. CASE ~(b.count < BufSize)
    <3>1. b.count = BufSize
      BY <1>0, <2>2
    <3>2. c = [b EXCEPT !.tail = (b.tail + 1) % BufSize, !.count = b.count - 1]
      BY <1>0, <3>1 DEF DropOldest
    <3>3. (b.tail + 1) % BufSize \in Index /\ b.count - 1 \in 0..BufSize
      BY <1>0, <3>1 DEF Index
    <3> HIDE DEF c
    <3>4. /\ c \in Buffer /\ c.count = b.count - 1 /\ c.tail = (b.tail + 1) % BufSize
          /\ c.head = b.head /\ c.messages = b.messages /\ c.childMac = b.childMac
      BY <1>0, <3>1, <3>2, <3>3 DEF Buffer
    <3>5. b.head = b.tail
      BY <1>0, <1>p, <3>1
    <3>6. (c.tail + c.count) % BufSize = b.tail
      <4>1. (((b.tail + 1) % BufSize) + (BufSize - 1)) % BufSize = b.tail
        BY <1>0, Round
      <4>2. QED BY <3>1, <3>4, <4>1
    <3>7. QED BY <1>0, <3>1, <3>4, <3>5, <3>6 DEF Ring
  <2>3. QED BY <2>1, <2>2
<1> HIDE DEF c
<1>3. /\ c \in Buffer /\ c.head = (c.tail + c.count) % BufSize /\ c.tail \in Index
      /\ c.head \in Index /\ c.count \in 0..BufSize /\ c.messages \in [Index -> Stored]
  BY <1>2 DEF Ring, Buffer
<1>4. d = [c EXCEPT !.messages = [c.messages EXCEPT ![c.head] = m],
                    !.head = (c.head + 1) % BufSize, !.count = c.count + 1]
  BY DEF Push
<1>5. /\ d \in Buffer /\ d.messages = [c.messages EXCEPT ![c.head] = m] /\ d.tail = c.tail
      /\ d.head = (c.head + 1) % BufSize /\ d.count = c.count + 1 /\ d.childMac = c.childMac
  <2>1. (c.head + 1) % BufSize \in Index
    BY SMTT(30), <1>0, <1>3 DEF Index
  <2>2. c.count + 1 \in 0..BufSize
    BY <1>0, <1>2, <1>3
  <2>3. [c.messages EXCEPT ![c.head] = m] \in [Index -> Stored]
    BY <1>3
  <2>4. QED BY <1>3, <1>4, <2>1, <2>2, <2>3 DEF Buffer
<1> HIDE DEF d
<1>6. Ring(d)
  <2>1. (c.head + 1) % BufSize = (c.tail + (c.count + 1)) % BufSize
    <3>1. c.count \in 0..(BufSize - 1)
      BY <1>0, <1>2, <1>3
    <3>2. (((c.tail + c.count) % BufSize) + 1) % BufSize = (c.tail + (c.count + 1)) % BufSize
      BY <1>3, <3>1, Round
    <3>3. QED BY <1>3, <3>2
  <2>2. QED BY <1>5, <2>1 DEF Ring
<1>7. /\ Waiting(d) \in Seq(Stored) /\ Len(Waiting(d)) = c.count + 1
      /\ \A k \in 1..c.count : Waiting(d)[k] = c.messages[Place(c.tail, k)]
      /\ Waiting(d)[c.count + 1] = m
  <2>1. /\ Waiting(d) \in Seq(Stored) /\ Len(Waiting(d)) = d.count
        /\ \A k \in 1..d.count : Waiting(d)[k] = d.messages[Place(d.tail, k)]
    BY <1>6, WaitingFacts
  <2>2. c.head = Place(c.tail, c.count + 1) /\ c.count + 1 \in 1..BufSize
    <3>1. (c.tail + c.count) % BufSize = Place(c.tail, c.count + 1)
      BY <1>3, <1>p
    <3>2. QED BY <1>0, <1>2, <1>3, <3>1
  <2>3. \A k \in 1..c.count : Place(c.tail, k) \in Index /\ Place(c.tail, k) # c.head
    <3>1. \A k \in 1..c.count : k \in 1..BufSize /\ k # c.count + 1
      BY <1>0, <1>2, <1>3
    <3>2. QED BY <1>0, <1>3, <1>p, <2>2, <3>1
  <2>4. \A k \in 1..c.count : k \in 1..d.count
    BY <1>3, <1>5
  <2>5. c.count + 1 \in 1..d.count
    BY <1>3, <1>5
  <2>6. QED BY <1>3, <1>5, <2>1, <2>2, <2>3, <2>4, <2>5
<1>8. /\ q \in Seq(Stored) /\ Len(q) = b.count + 1
      /\ \A k \in 1..b.count : q[k] = w[k]
      /\ q[b.count + 1] = m
  BY <1>0, <1>1
<1>9. Waiting(d) = Abstract!Newest(q)
  <2>1. CASE b.count < BufSize
    <3>1. Abstract!Newest(q) = q
      BY <1>0, <1>8, <2>1 DEF Abstract!Newest
    <3>2. c = b
      BY <1>2, <2>1
    <3>3. Len(Waiting(d)) = Len(q) /\ \A k \in 1..Len(q) : Waiting(d)[k] = q[k]
      BY <1>0, <1>1, <1>7, <1>8, <3>2
    <3>4. QED BY <1>7, <1>8, <3>1, <3>3, SeqEqual
  <2>2. CASE b.count = BufSize
    <3>1. Abstract!Newest(q) = SubSeq(q, 2, BufSize + 1)
      BY <1>0, <1>8, <2>2 DEF Abstract!Newest
    <3> DEFINE r == SubSeq(q, 2, BufSize + 1)
    <3>2. r \in Seq(Stored) /\ Len(r) = BufSize /\ \A k \in 1..BufSize : r[k] = q[k + 1]
      BY <1>0, <1>8, <2>2
    <3> HIDE DEF r
    <3>3. \A k \in 1..(BufSize - 1) : Place(c.tail, k) = Place(b.tail, k + 1)
      BY <1>0, <1>2, <1>p, <2>2
    <3>4. ASSUME NEW k \in 1..BufSize
          PROVE  Waiting(d)[k] = r[k]
      <4>1. CASE k = BufSize
        BY <1>0, <1>2, <1>7, <1>8, <2>2, <3>2, <4>1
      <4>2. CASE k # BufSize
        <5>1. k \in 1..c.count /\ k \in 1..(BufSize - 1) /\ k + 1 \in 1..b.count
          BY <1>0, <1>2, <2>2, <4>2
        <5>2. Waiting(d)[k] = b.messages[Place(b.tail, k + 1)]
          BY <1>2, <1>7, <3>3, <5>1
        <5>3. QED BY <1>1, <1>8, <3>2, <5>1, <5>2
      <4>3. QED BY <4>1, <4>2
    <3>5. Len(Waiting(d)) = BufSize
      BY <1>0, <1>2, <1>7, <2>2
    <3>6. QED BY <1>7, <3>1, <3>2, <3>4, <3>5, SeqEqual DEF r
  <2>3. QED BY <1>0, <2>1, <2>2
<1>10. QED BY <1>2, <1>5, <1>6, <1>9 DEF d, c

-----------------------------------------------------------------------------
(* Draining takes the messages that fit, from the oldest.                   *)

\* The bytes of a queue's first messages.
LEMMA BytesFacts ==
  ASSUME DownlinkAssumption, NEW q \in Seq(Stored)
  PROVE  /\ Abstract!Bytes(q, 0) = 0
         /\ \A k \in 1..Len(q) : Abstract!Bytes(q, k) = Abstract!Bytes(q, k - 1) + q[k].len
         /\ \A k \in 0..Len(q) : Abstract!Bytes(q, k) \in Nat
         /\ \A k \in 1..Len(q) : q[k] \in Stored /\ q[k].len \in Nat
<1> DEFINE L == Len(q)
<1>1. L \in Nat /\ \A k \in 1..L : q[k] \in Stored /\ q[k].len \in Nat
  <2>1. \A m \in Stored : m.len \in Nat
    BY DEF Stored, NoMessage, DownlinkAssumption
  <2>2. L \in Nat /\ \A k \in 1..L : q[k] \in Stored
    OBVIOUS
  <2>3. QED BY <2>1, <2>2
<1> HIDE DEF L
<1> DEFINE G == [i \in 1..L |-> [x \in Nat |-> x + q[i].len]]
<1>2. G \in [1..L -> [Nat -> Nat]]
  BY <1>1
<1>3. \E f : Follows(f, L, Nat, 0, G)
  <2>1. 0 \in Nat /\ L \in Nat /\ G \in Steps(L, Nat)
    BY <1>1, <1>2 DEF Steps
  <2> HIDE DEF G
  <2>2. QED BY <2>1, Recursive
<1>4. PICK f \in [0..L -> Nat] : f[0] = 0 /\ \A i \in 1..L : f[i] = f[i - 1] + q[i].len
  <2>1. PICK f \in [0..L -> Nat] : f[0] = 0 /\ \A i \in 1..L : f[i] = G[i][f[i - 1]]
    BY <1>3 DEF Follows
  <2>2. \A i \in 1..L : f[i] = f[i - 1] + q[i].len
    <3>1. ASSUME NEW i \in 1..L
          PROVE  f[i] = f[i - 1] + q[i].len
      <4>1. i - 1 \in 0..L
        BY <1>1
      <4>2. f[i - 1] \in Nat
        BY <4>1
      <4>3. QED BY <2>1, <4>2
    <3>2. QED BY <3>1
  <2>3. QED BY <2>1, <2>2
<1>5. f = [i \in 0..L |-> IF i = 0 THEN 0 ELSE f[i - 1] + q[i].len]
  BY <1>1, <1>4
<1>6. PICK g : /\ g = [i \in 0..L |-> IF i = 0 THEN 0 ELSE g[i - 1] + q[i].len]
               /\ \A k : Abstract!Bytes(q, k) = g[k]
  BY <1>5 DEF Abstract!Bytes, L
<1>7. g[0] = 0 /\ \A k \in 1..L : g[k] = g[k - 1] + q[k].len
  BY <1>1, <1>6
<1>8. \A k \in 0..L : g[k] \in Nat
  <2> DEFINE S == {k \in 0..L : g[k] \in Nat}
  <2>1. 0 \in S
    BY <1>1, <1>7
  <2>2. ASSUME NEW k \in 1..L, k - 1 \in S
        PROVE  k \in S
    <3>1. g[k - 1] \in Nat /\ q[k].len \in Nat /\ g[k] = g[k - 1] + q[k].len /\ k \in 0..L
      BY <1>1, <1>7, <2>2
    <3>2. QED BY <3>1
  <2>3. \A k \in 0..L : k \in S
    <3> HIDE DEF S
    <3>1. QED BY <1>1, <2>1, <2>2, Inductive
  <2>4. QED BY <2>3
<1>9. QED BY <1>1, <1>6, <1>7, <1>8 DEF L

\* As many messages fit as DownlinkQueue says, and as many again do not.
LEMMA FittingFacts ==
  ASSUME DownlinkAssumption, NEW q \in Seq(Stored), NEW room \in Nat
  PROVE  LET n == Abstract!Fitting(q, room)
         IN  /\ n \in 0..Len(q)
             /\ n < Len(q) => Abstract!Bytes(q, n + 1) > room
             /\ \A k \in 0..n : Abstract!Bytes(q, k) <= room
<1> DEFINE L == Len(q)
           B(k) == Abstract!Bytes(q, k)
           T == {k \in 0..L : k = L \/ B(k + 1) > room}
           Fits(k) == B(k) <= room /\ (k < L => B(k + 1) > room)
<1>1. /\ B(0) = 0 /\ \A k \in 1..L : B(k) = B(k - 1) + q[k].len /\ q[k].len \in Nat
      /\ \A k \in 0..L : B(k) \in Nat
      /\ L \in Nat
  BY BytesFacts
<1> HIDE DEF L, B
<1>2. PICK n \in T : \A k \in T : n <= k
  <2>1. T \in SUBSET Nat
    BY <1>1
  <2>2. L \in T
    BY <1>1
  <2> HIDE DEF T
  <2>3. QED BY <2>1, <2>2, Least
<1>3. n \in 0..L /\ Fits(n)
  <2>1. n \in 0..L /\ (n < L => B(n + 1) > room)
    BY <1>1
  <2>2. B(n) <= room
    <3>1. CASE n = 0
      BY <1>1, <3>1
    <3>2. CASE n # 0
      <4>1. n - 1 \in 0..L /\ ~(n <= n - 1) /\ (n - 1) + 1 = n
        BY <1>1, <2>1, <3>2
      <4>2. ~(B((n - 1) + 1) > room)
        BY <1>2, <4>1
      <4>3. B(n) \in Nat
        BY <1>1, <2>1
      <4>4. QED BY <4>2, <4>3
    <3>3. QED BY <3>1, <3>2
  <2>3. QED BY <2>1, <2>2
<1> DEFINE m == Abstract!Fitting(q, room)
<1>4. m \in 0..L /\ Fits(m)
  <2>1. m = CHOOSE k \in 0..L : Fits(k)
    BY DEF Abstract!Fitting, L, B
  <2> HIDE DEF m, Fits
  <2>2. QED BY <1>3, <2>1, Zenon
<1> HIDE DEF m
<1>5. \A k \in 0..m : B(k) <= room
  <2> DEFINE S == {k \in 0..m : B(m - k) <= room}
  <2>1. 0 \in S
    BY <1>1, <1>4
  <2>2. ASSUME NEW k \in 1..m, k - 1 \in S
        PROVE  k \in S
    <3>1. /\ m - (k - 1) \in 1..L /\ m - k \in 0..L /\ (m - (k - 1)) - 1 = m - k
          /\ B(m - (k - 1)) <= room
      BY <1>1, <1>4, <2>2
    <3>2. B(m - (k - 1)) = B(m - k) + q[m - (k - 1)].len /\ q[m - (k - 1)].len \in Nat
          /\ B(m - k) \in Nat
      BY <1>1, <3>1
    <3>3. QED BY <3>1, <3>2
  <2>3. \A k \in 0..m : k \in S
    <3>1. m \in Nat
      BY <1>1, <1>4
    <3> HIDE DEF S
    <3>2. QED BY <2>1, <2>2, <3>1, Inductive
  <2>4. ASSUME NEW k \in 0..m
        PROVE  B(k) <= room
    <3>1. m - k \in 0..m /\ m - (m - k) = k
      BY <1>1, <1>4
    <3>2. m - k \in S
      BY <2>3, <3>1
    <3>3. QED BY <3>1, <3>2
  <2>5. QED BY <2>4
<1>6. QED BY <1>4, <1>5 DEF m, L, B

\* What is left of a buffer when its n oldest messages are gone.
Rest(b, n) == [b EXCEPT !.tail = (b.tail + n) % BufSize, !.count = b.count - n]

\* The loop after it copied n messages.
Copied(b, n) ==
    [b |-> Rest(b, n), out |-> SubSeq(Waiting(b), 1, n), total |-> Abstract!Bytes(Waiting(b), n)]

LEMMA RestFacts ==
  ASSUME DownlinkAssumption, NEW b, Ring(b), NEW n \in 0..b.count
  PROVE  /\ Ring(Rest(b, n)) /\ Rest(b, n).childMac = b.childMac
         /\ Rest(b, n).count = b.count - n /\ Rest(b, n).messages = b.messages
         /\ Rest(b, n).tail = (b.tail + n) % BufSize
         /\ Waiting(Rest(b, n)) = SubSeq(Waiting(b), n + 1, b.count)
<1> DEFINE c == Rest(b, n)
           w == Waiting(b)
<1>0. /\ b \in Buffer /\ b.head = (b.tail + b.count) % BufSize /\ BufSize \in Nat \ {0}
      /\ b.messages \in [Index -> Stored] /\ b.tail \in Index /\ b.count \in 0..BufSize
  BY DEF Ring, Buffer, DownlinkAssumption
<1>1. (b.tail + n) % BufSize \in Index /\ b.count - n \in 0..BufSize
  BY SMTT(30), <1>0 DEF Index
<1>2. /\ c \in Buffer /\ c.head = b.head /\ c.count = b.count - n /\ c.messages = b.messages
      /\ c.tail = (b.tail + n) % BufSize /\ c.childMac = b.childMac
  BY <1>0, <1>1 DEF Rest, Buffer
<1> HIDE DEF c
<1>3. \A k \in 1..(BufSize - n) : Place(c.tail, k) = Place(b.tail, k + n)
  <2>1. n \in 0..BufSize
    BY <1>0
  <2>2. QED BY <1>0, <1>2, <2>1, PlaceFacts
<1>4. Ring(c)
  <2>1. CASE n = 0
    <3>1. c.tail = b.tail
      <4>1. (b.tail + 0) % BufSize = Place(b.tail, 0 + 1) /\ Place(b.tail, 1) = b.tail
        BY <1>0, PlaceFacts
      <4>2. QED BY <1>2, <2>1, <4>1
    <3>2. QED BY <1>0, <1>2, <2>1, <3>1 DEF Ring
  <2>2. CASE n # 0
    <3>1. (c.tail + c.count) % BufSize = Place(c.tail, c.count + 1)
      BY <1>0, <1>2, PlaceFacts DEF Buffer
    <3>2. Place(c.tail, c.count + 1) = Place(b.tail, b.count + 1)
      <4>1. c.count + 1 \in 1..(BufSize - n) \/ b.count = BufSize
        BY <1>0, <1>2
      <4>2. CASE c.count + 1 \in 1..(BufSize - n)
        <5>1. (c.count + 1) + n = b.count + 1
          BY <1>0, <1>2
        <5>2. QED BY <1>3, <4>2, <5>1
      <4>3. CASE b.count = BufSize
        <5>1. Place(b.tail, b.count + 1) = b.tail
          BY <1>0, <4>3, PlaceFacts
        <5>2. (((b.tail + n) % BufSize) + (BufSize - n)) % BufSize = b.tail
          BY <1>0, <2>2, Round
        <5>3. QED BY <1>0, <1>2, <3>1, <4>3, <5>1, <5>2
      <4>4. QED BY <4>1, <4>2, <4>3
    <3>3. Place(b.tail, b.count + 1) = b.head
      BY <1>0, PlaceFacts
    <3>4. QED BY <1>2, <3>1, <3>2, <3>3 DEF Ring
  <2>3. QED BY <2>1, <2>2
<1>5. /\ w \in Seq(Stored) /\ Len(w) = b.count
      /\ \A k \in 1..b.count : w[k] = b.messages[Place(b.tail, k)]
  BY WaitingFacts
<1>6. /\ Waiting(c) \in Seq(Stored) /\ Len(Waiting(c)) = b.count - n
      /\ \A k \in 1..(b.count - n) : Waiting(c)[k] = b.messages[Place(c.tail, k)]
  BY <1>2, <1>4, WaitingFacts
<1> DEFINE r == SubSeq(w, n + 1, b.count)
<1>7. r \in Seq(Stored) /\ Len(r) = b.count - n /\ \A k \in 1..(b.count - n) : r[k] = w[k + n]
  BY <1>0, <1>5
<1> HIDE DEF r
<1>8. \A k \in 1..(b.count - n) : Waiting(c)[k] = r[k]
  <2>1. \A k \in 1..(b.count - n) : k \in 1..(BufSize - n) /\ k + n \in 1..b.count
    BY <1>0
  <2>2. QED BY <1>3, <1>5, <1>6, <1>7, <2>1
<1>9. Waiting(c) = r
  BY <1>6, <1>7, <1>8, SeqEqual
<1>10. QED BY <1>2, <1>4, <1>9 DEF c, r

\* One round copies the next message if it fits, and changes nothing if not.
LEMMA PopFacts ==
  ASSUME DownlinkAssumption, NEW b, Ring(b), NEW room \in Nat,
         NEW n \in 0..Abstract!Fitting(Waiting(b), room)
  PROVE  Pop(Copied(b, n), room) =
            IF n < Abstract!Fitting(Waiting(b), room) THEN Copied(b, n + 1) ELSE Copied(b, n)
<1> DEFINE w == Waiting(b)
           F == Abstract!Fitting(w, room)
           B(k) == Abstract!Bytes(w, k)
           m == w[n + 1]
<1>0. /\ BufSize \in Nat \ {0} /\ b.tail \in Index /\ b.count \in 0..BufSize /\ b \in Buffer
  BY DEF Ring, Buffer, DownlinkAssumption
<1>1. /\ w \in Seq(Stored) /\ Len(w) = b.count
      /\ \A k \in 1..b.count : w[k] = b.messages[Place(b.tail, k)]
  BY WaitingFacts
<1>2. /\ \A k \in 1..b.count : B(k) = B(k - 1) + w[k].len /\ w[k].len \in Nat
      /\ \A k \in 0..b.count : B(k) \in Nat
  BY <1>1, BytesFacts
<1>3. /\ F \in 0..b.count /\ (F < b.count => B(F + 1) > room)
      /\ \A k \in 0..F : B(k) <= room
  BY <1>1, FittingFacts
<1>n. n \in 0..F
  OBVIOUS
<1> HIDE DEF w, F, B
<1>4. /\ Rest(b, n).count = b.count - n /\ Rest(b, n).messages = b.messages
      /\ Rest(b, n).tail = (b.tail + n) % BufSize
  <2>1. n \in 0..b.count
    BY <1>0, <1>3, <1>n
  <2>2. QED BY <2>1, RestFacts
<1>5. /\ Copied(b, n).b = Rest(b, n) /\ Copied(b, n).out = SubSeq(w, 1, n)
      /\ Copied(b, n).total = B(n)
  BY DEF Copied, w, B
<1>6. ASSUME n < b.count
      PROVE  /\ Rest(b, n).messages[Rest(b, n).tail] = m
             /\ B(n) + m.len = B(n + 1) /\ B(n) \in Nat /\ B(n + 1) \in Nat /\ m.len \in Nat
  <2>1. n + 1 \in 1..b.count /\ n \in 0..BufSize /\ n \in 0..b.count /\ n + 1 \in 0..b.count
        /\ (n + 1) - 1 = n
    BY <1>0, <1>3, <1>6
  <2>2. (b.tail + n) % BufSize = Place(b.tail, n + 1)
    BY <1>0, <2>1, PlaceFacts
  <2>3. Rest(b, n).messages[Rest(b, n).tail] = m
    BY <1>1, <1>4, <2>1, <2>2
  <2>4. B(n + 1) = B(n) + m.len /\ m.len \in Nat /\ B(n) \in Nat /\ B(n + 1) \in Nat
    BY <1>2, <2>1
  <2>5. QED BY <2>3, <2>4
<1>7. CASE n < F
  <2>1. n < b.count /\ n + 1 \in 0..F
    BY <1>0, <1>3, <1>7, <1>n
  <2>2. B(n + 1) <= room
    BY <1>3, <2>1
  <2>3. Rest(b, n).count > 0
    BY <1>0, <1>3, <1>4, <1>n, <2>1
  <2>4. Pop(Copied(b, n), room) =
            [b |-> [Rest(b, n) EXCEPT !.tail = (Rest(b, n).tail + 1) % BufSize,
                                      !.count = Rest(b, n).count - 1],
             out |-> Append(SubSeq(w, 1, n), m), total |-> B(n) + m.len]
    BY <1>5, <1>6, <2>1, <2>2, <2>3 DEF Pop
  <2>5. [Rest(b, n) EXCEPT !.tail = (Rest(b, n).tail + 1) % BufSize, !.count = Rest(b, n).count - 1]
            = Rest(b, n + 1)
    <3>1. (((b.tail + n) % BufSize) + 1) % BufSize = (b.tail + (n + 1)) % BufSize
      <4>1. n \in 0..(BufSize - 1)
        BY <1>0, <1>3, <1>n, <2>1
      <4>2. QED BY <1>0, <4>1, Round
    <3>2. (b.count - n) - 1 = b.count - (n + 1)
      BY <1>0, <1>3, <1>n
    <3>3. [Rest(b, n) EXCEPT !.tail = (b.tail + (n + 1)) % BufSize, !.count = b.count - (n + 1)]
            = Rest(b, n + 1)
      BY <1>0 DEF Rest, Buffer
    <3>4. QED BY <1>4, <3>1, <3>2, <3>3
  <2>6. Append(SubSeq(w, 1, n), m) = SubSeq(w, 1, n + 1)
    <3>1. n \in Nat /\ n + 1 <= Len(w)
      BY <1>0, <1>1, <1>3, <1>n, <2>1
    <3>2. /\ SubSeq(w, 1, n) \in Seq(Stored) /\ Len(SubSeq(w, 1, n)) = n
          /\ \A k \in 1..n : SubSeq(w, 1, n)[k] = w[k]
      BY <1>1, <3>1
    <3>3. /\ SubSeq(w, 1, n + 1) \in Seq(Stored) /\ Len(SubSeq(w, 1, n + 1)) = n + 1
          /\ \A k \in 1..(n + 1) : SubSeq(w, 1, n + 1)[k] = w[k]
      BY <1>1, <3>1
    <3>4. m \in Stored
      BY <1>1, <3>1
    <3> DEFINE s == Append(SubSeq(w, 1, n), m)
    <3> HIDE DEF m
    <3>5. /\ s \in Seq(Stored) /\ Len(s) = n + 1 /\ s[n + 1] = m
          /\ \A k \in 1..n : s[k] = SubSeq(w, 1, n)[k]
      BY <3>1, <3>2, <3>4
    <3> HIDE DEF s
    <3>6. ASSUME NEW k \in 1..(n + 1)
          PROVE  s[k] = w[k]
      <4>1. CASE k = n + 1
        BY <3>5, <4>1 DEF m
      <4>2. CASE k # n + 1
        <5>1. k \in 1..n
          BY <3>1, <4>2
        <5>2. QED BY <3>2, <3>5, <5>1
      <4>3. QED BY <4>1, <4>2
    <3>7. s = SubSeq(w, 1, n + 1)
      BY <3>1, <3>3, <3>5, <3>6, SeqEqual
    <3>8. QED BY <3>7 DEF s
  <2>7. B(n) + m.len = B(n + 1)
    BY <1>6, <2>1
  <2>8. Pop(Copied(b, n), room) = Copied(b, n + 1)
    BY <2>4, <2>5, <2>6, <2>7 DEF Copied, w, B
  <2>9. QED BY <1>7, <2>8 DEF F, w
<1>8. CASE ~(n < F)
  <2>1. n = F
    BY <1>3, <1>8, <1>n
  <2>2. CASE n < b.count
    <3>1. B(n) + m.len > room
      BY <1>3, <1>6, <2>1, <2>2
    <3>2. ~(Copied(b, n).total + m.len <= room)
      BY <1>5, <1>6, <2>2, <3>1
    <3>3. Pop(Copied(b, n), room) = Copied(b, n)
      BY <1>5, <1>6, <2>2, <3>2 DEF Pop
    <3>4. QED BY <1>8, <3>3 DEF F, w
  <2>3. CASE ~(n < b.count)
    <3>1. ~(Rest(b, n).count > 0)
      BY <1>0, <1>3, <1>4, <1>n, <2>3
    <3>2. Pop(Copied(b, n), room) = Copied(b, n)
      BY <1>5, <3>1 DEF Pop
    <3>3. QED BY <1>8, <3>2 DEF F, w
  <2>4. QED BY <2>2, <2>3
<1>9. QED BY <1>7, <1>8

\* The loop of drainBuffer copies the messages that fit.
LEMMA DrainFacts ==
  ASSUME DownlinkAssumption, NEW b, Ring(b), NEW room \in Nat
  PROVE  Drain(b, room) = Copied(b, Abstract!Fitting(Waiting(b), room))
<1> DEFINE w == Waiting(b)
           F == Abstract!Fitting(w, room)
           S == [b : Buffer, out : Seq(Stored), total : Nat]
           start == [b |-> b, out |-> << >>, total |-> 0]
           G == [k \in 1..BufSize |-> [acc \in S |-> Pop(acc, room)]]
<1>0. BufSize \in Nat \ {0} /\ b \in Buffer /\ b.count \in 0..BufSize /\ b.tail \in Index
  BY DEF Ring, Buffer, DownlinkAssumption
<1>1. F \in 0..b.count
  BY WaitingFacts, FittingFacts
<1>2. ASSUME NEW acc \in S
      PROVE  Pop(acc, room) \in S
  <2> DEFINE m == acc.b.messages[acc.b.tail]
  <2>1. acc.b \in Buffer /\ acc.out \in Seq(Stored) /\ acc.total \in Nat
    OBVIOUS
  <2>2. m \in Stored /\ m.len \in Nat
    <3>1. m \in Stored
      BY <2>1 DEF Buffer
    <3>2. \A x \in Stored : x.len \in Nat
      BY DEF Stored, NoMessage, DownlinkAssumption
    <3> HIDE DEF m
    <3>3. QED BY <3>1, <3>2
  <2> HIDE DEF m
  <2>3. CASE acc.b.count > 0 /\ acc.total + m.len <= room
    <3>1. (acc.b.tail + 1) % BufSize \in Index /\ acc.b.count - 1 \in 0..BufSize
      BY SMTT(30), <1>0, <2>1, <2>3 DEF Buffer, Index
    <3>2. [acc.b EXCEPT !.tail = (acc.b.tail + 1) % BufSize, !.count = acc.b.count - 1] \in Buffer
      BY <2>1, <3>1 DEF Buffer
    <3>3. Append(acc.out, m) \in Seq(Stored) /\ acc.total + m.len \in Nat
      BY <2>1, <2>2
    <3>4. Pop(acc, room) =
            [b |-> [acc.b EXCEPT !.tail = (acc.b.tail + 1) % BufSize, !.count = acc.b.count - 1],
             out |-> Append(acc.out, m), total |-> acc.total + m.len]
      BY <2>3 DEF Pop, m
    <3>5. QED BY <3>2, <3>3, <3>4
  <2>4. CASE ~(acc.b.count > 0 /\ acc.total + m.len <= room)
    BY <2>4 DEF Pop, m
  <2>5. QED BY <2>3, <2>4
<1>3. start \in S
  BY <1>0
<1>4. PICK f : Follows(f, BufSize, S, start, G)
  <2>1. G \in Steps(BufSize, S)
    BY <1>2 DEF Steps
  <2> HIDE DEF G, S, start
  <2>2. QED BY <1>0, <1>3, <2>1, Recursive
<1>5. f = [k \in 0..BufSize |-> IF k = 0 THEN [b |-> b, out |-> << >>, total |-> 0]
                                ELSE Pop(f[k - 1], room)]
  <2>1. f \in [0..BufSize -> S] /\ f[0] = start /\ \A k \in 1..BufSize : f[k] = G[k][f[k - 1]]
    BY <1>4 DEF Follows
  <2>2. \A k \in 1..BufSize : f[k] = Pop(f[k - 1], room)
    <3>1. ASSUME NEW k \in 1..BufSize
          PROVE  f[k] = Pop(f[k - 1], room)
      <4>1. f[k - 1] \in S
        <5>1. k - 1 \in 0..BufSize
          BY <1>0
        <5> HIDE DEF S
        <5>2. QED BY <2>1, <5>1
      <4> HIDE DEF S
      <4>2. QED BY <2>1, <4>1
    <3>2. QED BY <3>1
  <2>3. DOMAIN f = 0..BufSize
    BY <2>1
  <2> HIDE DEF S, G
  <2>4. QED BY <1>0, <2>1, <2>2, <2>3
<1>6. PICK g : /\ g = [k \in 0..BufSize |-> IF k = 0 THEN [b |-> b, out |-> << >>, total |-> 0]
                                            ELSE Pop(g[k - 1], room)]
               /\ Drain(b, room) = g[BufSize]
  BY <1>5 DEF Drain
<1>7. g[0] = start /\ \A k \in 1..BufSize : g[k] = Pop(g[k - 1], room)
  BY <1>0, <1>6
<1> DEFINE T == {k \in 0..BufSize : g[k] = Copied(b, IF k <= F THEN k ELSE F)}
<1>8. 0 \in T
  <2>1. Copied(b, 0) = start
    <3>1. Rest(b, 0) = b
      <4>1. (b.tail + 0) % BufSize = Place(b.tail, 0 + 1) /\ Place(b.tail, 1) = b.tail
        BY <1>0, PlaceFacts
      <4>2. (b.tail + 0) % BufSize = b.tail /\ b.count - 0 = b.count
        BY <1>0, <4>1
      <4>3. Rest(b, 0) = [b EXCEPT !.tail = b.tail, !.count = b.count]
        BY <4>2 DEF Rest
      <4>4. QED BY <1>0, <4>3 DEF Buffer
    <3>2. SubSeq(w, 1, 0) = << >> /\ Abstract!Bytes(w, 0) = 0
      BY WaitingFacts, BytesFacts
    <3>3. QED BY <3>1, <3>2 DEF Copied
  <2>2. 0 <= F /\ 0 \in 0..BufSize
    BY <1>0, <1>1
  <2> HIDE DEF start, F
  <2>3. QED BY <1>7, <2>1, <2>2
<1>9. ASSUME NEW k \in 1..BufSize, k - 1 \in T
      PROVE  k \in T
  <2>1. g[k] = Pop(g[k - 1], room) /\ g[k - 1] = Copied(b, IF k - 1 <= F THEN k - 1 ELSE F)
    BY <1>7, <1>9
  <2>2. \A n \in 0..F : Pop(Copied(b, n), room) = IF n < F THEN Copied(b, n + 1) ELSE Copied(b, n)
    BY PopFacts
  <2> HIDE DEF F
  <2>3. CASE k - 1 < F
    <3>1. k - 1 \in 0..F /\ k - 1 <= F /\ k <= F /\ (k - 1) + 1 = k
      BY <1>0, <1>1, <2>3
    <3>2. g[k] = Copied(b, k)
      BY <2>1, <2>2, <2>3, <3>1
    <3>3. QED BY <3>1, <3>2
  <2>4. CASE ~(k - 1 < F)
    <3>1. (IF k - 1 <= F THEN k - 1 ELSE F) = F /\ ~(k <= F) /\ F \in 0..F /\ ~(F < F)
      BY <1>0, <1>1, <2>4
    <3>2. g[k] = Copied(b, F)
      BY <2>1, <2>2, <3>1
    <3>3. QED BY <3>1, <3>2
  <2>5. QED BY <2>3, <2>4
<1>10. BufSize \in T
  <2>1. \A k \in 0..BufSize : k \in T
    <3> HIDE DEF T
    <3>1. QED BY <1>0, <1>8, <1>9, Inductive
  <2>2. QED BY <1>0, <2>1
<1>11. (IF BufSize <= F THEN BufSize ELSE F) = F
  BY <1>0, <1>1
<1> HIDE DEF F
<1>12. g[BufSize] = Copied(b, F)
  BY <1>10, <1>11
<1>13. QED BY <1>6, <1>12 DEF F

-----------------------------------------------------------------------------
(* DownlinkManager implements DownlinkQueue.                                *)

\* A buffer that is given out is a child's, and no two are the same child's.
DownInv ==
    /\ childCount \in 0..MaxChildren
    /\ buffers \in [0..(MaxChildren - 1) -> Buffer]
    /\ \A i \in 0..(MaxChildren - 1) : Ring(buffers[i])
    /\ \A i \in 0..(childCount - 1) : buffers[i].childMac \in Child
    /\ \A i, j \in 0..(childCount - 1) : buffers[i].childMac = buffers[j].childMac => i = j
    /\ Cardinality(Served) = childCount

\* The queue of child c was old and is new, and nothing else happens to the queues.
Becomes(c, old, new) ==
    /\ DownInv'
    /\ c \in Served \/ Cardinality(Served) < MaxChildren
    /\ Served' = Served \cup {c}
    /\ Queues[c] = old
    /\ Queues' = [Queues EXCEPT ![c] = new]

\* A buffer that no message was put into is empty.
LEMMA ClearedFacts ==
  ASSUME DownlinkAssumption, NEW c \in Child \cup {NoChild}
  PROVE  /\ Ring(Cleared(c)) /\ Cleared(c).childMac = c /\ DropOldest(Cleared(c)) = Cleared(c)
         /\ Waiting(Cleared(c)) = << >>
<1>1. BufSize \in Nat \ {0} /\ 0 \in Index /\ 0 \in 0..BufSize
  BY DEF DownlinkAssumption, Index
<1>2. [i \in Index |-> NoMessage] \in [Index -> Stored]
  BY DEF Stored
<1>3. Cleared(c) \in Buffer
  BY <1>1, <1>2 DEF Cleared, Buffer
<1>4. (0 + 0) % BufSize = 0
  BY <1>1
<1>5. Ring(Cleared(c))
  BY <1>3, <1>4 DEF Ring, Cleared
<1>6. Waiting(Cleared(c)) \in Seq(Stored) /\ Len(Waiting(Cleared(c))) = 0
  BY <1>5, WaitingFacts DEF Cleared
<1>7. QED BY <1>1, <1>5, <1>6 DEF Cleared, DropOldest

\* The queue of a child is what waits in its buffer.
LEMMA QueueOf ==
  ASSUME NEW n \in Nat, NEW bufs, NEW i \in 0..(n - 1),
         \A j, k \in 0..(n - 1) : bufs[j].childMac = bufs[k].childMac => j = k
  PROVE  (CHOOSE j \in {j \in 0..(n - 1) : bufs[j].childMac = bufs[i].childMac} : TRUE) = i
<1>1. {j \in 0..(n - 1) : bufs[j].childMac = bufs[i].childMac} = {i}
  OBVIOUS
<1>2. QED BY <1>1

QueueFor(e) ==
    IF e \in Served THEN Waiting(buffers[CHOOSE i \in FindBuffer(e) : TRUE]) ELSE << >>

LEMMA QueuesAre ==
  /\ Queues = [e \in Child |-> QueueFor(e)]
  /\ Queues' = [e \in Child |-> QueueFor(e)']
  BY Zenon DEF Queues, QueueFor

\* When one buffer becomes d, so does the queue of its child, and no other's.
LEMMA OneBuffer ==
  ASSUME DownlinkAssumption, DownInv, NEW c \in Child, NEW i \in FindBuffer(c), NEW d, Ring(d),
         d.childMac = c, buffers' = [buffers EXCEPT ![i] = d], UNCHANGED childCount
  PROVE  Becomes(c, Waiting(buffers[i]), Waiting(d)) /\ c \in Served
<1>0. /\ childCount \in 0..MaxChildren /\ MaxChildren \in Nat
      /\ buffers \in [0..(MaxChildren - 1) -> Buffer]
  BY DEF DownInv, DownlinkAssumption
<1>1. i \in 0..(childCount - 1) /\ i \in 0..(MaxChildren - 1) /\ buffers[i].childMac = c
      /\ childCount \in Nat
  BY <1>0 DEF FindBuffer
<1>2. /\ buffers'[i] = d /\ \A j \in 0..(MaxChildren - 1) : j # i => buffers'[j] = buffers[j]
      /\ buffers' \in [0..(MaxChildren - 1) -> Buffer]
  BY <1>0, <1>1 DEF Ring
<1>3. \A j \in 0..(childCount - 1) : j \in 0..(MaxChildren - 1)
                                     /\ buffers'[j].childMac = buffers[j].childMac
  BY <1>0, <1>1, <1>2
<1>4. \A e \in Child : FindBuffer(e)' = FindBuffer(e)
  BY <1>3 DEF FindBuffer
<1>5. Served' = Served /\ c \in Served
  BY <1>4 DEF Served
<1>6. DownInv'
  <2>1. \A j \in 0..(MaxChildren - 1) : Ring(buffers'[j])
    BY <1>2 DEF DownInv
  <2>2. /\ \A j \in 0..(childCount - 1) : buffers'[j].childMac \in Child
        /\ \A j, k \in 0..(childCount - 1) : buffers'[j].childMac = buffers'[k].childMac => j = k
    BY <1>3 DEF DownInv
  <2>3. Cardinality(Served') = childCount
    BY <1>5 DEF DownInv
  <2>4. QED BY <1>0, <1>2, <2>1, <2>2, <2>3 DEF DownInv
<1>7. (CHOOSE j \in FindBuffer(c) : TRUE) = i
  <2>1. \A j, k \in 0..(childCount - 1) : buffers[j].childMac = buffers[k].childMac => j = k
    BY DEF DownInv
  <2>2. QED BY <1>1, <2>1, QueueOf DEF FindBuffer
<1>8. Queues[c] = Waiting(buffers[i])
  BY <1>5, <1>7, QueuesAre DEF QueueFor
<1>9. ASSUME NEW e \in Child
      PROVE  QueueFor(e)' = IF e = c THEN Waiting(d) ELSE QueueFor(e)
  <2>1. CASE e = c
    <3>1. QueueFor(e)' = Waiting(buffers'[CHOOSE j \in FindBuffer(e) : TRUE])
      BY <1>4, <1>5, <2>1 DEF QueueFor
    <3>2. (CHOOSE j \in FindBuffer(e) : TRUE) = i
      BY <1>7, <2>1, Zenon
    <3>3. QED BY <1>2, <2>1, <3>1, <3>2
  <2>2. CASE e # c /\ e \in Served
    <3> DEFINE j == CHOOSE j \in FindBuffer(e) : TRUE
    <3>1. j \in FindBuffer(e)
      BY <2>2 DEF Served
    <3>2. j \in 0..(childCount - 1) /\ buffers[j].childMac = e
      BY <3>1 DEF FindBuffer
    <3>3. j # i /\ buffers'[j] = buffers[j]
      BY <1>1, <1>2, <1>3, <2>2, <3>2
    <3>4. QueueFor(e) = Waiting(buffers[j])
      BY <2>2 DEF QueueFor
    <3>5. QueueFor(e)' = Waiting(buffers'[j])
      BY <1>4, <1>5, <2>2 DEF QueueFor
    <3> HIDE DEF j
    <3>6. QED BY <2>2, <3>3, <3>4, <3>5
  <2>3. CASE e # c /\ e \notin Served
    BY <1>5, <2>3 DEF QueueFor
  <2>4. QED BY <2>1, <2>2, <2>3
<1>10. Queues' = [Queues EXCEPT ![c] = Waiting(d)]
  BY <1>9, QueuesAre
<1>11. Served \cup {c} = Served
  BY <1>5
<1>12. QED BY <1>5, <1>6, <1>8, <1>10, <1>11 DEF Becomes

\* When a child is given the next buffer, it has the queue that is in it.
LEMMA NewBuffer ==
  ASSUME DownlinkAssumption, DownInv, NEW c \in Child, FindBuffer(c) = {}, childCount < MaxChildren,
         NEW d, Ring(d), d.childMac = c,
         buffers' = [buffers EXCEPT ![childCount] = d], childCount' = childCount + 1
  PROVE  Becomes(c, << >>, Waiting(d))
<1>0. /\ childCount \in 0..MaxChildren /\ MaxChildren \in Nat /\ childCount \in Nat
      /\ buffers \in [0..(MaxChildren - 1) -> Buffer]
  BY DEF DownInv, DownlinkAssumption
<1>1. childCount \in 0..(MaxChildren - 1) /\ c \notin Served
  BY <1>0 DEF Served
<1>2. /\ buffers'[childCount] = d
      /\ \A j \in 0..(MaxChildren - 1) : j # childCount => buffers'[j] = buffers[j]
      /\ buffers' \in [0..(MaxChildren - 1) -> Buffer]
  BY <1>0, <1>1 DEF Ring
<1>3. \A j \in 0..(childCount - 1) : /\ j \in 0..(MaxChildren - 1) /\ j # childCount
                                     /\ buffers'[j] = buffers[j] /\ buffers[j].childMac # c
  BY <1>0, <1>1, <1>2 DEF FindBuffer
<1>4. 0..(childCount' - 1) = 0..(childCount - 1) \cup {childCount}
  BY <1>0
<1>5. /\ FindBuffer(c)' = {childCount}
      /\ \A e \in Child : e # c => FindBuffer(e)' = FindBuffer(e)
  BY <1>2, <1>3, <1>4 DEF FindBuffer
<1>6. Served' = Served \cup {c}
  BY <1>5 DEF Served
<1>7. DownInv'
  <2>1. \A j \in 0..(MaxChildren - 1) : Ring(buffers'[j])
    BY <1>2 DEF DownInv
  <2>2. \A j \in 0..(childCount' - 1) : buffers'[j].childMac \in Child
    BY <1>2, <1>3, <1>4 DEF DownInv
  <2>3. \A j, k \in 0..(childCount' - 1) : buffers'[j].childMac = buffers'[k].childMac => j = k
    BY <1>2, <1>3, <1>4 DEF DownInv
  <2>4. Cardinality(Served') = childCount'
    <3>1. IsFiniteSet(Served)
      BY FS_Subset DEF Served, DownlinkAssumption
    <3>2. QED BY <1>1, <1>6, <3>1, FS_AddElement DEF DownInv
  <2>5. childCount' \in 0..MaxChildren
    BY <1>0
  <2>6. QED BY <1>2, <2>1, <2>2, <2>3, <2>4, <2>5 DEF DownInv
<1>8. Queues[c] = << >>
  BY <1>1, QueuesAre DEF QueueFor
<1>9. ASSUME NEW e \in Child
      PROVE  QueueFor(e)' = IF e = c THEN Waiting(d) ELSE QueueFor(e)
  <2>1. CASE e = c
    <3>1. (CHOOSE j \in FindBuffer(c)' : TRUE) = childCount
      BY <1>5
    <3>2. QueueFor(e)' = Waiting(buffers'[CHOOSE j \in FindBuffer(c)' : TRUE])
      BY <1>6, <2>1 DEF QueueFor
    <3>3. QED BY <1>2, <2>1, <3>1, <3>2
  <2>2. CASE e # c /\ e \in Served
    <3> DEFINE j == CHOOSE j \in FindBuffer(e) : TRUE
    <3>1. j \in FindBuffer(e)
      BY <2>2 DEF Served
    <3>2. buffers'[j] = buffers[j]
      BY <1>3, <3>1 DEF FindBuffer
    <3>3. QueueFor(e) = Waiting(buffers[j])
      BY <2>2 DEF QueueFor
    <3>4. QueueFor(e)' = Waiting(buffers'[j])
      BY <1>5, <1>6, <2>2 DEF QueueFor
    <3>5. QED BY <2>2, <3>2, <3>3, <3>4
  <2>3. CASE e # c /\ e \notin Served
    BY <1>6, <2>3 DEF QueueFor
  <2>4. QED BY <2>1, <2>2, <2>3
<1>10. Queues' = [Queues EXCEPT ![c] = Waiting(d)]
  BY <1>9, QueuesAre
<1>11. Cardinality(Served) < MaxChildren
  BY DEF DownInv
<1>12. QED BY <1>6, <1>7, <1>8, <1>10, <1>11 DEF Becomes

LEMMA SameCardinality == \A S : Abstract!Cardinality(S) = Cardinality(S)
  BY DEF Cardinality, Abstract!Cardinality, IsFiniteSet, Abstract!IsFiniteSet

LEMMA AppendStep ==
  ASSUME NEW c \in Child, NEW m \in Message, NEW q, drained' = << >>,
         Becomes(c, q, Abstract!Newest(Append(q, m)))
  PROVE  DownInv' /\ Abstract!BufferMessage(c, m)
<1>1. /\ DownInv' /\ Served' = Served \cup {c}
      /\ c \in Served \/ Cardinality(Served) < MaxChildren
      /\ Queues[c] = q /\ Queues' = [Queues EXCEPT ![c] = Abstract!Newest(Append(q, m))]
  BY DEF Becomes
<1>2. Queues' = [Queues EXCEPT ![c] = Abstract!Newest(Append(Queues[c], m))]
  BY <1>1
<1>3. QED BY <1>1, <1>2, SameCardinality DEF Abstract!BufferMessage

\* bufferMessage is a step of DownlinkQueue.
LEMMA BufferStep ==
  ASSUME DownlinkAssumption, DownInv, NEW c \in Child, NEW m \in Message, BufferMessage(c, m)
  PROVE  DownInv' /\ m.len <= MsgSize /\ Abstract!BufferMessage(c, m)
<1>1. m \in Stored /\ m.len <= MsgSize /\ drained' = << >>
  BY DEF BufferMessage, Stored
<1>2. ASSUME NEW i \in FindBuffer(c), UNCHANGED childCount,
             buffers' = [buffers EXCEPT ![i] = Push(DropOldest(buffers[i]), m)]
      PROVE  DownInv' /\ Abstract!BufferMessage(c, m)
  <2> DEFINE d == Push(DropOldest(buffers[i]), m)
  <2>1. Ring(buffers[i]) /\ buffers[i].childMac = c
    BY DEF FindBuffer, DownInv, DownlinkAssumption
  <2>2. Ring(d) /\ d.childMac = c /\ Waiting(d) = Abstract!Newest(Append(Waiting(buffers[i]), m))
    BY <1>1, <2>1, PushFacts
  <2> HIDE DEF d
  <2>3. buffers' = [buffers EXCEPT ![i] = d]
    BY <1>2 DEF d
  <2>4. Becomes(c, Waiting(buffers[i]), Waiting(d))
    BY <1>2, <2>2, <2>3, OneBuffer
  <2>5. QED BY <1>1, <2>2, <2>4, AppendStep
<1>3. ASSUME FindBuffer(c) = {}, childCount < MaxChildren, childCount' = childCount + 1,
             buffers' = [buffers EXCEPT ![childCount] = Push(Cleared(c), m)]
      PROVE  DownInv' /\ Abstract!BufferMessage(c, m)
  <2> DEFINE d == Push(Cleared(c), m)
  <2>1. /\ Ring(Cleared(c)) /\ Cleared(c).childMac = c /\ DropOldest(Cleared(c)) = Cleared(c)
        /\ Waiting(Cleared(c)) = << >>
    BY ClearedFacts
  <2>2. Ring(d) /\ d.childMac = c /\ Waiting(d) = Abstract!Newest(Append(<< >>, m))
    BY <1>1, <2>1, PushFacts
  <2> HIDE DEF d
  <2>3. buffers' = [buffers EXCEPT ![childCount] = d]
    BY <1>3 DEF d
  <2>4. Becomes(c, << >>, Waiting(d))
    BY <1>3, <2>2, <2>3, NewBuffer
  <2>5. QED BY <1>1, <2>2, <2>4, AppendStep
<1>4. QED BY <1>1, <1>2, <1>3 DEF BufferMessage

\* So is drainBuffer.
LEMMA DrainStep ==
  ASSUME DownlinkAssumption, DownInv, NEW c \in Child, NEW room \in Room, DrainBuffer(c, room)
  PROVE  DownInv' /\ Abstract!DrainBuffer(c, room)
<1>1. PICK i \in FindBuffer(c) : /\ buffers' = [buffers EXCEPT ![i] = Drain(buffers[i], room).b]
                                 /\ drained' = Drain(buffers[i], room).out
                                 /\ UNCHANGED childCount
  BY DEF DrainBuffer
<1> DEFINE b == buffers[i]
           w == Waiting(b)
           k == Abstract!Fitting(w, room)
           d == Rest(b, k)
<1>2. Ring(b) /\ b.childMac = c /\ room \in Nat
  BY DEF FindBuffer, DownInv, DownlinkAssumption
<1>3. Drain(b, room) = Copied(b, k)
  BY <1>2, DrainFacts
<1>4. buffers' = [buffers EXCEPT ![i] = d] /\ drained' = SubSeq(w, 1, k)
  <2>1. Copied(b, k).b = d /\ Copied(b, k).out = SubSeq(w, 1, k)
    BY DEF Copied
  <2>2. Drain(b, room).b = d /\ Drain(b, room).out = SubSeq(w, 1, k)
    BY <1>3, <2>1
  <2> HIDE DEF d, w, k
  <2>3. QED BY <1>1, <2>2
<1>5. w \in Seq(Stored) /\ Len(w) = b.count /\ k \in 0..b.count
  <2>1. w \in Seq(Stored) /\ Len(w) = b.count
    BY <1>2, WaitingFacts
  <2>2. QED BY <1>2, <2>1, FittingFacts
<1>6. Ring(d) /\ d.childMac = c /\ Waiting(d) = SubSeq(w, k + 1, Len(w))
  BY <1>2, <1>5, RestFacts
<1> HIDE DEF d, k
<1>7. /\ DownInv' /\ Served' = Served /\ Queues[c] = w
      /\ Queues' = [Queues EXCEPT ![c] = Waiting(d)]
  <2>1. Becomes(c, w, Waiting(d)) /\ c \in Served
    BY <1>1, <1>4, <1>6, OneBuffer
  <2> HIDE DEF w
  <2>2. QED BY <2>1 DEF Becomes
<1> HIDE DEF w
<1>8. /\ drained' = SubSeq(Queues[c], 1, Abstract!Fitting(Queues[c], room))
      /\ Queues' = [Queues EXCEPT ![c] =
            SubSeq(Queues[c], Abstract!Fitting(Queues[c], room) + 1, Len(Queues[c]))]
  BY <1>4, <1>6, <1>7 DEF k
<1>9. QED BY <1>7, <1>8 DEF Abstract!DrainBuffer

LEMMA DownInitInv == DownlinkAssumption /\ DownInit => DownInv /\ Abstract!Init
<1> SUFFICES ASSUME DownlinkAssumption, DownInit
             PROVE  DownInv /\ Abstract!Init
  OBVIOUS
<1>1. Served = {} /\ childCount = 0 /\ MaxChildren \in Nat
  BY DEF Served, FindBuffer, DownInit, DownlinkAssumption
<1>2. \A i \in 0..(MaxChildren - 1) : buffers[i] = Cleared(NoChild) /\ Ring(buffers[i])
                                     /\ buffers[i] \in Buffer
  BY ClearedFacts DEF DownInit, Ring
<1>3. Cardinality(Served) = 0
  BY <1>1, FS_EmptySet
<1>4. DownInv
  BY <1>1, <1>2, <1>3 DEF DownInit, DownInv
<1>5. Abstract!Init
  BY <1>1 DEF DownInit, Abstract!Init, Queues
<1>6. QED BY <1>4, <1>5

LEMMA DownStep ==
  ASSUME DownlinkAssumption, DownInv, [DownNext]_downVars
  PROVE  DownInv' /\ [Abstract!Next]_(Abstract!vars)
<1>1. ASSUME NEW c \in Child, NEW m \in Message, BufferMessage(c, m)
      PROVE  DownInv' /\ Abstract!Next
  <2>1. DownInv' /\ m.len <= MsgSize /\ Abstract!BufferMessage(c, m)
    BY <1>1, BufferStep
  <2>2. QED BY <2>1 DEF Abstract!Next
<1>2. ASSUME NEW c \in Child, NEW room \in Room, DrainBuffer(c, room)
      PROVE  DownInv' /\ Abstract!Next
  <2>1. DownInv' /\ Abstract!DrainBuffer(c, room)
    BY <1>2, DrainStep
  <2>2. QED BY <2>1 DEF Abstract!Next
<1>3. CASE UNCHANGED downVars
  <2>1. Served' = Served /\ Queues' = Queues /\ drained' = drained
    BY <1>3 DEF downVars, Served, Queues, FindBuffer
  <2>2. DownInv'
    BY <1>3, <2>1 DEF downVars, DownInv
  <2>3. QED BY <2>1, <2>2 DEF Abstract!vars
<1>4. QED BY <1>1, <1>2, <1>3 DEF DownNext

\* The ring buffers of a parent are the queues of DownlinkQueue: whatever is buffered
\* and drained, a child gets its newest messages, oldest first, each once.
THEOREM DownlinkImplementsQueue == Spec => ImplementsQueue
<1>1. Init => DownInv /\ Abstract!Init
  BY DownInitInv, DownlinkAssumption DEF Init
<1>2. DownInv /\ [Next]_<<role, nodeVars, downVars>> => DownInv' /\ [Abstract!Next]_(Abstract!vars)
  <2> SUFFICES ASSUME DownInv, [Next]_<<role, nodeVars, downVars>>
               PROVE  DownInv' /\ [Abstract!Next]_(Abstract!vars)
    OBVIOUS
  <2>1. [DownNext]_downVars
    BY DEF Next
  <2>2. QED BY <2>1, DownStep, DownlinkAssumption
<1>3. QED BY <1>1, <1>2, PTL DEF Spec, ImplementsQueue, Abstract!Spec
=============================================================================
