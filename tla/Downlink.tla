------------------------------ MODULE Downlink ------------------------------
(***************************************************************************)
(* DownlinkManager of BatteryNode.cpp: the messages a parent keeps for its *)
(* sleeping children, in one ring buffer per child.  A buffer once given   *)
(* to a child stays its own.                                               *)
(***************************************************************************)
EXTENDS Integers, FiniteSets, Sequences

CONSTANTS
    Child,
    NoChild,        \* the MAC of a buffer not given out
    MaxChildren,    \* MAX_CHILDREN
    BufSize,        \* BATTERY_DOWNLINK_BUF_SIZE
    MsgSize,        \* BATTERY_DOWNLINK_MSG_SIZE
    Message,        \* [id, len]: what the callers want to send
    Room            \* bound: sizes of the buffers that are drained into

ASSUME DownlinkAssumption ==
    /\ IsFiniteSet(Child) /\ NoChild \notin Child
    /\ {MaxChildren, BufSize} \subseteq Nat \ {0}
    /\ MsgSize \in Nat /\ Room \subseteq Nat
    /\ \A m \in Message : m.len \in Nat

VARIABLES
    buffers,    \* _buffers
    childCount, \* _childCount
    drained     \* what the last call of drainBuffer copied into outBuf

downVars == <<buffers, childCount, drained>>

Index == 0..(BufSize - 1)
NoMessage == [id |-> 0, len |-> 0]
Cleared(c) == [childMac |-> c, messages |-> [i \in Index |-> NoMessage],
               head |-> 0, tail |-> 0, count |-> 0]

\* _findBuffer.
FindBuffer(c) == {i \in 0..(childCount - 1) : buffers[i].childMac = c}

\* Fault: a full buffer loses its newest message.
OverwriteNewest(b) ==
    IF b.count >= BufSize THEN [b EXCEPT !.head = (@ - 1) % BufSize, !.count = @ - 1] ELSE b

\* A full buffer loses its oldest message.
DropOldest(b) ==
    IF b.count >= BufSize THEN [b EXCEPT !.tail = (@ + 1) % BufSize, !.count = @ - 1] ELSE b

Push(b, m) ==
    [b EXCEPT !.messages[b.head] = m, !.head = (@ + 1) % BufSize, !.count = @ + 1]

\* bufferMessage, with _allocBuffer for a new child.
BufferMessage(c, m) ==
    /\ m.len <= MsgSize
    /\ \/ \E i \in FindBuffer(c) :
              /\ buffers' = [buffers EXCEPT ![i] = Push(DropOldest(@), m)]
              /\ UNCHANGED childCount
       \/ /\ FindBuffer(c) = {} /\ childCount < MaxChildren
          /\ buffers' = [buffers EXCEPT ![childCount] = Push(Cleared(c), m)]
          /\ childCount' = childCount + 1
    /\ drained' = << >>

\* One round of the loop: the oldest message, if there is one and it fits.
Pop(acc, room) ==
    LET m == acc.b.messages[acc.b.tail] IN
    IF acc.b.count > 0 /\ acc.total + m.len <= room
    THEN [b |-> [acc.b EXCEPT !.tail = (@ + 1) % BufSize, !.count = @ - 1],
          out |-> Append(acc.out, m), total |-> acc.total + m.len]
    ELSE acc

Drain(b, room) ==
    LET after[k \in 0..BufSize] ==
            IF k = 0 THEN [b |-> b, out |-> << >>, total |-> 0] ELSE Pop(after[k - 1], room)
    IN  after[BufSize]

\* drainBuffer.
DrainBuffer(c, room) ==
    /\ \E i \in FindBuffer(c) :
          /\ buffers' = [buffers EXCEPT ![i] = Drain(@, room).b]
          /\ drained' = Drain(buffers[i], room).out
    /\ UNCHANGED childCount

DownInit ==
    /\ buffers = [i \in 0..(MaxChildren - 1) |-> Cleared(NoChild)]
    /\ childCount = 0
    /\ drained = << >>

DownNext == \E c \in Child : \/ \E m \in Message : BufferMessage(c, m)
                             \/ \E room \in Room : DrainBuffer(c, room)

DownSpec == DownInit /\ [][DownNext]_downVars

-----------------------------------------------------------------------------
(* Properties.                                                             *)

\* The messages of a child, oldest first.
Waiting(b) == [k \in 1..b.count |-> b.messages[(b.tail + k - 1) % BufSize]]

Served == {c \in Child : FindBuffer(c) # {}}
Queues == [c \in Child |->
             IF c \in Served THEN Waiting(buffers[CHOOSE i \in FindBuffer(c) : TRUE]) ELSE << >>]

Abstract == INSTANCE DownlinkQueue
                WITH Capacity <- BufSize, served <- Served, queue <- Queues, out <- drained,
                     Message <- {m \in Message : m.len <= MsgSize}

\* A child gets the newest messages for it, oldest first, each once and whole,
\* and none of another child's, however filling, overflowing and partial
\* draining follow each other (BatteryNode.cpp:126-161).
ImplementsQueue == Abstract!Spec
=============================================================================
