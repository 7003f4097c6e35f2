--------------------------- MODULE DownlinkQueue ---------------------------
(***************************************************************************)
(* What DownlinkManager promises: for each of the first MaxChildren        *)
(* children a queue of its newest Capacity messages, drained from the      *)
(* oldest as far as the caller's buffer goes.                              *)
(***************************************************************************)
EXTENDS Naturals, FiniteSets, Sequences

CONSTANTS Child, MaxChildren, Capacity, Message, Room

VARIABLES
    served, \* the children that have a buffer
    queue,  \* their messages, oldest first
    out     \* what the last call drained

vars == <<served, queue, out>>

\* The newest messages.
Newest(q) == IF Len(q) <= Capacity THEN q ELSE SubSeq(q, Len(q) - Capacity + 1, Len(q))

\* The bytes of a queue's first k messages.
Bytes(q, k) ==
    LET sum[i \in 0..Len(q)] == IF i = 0 THEN 0 ELSE sum[i - 1] + q[i].len
    IN  sum[k]

\* How many messages of q go into room bytes.
Fitting(q, room) ==
    CHOOSE k \in 0..Len(q) :
        Bytes(q, k) <= room /\ (k < Len(q) => Bytes(q, k + 1) > room)

BufferMessage(c, m) ==
    /\ c \in served \/ Cardinality(served) < MaxChildren
    /\ served' = served \cup {c}
    /\ queue' = [queue EXCEPT ![c] = Newest(Append(@, m))]
    /\ out' = << >>

DrainBuffer(c, room) ==
    /\ LET k == Fitting(queue[c], room) IN
       /\ out' = SubSeq(queue[c], 1, k)
       /\ queue' = [queue EXCEPT ![c] = SubSeq(@, k + 1, Len(@))]
    /\ UNCHANGED served

Init ==
    /\ served = {}
    /\ queue = [c \in Child |-> << >>]
    /\ out = << >>

Next == \E c \in Child : \/ \E m \in Message : BufferMessage(c, m)
                         \/ \E room \in Room : DrainBuffer(c, room)

Spec == Init /\ [][Next]_vars
=============================================================================
