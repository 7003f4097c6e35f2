----------------------------- MODULE Fragmentation -----------------------------
(***************************************************************************)
(* Fragmentation.cpp: messages longer than a frame cut into fragments by   *)
(* the tasks of a sender (sendData in the application's task, the netif's  *)
(* output in lwIP's), and put together again by a receiver with a few      *)
(* reassembly sessions.                                                    *)
(*                                                                         *)
(* A message is the name of who sent it, since which of its starts, and    *)
(* its number, and a fragment carries the message it was cut from, which   *)
(* the receiver cannot see.  Fragments of one sender arrive in order; they *)
(* can be lost or repeated, and a sender can be reset at any point.        *)
(***************************************************************************)
EXTENDS Integers, FiniteSets, Sequences

CONSTANTS
    Src,            \* the senders' MACs
    Task,           \* the tasks of a sender that send
    NoMac,          \* the MAC of a session never used
    Sizes,          \* lengths of the messages, in fragments
    CountMod,       \* 2^8, the width of totalFrags
    MaxFragments,   \* FRAG_MAX_FRAGMENTS
    Sessions,       \* FRAG_MAX_SESSIONS
    Timeout,        \* FRAG_REASSEMBLY_TIMEOUT_MS, in ticks
    IdMod,          \* 2^16
    SlowStart,      \* timing: TRUE if a start takes longer than the timeout
    MaxWire,        \* bound: fragments on the way from a sender
    MaxMessages,    \* bound: messages of a task between two starts
    MaxRestarts,    \* bound: resets of every sender
    MaxLosses,      \* bound: fragments lost
    MaxRepeats      \* bound: fragments that arrive twice

ASSUME FragmentationAssumption ==
    /\ NoMac \notin Src
    /\ MaxFragments \in Nat /\ Sizes \subseteq Nat \ {0} /\ CountMod \in Nat \ {0}
    /\ Sessions \in Nat \ {0}
    /\ {Timeout, MaxWire, MaxLosses, MaxRepeats} \subseteq Nat
    /\ IsFiniteSet(Task) /\ MaxMessages \in Nat /\ MaxRestarts \in [Src -> Nat]
    /\ SlowStart \in BOOLEAN
    /\ IdMod \in Nat \ {0} /\ IdMod > MaxMessages * Cardinality(Task)

VARIABLES
    boots,      \* (history) how often every sender was reset
    counter,    \* _fragIdCounter of every sender
    task,       \* what every task of every sender is doing
    wire,       \* fragments on the way from every sender
    session,    \* _sessions
    delivered,  \* (history) the last message put together, by fragment index
    losses,     \* losses left
    repeats     \* repetitions left

vars == <<boots, counter, task, wire, session, delivered, losses, repeats>>

Slot == 1..Sessions
Message == [src : Src, boot : Nat, task : Task, n : 1..MaxMessages]

Idle == [at |-> "idle", id |-> 0, total |-> 0, next |-> 0, n |-> 0]

-----------------------------------------------------------------------------
(* The sender.                                                             *)

\* totalFrags of a message of k fragments: 8 bits of k; 0 if it is refused.
TotalFrags(k) == IF k % CountMod \in 1..MaxFragments THEN k % CountMod ELSE 0

\* fragment() of a message of k fragments: ++_fragIdCounter is a load ...
Fragment(s, t, k) ==
    /\ task[s][t].at = "idle" /\ task[s][t].n < MaxMessages
    /\ task' = [task EXCEPT ![s][t] =
                [at |-> "count", id |-> counter[s], total |-> TotalFrags(k), next |-> 0,
                 n |-> @.n + 1]]
    /\ UNCHANGED <<boots, counter, wire, session, delivered, losses, repeats>>

\* ... and a store, that another task may come between.  A message that is then
\* refused has used up its number.
NextFragId(s, t) ==
    /\ task[s][t].at = "count"
    /\ LET now == task[s][t]
           id == (now.id + 1) % IdMod
       IN  /\ counter' = [counter EXCEPT ![s] = id]
           /\ task' = [task EXCEPT ![s][t] =
                          IF now.total = 0 THEN [Idle EXCEPT !.n = now.n]
                          ELSE [now EXCEPT !.at = "send", !.id = id]]
    /\ UNCHANGED <<boots, wire, session, delivered, losses, repeats>>

\* One round of the loop over _sendFrameVia.
SendFragment(s, t) ==
    /\ task[s][t].at = "send" /\ Len(wire[s]) < MaxWire
    /\ LET now == task[s][t]
           f == [id |-> now.id, idx |-> now.next, total |-> now.total,
                 msg |-> [src |-> s, boot |-> boots[s], task |-> t, n |-> now.n]]
           Put(copies) == wire' = [wire EXCEPT ![s] = @ \o copies]
       IN  /\ task' = [task EXCEPT ![s][t] =
                          IF now.next + 1 = now.total THEN [Idle EXCEPT !.n = now.n]
                          ELSE [now EXCEPT !.next = @ + 1]]
           /\ \/ Put(<<f>>) /\ UNCHANGED <<losses, repeats>>
              \/ losses > 0 /\ losses' = losses - 1 /\ UNCHANGED <<wire, repeats>>
              \/ repeats > 0 /\ Put(<<f, f>>) /\ repeats' = repeats - 1 /\ UNCHANGED losses
    /\ UNCHANGED <<boots, counter, session, delivered>>

\* A reset: the tasks and the counter start anew, the receiver does not hear of it.
\* Under SlowStart it has timed out what was being sent by the time of the next message.
Restart(s) ==
    /\ boots[s] < MaxRestarts[s]
    /\ SlowStart => wire[s] = << >> /\ \A i \in Slot : ~(session[i].active /\ session[i].src = s)
    /\ boots' = [boots EXCEPT ![s] = @ + 1]
    /\ counter' = [counter EXCEPT ![s] = 0]
    /\ task' = [task EXCEPT ![s] = [t \in Task |-> Idle]]
    /\ UNCHANGED <<wire, session, delivered, losses, repeats>>

-----------------------------------------------------------------------------
(* The receiver.                                                           *)

\* A session holds, by index, the message each fragment it got was cut from.
NoSession == [src |-> NoMac, id |-> 0, total |-> 0, got |-> << >>, age |-> 0, active |-> FALSE]

\* Fault: the first session is the only one looked at.
FindFirst(s, id) ==
    {i \in {1} : session[i].active /\ session[i].src = s /\ session[i].id = id}

\* _findSession.
FindSession(s, id) ==
    {i \in Slot : session[i].active /\ session[i].src = s /\ session[i].id = id}

\* The first free slot, or the first of those whose session is the oldest.
AllocSlot ==
    LET First(S) == {i \in S : \A j \in S : i <= j}
        Unused == {i \in Slot : ~session[i].active}
    IN  IF Unused # {} THEN First(Unused)
        ELSE First({i \in Slot : \A j \in Slot : session[i].age >= session[j].age})

\* Fault: what an earlier session received stays.
AllocStale(f, i) ==
    [session[i] EXCEPT !.src = f.msg.src, !.id = f.id, !.total = f.total, !.age = 0,
                       !.active = TRUE]

\* Fault: the number of fragments is not recorded.
AllocUncounted(f, i) ==
    [NoSession EXCEPT !.src = f.msg.src, !.id = f.id, !.active = TRUE]

\* _allocSession in the slot i, for the fragment f.
AllocSession(f, i) ==
    [NoSession EXCEPT !.src = f.msg.src, !.id = f.id, !.total = f.total, !.active = TRUE]

\* receivedMask against expectedMask, with the fragment f.
Complete(got, f) == DOMAIN got \cup {f.idx} = 0..(f.total - 1)

\* reassemble().
Reassemble(s) ==
    /\ wire[s] # << >>
    /\ wire' = [wire EXCEPT ![s] = Tail(@)]
    /\ LET f == Head(wire[s])
           known == FindSession(s, f.id)
       IN  \E i \in IF known # {} THEN known ELSE AllocSlot :
              LET was == IF known # {} THEN session[i] ELSE AllocSession(f, i)
                  got == [k \in DOMAIN was.got \cup {f.idx} |->
                            IF k = f.idx THEN f.msg ELSE was.got[k]]
              IN  /\ session' = [session EXCEPT ![i] =
                                [was EXCEPT !.got = got, !.active = ~Complete(was.got, f)]]
                  /\ delivered' = IF Complete(was.got, f) THEN got ELSE delivered
    /\ UNCHANGED <<boots, counter, task, losses, repeats>>

\* Fault: the first slot is not looked at.
OverdueButFirst == {i \in Slot \ {1} : session[i].active /\ session[i].age > Timeout}

\* update().
Overdue == {i \in Slot : session[i].active /\ session[i].age > Timeout}

Update ==
    /\ Overdue # {}
    /\ session' = [i \in Slot |-> [session[i] EXCEPT !.active = @ /\ i \notin Overdue]]
    /\ UNCHANGED <<boots, counter, task, wire, delivered, losses, repeats>>

Young == {i \in Slot : session[i].active /\ session[i].age <= Timeout}

Tick ==
    /\ Young # {}
    /\ session' = [i \in Slot |->
                    IF i \in Young THEN [session[i] EXCEPT !.age = @ + 1] ELSE session[i]]
    /\ UNCHANGED <<boots, counter, task, wire, delivered, losses, repeats>>

-----------------------------------------------------------------------------

Init ==
    /\ boots = [s \in Src |-> 0]
    /\ counter = [s \in Src |-> 0]
    /\ task = [s \in Src |-> [t \in Task |-> Idle]]
    /\ wire = [s \in Src |-> << >>]
    /\ session = [i \in Slot |-> NoSession]
    /\ delivered = << >>
    /\ losses = MaxLosses
    /\ repeats = MaxRepeats

Next ==
    \/ \E s \in Src, t \in Task :
          \/ \E k \in Sizes : Fragment(s, t, k)
          \/ NextFragId(s, t)
          \/ SendFragment(s, t)
    \/ \E s \in Src : Restart(s) \/ Reassemble(s)
    \/ Update
    \/ Tick

Spec == Init /\ [][Next]_vars

\* The receiver's loop runs and time passes.
FairSpec == Spec /\ WF_vars(Update) /\ WF_vars(Tick)

-----------------------------------------------------------------------------
(* Properties.                                                             *)

\* Every variable keeps its type.
TypeOK ==
    /\ boots \in [Src -> Nat] /\ counter \in [Src -> 0..(IdMod - 1)]
    /\ task \in [Src -> [Task ->
            [at : {"idle", "count", "send"}, id : 0..(IdMod - 1), total : 0..MaxFragments,
             next : 0..MaxFragments, n : 0..MaxMessages]]]
    /\ \A s \in Src : \A k \in DOMAIN wire[s] :
            wire[s][k] \in [id : 0..(IdMod - 1), idx : 0..(MaxFragments - 1),
                            total : 1..MaxFragments, msg : Message]
    /\ \A i \in Slot :
          /\ session[i].src \in Src \cup {NoMac} /\ session[i].age \in 0..(Timeout + 1)
          /\ DOMAIN session[i].got \subseteq 0..(session[i].total - 1)
    /\ losses \in 0..MaxLosses /\ repeats \in 0..MaxRepeats

\* What reassemble() returns is one message, whatever was lost, came twice or
\* was left in a session that expired or was evicted (Fragmentation.cpp:34-74).
DeliveredWhole == \A j, k \in DOMAIN delivered : delivered[j] = delivered[k]

\* The fragments of a message meet in one session (Fragmentation.cpp:44-49).
OneSessionPerMessage ==
    \A i, j \in Slot :
        /\ session[i].active /\ session[j].active
        /\ session[i].src = session[j].src /\ session[i].id = session[j].id
        => i = j

\* A session does not hold its slot for good: its message is completed, evicted
\* or given up (Fragmentation.cpp:76-83).
SessionsEnd == \A i \in Slot : []<>(~session[i].active)
=============================================================================
