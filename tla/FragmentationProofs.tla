-------------------------- MODULE FragmentationProofs --------------------------
(* Theorems about Fragmentation.tla, for every set of senders, size of the     *)
(* table of sessions, number of fragments and width of the fragment ids.       *)
EXTENDS Fragmentation, FiniteSetTheorems, TLAPS

-----------------------------------------------------------------------------
(* The inductive invariants.                                                *)

Frag == [id : 0..(IdMod - 1), idx : 0..(MaxFragments - 1), total : 1..MaxFragments, msg : Message]

TaskState == [at : {"idle", "count", "send"}, id : 0..(IdMod - 1), total : 0..MaxFragments,
              next : 0..MaxFragments, n : 0..MaxMessages]

\* A task sends no fragment beyond the end of its message.
Within(v) ==
    /\ v.at = "count" => v.next = 0
    /\ v.at = "send" => v.next < v.total
    /\ v.at # "idle" => 0 < v.n

\* What a session or the last message delivered holds, by fragment index.
Got == UNION {[D -> Message] : D \in SUBSET (0..(MaxFragments - 1))}

Session == [src : Src \cup {NoMac}, id : 0..(IdMod - 1), total : 0..MaxFragments, got : Got,
            age : 0..(Timeout + 1), active : BOOLEAN]

\* The fragments on the way from a sender.
Sent(s) == {wire[s][k] : k \in 1..Len(wire[s])}

\* The types, whatever the tasks of a sender do: fragments keep within their
\* message, and name the sender they come from.
BaseOK ==
    /\ boots \in [Src -> Nat] /\ counter \in [Src -> 0..(IdMod - 1)]
    /\ task \in [Src -> [Task -> TaskState]]
    /\ \A s \in Src, t \in Task : Within(task[s][t])
    /\ wire \in [Src -> Seq(Frag)]
    /\ \A s \in Src : \A f \in Sent(s) : f.msg.src = s /\ f.idx < f.total
    /\ session \in [Slot -> Session]
    /\ delivered \in Got
    /\ losses \in 0..MaxLosses /\ repeats \in 0..MaxRepeats

\* One task of a sender sends long messages: the fragment ids are its count of them
\* since it started.
IdsCount(T) ==
    \A s \in Src :
        /\ task[s][T].at = "count" => task[s][T].n = counter[s] + 1 /\ task[s][T].id = counter[s]
        /\ task[s][T].at # "count" => task[s][T].n = counter[s]
        /\ task[s][T].at = "send" => task[s][T].id = counter[s]
        /\ \A f \in Sent(s) : f.msg = [src |-> s, boot |-> boots[s], task |-> T, n |-> f.id]

\* A session and what is delivered are of one message.
WholeSoFar(T) ==
    /\ \A i \in Slot : session[i].active =>
          /\ session[i].src \in Src
          /\ \A k \in DOMAIN session[i].got :
                session[i].got[k] = [src |-> session[i].src, boot |-> boots[session[i].src],
                                     task |-> T, n |-> session[i].id]
    /\ DeliveredWhole

\* The number of fragments of every message that is being sent, is on its way or
\* has a session.
Announced(T) ==
    {[src |-> s, id |-> task[s][T].id, total |-> task[s][T].total] :
        s \in {s \in Src : task[s][T].at = "send"}}
    \cup {[src |-> f.msg.src, id |-> f.id, total |-> f.total] : f \in UNION {Sent(s) : s \in Src}}
    \cup {[src |-> session[i].src, id |-> session[i].id, total |-> session[i].total] :
        i \in {i \in Slot : session[i].active}}

\* The three agree on it, and no message has an id that is still to come.
TotalsAgree(T) ==
    /\ \A a \in Announced(T) : a.src \in Src /\ a.id <= counter[a.src]
    /\ \A a, b \in Announced(T) : a.src = b.src /\ a.id = b.id => a.total = b.total
    /\ \A i \in Slot : DOMAIN session[i].got \subseteq 0..(session[i].total - 1)

-----------------------------------------------------------------------------
(* Fragments on their way.                                                  *)

\* What is put behind a sequence, or is taken from its head, is all that changes.
LEMMA Elements ==
  ASSUME NEW S, NEW q \in Seq(S), NEW r \in Seq(S)
  PROVE  /\ q \o r \in Seq(S)
         /\ {(q \o r)[k] : k \in 1..Len(q \o r)} =
                {q[k] : k \in 1..Len(q)} \cup {r[k] : k \in 1..Len(r)}
<1>1. /\ q \o r \in Seq(S) /\ Len(q \o r) = Len(q) + Len(r)
      /\ \A k \in 1..Len(q) : (q \o r)[k] = q[k]
      /\ \A k \in 1..Len(r) : (q \o r)[Len(q) + k] = r[k]
  OBVIOUS
<1>2. ASSUME NEW k \in 1..Len(q \o r)
      PROVE  (q \o r)[k] \in {q[j] : j \in 1..Len(q)} \cup {r[j] : j \in 1..Len(r)}
  <2>1. CASE k \in 1..Len(q)
    BY <1>1, <2>1
  <2>2. CASE k \notin 1..Len(q)
    <3>1. k - Len(q) \in 1..Len(r) /\ k = Len(q) + (k - Len(q))
      BY <1>1, <2>2
    <3>2. QED BY <1>1, <3>1
  <2>3. QED BY <2>1, <2>2
<1>3. ASSUME NEW k \in 1..Len(q)
      PROVE  q[k] \in {(q \o r)[j] : j \in 1..Len(q \o r)}
  <2>1. k \in 1..Len(q \o r)
    BY <1>1
  <2>2. QED BY <1>1, <2>1
<1>4. ASSUME NEW k \in 1..Len(r)
      PROVE  r[k] \in {(q \o r)[j] : j \in 1..Len(q \o r)}
  <2>1. Len(q) + k \in 1..Len(q \o r)
    BY <1>1
  <2>2. QED BY <1>1, <2>1
<1>5. QED BY <1>1, <1>2, <1>3, <1>4

\* The fragments on the way are fragments.
LEMMA SentType ==
  ASSUME BaseOK, NEW s \in Src
  PROVE  Sent(s) \subseteq Frag
BY DEF BaseOK, Sent

\* The fragment a task sends next.
NextFragment(s, t) ==
    [id |-> task[s][t].id, idx |-> task[s][t].next, total |-> task[s][t].total,
     msg |-> [src |-> s, boot |-> boots[s], task |-> t, n |-> task[s][t].n]]

\* It is put on the way once, twice or never.
Sends(s, t) ==
    /\ task[s][t].at = "send"
    /\ NextFragment(s, t) \in Frag /\ NextFragment(s, t).idx < NextFragment(s, t).total
    /\ wire' \in [Src -> Seq(Frag)]
    /\ Sent(s)' \subseteq Sent(s) \cup {NextFragment(s, t)}
    /\ \A r \in Src : r # s => Sent(r)' = Sent(r)
    /\ \A r \in Src, u \in Task : r # s \/ u # t => task'[r][u] = task[r][u]
    /\ \/ /\ task[s][t].next + 1 = task[s][t].total
          /\ task'[s][t] = [Idle EXCEPT !.n = task[s][t].n]
       \/ /\ task[s][t].next + 1 # task[s][t].total
          /\ task'[s][t] = [task[s][t] EXCEPT !.next = task[s][t].next + 1]
    /\ task' \in [Src -> [Task -> TaskState]]
    /\ losses' \in 0..MaxLosses /\ repeats' \in 0..MaxRepeats
    /\ UNCHANGED <<boots, counter, session, delivered>>

\* One round of the loop does just that.
LEMMA SendFacts ==
  ASSUME FragmentationAssumption, BaseOK, NEW s \in Src, NEW t \in Task, SendFragment(s, t)
  PROVE  Sends(s, t)
<1> DEFINE now == task[s][t]
           f == [id |-> now.id, idx |-> now.next, total |-> now.total,
                 msg |-> [src |-> s, boot |-> boots[s], task |-> t, n |-> now.n]]
<1>0. /\ now \in TaskState /\ task \in [Src -> [Task -> TaskState]] /\ wire \in [Src -> Seq(Frag)]
      /\ losses \in 0..MaxLosses /\ repeats \in 0..MaxRepeats /\ boots[s] \in Nat
      /\ MaxLosses \in Nat /\ MaxRepeats \in Nat /\ MaxFragments \in Nat /\ MaxMessages \in Nat
      /\ IdMod \in Nat \ {0}
  BY DEF BaseOK, FragmentationAssumption
<1>1. now.at = "send" /\ now.next < now.total /\ 0 < now.n
  BY DEF SendFragment, BaseOK, Within
<1>2. f \in Frag /\ f.idx < f.total
  <2>1. [src |-> s, boot |-> boots[s], task |-> t, n |-> now.n] \in Message
    BY <1>0, <1>1 DEF Message, TaskState
  <2>2. /\ now.id \in 0..(IdMod - 1) /\ now.total \in 1..MaxFragments
        /\ now.next \in 0..(MaxFragments - 1)
    BY <1>0, <1>1 DEF TaskState
  <2>3. QED BY <1>1, <2>1, <2>2 DEF Frag
<1>3. /\ task' = [task EXCEPT ![s][t] = IF now.next + 1 = now.total THEN [Idle EXCEPT !.n = now.n]
                                        ELSE [now EXCEPT !.next = now.next + 1]]
      /\ \/ wire' = [wire EXCEPT ![s] = wire[s] \o <<f>>]
         \/ wire' = wire
         \/ wire' = [wire EXCEPT ![s] = wire[s] \o <<f, f>>]
      /\ losses' \in 0..MaxLosses /\ repeats' \in 0..MaxRepeats
      /\ UNCHANGED <<boots, counter, session, delivered>>
  <2>1. \/ wire' = [wire EXCEPT ![s] = wire[s] \o <<f>>] /\ UNCHANGED <<losses, repeats>>
        \/ losses > 0 /\ losses' = losses - 1 /\ UNCHANGED <<wire, repeats>>
        \/ /\ repeats > 0 /\ repeats' = repeats - 1 /\ UNCHANGED losses
           /\ wire' = [wire EXCEPT ![s] = wire[s] \o <<f, f>>]
    BY DEF SendFragment
  <2>2. task' = [task EXCEPT ![s][t] = IF now.next + 1 = now.total THEN [Idle EXCEPT !.n = now.n]
                                       ELSE [now EXCEPT !.next = now.next + 1]]
    BY DEF SendFragment
  <2>3. UNCHANGED <<boots, counter, session, delivered>>
    BY DEF SendFragment
  <2>4. losses' \in 0..MaxLosses /\ repeats' \in 0..MaxRepeats
    BY SMTT(30), <1>0, <2>1
  <2>5. QED BY <2>1, <2>2, <2>3, <2>4
<1> HIDE DEF f
<1>4. /\ wire' \in [Src -> Seq(Frag)] /\ Sent(s)' \subseteq Sent(s) \cup {f}
      /\ \A r \in Src : r # s => Sent(r)' = Sent(r)
  <2>1. ASSUME NEW c \in Seq(Frag), \A k \in 1..Len(c) : c[k] = f,
               wire' = [wire EXCEPT ![s] = wire[s] \o c]
        PROVE  /\ wire' \in [Src -> Seq(Frag)] /\ Sent(s)' \subseteq Sent(s) \cup {f}
               /\ \A r \in Src : r # s => Sent(r)' = Sent(r)
    <3>0. wire[s] \in Seq(Frag)
      BY <1>0
    <3>1. /\ wire[s] \o c \in Seq(Frag)
          /\ {(wire[s] \o c)[k] : k \in 1..Len(wire[s] \o c)} \subseteq Sent(s) \cup {f}
      BY SMTT(30), <2>1, <3>0, Elements DEF Sent
    <3>2. wire'[s] = wire[s] \o c /\ \A r \in Src : r # s => wire'[r] = wire[r]
      BY <1>0, <2>1
    <3>3. wire' \in [Src -> Seq(Frag)]
      BY <1>0, <2>1, <3>1
    <3>4. QED BY <3>1, <3>2, <3>3 DEF Sent
  <2>2. CASE wire' = wire
    BY <1>0, <2>2 DEF Sent
  <2>3. <<f>> \in Seq(Frag) /\ \A k \in 1..Len(<<f>>) : <<f>>[k] = f
    BY <1>2
  <2>4. <<f, f>> \in Seq(Frag) /\ \A k \in 1..Len(<<f, f>>) : <<f, f>>[k] = f
    BY <1>2
  <2>5. QED BY <1>3, <2>1, <2>2, <2>3, <2>4
<1> DEFINE next == IF now.next + 1 = now.total THEN [Idle EXCEPT !.n = now.n]
                   ELSE [now EXCEPT !.next = now.next + 1]
<1>5. next \in TaskState
  <2>1. [Idle EXCEPT !.n = now.n] \in TaskState
    <3>1. Idle \in TaskState
      BY <1>0 DEF TaskState, Idle, FragmentationAssumption
    <3>2. QED BY <1>0, <3>1 DEF TaskState
  <2>2. now.next + 1 # now.total => now.next + 1 \in 0..MaxFragments
    BY <1>0, <1>1 DEF TaskState
  <2>3. QED BY <1>0, <2>1, <2>2 DEF TaskState
<1>6. task' = [task EXCEPT ![s] = [task[s] EXCEPT ![t] = next]]
  BY <1>0, <1>3
<1> HIDE DEF next
<1>7. /\ task'[s][t] = next /\ task' \in [Src -> [Task -> TaskState]]
      /\ \A r \in Src, u \in Task : r # s \/ u # t => task'[r][u] = task[r][u]
  BY <1>0, <1>5, <1>6
<1>8. f = NextFragment(s, t)
  BY DEF f, NextFragment
<1>9. QED BY <1>1, <1>2, <1>3, <1>4, <1>7, <1>8 DEF next, Sends

\* What a session holds with one more fragment.
With(was, f) == [k \in DOMAIN was.got \cup {f.idx} |-> IF k = f.idx THEN f.msg ELSE was.got[k]]

\* The fragment is taken and put into one session, its own or one that starts with
\* it, in the slot given up for it.
Takes(s, f, i, was) ==
    /\ wire' \in [Src -> Seq(Frag)]
    /\ \A r \in Src : Sent(r)' \subseteq Sent(r)
    /\ \/ i \in FindSession(s, f.id) /\ was = session[i]
       \/ FindSession(s, f.id) = {} /\ was = AllocSession(f, i)
    /\ With(was, f) \in Got
    /\ session'[i].src = was.src /\ session'[i].id = was.id
    /\ session'[i].total = was.total /\ session'[i].got = With(was, f)
    /\ delivered' = IF Complete(was.got, f) THEN With(was, f) ELSE delivered
    /\ \A j \in Slot : j # i => session'[j] = session[j]
    /\ session' \in [Slot -> Session]
    /\ UNCHANGED <<boots, counter, task, losses, repeats>>

\* reassemble() does so with the fragment at the head.
LEMMA ReassembleFacts ==
  ASSUME FragmentationAssumption, BaseOK, NEW s \in Src, Reassemble(s)
  PROVE  \E f \in Sent(s), i \in Slot, was \in Session : Takes(s, f, i, was)
<1> DEFINE f == Head(wire[s])
<1>0. /\ wire \in [Src -> Seq(Frag)] /\ wire[s] # << >> /\ wire' = [wire EXCEPT ![s] = Tail(wire[s])]
      /\ session \in [Slot -> Session]
      /\ UNCHANGED <<boots, counter, task, losses, repeats>>
  BY DEF BaseOK, Reassemble
<1>1. /\ f \in Frag /\ f \in Sent(s) /\ Tail(wire[s]) \in Seq(Frag)
      /\ {Tail(wire[s])[k] : k \in 1..Len(Tail(wire[s]))} \subseteq Sent(s)
  <2>1. wire[s] \in Seq(Frag)
    BY <1>0
  <2>2. /\ f = wire[s][1] /\ 1 \in 1..Len(wire[s]) /\ Tail(wire[s]) \in Seq(Frag)
        /\ Len(Tail(wire[s])) = Len(wire[s]) - 1
        /\ \A k \in 1..(Len(wire[s]) - 1) : Tail(wire[s])[k] = wire[s][k + 1] /\ k + 1 \in 1..Len(wire[s])
    BY <1>0, <2>1
  <2>3. QED BY <2>1, <2>2 DEF Sent
<1>2. wire' \in [Src -> Seq(Frag)] /\ \A r \in Src : Sent(r)' \subseteq Sent(r)
  <2>1. /\ wire'[s] = Tail(wire[s]) /\ \A r \in Src : r # s => wire'[r] = wire[r]
        /\ wire' \in [Src -> Seq(Frag)]
    BY <1>0, <1>1
  <2>2. Sent(s)' \subseteq Sent(s)
    BY <1>1, <2>1 DEF Sent
  <2>3. \A r \in Src : r # s => Sent(r)' = Sent(r)
    BY <2>1 DEF Sent
  <2>4. QED BY <2>1, <2>2, <2>3
<1> HIDE DEF f
<1>3. AllocSlot \subseteq Slot /\ FindSession(s, f.id) \subseteq Slot
  BY DEF AllocSlot, FindSession
<1> DEFINE Was(i) == IF FindSession(s, f.id) # {} THEN session[i] ELSE AllocSession(f, i)
           G(i) == With(Was(i), f)
<1>4. PICK i \in IF FindSession(s, f.id) # {} THEN FindSession(s, f.id) ELSE AllocSlot :
            /\ session' = [session EXCEPT ![i] =
                    [Was(i) EXCEPT !.got = G(i), !.active = ~Complete(Was(i).got, f)]]
            /\ delivered' = IF Complete(Was(i).got, f) THEN G(i) ELSE delivered
  BY DEF Reassemble, f, With
<1>5. i \in Slot
  BY <1>3, <1>4
<1>6. Was(i) \in Session
  <2>1. << >> \in Got
    <3>1. << >> \in [{} -> Message] /\ {} \in SUBSET (0..(MaxFragments - 1))
      OBVIOUS
    <3>2. QED BY <3>1 DEF Got
  <2>2. f.msg.src \in Src /\ f.id \in 0..(IdMod - 1) /\ f.total \in 0..MaxFragments
    <3>1. f.msg \in Message /\ f.id \in 0..(IdMod - 1) /\ f.total \in 1..MaxFragments
      BY <1>1 DEF Frag
    <3>2. QED BY <3>1 DEF Message
  <2>3. NoSession \in Session
    <3>1. 0 \in 0..(IdMod - 1) /\ 0 \in 0..MaxFragments /\ 0 \in 0..(Timeout + 1)
      BY DEF FragmentationAssumption
    <3>2. QED BY <2>1, <3>1 DEF NoSession, Session
  <2>4. AllocSession(f, i) \in Session
    <3> HIDE DEF NoSession
    <3>1. QED BY <2>2, <2>3 DEF AllocSession, Session
  <2>5. QED BY <1>0, <1>5, <2>4
<1>7. G(i) \in Got
  <2>1. PICK D \in SUBSET (0..(MaxFragments - 1)) : Was(i).got \in [D -> Message]
    BY <1>6 DEF Session, Got
  <2>2. f.idx \in 0..(MaxFragments - 1) /\ f.msg \in Message
    BY <1>1 DEF Frag
  <2>3. D \cup {f.idx} \in SUBSET (0..(MaxFragments - 1)) /\ G(i) \in [D \cup {f.idx} -> Message]
    BY <2>1, <2>2 DEF With
  <2>4. QED BY <2>3 DEF Got
<1> DEFINE new == [Was(i) EXCEPT !.got = G(i), !.active = ~Complete(Was(i).got, f)]
<1>8. new \in Session
  BY <1>6, <1>7 DEF Session
<1>9. new.src = Was(i).src /\ new.id = Was(i).id /\ new.total = Was(i).total /\ new.got = G(i)
  BY <1>6 DEF Session
<1>12. session' = [session EXCEPT ![i] = new]
  BY <1>4
<1> HIDE DEF Was, G, new
<1>13. /\ session' \in [Slot -> Session] /\ session'[i] = new
       /\ \A j \in Slot : j # i => session'[j] = session[j]
  BY <1>0, <1>5, <1>8, <1>12
<1>10. \/ i \in FindSession(s, f.id) /\ Was(i) = session[i]
       \/ FindSession(s, f.id) = {} /\ Was(i) = AllocSession(f, i)
  BY <1>4 DEF Was
<1>11. QED
  <2> f \in Sent(s) /\ i \in Slot /\ Was(i) \in Session
    BY <1>1, <1>5, <1>6
  <2> WITNESS f \in Sent(s), i \in Slot, Was(i) \in Session
  <2>2. QED BY <1>0, <1>2, <1>4, <1>7, <1>9, <1>10, <1>13 DEF G, Takes

\* A message is begun.
LEMMA FragmentFacts ==
  ASSUME FragmentationAssumption, BaseOK, NEW s \in Src, NEW t \in Task, NEW k \in Sizes,
         Fragment(s, t, k)
  PROVE  /\ task[s][t].at = "idle" /\ task[s][t].n < MaxMessages
         /\ task'[s][t] = [at |-> "count", id |-> counter[s], total |-> TotalFrags(k), next |-> 0,
                           n |-> task[s][t].n + 1]
         /\ task' \in [Src -> [Task -> TaskState]]
         /\ \A r \in Src, u \in Task : r # s \/ u # t => task'[r][u] = task[r][u]
         /\ UNCHANGED <<boots, counter, wire, session, delivered, losses, repeats>>
<1>0. /\ task \in [Src -> [Task -> TaskState]] /\ task[s][t] \in TaskState
      /\ counter \in [Src -> 0..(IdMod - 1)] /\ MaxMessages \in Nat
      /\ TotalFrags(k) \in 0..MaxFragments /\ MaxFragments \in Nat
  BY DEF BaseOK, FragmentationAssumption, TotalFrags
<1> DEFINE v == [at |-> "count", id |-> counter[s], total |-> TotalFrags(k), next |-> 0,
                 n |-> task[s][t].n + 1]
<1>1. /\ task[s][t].at = "idle" /\ task[s][t].n < MaxMessages
      /\ task' = [task EXCEPT ![s][t] = v]
      /\ UNCHANGED <<boots, counter, wire, session, delivered, losses, repeats>>
  BY DEF Fragment
<1>2. counter[s] \in 0..(IdMod - 1) /\ TotalFrags(k) \in 0..MaxFragments /\ 0 \in 0..MaxFragments
      /\ task[s][t].n + 1 \in 0..MaxMessages
  BY <1>0, <1>1 DEF TaskState
<1>3. v \in TaskState
  BY <1>2 DEF TaskState
<1> HIDE DEF v
<1>4. task' = [task EXCEPT ![s] = [task[s] EXCEPT ![t] = v]]
  BY <1>0, <1>1
<1>5. task'[s][t] = v /\ task' \in [Src -> [Task -> TaskState]]
      /\ \A r \in Src, u \in Task : r # s \/ u # t => task'[r][u] = task[r][u]
  BY <1>0, <1>3, <1>4
<1>6. QED BY <1>1, <1>5 DEF v

\* What a task does next with its id: send, or give the message up.
AfterId(v, id) ==
    IF v.total = 0 THEN [Idle EXCEPT !.n = v.n] ELSE [v EXCEPT !.at = "send", !.id = id]

\* It gets its id.
GetsId(s, t, id) ==
    /\ task[s][t].at = "count" /\ id \in 0..(IdMod - 1)
    /\ counter' = [counter EXCEPT ![s] = id]
    /\ task'[s][t] = AfterId(task[s][t], id)
    /\ task' \in [Src -> [Task -> TaskState]]
    /\ \A r \in Src, u \in Task : r # s \/ u # t => task'[r][u] = task[r][u]
    /\ UNCHANGED <<boots, wire, session, delivered, losses, repeats>>

LEMMA NextFragIdFacts ==
  ASSUME FragmentationAssumption, BaseOK, NEW s \in Src, NEW t \in Task, NextFragId(s, t)
  PROVE  GetsId(s, t, (task[s][t].id + 1) % IdMod)
<1>0. /\ task \in [Src -> [Task -> TaskState]] /\ task[s][t] \in TaskState
      /\ counter \in [Src -> 0..(IdMod - 1)] /\ IdMod \in Nat \ {0}
  BY DEF BaseOK, FragmentationAssumption
<1> DEFINE id == (task[s][t].id + 1) % IdMod
           v == AfterId(task[s][t], id)
<1>1. id \in 0..(IdMod - 1)
  BY <1>0 DEF TaskState
<1>2. /\ task[s][t].at = "count" /\ counter' = [counter EXCEPT ![s] = id]
      /\ task' = [task EXCEPT ![s][t] = v]
      /\ UNCHANGED <<boots, wire, session, delivered, losses, repeats>>
  BY DEF NextFragId, AfterId
<1> HIDE DEF id
<1>3. v \in TaskState
  <2>1. Idle \in TaskState
    BY DEF TaskState, Idle, FragmentationAssumption
  <2>2. QED BY <1>0, <1>1, <2>1 DEF TaskState, AfterId
<1>4. task' = [task EXCEPT ![s] = [task[s] EXCEPT ![t] = v]]
  BY <1>0, <1>2
<1> HIDE DEF v
<1>5. task'[s][t] = v /\ task' \in [Src -> [Task -> TaskState]]
      /\ \A r \in Src, u \in Task : r # s \/ u # t => task'[r][u] = task[r][u]
  BY <1>0, <1>3, <1>4
<1>6. QED BY <1>1, <1>2, <1>5 DEF id, v, GetsId

\* A sender starts anew.
Restarts(s) ==
    /\ boots' \in [Src -> Nat] /\ counter' \in [Src -> 0..(IdMod - 1)]
    /\ task' \in [Src -> [Task -> TaskState]]
    /\ counter'[s] = 0 /\ \A t \in Task : task'[s][t] = Idle
    /\ \A r \in Src : r # s =>
            boots'[r] = boots[r] /\ counter'[r] = counter[r] /\ task'[r] = task[r]
    /\ UNCHANGED <<wire, session, delivered, losses, repeats>>

\* A slow start comes when nothing of the sender is on its way or in a session.
LEMMA RestartFacts ==
  ASSUME FragmentationAssumption, BaseOK, NEW s \in Src, Restart(s)
  PROVE  /\ Restarts(s)
         /\ SlowStart => /\ Sent(s) = {}
                         /\ \A i \in Slot : session[i].active => session[i].src # s
<1>0. /\ boots \in [Src -> Nat] /\ counter \in [Src -> 0..(IdMod - 1)]
      /\ task \in [Src -> [Task -> TaskState]] /\ wire \in [Src -> Seq(Frag)]
      /\ 0 \in 0..(IdMod - 1)
  BY DEF BaseOK, FragmentationAssumption
<1>1. Idle \in TaskState
  BY DEF TaskState, Idle, FragmentationAssumption
<1>2. /\ boots' = [boots EXCEPT ![s] = boots[s] + 1] /\ counter' = [counter EXCEPT ![s] = 0]
      /\ task' = [task EXCEPT ![s] = [t \in Task |-> Idle]]
      /\ UNCHANGED <<wire, session, delivered, losses, repeats>>
      /\ SlowStart => /\ wire[s] = << >>
                      /\ \A i \in Slot : session[i].active => session[i].src # s
  BY DEF Restart
<1>3. Restarts(s)
  BY <1>0, <1>1, <1>2 DEF Restarts
<1>4. wire[s] = << >> => Sent(s) = {}
  BY DEF Sent
<1>5. QED BY <1>2, <1>3, <1>4

\* Time that passes, and sessions that are given up.
LEMMA AgeFacts ==
  ASSUME FragmentationAssumption, BaseOK, Update \/ Tick
  PROVE  /\ session' \in [Slot -> Session]
         /\ \A i \in Slot : /\ session'[i].active => session[i].active
                            /\ session'[i].src = session[i].src /\ session'[i].id = session[i].id
                            /\ session'[i].total = session[i].total
                            /\ session'[i].got = session[i].got
         /\ UNCHANGED <<boots, counter, task, wire, delivered, losses, repeats>>
<1>0. session \in [Slot -> Session] /\ Timeout \in Nat
  BY DEF BaseOK, FragmentationAssumption
<1>1. CASE Update
  <2>1. session' = [i \in Slot |-> [session[i] EXCEPT !.active = session[i].active /\ i \notin Overdue]]
    BY <1>1 DEF Update
  <2>2. ASSUME NEW i \in Slot
        PROVE  /\ [session[i] EXCEPT !.active = session[i].active /\ i \notin Overdue] \in Session
               /\ session'[i].active => session[i].active
               /\ session'[i].src = session[i].src /\ session'[i].id = session[i].id
               /\ session'[i].total = session[i].total /\ session'[i].got = session[i].got
    <3> DEFINE a == session[i].active /\ i \notin Overdue
    <3>1. session[i] \in Session /\ a \in BOOLEAN /\ (a => session[i].active)
      BY <1>0 DEF Session
    <3>2. session'[i] = [session[i] EXCEPT !.active = a]
      BY <2>1
    <3> HIDE DEF a
    <3>3. [session[i] EXCEPT !.active = a] \in Session
      BY <3>1 DEF Session
    <3>4. /\ session'[i].active = a /\ session'[i].src = session[i].src
          /\ session'[i].id = session[i].id /\ session'[i].total = session[i].total
          /\ session'[i].got = session[i].got
      BY <3>1, <3>2 DEF Session
    <3>5. QED BY <3>1, <3>3, <3>4 DEF a
  <2>3. QED BY <1>1, <2>1, <2>2 DEF Update
<1>2. CASE Tick
  <2>1. \A i \in Young : session[i].age + 1 \in 0..(Timeout + 1)
    BY <1>0 DEF Young, Session
  <2>2. \A i \in Slot : session'[i] = IF i \in Young THEN [session[i] EXCEPT !.age = session[i].age + 1]
                                      ELSE session[i]
    BY <1>2 DEF Tick
  <2>3. ASSUME NEW i \in Slot
        PROVE  /\ session'[i] \in Session
               /\ session'[i].active = session[i].active
               /\ session'[i].src = session[i].src /\ session'[i].id = session[i].id
               /\ session'[i].total = session[i].total /\ session'[i].got = session[i].got
    <3>1. session[i] \in Session
      BY <1>0
    <3>2. QED BY <2>1, <2>2, <3>1 DEF Session
  <2>4. session' \in [Slot -> Session]
    BY <1>2, <2>3 DEF Tick
  <2>5. QED BY <1>2, <2>3, <2>4 DEF Tick
<1>3. QED BY <1>1, <1>2

-----------------------------------------------------------------------------
(* Types, whatever the tasks do.                                            *)

LEMMA BaseStep == FragmentationAssumption /\ BaseOK /\ [Next]_vars => BaseOK'
<1> SUFFICES ASSUME FragmentationAssumption, BaseOK, [Next]_vars
             PROVE  BaseOK'
  OBVIOUS
<1>0. /\ counter \in [Src -> 0..(IdMod - 1)]
      /\ task \in [Src -> [Task -> TaskState]] /\ MaxFragments \in Nat
  BY DEF BaseOK, FragmentationAssumption
<1>s. ASSUME UNCHANGED wire
      PROVE  \A r \in Src : Sent(r)' = Sent(r)
  BY <1>s DEF Sent
<1>1. ASSUME NEW s \in Src, NEW t \in Task, NEW k \in Sizes, Fragment(s, t, k)
      PROVE  BaseOK'
  <2>1. /\ task' \in [Src -> [Task -> TaskState]]
        /\ \A r \in Src, u \in Task : r # s \/ u # t => task'[r][u] = task[r][u]
        /\ task'[s][t] = [at |-> "count", id |-> counter[s], total |-> TotalFrags(k), next |-> 0,
                          n |-> task[s][t].n + 1]
        /\ UNCHANGED <<boots, counter, wire, session, delivered, losses, repeats>>
    BY <1>1, FragmentFacts
  <2>2. Within(task'[s][t])
    <3>1. task[s][t].n \in Nat
      BY <1>0 DEF TaskState
    <3>2. QED BY <2>1, <3>1 DEF Within
  <2>3. \A r \in Src, u \in Task : Within(task'[r][u])
    BY ZenonT(60), <2>1, <2>2 DEF BaseOK
  <2>4. QED BY <1>s, <2>1, <2>3 DEF BaseOK
<1>2. ASSUME NEW s \in Src, NEW t \in Task, NextFragId(s, t)
      PROVE  BaseOK'
  <2> DEFINE id == (task[s][t].id + 1) % IdMod
  <2>1. /\ task[s][t].at = "count" /\ id \in 0..(IdMod - 1)
        /\ counter' = [counter EXCEPT ![s] = id]
        /\ task'[s][t] = AfterId(task[s][t], id)
        /\ task' \in [Src -> [Task -> TaskState]]
        /\ \A r \in Src, u \in Task : r # s \/ u # t => task'[r][u] = task[r][u]
        /\ UNCHANGED <<boots, wire, session, delivered, losses, repeats>>
    BY <1>2, NextFragIdFacts DEF GetsId
  <2> HIDE DEF id
  <2>2. Within(task'[s][t])
    <3>1. task[s][t].next = 0 /\ 0 < task[s][t].n /\ task[s][t] \in TaskState
      BY <1>0, <2>1 DEF BaseOK, Within
    <3>2. QED BY <2>1, <3>1 DEF AfterId, Within, TaskState, Idle
  <2>3. counter' \in [Src -> 0..(IdMod - 1)]
    BY <1>0, <2>1
  <2>4. \A r \in Src, u \in Task : Within(task'[r][u])
    BY ZenonT(60), <2>1, <2>2 DEF BaseOK
  <2>5. QED BY <1>s, <2>1, <2>3, <2>4 DEF BaseOK
<1>3. ASSUME NEW s \in Src, NEW t \in Task, SendFragment(s, t)
      PROVE  BaseOK'
  <2> DEFINE f == NextFragment(s, t)
  <2>1. /\ f.idx < f.total
        /\ wire' \in [Src -> Seq(Frag)]
        /\ Sent(s)' \subseteq Sent(s) \cup {f}
        /\ \A r \in Src : r # s => Sent(r)' = Sent(r)
        /\ task' \in [Src -> [Task -> TaskState]]
        /\ losses' \in 0..MaxLosses /\ repeats' \in 0..MaxRepeats
        /\ UNCHANGED <<boots, counter, session, delivered>>
    BY <1>3, SendFacts DEF Sends
  <2>2. \A r \in Src, u \in Task : Within(task'[r][u])
    <3>1. \A r \in Src, u \in Task : r # s \/ u # t => task'[r][u] = task[r][u]
      BY <1>3, SendFacts DEF Sends
    <3>2. /\ task[s][t].at = "send"
          /\ \/ task[s][t].next + 1 = task[s][t].total
                /\ task'[s][t] = [Idle EXCEPT !.n = task[s][t].n]
             \/ task[s][t].next + 1 # task[s][t].total
                /\ task'[s][t] = [task[s][t] EXCEPT !.next = task[s][t].next + 1]
      BY <1>3, SendFacts DEF Sends
    <3>3. task[s][t].next < task[s][t].total /\ 0 < task[s][t].n
      BY <3>2 DEF BaseOK, Within
    <3>4. Within(task'[s][t])
      <4>1. task[s][t] \in TaskState
        BY <1>0
      <4>2. CASE task'[s][t] = [Idle EXCEPT !.n = task[s][t].n]
        BY <4>2 DEF Idle, Within
      <4>3. CASE /\ task[s][t].next + 1 # task[s][t].total
                 /\ task'[s][t] = [task[s][t] EXCEPT !.next = task[s][t].next + 1]
        <5>1. /\ task'[s][t].at = "send" /\ task'[s][t].next = task[s][t].next + 1
              /\ task'[s][t].total = task[s][t].total /\ task'[s][t].n = task[s][t].n
          BY <3>2, <4>1, <4>3 DEF TaskState
        <5>2. task[s][t].next + 1 < task[s][t].total
          BY <1>0, <3>3, <4>1, <4>3 DEF TaskState
        <5>3. QED BY <3>3, <5>1, <5>2 DEF Within
      <4>4. QED BY <3>2, <4>2, <4>3
    <3>5. QED BY ZenonT(60), <3>1, <3>4 DEF BaseOK
  <2>3. \A r \in Src : \A g \in Sent(r)' : g.msg.src = r /\ g.idx < g.total
    <3>1. f.msg.src = s
      BY DEF NextFragment
    <3> HIDE DEF f
    <3>2. QED BY ZenonT(60), <2>1, <3>1 DEF BaseOK
  <2>4. QED BY <2>1, <2>2, <2>3 DEF BaseOK, Sent
<1>4. ASSUME NEW s \in Src, Reassemble(s)
      PROVE  BaseOK'
  <2>1. /\ wire' \in [Src -> Seq(Frag)] /\ \A r \in Src : Sent(r)' \subseteq Sent(r)
        /\ delivered' \in Got /\ session' \in [Slot -> Session]
        /\ UNCHANGED <<boots, counter, task, losses, repeats>>
    <3>1. delivered \in Got
      BY DEF BaseOK
    <3>2. PICK f \in Sent(s), i \in Slot, was \in Session : Takes(s, f, i, was)
      BY <1>4, ReassembleFacts
    <3>3. QED BY <3>1, <3>2 DEF Takes
  <2>2. \A r \in Src : \A g \in Sent(r)' : g.msg.src = r /\ g.idx < g.total
    BY <2>1 DEF BaseOK
  <2>3. QED BY <2>1, <2>2 DEF BaseOK, Sent
<1>5. CASE Update \/ Tick
  <2>1. /\ session' \in [Slot -> Session]
        /\ UNCHANGED <<boots, counter, task, wire, delivered, losses, repeats>>
    BY <1>5, AgeFacts
  <2>2. QED BY <1>s, <2>1 DEF BaseOK
<1>6. CASE UNCHANGED vars
  BY <1>6 DEF vars, BaseOK, Sent
<1>7. ASSUME NEW s \in Src, Restart(s)
      PROVE  BaseOK'
  <2>1. Restarts(s)
    BY <1>7, RestartFacts
  <2>2. Within(Idle)
    BY DEF Within, Idle
  <2>3. \A r \in Src, u \in Task : Within(task'[r][u])
    BY <2>1, <2>2 DEF Restarts, BaseOK
  <2>4. QED BY <1>s, <2>1, <2>3 DEF Restarts, BaseOK
<1>8. QED BY <1>1, <1>2, <1>3, <1>4, <1>5, <1>6, <1>7 DEF Next

LEMMA BaseInit == FragmentationAssumption /\ Init => BaseOK
<1> SUFFICES ASSUME FragmentationAssumption, Init
             PROVE  BaseOK
  OBVIOUS
<1>1. /\ 0 \in 0..(IdMod - 1) /\ 0 \in 0..MaxFragments /\ 0 \in 0..(Timeout + 1)
      /\ 0 \in 0..MaxMessages /\ MaxLosses \in 0..MaxLosses /\ MaxRepeats \in 0..MaxRepeats
  BY DEF FragmentationAssumption
<1>2. Idle \in TaskState
  BY <1>1 DEF Idle, TaskState
<1>3. << >> \in Got
  <2>1. << >> \in [{} -> Message] /\ {} \in SUBSET (0..(MaxFragments - 1))
    OBVIOUS
  <2>2. QED BY <2>1 DEF Got
<1>4. NoSession \in Session
  BY <1>1, <1>3 DEF NoSession, Session
<1>5. wire \in [Src -> Seq(Frag)] /\ \A s \in Src : Sent(s) = {}
  BY DEF Init, Sent
<1>6. QED BY <1>1, <1>2, <1>3, <1>4, <1>5 DEF Init, BaseOK, Idle, Within

-----------------------------------------------------------------------------
(* The fragments of a message meet in one session.                          *)

LEMMA OneSessionStep ==
  ASSUME FragmentationAssumption, BaseOK, OneSessionPerMessage, [Next]_vars
  PROVE  OneSessionPerMessage'
<1>1. ASSUME NEW s \in Src, Reassemble(s)
      PROVE  OneSessionPerMessage'
  <2>0. PICK f \in Sent(s), i \in Slot, was \in Session : Takes(s, f, i, was)
    BY <1>1, ReassembleFacts
  <2>1. /\ \/ i \in FindSession(s, f.id) /\ was = session[i]
           \/ FindSession(s, f.id) = {} /\ was = AllocSession(f, i)
        /\ session'[i].src = was.src /\ session'[i].id = was.id
        /\ \A j \in Slot : j # i => session'[j] = session[j]
    BY <2>0 DEF Takes
  <2>2. CASE i \in FindSession(s, f.id) /\ was = session[i]
    BY <2>1, <2>2 DEF OneSessionPerMessage, FindSession
  <2>3. CASE FindSession(s, f.id) = {} /\ was = AllocSession(f, i)
    <3>1. was.src = s /\ was.id = f.id
      BY <2>3 DEF AllocSession, NoSession, BaseOK
    <3>2. \A j \in Slot : ~(session[j].active /\ session[j].src = s /\ session[j].id = f.id)
      BY <2>3 DEF FindSession
    <3>3. QED BY <2>1, <3>1, <3>2 DEF OneSessionPerMessage
  <2>4. QED BY <2>1, <2>2, <2>3
<1>2. CASE Update \/ Tick
  BY <1>2, AgeFacts DEF OneSessionPerMessage
<1>3. CASE UNCHANGED session
  BY <1>3 DEF OneSessionPerMessage
<1>4. QED
  BY ZenonT(60), <1>1, <1>2, <1>3 DEF Next, Fragment, NextFragId, SendFragment, Restart, vars

\* However messages, losses, repetitions, evictions and timeouts follow each other,
\* no message is spread over two sessions.
THEOREM FragOneSession == Spec => []OneSessionPerMessage
<1>1. Init => BaseOK
  BY BaseInit, FragmentationAssumption
<1>2. Init => OneSessionPerMessage
  BY DEF Init, OneSessionPerMessage, NoSession
<1>3. BaseOK /\ OneSessionPerMessage /\ [Next]_vars => BaseOK' /\ OneSessionPerMessage'
  BY BaseStep, OneSessionStep, FragmentationAssumption
<1>4. QED BY <1>1, <1>2, <1>3, PTL DEF Spec

-----------------------------------------------------------------------------
(* One task: the ids of a sender's messages are different.                  *)

\* A single task does not count past the ids.
LEMMA IdsEnough ==
  ASSUME FragmentationAssumption, NEW T, Task = {T}
  PROVE  MaxMessages < IdMod
<1>1. Cardinality(Task) = 1
  BY FS_Singleton
<1>2. QED BY <1>1 DEF FragmentationAssumption

\* Below the width the ids do not wrap.
LEMMA NoWrap ==
  ASSUME FragmentationAssumption
  PROVE  \A x \in 0..(IdMod - 1) : x % IdMod = x
<1>1. IdMod \in Nat \ {0}
  BY DEF FragmentationAssumption
<1>2. QED BY <1>1

LEMMA IdsStep ==
  ASSUME FragmentationAssumption, SlowStart, NEW T, Task = {T}, BaseOK, IdsCount(T), [Next]_vars
  PROVE  IdsCount(T)'
<1>0. /\ task \in [Src -> [Task -> TaskState]] /\ counter \in [Src -> 0..(IdMod - 1)]
      /\ T \in Task /\ MaxMessages \in Nat /\ IdMod \in Nat /\ MaxMessages < IdMod
  BY IdsEnough DEF BaseOK, FragmentationAssumption
<1>s. ASSUME UNCHANGED wire
      PROVE  \A r \in Src : Sent(r)' = Sent(r)
  BY <1>s DEF Sent
<1>1. ASSUME NEW s \in Src, NEW k \in Sizes, Fragment(s, T, k)
      PROVE  IdsCount(T)'
  <2>1. /\ task[s][T].at = "idle"
        /\ task'[s][T] = [at |-> "count", id |-> counter[s], total |-> TotalFrags(k), next |-> 0,
                          n |-> task[s][T].n + 1]
        /\ \A r \in Src : r # s => task'[r][T] = task[r][T]
        /\ UNCHANGED <<boots, counter, wire>>
    BY <1>0, <1>1, FragmentFacts
  <2>2. task[s][T].n = counter[s]
    BY <2>1 DEF IdsCount
  <2>3. QED BY <1>s, <2>1, <2>2 DEF IdsCount
<1>2. ASSUME NEW s \in Src, NextFragId(s, T)
      PROVE  IdsCount(T)'
  <2> DEFINE id == (task[s][T].id + 1) % IdMod
  <2>0. GetsId(s, T, id)
    BY <1>0, <1>2, NextFragIdFacts
  <2>1. /\ task[s][T].at = "count" /\ counter' = [counter EXCEPT ![s] = id]
        /\ task'[s][T] = AfterId(task[s][T], id)
        /\ \A r \in Src : r # s => task'[r][T] = task[r][T]
        /\ UNCHANGED <<boots, wire>>
    BY <1>0, <2>0 DEF GetsId
  <2>2. task[s][T].n = counter[s] + 1 /\ task[s][T].id = counter[s]
    BY <2>1 DEF IdsCount
  <2>3. counter[s] + 1 \in 0..(IdMod - 1)
    BY <1>0, <2>2 DEF TaskState
  <2>4. id = counter[s] + 1
    BY <2>2, <2>3, NoWrap
  <2> HIDE DEF id
  <2>5. /\ task'[s][T].at # "count" /\ task'[s][T].n = counter[s] + 1
        /\ task'[s][T].at = "send" => task'[s][T].id = id
        /\ counter'[s] = id /\ \A r \in Src : r # s => counter'[r] = counter[r]
    BY <1>0, <2>1, <2>2 DEF TaskState, AfterId, Idle
  <2>6. ASSUME NEW r \in Src
        PROVE  /\ task'[r][T].at = "count" =>
                      task'[r][T].n = counter'[r] + 1 /\ task'[r][T].id = counter'[r]
               /\ task'[r][T].at # "count" => task'[r][T].n = counter'[r]
               /\ task'[r][T].at = "send" => task'[r][T].id = counter'[r]
    <3>1. CASE r = s
      BY <2>4, <2>5, <3>1
    <3>2. CASE r # s
      BY <2>1, <2>5, <3>2 DEF IdsCount
    <3>3. QED BY <3>1, <3>2
  <2>7. \A r \in Src : \A f \in Sent(r)' : f.msg = [src |-> r, boot |-> boots'[r], task |-> T, n |-> f.id]
    BY <1>s, <2>1 DEF IdsCount
  <2>8. QED BY <2>6, <2>7 DEF IdsCount
<1>3. ASSUME NEW s \in Src, SendFragment(s, T)
      PROVE  IdsCount(T)'
  <2> DEFINE now == task[s][T]
             f == NextFragment(s, T)
  <2>1. /\ now.at = "send"
        /\ Sent(s)' \subseteq Sent(s) \cup {f}
        /\ \A r \in Src : r # s => Sent(r)' = Sent(r)
        /\ \A r \in Src : r # s => task'[r][T] = task[r][T]
        /\ \/ task'[s][T] = [Idle EXCEPT !.n = now.n]
           \/ task'[s][T] = [now EXCEPT !.next = now.next + 1]
        /\ UNCHANGED <<boots, counter>>
    BY ZenonT(60), <1>0, <1>3, SendFacts DEF Sends
  <2>2. now.n = counter[s] /\ now.id = counter[s]
    BY <2>1 DEF IdsCount
  <2>3. f.msg = [src |-> s, boot |-> boots[s], task |-> T, n |-> f.id]
    BY <2>2 DEF NextFragment
  <2>4. /\ task'[s][T].n = counter[s] /\ task'[s][T].at # "count"
        /\ task'[s][T].at = "send" => task'[s][T].id = counter[s]
    <3>1. now \in TaskState
      BY <1>0
    <3>2. QED BY <2>1, <2>2, <3>1 DEF TaskState, Idle
  <2> HIDE DEF f
  <2>5. QED BY <2>1, <2>3, <2>4 DEF IdsCount
<1>4. ASSUME NEW s \in Src, Reassemble(s)
      PROVE  IdsCount(T)'
  <2>1. (\A r \in Src : Sent(r)' \subseteq Sent(r)) /\ UNCHANGED <<boots, counter, task>>
    BY <1>4, ReassembleFacts DEF Takes
  <2>2. QED BY <2>1 DEF IdsCount
<1>5. CASE UNCHANGED <<boots, counter, task, wire>>
  BY <1>5, <1>s DEF IdsCount
<1>6. ASSUME NEW s \in Src, Restart(s)
      PROVE  IdsCount(T)'
  <2>1. /\ counter'[s] = 0 /\ task'[s][T] = Idle /\ Sent(s) = {}
        /\ \A r \in Src : r # s =>
                boots'[r] = boots[r] /\ counter'[r] = counter[r] /\ task'[r] = task[r]
        /\ UNCHANGED wire
    BY <1>0, <1>6, RestartFacts DEF Restarts
  <2>2. QED BY <1>s, <2>1 DEF IdsCount, Idle
<1>7. QED BY <1>0, <1>1, <1>2, <1>3, <1>4, <1>5, <1>6 DEF Next, Update, Tick, vars

-----------------------------------------------------------------------------
(* One task: a session holds fragments of one message.                      *)

LEMMA WholeStep ==
  ASSUME FragmentationAssumption, SlowStart, NEW T, Task = {T}, BaseOK, IdsCount(T), WholeSoFar(T),
         [Next]_vars
  PROVE  WholeSoFar(T)'
<1>1. ASSUME NEW s \in Src, Reassemble(s)
      PROVE  WholeSoFar(T)'
  <2>0. PICK f \in Sent(s), i \in Slot, was \in Session : Takes(s, f, i, was)
    BY <1>1, ReassembleFacts
  <2> DEFINE m == [src |-> s, boot |-> boots[s], task |-> T, n |-> f.id]
  <2>1. /\ \/ i \in FindSession(s, f.id) /\ was = session[i]
           \/ FindSession(s, f.id) = {} /\ was = AllocSession(f, i)
        /\ session'[i].src = was.src /\ session'[i].id = was.id
        /\ session'[i].got = With(was, f)
        /\ delivered' = IF Complete(was.got, f) THEN With(was, f) ELSE delivered
        /\ \A j \in Slot : j # i => session'[j] = session[j]
        /\ UNCHANGED boots
    BY <2>0 DEF Takes
  <2>2. f.msg = m /\ f.msg.src = s
    BY DEF IdsCount, BaseOK
  <2>3. was.src = s /\ was.id = f.id /\ \A k \in DOMAIN was.got : was.got[k] = m
    <3>1. CASE i \in FindSession(s, f.id) /\ was = session[i]
      BY <3>1 DEF FindSession, WholeSoFar
    <3>2. CASE was = AllocSession(f, i)
      BY <2>2, <3>2 DEF AllocSession, NoSession
    <3>3. QED BY <2>1, <3>1, <3>2
  <2>4. \A k \in DOMAIN With(was, f) : With(was, f)[k] = m
    BY <2>2, <2>3 DEF With
  <2> HIDE DEF m
  <2>5. DeliveredWhole'
    BY <2>1, <2>4 DEF DeliveredWhole, WholeSoFar
  <2>6. ASSUME NEW j \in Slot, session'[j].active, NEW k \in DOMAIN session'[j].got
        PROVE  session'[j].got[k] = [src |-> session'[j].src, boot |-> boots[session'[j].src],
                                     task |-> T, n |-> session'[j].id]
    <3>1. CASE j = i
      BY <2>1, <2>3, <2>4, <3>1 DEF m
    <3>2. CASE j # i
      BY <2>1, <2>6, <3>2 DEF WholeSoFar
    <3>3. QED BY <3>1, <3>2
  <2>7. \A j \in Slot : session'[j].active => session'[j].src \in Src
    BY <2>1, <2>3 DEF WholeSoFar
  <2>8. QED BY <2>1, <2>5, <2>6, <2>7 DEF WholeSoFar
<1>2. CASE Update \/ Tick
  <2>1. /\ \A i \in Slot : /\ session'[i].active => session[i].active
                           /\ session'[i].src = session[i].src /\ session'[i].id = session[i].id
                           /\ session'[i].got = session[i].got
        /\ UNCHANGED <<boots, delivered>>
    BY <1>2, AgeFacts
  <2>2. DeliveredWhole'
    BY <2>1 DEF WholeSoFar, DeliveredWhole
  <2>3. QED BY <2>1, <2>2 DEF WholeSoFar
<1>3. CASE UNCHANGED <<boots, session, delivered>>
  BY <1>3 DEF WholeSoFar, DeliveredWhole
<1>4. ASSUME NEW s \in Src, NEW t \in Task,
             (\E k \in Sizes : Fragment(s, t, k)) \/ NextFragId(s, t) \/ SendFragment(s, t)
      PROVE  UNCHANGED <<boots, session, delivered>>
  BY <1>4 DEF Fragment, NextFragId, SendFragment
<1>5. CASE UNCHANGED vars
  BY <1>3, <1>5 DEF vars
<1>6. ASSUME NEW s \in Src, Restart(s)
      PROVE  WholeSoFar(T)'
  <2>1. /\ \A r \in Src : r # s => boots'[r] = boots[r]
        /\ \A i \in Slot : session[i].active => session[i].src # s
        /\ UNCHANGED <<session, delivered>>
    BY <1>6, RestartFacts DEF Restarts
  <2>2. DeliveredWhole'
    BY <2>1 DEF WholeSoFar, DeliveredWhole
  <2>3. ASSUME NEW i \in Slot, session'[i].active
        PROVE  /\ session'[i].src \in Src
               /\ \A k \in DOMAIN session'[i].got :
                    session'[i].got[k] = [src |-> session'[i].src, boot |-> boots'[session'[i].src],
                                          task |-> T, n |-> session'[i].id]
    <3>1. session' = session /\ session[i].active
      BY <2>1, <2>3
    <3>2. session[i].src \in Src /\ session[i].src # s
      BY <2>1, <3>1 DEF WholeSoFar
    <3>3. boots'[session[i].src] = boots[session[i].src]
      BY <2>1, <3>2
    <3>4. QED BY <3>1, <3>2, <3>3 DEF WholeSoFar
  <2>4. QED BY <2>2, <2>3 DEF WholeSoFar
<1>7. QED
  BY <1>1, <1>2, <1>3, <1>4, <1>5, <1>6 DEF Next

-----------------------------------------------------------------------------
(* One task: the tasks, the fragments and the sessions agree on its length. *)

\* Nothing new is said of a message.
LEMMA NothingNew ==
  ASSUME NEW T, TotalsAgree(T), Announced(T)' \subseteq Announced(T), UNCHANGED counter,
         \A i \in Slot : DOMAIN session'[i].got \subseteq 0..(session'[i].total - 1)
  PROVE  TotalsAgree(T)'
BY DEF TotalsAgree

\* What is announced, by whom.
LEMMA Announces ==
  ASSUME NEW T
  PROVE  /\ \A s \in Src : task[s][T].at = "send" =>
                [src |-> s, id |-> task[s][T].id, total |-> task[s][T].total] \in Announced(T)
         /\ \A s \in Src : \A f \in Sent(s) :
                [src |-> f.msg.src, id |-> f.id, total |-> f.total] \in Announced(T)
         /\ \A i \in Slot : session[i].active =>
                [src |-> session[i].src, id |-> session[i].id, total |-> session[i].total]
                    \in Announced(T)
BY DEF Announced

LEMMA TotalsStep ==
  ASSUME FragmentationAssumption, SlowStart, NEW T, Task = {T}, BaseOK, IdsCount(T), TotalsAgree(T),
         [Next]_vars
  PROVE  TotalsAgree(T)'
<1>0. /\ task \in [Src -> [Task -> TaskState]] /\ counter \in [Src -> 0..(IdMod - 1)]
      /\ T \in Task /\ MaxMessages \in Nat /\ IdMod \in Nat /\ MaxMessages < IdMod
  BY IdsEnough DEF BaseOK, FragmentationAssumption
<1>s. ASSUME UNCHANGED wire
      PROVE  \A r \in Src : Sent(r)' = Sent(r)
  BY <1>s DEF Sent
<1>d. \A i \in Slot : DOMAIN session[i].got \subseteq 0..(session[i].total - 1)
  BY DEF TotalsAgree
<1>1. ASSUME NEW s \in Src, NEW k \in Sizes, Fragment(s, T, k)
      PROVE  TotalsAgree(T)'
  <2>1. /\ task'[s][T].at # "send" /\ \A r \in Src : r # s => task'[r][T] = task[r][T]
        /\ UNCHANGED <<counter, wire, session>>
    <3>1. /\ task'[s][T] = [at |-> "count", id |-> counter[s], total |-> TotalFrags(k), next |-> 0,
                            n |-> task[s][T].n + 1]
          /\ \A r \in Src : r # s => task'[r][T] = task[r][T]
          /\ UNCHANGED <<counter, wire, session>>
      BY <1>0, <1>1, FragmentFacts
    <3>2. QED BY <3>1
  <2>2. Announced(T)' \subseteq Announced(T)
    BY <1>s, <2>1 DEF Announced
  <2>3. QED BY <1>d, <2>1, <2>2, NothingNew
<1>2. ASSUME NEW s \in Src, NextFragId(s, T)
      PROVE  TotalsAgree(T)'
  <2> DEFINE id == (task[s][T].id + 1) % IdMod
             new == [src |-> s, id |-> id, total |-> task[s][T].total]
  <2>0. GetsId(s, T, id)
    BY <1>0, <1>2, NextFragIdFacts
  <2>1. /\ task[s][T].at = "count" /\ counter' = [counter EXCEPT ![s] = id]
        /\ task'[s][T] = AfterId(task[s][T], id)
        /\ \A r \in Src : r # s => task'[r][T] = task[r][T]
        /\ UNCHANGED <<wire, session>>
    BY <1>0, <2>0 DEF GetsId
  <2>2. id = counter[s] + 1
    <3>1. task[s][T].n = counter[s] + 1 /\ task[s][T].id = counter[s]
      BY <2>1 DEF IdsCount
    <3>2. counter[s] + 1 \in 0..(IdMod - 1)
      BY <1>0, <3>1 DEF TaskState
    <3>3. QED BY <3>1, <3>2, NoWrap
  <2> HIDE DEF id
  <2>3. task'[s][T].at = "send" => task'[s][T].id = id /\ task'[s][T].total = task[s][T].total
    BY <1>0, <2>1 DEF TaskState, AfterId, Idle
  <2>4. ASSUME NEW a \in Announced(T)'
        PROVE  a \in Announced(T) \cup {new}
    <3>1. CASE \E r \in Src : task'[r][T].at = "send"
                    /\ a = [src |-> r, id |-> task'[r][T].id, total |-> task'[r][T].total]
      <4>1. PICK r \in Src : /\ task'[r][T].at = "send"
                             /\ a = [src |-> r, id |-> task'[r][T].id, total |-> task'[r][T].total]
        BY <3>1
      <4>2. CASE r = s
        BY <2>3, <4>1, <4>2
      <4>3. CASE r # s
        BY <2>1, <4>1, <4>3, Announces
      <4>4. QED BY <4>2, <4>3
    <3>2. CASE \E r \in Src : \E g \in Sent(r) : a = [src |-> g.msg.src, id |-> g.id, total |-> g.total]
      BY <3>2, Announces
    <3>3. CASE \E i \in Slot : session[i].active
                    /\ a = [src |-> session[i].src, id |-> session[i].id, total |-> session[i].total]
      BY <3>3, Announces
    <3>4. QED BY <1>s, <2>1, <2>4, <3>1, <3>2, <3>3 DEF Announced
  <2>5. /\ counter'[s] = id /\ \A r \in Src : r # s => counter'[r] = counter[r]
        /\ \A r \in Src : counter[r] \in Nat
    BY <1>0, <2>1
  <2>6. \A a \in Announced(T) : a.src \in Src /\ a.id <= counter[a.src] /\ a.id \in Nat
    <3>1. ASSUME NEW a \in Announced(T)
          PROVE  a.id \in Nat
      <4>1. CASE \E r \in Src : a = [src |-> r, id |-> task[r][T].id, total |-> task[r][T].total]
        BY <1>0, <4>1 DEF TaskState
      <4>2. CASE \E r \in Src : \E f \in Sent(r) : a = [src |-> f.msg.src, id |-> f.id, total |-> f.total]
        BY <1>0, <4>2, SentType DEF Frag
      <4>3. CASE \E i \in Slot : a = [src |-> session[i].src, id |-> session[i].id, total |-> session[i].total]
        BY <1>0, <4>3 DEF BaseOK, Session
      <4>4. QED BY <4>1, <4>2, <4>3 DEF Announced
    <3>2. QED BY <3>1 DEF TotalsAgree
  <2>7. \A a \in Announced(T)' : a.src \in Src /\ a.id <= counter'[a.src]
    <3>1. ASSUME NEW a \in Announced(T)
          PROVE  a.id <= counter'[a.src]
      <4>1. CASE a.src = s
        BY <2>2, <2>5, <2>6, <4>1
      <4>2. CASE a.src # s
        BY <2>5, <2>6, <4>2
      <4>3. QED BY <4>1, <4>2
    <3>2. new.src \in Src /\ new.id <= counter'[new.src]
      BY <2>2, <2>5
    <3> HIDE DEF new
    <3>3. QED BY <2>4, <2>6, <3>1, <3>2
  <2>8. \A a \in Announced(T) : ~(a.src = new.src /\ a.id = new.id)
    BY <2>2, <2>5, <2>6
  <2> HIDE DEF new
  <2>9. \A a, b \in Announced(T)' : a.src = b.src /\ a.id = b.id => a.total = b.total
    BY <2>4, <2>8 DEF TotalsAgree
  <2>10. QED BY <1>d, <2>1, <2>7, <2>9 DEF TotalsAgree
<1>3. ASSUME NEW s \in Src, SendFragment(s, T)
      PROVE  TotalsAgree(T)'
  <2> DEFINE now == task[s][T]
             f == NextFragment(s, T)
  <2>1. /\ now.at = "send"
        /\ Sent(s)' \subseteq Sent(s) \cup {f}
        /\ \A r \in Src : r # s => Sent(r)' = Sent(r)
        /\ \A r \in Src : r # s => task'[r][T] = task[r][T]
        /\ \/ task'[s][T] = [Idle EXCEPT !.n = now.n]
           \/ task'[s][T] = [now EXCEPT !.next = now.next + 1]
        /\ UNCHANGED <<counter, session>>
    BY ZenonT(60), <1>0, <1>3, SendFacts DEF Sends
  <2>2. /\ f.msg.src = s /\ f.id = now.id /\ f.total = now.total
        /\ [src |-> s, id |-> now.id, total |-> now.total] \in Announced(T)
    BY <2>1, Announces DEF NextFragment
  <2> HIDE DEF f
  <2>3. task'[s][T].at = "send" => task'[s][T].id = now.id /\ task'[s][T].total = now.total
    <3>1. now \in TaskState
      BY <1>0
    <3>2. QED BY <2>1, <3>1 DEF TaskState, Idle
  <2>4. ASSUME NEW a \in Announced(T)'
        PROVE  a \in Announced(T)
    <3>1. CASE \E r \in Src : task'[r][T].at = "send"
                    /\ a = [src |-> r, id |-> task'[r][T].id, total |-> task'[r][T].total]
      BY <2>1, <2>2, <2>3, <3>1, Announces
    <3>2. CASE \E r \in Src : \E g \in Sent(r)' : a = [src |-> g.msg.src, id |-> g.id, total |-> g.total]
      BY <2>1, <2>2, <3>2, Announces
    <3>3. CASE \E i \in Slot : session[i].active
                    /\ a = [src |-> session[i].src, id |-> session[i].id, total |-> session[i].total]
      BY <3>3, Announces
    <3>4. QED BY <2>1, <2>4, <3>1, <3>2, <3>3 DEF Announced
  <2>5. QED BY <1>d, <2>1, <2>4, NothingNew
<1>4. ASSUME NEW s \in Src, Reassemble(s)
      PROVE  TotalsAgree(T)'
  <2>0. PICK f \in Sent(s), i \in Slot, was \in Session : Takes(s, f, i, was)
    BY <1>4, ReassembleFacts
  <2>1. /\ \A r \in Src : Sent(r)' \subseteq Sent(r)
        /\ \/ i \in FindSession(s, f.id) /\ was = session[i]
           \/ FindSession(s, f.id) = {} /\ was = AllocSession(f, i)
        /\ session'[i].src = was.src /\ session'[i].id = was.id /\ session'[i].total = was.total
        /\ session'[i].got = With(was, f)
        /\ \A j \in Slot : j # i => session'[j] = session[j]
        /\ UNCHANGED <<counter, task>>
    BY <2>0 DEF Takes
  <2>2. /\ f.msg.src = s /\ f.idx < f.total /\ f.idx \in Nat /\ f.total \in Nat
        /\ [src |-> s, id |-> f.id, total |-> f.total] \in Announced(T)
    <3>1. f \in Frag /\ MaxFragments \in Nat
      BY SentType DEF FragmentationAssumption
    <3>2. f.msg.src = s /\ f.idx < f.total
      BY DEF BaseOK
    <3>3. QED BY <3>1, <3>2, Announces DEF Frag
  <2>3. was.src = s /\ was.id = f.id /\ was.total = f.total /\ DOMAIN was.got \subseteq 0..(f.total - 1)
    <3>1. CASE i \in FindSession(s, f.id) /\ was = session[i]
      <4>1. session[i].active /\ session[i].src = s /\ session[i].id = f.id
        BY <3>1 DEF FindSession
      <4>2. [src |-> s, id |-> f.id, total |-> session[i].total] \in Announced(T)
        BY <4>1, Announces
      <4>3. session[i].total = f.total
        BY <2>2, <4>2 DEF TotalsAgree
      <4>4. QED BY <1>d, <3>1, <4>1, <4>3
    <3>2. CASE was = AllocSession(f, i)
      BY <2>2, <3>2 DEF AllocSession, NoSession
    <3>3. QED BY <2>1, <3>1, <3>2
  <2>4. \A j \in Slot : DOMAIN session'[j].got \subseteq 0..(session'[j].total - 1)
    <3>1. DOMAIN With(was, f) \subseteq 0..(f.total - 1)
      BY <2>2, <2>3 DEF With
    <3>2. QED BY <1>d, <2>1, <2>3, <3>1
  <2>5. ASSUME NEW a \in Announced(T)'
        PROVE  a \in Announced(T)
    <3>1. CASE \E r \in Src : task[r][T].at = "send"
                    /\ a = [src |-> r, id |-> task[r][T].id, total |-> task[r][T].total]
      BY <3>1, Announces
    <3>2. CASE \E r \in Src : \E g \in Sent(r)' : a = [src |-> g.msg.src, id |-> g.id, total |-> g.total]
      BY <2>1, <3>2, Announces
    <3>3. CASE \E j \in Slot : session'[j].active
                    /\ a = [src |-> session'[j].src, id |-> session'[j].id, total |-> session'[j].total]
      <4>1. PICK j \in Slot : /\ session'[j].active
                              /\ a = [src |-> session'[j].src, id |-> session'[j].id,
                                      total |-> session'[j].total]
        BY <3>3
      <4>2. CASE j = i
        BY <2>1, <2>2, <2>3, <4>1, <4>2
      <4>3. CASE j # i
        BY <2>1, <4>1, <4>3, Announces
      <4>4. QED BY <4>2, <4>3
    <3>4. QED BY <2>1, <2>5, <3>1, <3>2, <3>3 DEF Announced
  <2>6. QED BY <2>1, <2>4, <2>5, NothingNew
<1>5. CASE Update \/ Tick
  <2>1. /\ \A i \in Slot : /\ session'[i].active => session[i].active
                           /\ session'[i].src = session[i].src /\ session'[i].id = session[i].id
                           /\ session'[i].total = session[i].total
                           /\ session'[i].got = session[i].got
        /\ UNCHANGED <<counter, task, wire>>
    BY <1>5, AgeFacts
  <2>2. Announced(T)' \subseteq Announced(T)
    BY <1>s, <2>1 DEF Announced
  <2>3. QED BY <1>d, <2>1, <2>2, NothingNew
<1>6. CASE UNCHANGED vars
  <2>1. UNCHANGED <<counter, task, wire, session>>
    BY <1>6 DEF vars
  <2>2. Announced(T)' \subseteq Announced(T)
    BY <1>s, <2>1 DEF Announced
  <2>3. QED BY <1>d, <2>1, <2>2, NothingNew
<1>7. ASSUME NEW s \in Src, Restart(s)
      PROVE  TotalsAgree(T)'
  <2>1. /\ task'[s][T] = Idle /\ Sent(s) = {}
        /\ \A i \in Slot : session[i].active => session[i].src # s
        /\ \A r \in Src : r # s => counter'[r] = counter[r] /\ task'[r] = task[r]
        /\ UNCHANGED <<wire, session>>
    BY <1>0, <1>7, RestartFacts DEF Restarts
  <2>2. ASSUME NEW a \in Announced(T)'
        PROVE  a \in Announced(T) /\ a.src # s
    <3>1. CASE \E r \in Src : task'[r][T].at = "send"
                    /\ a = [src |-> r, id |-> task'[r][T].id, total |-> task'[r][T].total]
      BY <2>1, <3>1, Announces DEF Idle
    <3>2. CASE \E r \in Src : \E g \in Sent(r) : a = [src |-> g.msg.src, id |-> g.id, total |-> g.total]
      <4>1. PICK r \in Src : \E g \in Sent(r) : a = [src |-> g.msg.src, id |-> g.id, total |-> g.total]
        BY <3>2
      <4>2. PICK g \in Sent(r) : a = [src |-> g.msg.src, id |-> g.id, total |-> g.total]
        BY <4>1
      <4>3. g.msg.src = r /\ r # s
        BY <2>1 DEF BaseOK
      <4>4. QED BY <4>2, <4>3, Announces
    <3>3. CASE \E i \in Slot : session[i].active
                    /\ a = [src |-> session[i].src, id |-> session[i].id, total |-> session[i].total]
      BY <2>1, <3>3, Announces
    <3>4. QED BY <1>s, <2>1, <2>2, <3>1, <3>2, <3>3 DEF Announced
  <2>3. \A a \in Announced(T)' : a.src \in Src /\ a.id <= counter'[a.src]
    BY <2>1, <2>2 DEF TotalsAgree
  <2>4. QED BY <1>d, <2>1, <2>2, <2>3 DEF TotalsAgree
<1>8. QED BY <1>0, <1>1, <1>2, <1>3, <1>4, <1>5, <1>6, <1>7 DEF Next

-----------------------------------------------------------------------------
(* The theorems for one task.                                               *)

OneTaskInv(T) == BaseOK /\ IdsCount(T) /\ WholeSoFar(T) /\ TotalsAgree(T)

LEMMA OneTaskInit ==
  ASSUME FragmentationAssumption, NEW T, Task = {T}, Init
  PROVE  OneTaskInv(T)
<1>1. \A s \in Src : task[s][T] = Idle /\ Sent(s) = {} /\ counter[s] = 0
  BY DEF Init, Sent
<1>2. \A i \in Slot : session[i] = NoSession
  BY DEF Init
<1>3. IdsCount(T)
  BY <1>1 DEF IdsCount, Idle
<1>4. WholeSoFar(T)
  BY <1>2 DEF Init, WholeSoFar, DeliveredWhole, NoSession
<1>5. TotalsAgree(T)
  <2>1. Announced(T) = {}
    BY <1>1, <1>2 DEF Announced, Idle, NoSession
  <2>2. QED BY <1>2, <2>1 DEF TotalsAgree, NoSession
<1>6. QED BY <1>3, <1>4, <1>5, BaseInit DEF OneTaskInv

LEMMA OneTaskStep ==
  ASSUME FragmentationAssumption, SlowStart, NEW T, Task = {T}, OneTaskInv(T), [Next]_vars
  PROVE  OneTaskInv(T)'
BY BaseStep, IdsStep, WholeStep, TotalsStep DEF OneTaskInv

\* Where one task of a node sends long messages and a node that was reset is back after
\* the timeout, what reassemble() returns is one of them: a fragment is never completed
\* with those of another, even of an earlier start, even in a session that an evicted or
\* an expired one left its slot to.
THEOREM FragDeliveredWhole ==
  ASSUME SlowStart, NEW T, Task = {T}
  PROVE  Spec => []DeliveredWhole
<1>1. Init => OneTaskInv(T)
  BY OneTaskInit, FragmentationAssumption
<1>2. OneTaskInv(T) /\ [Next]_vars => OneTaskInv(T)'
  BY OneTaskStep, FragmentationAssumption
<1>3. OneTaskInv(T) => DeliveredWhole
  BY DEF OneTaskInv, WholeSoFar
<1>4. QED BY <1>1, <1>2, <1>3, PTL DEF Spec

\* There, every variable keeps its type, and no session holds a fragment beyond the
\* end of its message.
THEOREM FragTypeCorrect ==
  ASSUME SlowStart, NEW T, Task = {T}
  PROVE  Spec => []TypeOK
<1>1. Init => OneTaskInv(T)
  BY OneTaskInit, FragmentationAssumption
<1>2. OneTaskInv(T) /\ [Next]_vars => OneTaskInv(T)'
  BY OneTaskStep, FragmentationAssumption
<1>3. OneTaskInv(T) => TypeOK
  <2> SUFFICES ASSUME OneTaskInv(T)
               PROVE  TypeOK
    OBVIOUS
  <2>1. \A s \in Src : \A k \in DOMAIN wire[s] : wire[s][k] \in Frag
    BY DEF OneTaskInv, BaseOK
  <2>2. \A i \in Slot : /\ session[i].src \in Src \cup {NoMac}
                        /\ session[i].age \in 0..(Timeout + 1)
                        /\ DOMAIN session[i].got \subseteq 0..(session[i].total - 1)
    BY DEF OneTaskInv, BaseOK, Session, TotalsAgree
  <2>3. QED BY <2>1, <2>2 DEF OneTaskInv, BaseOK, TypeOK, Frag, TaskState
<1>4. QED BY <1>1, <1>2, <1>3, PTL DEF Spec
=============================================================================
