----------------------------- MODULE SeenFrames -----------------------------
(***************************************************************************)
(* The Seen-Frame cache of Router.cpp at one node, and the neighbours      *)
(* whose broadcasts it hears.  A node drops a broadcast whose sender and   *)
(* sequence number it has handled less than SEEN_FRAME_TTL_MS ago, as far  *)
(* back as its ring of MESH_SEEN_CACHE_SIZE entries goes.  The numbers     *)
(* come from a counter in RAM (_seqCounter), shared with unicast frames,   *)
(* which starts again after every reset and every deep sleep.              *)
(*                                                                         *)
(* The common names have a prefix, Seen, and a few others differ from      *)
(* those of Routing.tla: one module proves theorems of both parts of the   *)
(* Router.                                                                 *)
(***************************************************************************)
EXTENDS Integers, Sequences, SequencesExt

CONSTANTS
    Sender,     \* the neighbours
    NoSender,
    CacheSize,  \* MESH_SEEN_CACHE_SIZE
    Ttl,        \* SEEN_FRAME_TTL_MS
    Seqs,       \* the sequence numbers, 2^16 in the code
    MaxUnheard  \* bound: broadcasts lost

ASSUME SeenAssumption ==
    /\ NoSender \notin Sender
    /\ {CacheSize, Ttl, Seqs} \subseteq Nat \ {0} /\ MaxUnheard \in Nat

VARIABLES
    seqCounter, \* _seqCounter of every neighbour
    seenCache,  \* _seenCache, with the age of an entry instead of its timestamp
    idx,        \* _seenCacheIdx
    copy,       \* a broadcast that may arrive once more
    unheard,    \* losses left
    heard,      \* (history) whose broadcast was handled last
    window      \* (history) the last CacheSize broadcasts handled, oldest first

seenVars == <<seqCounter, seenCache, idx, copy, unheard, heard, window>>

Ring == 0..(CacheSize - 1)
NoFrame == [src |-> NoSender, seq |-> 0]
NoEntry == [src |-> NoSender, seq |-> 0, age |-> 0, valid |-> FALSE]

\* An age counts to one past the lifetime.
Older(n) == IF n > Ttl THEN n ELSE n + 1

-----------------------------------------------------------------------------
(* The cache.                                                              *)

\* Fault: the number alone is compared.
AnySender(f) == {i \in Ring : seenCache[i].valid /\ seenCache[i].seq = f.seq}

\* The entries of a frame.
Matches(f) ==
    {i \in Ring : seenCache[i].valid /\ seenCache[i].src = f.src /\ seenCache[i].seq = f.seq}

Live(f) == {i \in Matches(f) : seenCache[i].age < Ttl}

\* isFrameSeen: expired entries met before a live one are given up.
IsFrameSeen(f) == Live(f) # {}

Stale(f) == {i \in Matches(f) \ Live(f) : \A j \in Live(f) : i < j}

GiveUp(S) == [i \in Ring |-> IF i \in S THEN [seenCache[i] EXCEPT !.valid = FALSE] ELSE seenCache[i]]

\* Fault: the ring has one more place.
NextOfMore(i) == (i + 1) % (CacheSize + 1)

NextIdx(i) == (i + 1) % CacheSize

\* Fault: what is seen again is kept longer.
KeptLonger(f) == [i \in Ring |-> IF i \in Live(f) THEN [seenCache[i] EXCEPT !.age = 0] ELSE seenCache[i]]

\* The cache after isFrameSeen returned TRUE.
AfterSeen(f) == GiveUp(Stale(f))

\* _handleFrame, for a broadcast: dropped, or marked (markFrameSeen) and handled.
HandleBroadcast(f) ==
    IF IsFrameSeen(f)
    THEN /\ seenCache' = AfterSeen(f)
         /\ UNCHANGED <<idx, heard, window>>
    ELSE /\ seenCache' = [GiveUp(Stale(f)) EXCEPT
                            ![idx] = [src |-> f.src, seq |-> f.seq, age |-> 0, valid |-> TRUE]]
         /\ idx' = NextIdx(idx)
         /\ heard' = f.src
         /\ window' = LET w == Append(window, [src |-> f.src, seq |-> f.seq, age |-> 0])
                      IN  IF Len(w) > CacheSize THEN Tail(w) ELSE w

\* Router::update.
CleanCache ==
    /\ \E i \in Ring : seenCache[i].valid /\ seenCache[i].age > Ttl
    /\ seenCache' = GiveUp({i \in Ring : seenCache[i].age > Ttl})
    /\ UNCHANGED <<seqCounter, idx, copy, unheard, heard, window>>

-----------------------------------------------------------------------------
(* The neighbours and the radio.                                           *)

NextSeq(s) == (seqCounter[s] + 1) % Seqs

\* _sendBroadcastFrame: the frame is heard, and may be heard once more, or is lost.
SendBroadcast(s) ==
    /\ seqCounter' = [seqCounter EXCEPT ![s] = NextSeq(s)]
    /\ LET f == [src |-> s, seq |-> NextSeq(s)] IN
       \/ /\ HandleBroadcast(f)
          /\ copy' \in {copy, f}
          /\ UNCHANGED unheard
       \/ /\ unheard > 0 /\ unheard' = unheard - 1
          /\ UNCHANGED <<seenCache, idx, copy, heard, window>>

\* _sendFrameVia: a unicast frame to another node.
SendUnicast(s) ==
    /\ seqCounter' = [seqCounter EXCEPT ![s] = NextSeq(s)]
    /\ UNCHANGED <<seenCache, idx, copy, unheard, heard, window>>

\* A reset or a deep sleep of a neighbour.
Restart(s) ==
    /\ seqCounter' = [seqCounter EXCEPT ![s] = 0]
    /\ UNCHANGED <<seenCache, idx, copy, unheard, heard, window>>

RecvCopy ==
    /\ copy # NoFrame
    /\ HandleBroadcast(copy)
    /\ copy' = NoFrame
    /\ UNCHANGED <<seqCounter, unheard>>

Age ==
    /\ seenCache' = [i \in Ring |-> [seenCache[i] EXCEPT !.age = Older(@)]]
    /\ window' = [k \in DOMAIN window |-> [window[k] EXCEPT !.age = Older(@)]]
    /\ UNCHANGED <<seqCounter, idx, copy, unheard, heard>>

-----------------------------------------------------------------------------

SeenInit ==
    /\ seqCounter = [s \in Sender |-> 0]
    /\ seenCache = [i \in Ring |-> NoEntry]
    /\ idx = 0
    /\ copy = NoFrame
    /\ unheard = MaxUnheard
    /\ heard = NoSender
    /\ window = << >>

SeenNext ==
    \/ \E s \in Sender : SendBroadcast(s) \/ SendUnicast(s) \/ Restart(s)
    \/ RecvCopy \/ CleanCache \/ Age

\* Neighbours go on sending beacons, time passes.
SeenSpec == SeenInit /\ [][SeenNext]_seenVars /\ WF_seenVars(Age) /\ \A s \in Sender : WF_seenVars(SendBroadcast(s))

-----------------------------------------------------------------------------
(* Properties.                                                             *)

\* Every variable keeps its type.
SeenTypeOK ==
    /\ seqCounter \in [Sender -> 0..(Seqs - 1)]
    /\ seenCache \in [Ring -> [src : Sender \cup {NoSender}, seq : 0..(Seqs - 1),
                               age : 0..(Ttl + 1), valid : BOOLEAN]]
    /\ idx \in Ring
    /\ copy \in [src : Sender \cup {NoSender}, seq : 0..(Seqs - 1)]
    /\ unheard \in 0..MaxUnheard /\ heard \in Sender \cup {NoSender}
    /\ Len(window) <= CacheSize

\* What was handled less than Ttl ago, among the last CacheSize broadcasts.
Recent(f) == \E k \in DOMAIN window : window[k].src = f.src /\ window[k].seq = f.seq /\ window[k].age < Ttl

\* The ring, the expiry on lookup and the clean-up of update() together are
\* that window: a second copy is dropped while it is there, and nothing is
\* dropped that is not (Router.cpp:187-210, 243-249).
DropsTheRecent == \A s \in Sender, n \in 0..(Seqs - 1) :
    LET f == [src |-> s, seq |-> n] IN IsFrameSeen(f) <=> Recent(f)

\* A neighbour that goes on sending is heard again and again, although each
\* restart takes it back to numbers that are in the cache (MeshNetwork.cpp:391-395).
HeardAgain == \A s \in Sender : []<>(heard = s)
=============================================================================
