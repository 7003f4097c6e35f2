----------------------------- MODULE BatteryNode -----------------------------
(***************************************************************************)
(* BatteryNode.cpp: a node is a parent, which runs the DownlinkManager of  *)
(* Downlink.tla, or a battery node, which sleeps and keeps its state in    *)
(* RTC memory (s_batteryState) over deep sleep and in NVS over a reset.    *)
(* MeshNetwork keeps the key epoch in the same state.  The frames between  *)
(* the two are a TODO in the code (_txUplink, _rxWindow), so that parent   *)
(* and child share nothing here.                                           *)
(*                                                                         *)
(* The application's setup() calls MeshNetwork::begin and                  *)
(* BatteryNode::begin, in any order; loop() may rotate the epoch.  An      *)
(* application may go on although MeshNetwork::begin failed, or try again. *)
(***************************************************************************)
EXTENDS Downlink

CONSTANTS
    Parent,
    MaxParents, \* BATTERY_MAX_PARENTS
    Interval,   \* the sleep intervals an application may configure
    Time,       \* the times a parent may send
    Epochs,     \* values of an epoch, 256 in the code
    MaxResets,  \* bound: resets that clear RTC memory
    MaxFailures \* bound: writes to NVS that fail

ASSUME BatteryAssumption ==
    /\ IsFiniteSet(Parent) /\ MaxParents \in Nat \ {0}
    /\ Interval \subseteq Nat /\ Time \subseteq Nat
    /\ Epochs \in Nat \ {0} /\ MaxResets \in Nat /\ MaxFailures \in Nat

VARIABLES
    role,       \* "parent" or "battery", for good
    power,      \* "setup", "loop" or "asleep"
    state,      \* s_batteryState
    nvs,        \* the blob "state" of NVS
    epoch,      \* MeshNetwork::_epoch
    began,      \* of "mesh" and "battery", the begins that went well, and "no mesh"
                \* after a failed one
    resets,     \* resets left
    failures,   \* failed writes left
    before,     \* (history) the state the node went to sleep with, Unknown if the
                \* write failed or it was reset
    parents     \* (history) the parents it was told of, Unknown if a write failed

nodeVars == <<power, state, nvs, epoch, began, resets, failures, before, parents>>

Zeroed == [parents |-> << >>, lastEpoch |-> 0, interval |-> 0, meshTime |-> 0]
Unknown == [Zeroed EXCEPT !.parents = <<"unknown">>]
NoBlob == Unknown

-----------------------------------------------------------------------------
(* The state and its copies.                                               *)

\* Fault: the blob is written when parents change only.
SaveParents(s) ==
    IF s.parents = nvs.parents THEN UNCHANGED <<nvs, failures>>
    ELSE nvs' = s /\ UNCHANGED failures

\* _saveStateToNVS does not tell whether the write went well.
Save(s) ==
    \/ nvs' = s /\ UNCHANGED failures
    \/ failures > 0 /\ failures' = failures - 1 /\ UNCHANGED nvs

\* Fault: the RTC memory is trusted.
LoadNothing(s) == s

\* _loadStateFromNVS: the blob, if there is one, replaces all of the state.
Load(s) == IF nvs = NoBlob THEN s ELSE nvs

\* addParentCandidate: the last candidate yields if there is no room.
WithParent(s, p) ==
    [s EXCEPT !.parents = IF Len(@) < MaxParents THEN Append(@, p)
                          ELSE [@ EXCEPT ![MaxParents] = p]]

-----------------------------------------------------------------------------
(* A battery node.                                                         *)

\* MeshNetwork::begin, for a battery node.
MeshBegin ==
    /\ power = "setup" /\ "mesh" \notin began
    /\ began' = (began \ {"no mesh"}) \cup {"mesh"}
    /\ epoch' = state.lastEpoch
    /\ UNCHANGED <<power, state, nvs, resets, failures, before, parents>>

\* It fails before it restores the epoch: no keys or no radio.
MeshBeginFails ==
    /\ power = "setup" /\ began \cap {"mesh", "no mesh"} = {}
    /\ began' = began \cup {"no mesh"}
    /\ UNCHANGED <<power, state, nvs, epoch, resets, failures, before, parents>>

\* BatteryNode::begin: the interval is set, and then NVS is loaded over it.
Begin(i) ==
    /\ power = "setup" /\ "battery" \notin began
    /\ began' = began \cup {"battery"}
    /\ state' = Load([state EXCEPT !.interval = i])
    /\ UNCHANGED <<power, nvs, epoch, resets, failures, before, parents>>

SetupEnds ==
    /\ power = "setup" /\ "battery" \in began
    /\ began \cap {"mesh", "no mesh"} # {}
    /\ power' = "loop"
    /\ UNCHANGED <<state, nvs, epoch, began, resets, failures, before, parents>>

AddParentCandidate(p) ==
    /\ power = "loop"
    /\ state' = WithParent(state, p)
    /\ Save(state')
    /\ parents' = IF failures' = failures THEN state'.parents ELSE Unknown.parents
    /\ UNCHANGED <<power, epoch, began, resets, before>>

SetMeshTime(t) ==
    /\ power = "loop"
    /\ state' = [state EXCEPT !.meshTime = t]
    /\ UNCHANGED <<power, nvs, epoch, began, resets, failures, before, parents>>

\* _rotateEpoch, in battery mode: loop() does nothing without a mesh.
RotateEpoch ==
    /\ power = "loop" /\ "mesh" \in began
    /\ epoch' = (epoch + 1) % Epochs
    /\ state' = [state EXCEPT !.lastEpoch = epoch']
    /\ UNCHANGED <<power, nvs, began, resets, failures, before, parents>>

\* enterDeepSleep, at the end of runCycle.
EnterDeepSleep ==
    /\ power = "loop"
    /\ Save(state)
    /\ power' = "asleep"
    /\ before' = IF failures' = failures THEN state ELSE Unknown
    /\ UNCHANGED <<state, epoch, began, resets, parents>>

\* The timer ends the sleep: RTC memory is kept, all other memory is not.
Wake ==
    /\ power = "asleep"
    /\ power' = "setup" /\ epoch' = 0 /\ began' = {}
    /\ UNCHANGED <<state, nvs, resets, failures, before, parents>>

\* Power is lost, or the node is reset: RTC memory starts again from zero.
Reset ==
    /\ resets > 0 /\ resets' = resets - 1
    /\ power' = "setup" /\ epoch' = 0 /\ began' = {}
    /\ state' = Zeroed
    /\ before' = Unknown
    /\ UNCHANGED <<nvs, failures, parents>>

-----------------------------------------------------------------------------

Init ==
    /\ DownInit
    /\ role \in {"parent", "battery"}
    /\ power = "setup" /\ began = {}
    /\ state = Zeroed /\ nvs = NoBlob /\ epoch = 0
    /\ resets = MaxResets /\ failures = MaxFailures
    /\ before = Unknown /\ parents = << >>

NodeNext ==
    \/ MeshBegin \/ MeshBeginFails \/ SetupEnds
    \/ \E i \in Interval : Begin(i)
    \/ \E p \in Parent : AddParentCandidate(p)
    \/ \E t \in Time : SetMeshTime(t)
    \/ RotateEpoch
    \/ EnterDeepSleep \/ Wake \/ Reset

Next ==
    \/ role = "parent" /\ DownNext /\ UNCHANGED <<role, nodeVars>>
    \/ role = "battery" /\ NodeNext /\ UNCHANGED <<role, downVars>>

Spec == Init /\ [][Next]_<<role, nodeVars, downVars>>

-----------------------------------------------------------------------------
(* Properties.                                                             *)

\* A node that slept goes on where it stopped, in whichever order it begins and
\* although NVS is loaded over the newer RTC memory: parents, mesh time and
\* epoch are those of before, as long as NVS could be written; without a mesh the
\* epoch still is in the state, for the next start
\* (BatteryNode.cpp:11-15, MeshNetwork.cpp:119-123).
SleepLosesNothing ==
    [][ power = "setup" /\ power' = "loop" /\ before # Unknown
        => state = before /\ ("mesh" \in began => epoch = before.lastEpoch) ]_nodeVars

\* The parents a node was told of are those it knows after any sleep or reset,
\* as long as NVS could be written (BatteryNode.cpp:34-46).
ParentsSurvive ==
    power = "loop" /\ parents # Unknown.parents => state.parents = parents
=============================================================================
