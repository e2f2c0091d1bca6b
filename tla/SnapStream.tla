----------------------------- MODULE SnapStream -----------------------------
(***************************************************************************)
(* What a client may make of the snapshots of a server: the server builds  *)
(* one after the other, and the client shows some of them, never one that  *)
(* was not built, and never an older one after a newer one, until it       *)
(* enters the game anew.                                                   *)
(***************************************************************************)
EXTENDS Integers

CONSTANTS
    Shot,  \* what a snapshot may show: the round and the state of the game
    Tick   \* game ticks

Nothing == [tick |-> -1, shot |-> [round |-> -1, value |-> 0]]

VARIABLES
    built,  \* the snapshots the server has built, with their ticks
    shown   \* the snapshot the client shows

vars == <<built, shown>>

Snapshot == [tick : Tick, shot : Shot]

Before(s, t) ==
    \/ s.shot.round < t.shot.round
    \/ s.shot.round = t.shot.round /\ s.tick < t.tick

Init == built = {} /\ shown = Nothing

(* A snapshot is newer than all that were built before.                     *)
Build ==
    /\ built' # built
    /\ \E s \in built' :
         /\ s \in Snapshot
         /\ \A b \in built : Before(b, s)
         /\ built' = built \cup {s}
    /\ UNCHANGED shown

Show ==
    /\ shown' \in built
    /\ shown = Nothing \/ Before(shown, shown')
    /\ UNCHANGED built

Enter ==
    /\ shown' = Nothing
    /\ UNCHANGED built

Next == Build \/ Show \/ Enter

Spec == Init /\ [][Next]_vars
=============================================================================
