--------------------------- MODULE ReliableChannel ---------------------------
(***************************************************************************)
(* What the transport promises the layers above it for vital chunks: each  *)
(* end hands up the payloads the other queued, in order, each once.        *)
(* Payload k is the k-th one queued.                                       *)
(***************************************************************************)
EXTENDS Naturals, Sequences

VARIABLES
    sent,  \* sent[e]: how many payloads e has queued
    got    \* got[e]: the payloads e has been handed

Ends == {"client", "server"}

OtherEnd(e) == CHOOSE f \in Ends : f # e

Init ==
    /\ sent = [e \in Ends |-> 0]
    /\ got = [e \in Ends |-> <<>>]

SendNext(e) ==
    /\ sent' = [sent EXCEPT ![e] = @ + 1]
    /\ UNCHANGED got

HandUpNext(e) ==
    /\ Len(got[e]) < sent[OtherEnd(e)]
    /\ got' = [got EXCEPT ![e] = Append(@, Len(@) + 1)]
    /\ UNCHANGED sent

Next == \E e \in Ends : SendNext(e) \/ HandUpNext(e)

Spec == Init /\ [][Next]_<<sent, got>>
=============================================================================
