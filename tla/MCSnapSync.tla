----------------------------- MODULE MCSnapSync -----------------------------
(* SnapSync for TLC: what there is to see changes every second tick.        *)
EXTENDS SnapSync

MCWorld == [tick \in Tick |-> (tick \div 2) % 2]
=============================================================================
