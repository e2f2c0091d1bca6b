------------------------------- MODULE LogFile -------------------------------
(***************************************************************************)
(* What a log promises: it is a sequence of whole lines, whoever writes    *)
(* them, and the file is a growing first part of it until the disk fails.  *)
(***************************************************************************)
EXTENDS Integers, Sequences

CONSTANTS Lines, Cell

VARIABLES logged, file, failed

vars == <<logged, file, failed>>

Init == logged = <<>> /\ file = <<>> /\ failed = FALSE

Log ==
    /\ \E line \in Lines : logged' = logged \o line
    /\ UNCHANGED <<file, failed>>

Flush ==
    /\ ~failed
    /\ \E n \in Len(file) .. Len(logged) : file' = SubSeq(logged, 1, n)
    /\ UNCHANGED <<logged, failed>>

Fail ==
    /\ failed' = TRUE
    /\ file' \in Seq(Cell)
    /\ UNCHANGED logged

Next == Log \/ Flush \/ Fail

Spec == Init /\ [][Next]_vars
=============================================================================
