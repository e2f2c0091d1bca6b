------------------------------ MODULE MCLogging ------------------------------
(* Logging for TLC: some messages are longer than others, and a log  *)
(* that fewer steps lead to gets more of them.                              *)
EXTENDS Logging

MCLineLength == [m \in Message |-> IF m % 3 = 1 THEN 2 ELSE 1]

MCMaxSent ==
    [use \in Uses |-> IF use = "tee" THEN 3 ELSE 2]
=============================================================================
