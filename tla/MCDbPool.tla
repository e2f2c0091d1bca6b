------------------------------ MODULE MCDbPool ------------------------------
(* DbPool for TLC.                                                          *)
EXTENDS DbPool
=============================================================================
