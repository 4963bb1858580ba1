------------------------------ MODULE MCService ------------------------------
(* Instances of Service for TLC: one registration, an execution that uses its *)
(* dataset and one that uses none.                                            *)
EXTENDS Service

CONSTANTS d1, e1, e2

MCSource == [r \in Executions |-> IF r = e1 THEN d1 ELSE NoSource]
=============================================================================
