---------------------------- MODULE MCSessionCas ----------------------------
(* An instance of SessionCas for TLC: a dataset and an operation computed     *)
(* from it; both fit into the first session, not into the second.             *)
EXTENDS SessionCas

CONSTANTS s1, s2, d1, o1

MCSource == [r \in References |-> IF r = o1 THEN d1 ELSE NoSource]
MCSize   == [r \in References |-> IF r = o1 THEN 2 ELSE 1]
MCBytes  == [s \in Sessions |-> IF s = s1 THEN 3 ELSE 2]
=============================================================================
