------------------------ MODULE MCSessionLifecycle ------------------------
(* Sessions of one state root on either host; the other one rests. *)
EXTENDS WindowsSessions, TLC

VARIABLE host

SessionSymmetry == Permutations(Sessions)

MCInit == host \in {"posix", "windows"} /\ Init /\ WinInit

MCNext ==
    /\ UNCHANGED host
    /\ \/ host = "posix" /\ Next /\ UNCHANGED winVars
       \/ host = "windows" /\ WinNext /\ UNCHANGED vars

MCSpec == MCInit /\ [][MCNext]_<<host, vars, winVars>>
=============================================================================
