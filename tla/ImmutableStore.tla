--------------------------- MODULE ImmutableStore ---------------------------
(***************************************************************************)
(* What shared/session_cas.py promises to its callers: per session an      *)
(* immutable store whose references are absent, live, or corrupt for good, *)
(* and expire together when the session closes.  An operation is handed    *)
(* out only together with a live source dataset.                           *)
(***************************************************************************)
CONSTANTS Sessions, References, SourceOf, NoSource

VARIABLES status, reply

vars == <<status, reply>>

Status == {"absent", "live", "corrupt", "expired"}
Refusals == {"not_found", "scope_denied", "corrupt", "cache_full", "publication_failed"}
NoReply == [session |-> NoSource, ref |-> NoSource, code |-> "none"]

Reply(s, r, c) == reply' = [session |-> s, ref |-> r, code |-> c]

\* The reference and the dataset it was computed from.
Needed(r) == {r} \cup (IF SourceOf[r] = NoSource THEN {} ELSE {SourceOf[r]})

Live(s, r) == \A n \in Needed(r) : status[s][n] = "live"

Init ==
    /\ status = [s \in Sessions |-> [r \in References |-> "absent"]]
    /\ reply = NoReply

\* A reference becomes live, or already is, and is reported published.
Publish(s, r) ==
    /\ status[s][r] \in {"absent", "live"}
    /\ \A n \in Needed(r) \ {r} : status[s][n] = "live"
    /\ status' = [status EXCEPT ![s][r] = "live"]
    /\ Reply(s, r, "ok")

Serve(s, r) ==
    /\ Live(s, r)
    /\ Reply(s, r, "ok")
    /\ UNCHANGED status

\* Verification failed: some of what was needed is corrupt from now on.
Lose(s, r) ==
    /\ \E R \in SUBSET Needed(r) :
        /\ R # {}
        /\ \A n \in R : status[s][n] # "expired"
        /\ status' = [status EXCEPT ![s] = [n \in References |->
                         IF n \in R THEN "corrupt" ELSE status[s][n]]]
    /\ Reply(s, r, "corrupt")

\* A reference that is live with its source is never denied or called unknown.
Refuse(s, r) ==
    /\ \E c \in Refusals :
        /\ Live(s, r) => c \in {"cache_full", "publication_failed"}
        /\ Reply(s, r, c)
    /\ UNCHANGED status

Expire(s) ==
    /\ status' = [status EXCEPT ![s] = [r \in References |-> "expired"]]
    /\ UNCHANGED reply

Next ==
    \E s \in Sessions :
        \/ Expire(s)
        \/ \E r \in References : Publish(s, r) \/ Serve(s, r) \/ Lose(s, r) \/ Refuse(s, r)

Spec == Init /\ [][Next]_vars
=============================================================================
