----------------------------- MODULE SessionCas -----------------------------
(***************************************************************************)
(* shared/session_cas.py: the content-addressed store of one session, and  *)
(* the registry shared by the sessions of a process.                       *)
(*                                                                         *)
(* Every public method holds the session's mutex from start to end, so     *)
(* each is one action.  A reference is the digest of its record: two       *)
(* entries that verify under one reference have the same content, so an    *)
(* entry on disk is "good" (verifies), "bad" or "absent".  The directory   *)
(* belongs to the user: other programs may change or remove its entries    *)
(* between any two steps.                                                  *)
(***************************************************************************)
EXTENDS Integers, FiniteSets, FiniteSetsExt

CONSTANTS
    Sessions,
    Datasets,       \* dataset references
    Operations,     \* operation references
    SourceOf,       \* the dataset an operation was computed from, or NoSource
    Size,           \* bytes of each entry
    SessionBytes,   \* CasLimits.session_bytes of each session
    NoSource

References == Datasets \cup Operations

ASSUME CasAssumption ==
    /\ Datasets \cap Operations = {}
    /\ IsFiniteSet(References)
    /\ NoSource \notin References \cup Sessions
    /\ SourceOf \in [References -> Datasets \cup {NoSource}]
    /\ \A d \in Datasets : SourceOf[d] = NoSource
    /\ Size \in [References -> Nat \ {0}]
    /\ SessionBytes \in [Sessions -> Nat]

VARIABLES
    closed,         \* sessions whose close() ran
    references,     \* _references
    corrupt,        \* _corrupt_references
    used,           \* _used_bytes
    disk,           \* the entry under datasets/ or operations/
    registry,       \* SessionScopeRegistry._sessions_by_reference
    reply           \* what the last method call returned or raised

vars == <<closed, references, corrupt, used, disk, registry, reply>>

Code == {"none", "ok", "not_found", "scope_denied", "corrupt", "cache_full", "publication_failed"}
NoReply == [session |-> NoSource, ref |-> NoSource, code |-> "none"]

\* The type of the store's state and of its last answer.
TypeOK ==
    /\ closed \subseteq Sessions
    /\ references \in [Sessions -> SUBSET References]
    /\ corrupt \in [Sessions -> SUBSET References]
    /\ used \in [Sessions -> Nat] /\ \A s \in Sessions : used[s] <= SessionBytes[s]
    /\ disk \in [Sessions -> [References -> {"absent", "good", "bad"}]]
    /\ registry \in [References -> SUBSET Sessions]
    /\ reply \in [session : Sessions \cup {NoSource}, ref : References \cup {NoSource}, code : Code]

Init ==
    /\ closed = {}
    /\ references = [s \in Sessions |-> {}]
    /\ corrupt = [s \in Sessions |-> {}]
    /\ used = [s \in Sessions |-> 0]
    /\ disk = [s \in Sessions |-> [r \in References |-> "absent"]]
    /\ registry = [r \in References |-> {}]
    /\ reply = NoReply

-----------------------------------------------------------------------------
(* Internal helpers *)

Reply(s, r, c) == reply' = [session |-> s, ref |-> r, code |-> c]

\* Mutant: a reference once found corrupt is read again.
ResolveRetries(s, r) ==
    IF s \in closed THEN "not_found"
    ELSE IF r \in references[s] THEN "ok"
    ELSE IF registry[r] \ {s} # {} THEN "scope_denied"
    ELSE "not_found"

\* _resolve, without the path it returns.
Resolve(s, r) ==
    IF s \in closed THEN "not_found"
    ELSE IF r \in corrupt[s] THEN "corrupt"
    ELSE IF r \in references[s] THEN "ok"
    ELSE IF registry[r] \ {s} # {} THEN "scope_denied"
    ELSE "not_found"

\* A verification: the code it ends with ("invalid" for any other exception)
\* and the references it sent to quarantine on the way.
Verdict(c, lost) == [code |-> c, lost |-> lost]

\* load_dataset, as a method and as a part of verifying an operation.
DatasetVerdict(s, d) ==
    IF Resolve(s, d) # "ok" THEN Verdict(Resolve(s, d), {})
    ELSE IF disk[s][d] = "good" THEN Verdict("ok", {})
    ELSE Verdict("corrupt", {d})

\* Mutant: the stored source dataset is not consulted.
DirectoryVerdictsNoSource(s, r, entry) ==
    IF entry = "good" THEN {Verdict("ok", {})} ELSE {Verdict("invalid", {})}

\* _load_dataset_directory and _load_operation_directory on a directory that
\* holds the given entry: the source dataset is loaded after the operation's own
\* record and members were read, and before they are reconciled with it.
DirectoryVerdicts(s, r, entry) ==
    LET source == IF SourceOf[r] = NoSource THEN Verdict("ok", {})
                  ELSE DatasetVerdict(s, SourceOf[r])
    IN  (IF entry = "good" THEN {source} ELSE {Verdict("invalid", {})})
        \cup (IF entry = "bad" /\ source.code # "ok" THEN {source} ELSE {})

\* _quarantine of each of these, found among these entries: remembered, and moved
\* away unless the move fails.
Quarantine(s, lost, entries) ==
    /\ corrupt' = [corrupt EXCEPT ![s] = @ \cup lost]
    /\ \E kept \in SUBSET lost :
        disk' = [disk EXCEPT ![s] = [r \in References |->
                    IF r \in lost \ kept THEN "absent" ELSE entries[r]]]

Fits(s, r) == used[s] + Size[r] <= SessionBytes[s]

\* Mutant: a republished reference is charged again.
RegisterAgain(s, r) ==
    IF ~Fits(s, r)
    THEN Reply(s, r, "cache_full") /\ UNCHANGED <<references, used, registry>>
    ELSE /\ references' = [references EXCEPT ![s] = @ \cup {r}]
         /\ used' = [used EXCEPT ![s] = @ + Size[r]]
         /\ registry' = [registry EXCEPT ![r] = @ \cup {s}]
         /\ Reply(s, r, "ok")

\* Mutant: _register takes an entry found on disk without its byte limit.
RegisterUnbounded(s, r) ==
    /\ references' = [references EXCEPT ![s] = @ \cup {r}]
    /\ used' = [used EXCEPT ![s] = IF r \in references[s] THEN @ ELSE @ + Size[r]]
    /\ registry' = [registry EXCEPT ![r] = @ \cup {s}]
    /\ Reply(s, r, "ok")

\* _register, and the answer of the publication that called it.
Register(s, r) ==
    IF r \in references[s]
    THEN Reply(s, r, "ok") /\ UNCHANGED <<references, used, registry>>
    ELSE IF ~Fits(s, r)
    THEN Reply(s, r, "cache_full") /\ UNCHANGED <<references, used, registry>>
    ELSE /\ references' = [references EXCEPT ![s] = @ \cup {r}]
         /\ used' = [used EXCEPT ![s] = @ + Size[r]]
         /\ registry' = [registry EXCEPT ![r] = @ \cup {s}]
         /\ Reply(s, r, "ok")

Refuse(s, r, c) ==
    /\ Reply(s, r, c)
    /\ UNCHANGED <<closed, references, corrupt, used, disk, registry>>

\* Verification of an entry already under its reference: register or quarantine.
Adopt(s, r, entry) ==
    \E v \in DirectoryVerdicts(s, r, entry) :
        IF v.code = "ok"
        THEN /\ Register(s, r)
             /\ disk' = [disk EXCEPT ![s][r] = entry]
             /\ UNCHANGED <<closed, corrupt>>
        ELSE /\ Quarantine(s, v.lost \cup {r}, [disk[s] EXCEPT ![r] = entry])
             /\ Reply(s, r, "corrupt")
             /\ UNCHANGED <<closed, references, used, registry>>

-----------------------------------------------------------------------------
(* Methods *)

\* An input that does not validate or exceeds a limit, a stage that cannot be
\* created or written, a rename that fails: nothing is published.
PublishFails(s, r) ==
    /\ s \notin closed
    /\ Refuse(s, r, "publication_failed")

PublishDenied(s, r) ==
    \/ s \in closed /\ Refuse(s, r, "not_found")
    \/ s \notin closed /\ r \in corrupt[s] /\ Refuse(s, r, "corrupt")

\* Something already is at the destination.
PublishExisting(s, r) ==
    /\ s \notin closed /\ r \notin corrupt[s]
    /\ disk[s][r] # "absent"
    /\ Adopt(s, r, disk[s][r])

\* Reserve, stage, verify the stage, publish it by a no-replace rename, register.
\* Another program may win the race for the destination.
PublishFresh(s, r) ==
    /\ s \notin closed /\ r \notin corrupt[s]
    /\ disk[s][r] = "absent"
    /\ \/ ~Fits(s, r) /\ Refuse(s, r, "cache_full")
       \/ /\ Fits(s, r)
          /\ \E v \in DirectoryVerdicts(s, r, "good") :
               /\ v.code # "ok"
               /\ Quarantine(s, v.lost, disk[s])
               /\ Reply(s, r, v.code)
               /\ UNCHANGED <<closed, references, used, registry>>
       \/ /\ Fits(s, r)
          /\ Verdict("ok", {}) \in DirectoryVerdicts(s, r, "good")
          /\ Register(s, r)
          /\ disk' = [disk EXCEPT ![s][r] = "good"]
          /\ UNCHANGED <<closed, corrupt>>
       \/ /\ Fits(s, r)
          /\ Verdict("ok", {}) \in DirectoryVerdicts(s, r, "good")
          /\ \E entry \in {"good", "bad"} : Adopt(s, r, entry)

LoadDataset(s, d) ==
    /\ d \in Datasets
    /\ LET v == DatasetVerdict(s, d)
       IN Quarantine(s, v.lost, disk[s]) /\ Reply(s, d, v.code)
    /\ UNCHANGED <<closed, references, used, registry>>

\* Any failure to verify, the source's included, quarantines the operation.
LoadOperation(s, o) ==
    /\ o \in Operations
    /\ IF Resolve(s, o) # "ok" THEN Refuse(s, o, Resolve(s, o))
       ELSE \E v \in DirectoryVerdicts(s, o, disk[s][o]) :
              /\ Quarantine(s, IF v.code = "ok" THEN {} ELSE v.lost \cup {o}, disk[s])
              /\ Reply(s, o, IF v.code = "ok" THEN "ok" ELSE "corrupt")
              /\ UNCHANGED <<closed, references, used, registry>>

\* Mutant: the session's references stay known to the other sessions.
CloseKeepsScope(s) ==
    /\ s \notin closed
    /\ closed' = closed \cup {s}
    /\ references' = [references EXCEPT ![s] = {}]
    /\ disk' = [disk EXCEPT ![s] = [r \in References |-> "absent"]]
    /\ UNCHANGED <<corrupt, used, registry, reply>>

\* References expire first; the directory is removed if its marker and the host
\* allow it.
Close(s) ==
    /\ s \notin closed
    /\ closed' = closed \cup {s}
    /\ registry' = [r \in References |-> registry[r] \ {s}]
    /\ references' = [references EXCEPT ![s] = {}]
    /\ \/ disk' = [disk EXCEPT ![s] = [r \in References |-> "absent"]]
       \/ UNCHANGED disk
    /\ UNCHANGED <<corrupt, used, reply>>

\* Another program of the same user changes, removes or restores an entry.
Tamper(s, r) ==
    /\ \E e \in {"absent", "good", "bad"} : disk' = [disk EXCEPT ![s][r] = e]
    /\ UNCHANGED <<closed, references, corrupt, used, registry, reply>>

Publish(s, r) == PublishFails(s, r) \/ PublishDenied(s, r) \/ PublishExisting(s, r) \/ PublishFresh(s, r)

Next ==
    \E s \in Sessions :
        \/ Close(s)
        \/ \E r \in References :
            Publish(s, r) \/ LoadDataset(s, r) \/ LoadOperation(s, r) \/ Tamper(s, r)

Spec == Init /\ [][Next]_vars

-----------------------------------------------------------------------------
(* Properties *)

\* _used_bytes is the size of what the session has registered, each reference
\* once, however often it is republished, lost from disk or quarantined; the
\* session limit bounds it.
BytesAccounted ==
    \A s \in Sessions \ closed :
        /\ used[s] = MapThenSumSet(LAMBDA r : Size[r], references[s])
        /\ used[s] <= SessionBytes[s]

ScopeExact == \A r \in References : registry[r] = {s \in Sessions : r \in references[s]}

SourceRegistered ==
    \A s \in Sessions, o \in Operations :
        o \in references[s] /\ SourceOf[o] # NoSource => SourceOf[o] \in references[s]

\* The registry names exactly the open sessions that hold a reference, so that no
\* reference of a closed session makes another session answer "scope denied", and an
\* operation is registered only in a session that also holds the dataset it was
\* computed from (_register, close, _load_operation_directory).
RegistryExact == ScopeExact /\ SourceRegistered

StatusOf(s, r) ==
    IF s \in closed THEN "expired"
    ELSE IF r \in corrupt[s] THEN "corrupt"
    ELSE IF r \in references[s] THEN "live"
    ELSE "absent"

Store == INSTANCE ImmutableStore
            WITH status <- [s \in Sessions |-> [r \in References |-> StatusOf(s, r)]]

\* The store implements ImmutableStore: corruption is final, an operation is
\* served only with a live source, a live reference is never denied, and closing
\* expires everything.
ImplementsStore == Store!Spec
=============================================================================
