-------------------------- MODULE SessionLifecycle --------------------------
(***************************************************************************)
(* The life of session directories under one state root: creation and      *)
(* close() in shared/session_cas.py, locking, removal and orphan cleanup   *)
(* in shared/_posix_local_host.py.                                         *)
(*                                                                         *)
(* Each member of Sessions is one SessionCas object in some process of the *)
(* user; all use the same state root and run concurrently.  Starting one   *)
(* first cleans up orphans of the others.  A process may be lost at any    *)
(* step.  Session names are random and never used twice.                   *)
(*                                                                         *)
(* flock[t] is the lock on the inode of t's lock file, which outlives the  *)
(* file's name.  shutil.rmtree removes members one at a time, in the order *)
(* the directory lists them.                                               *)
(***************************************************************************)
EXTENDS Integers, FiniteSets

CONSTANTS
    Sessions,
    Nobody

ASSUME LifecycleAssumption == Nobody \notin Sessions

VARIABLES
    pc,         \* control point of each session object
    todo,       \* directories still to be looked at by its cleanup
    target,     \* the directory its cleanup is working on
    exists,     \* sessions whose directory exists
    members,    \* what it contains
    flock,      \* who holds the lock of each session
    old,        \* sessions whose marker is older than the orphan age
    stalled     \* sessions whose marker grew that old before they held their lock

vars == <<pc, todo, target, exists, members, flock, old, stalled>>

Member == {"content", "marker", "lock"}
Creating == {"creating", "marking", "locking_file", "opening", "flocking"}
Step == {"start", "scanning", "claiming", "locking", "verifying", "reclaiming"}
        \cup Creating
        \cup {"live", "closing", "undoing", "closed", "failed", "crashed"}

\* The type of the directories, the locks and the sessions' control state.
TypeOK ==
    /\ pc \in [Sessions -> Step]
    /\ todo \in [Sessions -> SUBSET Sessions]
    /\ target \in [Sessions -> Sessions \cup {Nobody}]
    /\ exists \subseteq Sessions
    /\ members \in [Sessions -> SUBSET Member]
    /\ flock \in [Sessions -> Sessions \cup {Nobody}]
    /\ old \subseteq Sessions /\ stalled \subseteq old
    /\ \A s \in Sessions : members[s] # {} => s \in exists

Init ==
    /\ pc = [s \in Sessions |-> "start"]
    /\ todo = [s \in Sessions |-> {}]
    /\ target = [s \in Sessions |-> Nobody]
    /\ exists = {}
    /\ members = [s \in Sessions |-> {}]
    /\ flock = [s \in Sessions |-> Nobody]
    /\ old = {} /\ stalled = {}

Goto(s, step) == pc' = [pc EXCEPT ![s] = step]

-----------------------------------------------------------------------------
(* cleanup_orphan_sessions, run by every new session *)

ListCandidates(s) ==
    /\ pc[s] = "start"
    /\ todo' = [todo EXCEPT ![s] = exists]
    /\ Goto(s, "scanning")
    /\ UNCHANGED <<target, exists, members, flock, old, stalled>>

\* The next candidate is released, and the loop goes on.
NextCandidate(s) ==
    /\ Goto(s, "scanning")
    /\ target' = [target EXCEPT ![s] = Nobody]

\* Mutant: the age of the marker is not looked at.
ExamineAnyAge(s) ==
    /\ pc[s] = "scanning"
    /\ \E t \in todo[s] :
        /\ todo' = [todo EXCEPT ![s] = @ \ {t}]
        /\ IF t \in exists /\ "marker" \in members[t]
           THEN Goto(s, "claiming") /\ target' = [target EXCEPT ![s] = t]
           ELSE UNCHANGED <<pc, target>>
    /\ UNCHANGED <<exists, members, flock, old, stalled>>

\* The marker must exist, be valid, and be older than the orphan age.
Examine(s) ==
    /\ pc[s] = "scanning"
    /\ \E t \in todo[s] :
        /\ todo' = [todo EXCEPT ![s] = @ \ {t}]
        /\ IF t \in exists /\ "marker" \in members[t] /\ t \in old
           THEN Goto(s, "claiming") /\ target' = [target EXCEPT ![s] = t]
           ELSE UNCHANGED <<pc, target>>
    /\ UNCHANGED <<exists, members, flock, old, stalled>>

\* acquire_session_lock(blocking=False) opens the lock file ...
OpenLock(s) ==
    /\ pc[s] = "claiming"
    /\ IF "lock" \in members[target[s]] THEN Goto(s, "locking") /\ UNCHANGED target
       ELSE NextCandidate(s)
    /\ UNCHANGED <<todo, exists, members, flock, old, stalled>>

\* Mutant: the result of the non-blocking lock is ignored.
TryLockIgnored(s) ==
    /\ pc[s] = "locking"
    /\ Goto(s, "verifying")
    /\ flock' = [flock EXCEPT ![target[s]] = IF @ = Nobody THEN s ELSE @]
    /\ UNCHANGED <<todo, target, exists, members, old, stalled>>

\* ... and then tries to lock it.
TryLock(s) ==
    /\ pc[s] = "locking"
    /\ IF flock[target[s]] = Nobody
       THEN /\ flock' = [flock EXCEPT ![target[s]] = s]
            /\ Goto(s, "verifying")
            /\ UNCHANGED target
       ELSE NextCandidate(s) /\ UNCHANGED flock
    /\ UNCHANGED <<todo, exists, members, old, stalled>>

\* Mutant: the early "continue" keeps the lock.
VerifyClaimLeaks(s) ==
    /\ pc[s] = "verifying"
    /\ IF target[s] \in exists THEN Goto(s, "reclaiming") /\ UNCHANGED target
       ELSE NextCandidate(s)
    /\ UNCHANGED <<todo, exists, members, flock, old, stalled>>

\* The directory may be gone by now: its lock file was opened before that.
VerifyClaim(s) ==
    /\ pc[s] = "verifying"
    /\ IF target[s] \in exists
       THEN Goto(s, "reclaiming") /\ UNCHANGED <<target, flock>>
       ELSE NextCandidate(s) /\ flock' = [flock EXCEPT ![target[s]] = Nobody]
    /\ UNCHANGED <<todo, exists, members, old, stalled>>

\* One step of shutil.rmtree on t.
RemoveMember(t) ==
    /\ t \in exists
    /\ \E m \in members[t] : members' = [members EXCEPT ![t] = @ \ {m}]
    /\ UNCHANGED exists

RemoveLast(t) ==
    /\ t \in exists /\ members[t] = {}
    /\ exists' = exists \ {t}
    /\ UNCHANGED members

ReclaimMember(s) ==
    /\ pc[s] = "reclaiming"
    /\ RemoveMember(target[s])
    /\ UNCHANGED <<pc, todo, target, flock, old, stalled>>

\* rmtree is done or fails; the lock is released in either case.
ReclaimEnds(s) ==
    /\ pc[s] = "reclaiming"
    /\ RemoveLast(target[s]) \/ UNCHANGED <<exists, members>>
    /\ NextCandidate(s)
    /\ flock' = [flock EXCEPT ![target[s]] = Nobody]
    /\ UNCHANGED <<todo, old, stalled>>

-----------------------------------------------------------------------------
(* SessionCas.__init__ after the cleanup *)

CreateDirectory(s) ==
    /\ pc[s] = "scanning" /\ todo[s] = {}
    /\ exists' = exists \cup {s}
    /\ Goto(s, "creating")
    /\ UNCHANGED <<todo, target, members, flock, old, stalled>>

\* A member is written; if a cleanup took the directory away, creation fails.
WriteMember(s, m, next) ==
    /\ IF s \in exists
       THEN members' = [members EXCEPT ![s] = @ \cup {m}] /\ Goto(s, next)
       ELSE UNCHANGED members /\ Goto(s, "undoing")
    /\ UNCHANGED <<todo, target, exists, flock, old, stalled>>

CreateContent(s) == pc[s] = "creating" /\ WriteMember(s, "content", "marking")
WriteMarker(s)   == pc[s] = "marking" /\ WriteMember(s, "marker", "locking_file")
WriteLockFile(s) == pc[s] = "locking_file" /\ WriteMember(s, "lock", "opening")

OpenOwnLock(s) ==
    /\ pc[s] = "opening"
    /\ Goto(s, IF "lock" \in members[s] THEN "flocking" ELSE "undoing")
    /\ UNCHANGED <<todo, target, exists, members, flock, old, stalled>>

\* Mutant: the session starts although it did not get its lock.
LockOwnUnchecked(s) ==
    /\ pc[s] = "flocking"
    /\ Goto(s, "live")
    /\ UNCHANGED <<todo, target, exists, members, flock, old, stalled>>

\* blocking=True: waits for whoever holds the lock.
LockOwn(s) ==
    /\ pc[s] = "flocking"
    /\ flock[s] = Nobody
    /\ flock' = [flock EXCEPT ![s] = s]
    /\ Goto(s, "live")
    /\ UNCHANGED <<todo, target, exists, members, old, stalled>>

\* An exception while creating: no lock is held yet, the directory is removed.
CreateFails(s) ==
    /\ pc[s] \in Creating
    /\ Goto(s, "undoing")
    /\ UNCHANGED <<todo, target, exists, members, flock, old, stalled>>

UndoMember(s) ==
    /\ pc[s] = "undoing"
    /\ RemoveMember(s)
    /\ UNCHANGED <<pc, todo, target, flock, old, stalled>>

UndoEnds(s) ==
    /\ pc[s] = "undoing"
    /\ RemoveLast(s) \/ UNCHANGED <<exists, members>>
    /\ Goto(s, "failed")
    /\ UNCHANGED <<todo, target, flock, old, stalled>>

-----------------------------------------------------------------------------
(* SessionCas.close: remove_locked_session_tree *)

CloseBegin(s) ==
    /\ pc[s] = "live"
    /\ IF s \in exists /\ "marker" \in members[s]
       THEN Goto(s, "closing") /\ UNCHANGED flock
       ELSE Goto(s, "closed") /\ flock' = [flock EXCEPT ![s] = Nobody]
    /\ UNCHANGED <<todo, target, exists, members, old, stalled>>

CloseMember(s) ==
    /\ pc[s] = "closing"
    /\ RemoveMember(s)
    /\ UNCHANGED <<pc, todo, target, flock, old, stalled>>

CloseEnds(s) ==
    /\ pc[s] = "closing"
    /\ RemoveLast(s) \/ UNCHANGED <<exists, members>>
    /\ Goto(s, "closed")
    /\ flock' = [flock EXCEPT ![s] = Nobody]
    /\ UNCHANGED <<todo, target, old, stalled>>

-----------------------------------------------------------------------------
(* Process loss and time *)

Ended == {"closed", "failed", "crashed"}

\* The kernel releases every lock of a lost process.
Crash(s) ==
    /\ pc[s] \notin Ended \cup {"start"}
    /\ Goto(s, "crashed")
    /\ flock' = [t \in Sessions |-> IF flock[t] = s THEN Nobody ELSE flock[t]]
    /\ UNCHANGED <<todo, target, exists, members, old, stalled>>

\* More than ORPHAN_SESSION_AGE_SECONDS pass since the marker was written.
Age(s) ==
    /\ "marker" \in members[s]
    /\ old' = old \cup {s}
    /\ stalled' = IF pc[s] \in Creating \cup {"undoing"} THEN stalled \cup {s} ELSE stalled
    /\ UNCHANGED <<pc, todo, target, exists, members, flock>>

CleanupNext(s) ==
    \/ ListCandidates(s) \/ Examine(s) \/ OpenLock(s) \/ TryLock(s)
    \/ VerifyClaim(s) \/ ReclaimMember(s) \/ ReclaimEnds(s)

OwnNext(s) ==
    \/ CreateDirectory(s) \/ CreateContent(s) \/ WriteMarker(s) \/ WriteLockFile(s)
    \/ OpenOwnLock(s) \/ LockOwn(s) \/ CreateFails(s) \/ UndoMember(s) \/ UndoEnds(s)
    \/ CloseBegin(s) \/ CloseMember(s) \/ CloseEnds(s)

Next == \E s \in Sessions : CleanupNext(s) \/ OwnNext(s) \/ Crash(s) \/ Age(s)

Spec == Init /\ [][Next]_vars

-----------------------------------------------------------------------------
(* Properties *)

\* A live session keeps its whole directory and its lock, whatever cleanups,
\* crashes and closes of other sessions do meanwhile, unless a day passed while
\* it was being created.
LiveIntact ==
    \A s \in Sessions \ stalled : pc[s] = "live" =>
        s \in exists /\ members[s] = Member /\ flock[s] = s

\* Who is deleting t's tree right now.
Removers(t) ==
    {s \in Sessions : \/ pc[s] = "reclaiming" /\ target[s] = t
                      \/ pc[s] \in {"closing", "undoing"} /\ s = t}

\* No two sessions delete one tree at the same time.
OneRemover == \A t \in Sessions \ stalled : \A s, u \in Removers(t) : s = u

\* A cleanup deletes only the directory of a session that has ended.
ReclaimOnlyEnded ==
    \A s \in Sessions :
        pc[s] = "reclaiming" /\ target[s] \notin stalled => pc[target[s]] \in Ended

\* Orphan cleanup and close(): a directory has one deleter, and a cleanup deletes
\* none of a session that is starting, live or closing.
RemovalExclusive == OneRemover /\ ReclaimOnlyEnded

\* Locks are held by live or closing owners and by a cleanup at work on its
\* target, by nobody else: no early exit of the cleanup loop keeps one.
NoLockLeak ==
    \A t, s \in Sessions : flock[t] = s =>
        \/ s = t /\ pc[s] \in {"live", "closing"}
        \/ target[s] = t /\ pc[s] \in {"verifying", "reclaiming"}
=============================================================================
