--------------------------- MODULE WindowsSessions ---------------------------
(***************************************************************************)
(* The same life of session directories over shared/_windows_local_host.py.*)
(* The lock of a session is a file outside its directory that is never     *)
(* deleted; a directory is claimed by renaming it to a tombstone, and only *)
(* tombstones are deleted, also those another process left behind.         *)
(*                                                                         *)
(* Every use of the host may fail.  Checks of ownership, descriptors and   *)
(* remembered identities only add reasons to fail and are part of that.    *)
(***************************************************************************)
EXTENDS SessionLifecycle

VARIABLES
    at,         \* control point of each session object
    listed,     \* entries of the state root its cleanup has still to look at
    aim,        \* the entry it is claiming or deleting
    here,       \* sessions whose directory has its own name
    tombs,      \* sessions whose directory is a tombstone
    inside,     \* what the directory contains
    lock,       \* who holds the external lock of each session
    aged        \* sessions whose marker is older than the orphan age

winVars == <<at, listed, aim, here, tombs, inside, lock, aged>>

Entry == [of : Sessions, tomb : BOOLEAN]
Named(t) == [of |-> t, tomb |-> FALSE]
Tombstone(t) == [of |-> t, tomb |-> TRUE]
NoEntry == [of |-> Nobody, tomb |-> FALSE]
Present(e) == e.of \in (IF e.tomb THEN tombs ELSE here)

WinInit ==
    /\ at = [s \in Sessions |-> "start"]
    /\ listed = [s \in Sessions |-> {}]
    /\ aim = [s \in Sessions |-> NoEntry]
    /\ here = {} /\ tombs = {} /\ aged = {}
    /\ inside = [s \in Sessions |-> {}]
    /\ lock = [s \in Sessions |-> Nobody]

Move(s, point) == at' = [at EXCEPT ![s] = point]
Release(s) == lock' = [t \in Sessions |-> IF lock[t] = s THEN Nobody ELSE lock[t]]

\* A removal ends, with or without success: the lock is released, and the cleanup goes on
\* to its next entry while close() and a failed creation are over.
Leave(s) ==
    /\ Release(s)
    /\ Move(s, IF aim[s].of = s THEN "closed" ELSE "scanning")
    /\ aim' = [aim EXCEPT ![s] = NoEntry]

-----------------------------------------------------------------------------
(* cleanup_orphan_sessions *)

ListEntries(s) ==
    /\ at[s] = "start"
    /\ listed' = [listed EXCEPT ![s] = {Named(t) : t \in here} \cup {Tombstone(t) : t \in tombs}]
    /\ Move(s, "scanning")
    /\ UNCHANGED <<aim, here, tombs, inside, lock, aged>>

\* In the order of names, in which every tombstone precedes every session.
TakeEntry(s) ==
    /\ at[s] = "scanning"
    /\ \E e \in listed[s] :
        /\ e.tomb \/ \A other \in listed[s] : ~other.tomb
        /\ listed' = [listed EXCEPT ![s] = @ \ {e}]
        /\ aim' = [aim EXCEPT ![s] = e]
    /\ Move(s, "claiming")
    /\ UNCHANGED <<here, tombs, inside, lock, aged>>

\* The external lock, without waiting.
AcquireExternal(s) ==
    /\ at[s] \in {"claiming", "reclaiming_own"}
    /\ \/ /\ lock[aim[s].of] = Nobody
          /\ lock' = [lock EXCEPT ![aim[s].of] = s]
          /\ Move(s, IF at[s] = "claiming" THEN "verifying" ELSE "renaming")
          /\ UNCHANGED aim
       \/ Leave(s)
    /\ UNCHANGED <<listed, here, tombs, inside, aged>>

\* The marker is read with its time, and is valid and old enough.
MarkerOld(e) == Present(e) /\ "marker" \in inside[e.of] /\ e.of \in aged

\* Under the lock: marker, age and lock file; everything in it can be deleted.
VerifyCandidate(s) ==
    /\ at[s] = "verifying"
    /\ \/ /\ MarkerOld(aim[s]) /\ "lock" \in inside[aim[s].of]
          /\ Move(s, IF aim[s].tomb THEN "deleting" ELSE "renaming")
          /\ UNCHANGED <<lock, aim>>
       \/ Leave(s)
    /\ UNCHANGED <<listed, here, tombs, inside, aged>>

-----------------------------------------------------------------------------
(* _new_tombstone and _delete_private_tombstone, in cleanup, close() and undo *)

\* Mutant: the tree is deleted where it is.
RenameSkipped(s) ==
    /\ at[s] = "renaming"
    /\ aim[s].of \in here
    /\ Move(s, "deleting")
    /\ UNCHANGED <<listed, here, tombs, inside, aged, lock, aim>>

\* The directory becomes a tombstone and its handle is checked again; that check may fail
\* after the rename.
Rename(s) ==
    /\ at[s] = "renaming"
    /\ \/ /\ aim[s].of \in here
          /\ here' = here \ {aim[s].of} /\ tombs' = tombs \cup {aim[s].of}
          /\ \/ Move(s, "deleting") /\ UNCHANGED <<lock, aim>>
             \/ Leave(s)
       \/ Leave(s) /\ UNCHANGED <<here, tombs>>
    /\ UNCHANGED <<listed, inside, aged>>

\* Members are deleted in the order of their names: the marker, the lock file, the rest.
FirstMember(tree) ==
    IF "marker" \in tree THEN "marker" ELSE IF "lock" \in tree THEN "lock" ELSE "content"

DeleteMember(s) ==
    /\ at[s] = "deleting"
    /\ LET t == aim[s].of
       IN  /\ inside[t] # {}
           /\ inside' = [inside EXCEPT ![t] = @ \ {FirstMember(@)}]
    /\ UNCHANGED <<at, listed, aim, here, tombs, lock, aged>>

\* The empty tombstone is deleted, or something failed on the way.
DeleteEnds(s) ==
    /\ at[s] = "deleting"
    /\ \/ inside[aim[s].of] = {} /\ tombs' = tombs \ {aim[s].of}
       \/ UNCHANGED tombs
    /\ Leave(s)
    /\ UNCHANGED <<listed, here, inside, aged>>

-----------------------------------------------------------------------------
(* SessionCas.__init__ *)

MakeDirectory(s) ==
    /\ at[s] = "scanning" /\ listed[s] = {}
    /\ here' = here \cup {s}
    /\ Move(s, "creating")
    /\ UNCHANGED <<listed, aim, tombs, inside, lock, aged>>

After == [creating |-> "marking", marking |-> "locking_file", locking_file |-> "opening"]
Written == [creating |-> "content", marking |-> "marker", locking_file |-> "lock"]

\* The parent's handle may have been opened before the directory became a tombstone; by its
\* name it is found only until then.
WritePrivate(s) ==
    /\ at[s] \in DOMAIN After
    /\ \/ /\ s \in here \cup tombs
          /\ inside' = [inside EXCEPT ![s] = @ \cup {Written[at[s]]}]
          /\ Move(s, After[at[s]])
       \/ Move(s, "undoing") /\ UNCHANGED inside
    /\ UNCHANGED <<listed, aim, here, tombs, lock, aged>>

\* acquire_session_lock(blocking=True) reads the lock file by its name, ...
ReadOwnLock(s) ==
    /\ at[s] = "opening"
    /\ \/ s \in here /\ "lock" \in inside[s] /\ Move(s, "flocking")
       \/ Move(s, "undoing")
    /\ UNCHANGED <<listed, aim, here, tombs, inside, lock, aged>>

\* ... waits for the external lock ...
LockExternal(s) ==
    /\ at[s] = "flocking"
    /\ \/ lock[s] = Nobody /\ lock' = [lock EXCEPT ![s] = s] /\ Move(s, "confirming")
       \/ Move(s, "undoing") /\ UNCHANGED lock
    /\ UNCHANGED <<listed, aim, here, tombs, inside, aged>>

\* Mutant: the session is live as soon as it has its lock.
ConfirmNothing(s) ==
    /\ at[s] = "confirming"
    /\ Move(s, "live")
    /\ UNCHANGED <<listed, aim, here, tombs, inside, aged, lock>>

\* ... and reads the file again, because a cleanup may have claimed the directory meanwhile.
Confirm(s) ==
    /\ at[s] = "confirming"
    /\ \/ s \in here /\ "lock" \in inside[s] /\ Move(s, "live") /\ UNCHANGED lock
       \/ Release(s) /\ Move(s, "undoing")
    /\ UNCHANGED <<listed, aim, here, tombs, inside, aged>>

\* remove_private_tree of a failed creation takes the lock again, without waiting.
Undo(s) ==
    /\ at[s] = "undoing"
    /\ IF s \in here
       THEN Move(s, "reclaiming_own") /\ aim' = [aim EXCEPT ![s] = Named(s)]
       ELSE Move(s, "closed") /\ UNCHANGED aim
    /\ UNCHANGED <<listed, here, tombs, inside, lock, aged>>

-----------------------------------------------------------------------------
(* SessionCas.close: remove_locked_session_tree *)

CloseSession(s) ==
    /\ at[s] = "live"
    /\ IF s \in here /\ "marker" \in inside[s]
       THEN Move(s, "renaming") /\ aim' = [aim EXCEPT ![s] = Named(s)] /\ UNCHANGED lock
       ELSE Release(s) /\ Move(s, "closed") /\ UNCHANGED aim
    /\ UNCHANGED <<listed, here, tombs, inside, aged>>

-----------------------------------------------------------------------------
(* Process loss and time *)

Lost(s) ==
    /\ at[s] \notin {"start", "closed", "crashed"}
    /\ Move(s, "crashed")
    /\ Release(s)
    /\ UNCHANGED <<listed, aim, here, tombs, inside, aged>>

GrowOld(s) ==
    /\ "marker" \in inside[s]
    /\ aged' = aged \cup {s}
    /\ UNCHANGED <<at, listed, aim, here, tombs, inside, lock>>

WinNext ==
    \E s \in Sessions :
        \/ ListEntries(s) \/ TakeEntry(s) \/ AcquireExternal(s) \/ VerifyCandidate(s)
        \/ Rename(s) \/ DeleteMember(s) \/ DeleteEnds(s)
        \/ MakeDirectory(s) \/ WritePrivate(s) \/ ReadOwnLock(s) \/ LockExternal(s)
        \/ Confirm(s) \/ Undo(s) \/ CloseSession(s) \/ Lost(s) \/ GrowOld(s)

WinSpec == WinInit /\ [][WinNext]_winVars

-----------------------------------------------------------------------------
(* Properties *)

\* A live session keeps its whole directory and its lock, even if a day passed while it was
\* being created; a directory is deleted only as a tombstone and by the one holder of its
\* session's lock, so that a tree with a lock file is whole as long as it has its own name;
\* and no exit of cleanup, undo or close() keeps a lock (cleanup_orphan_sessions,
\* acquire_session_lock, remove_private_tree, remove_locked_session_tree).
ClaimsHonoured ==
    /\ \A s \in Sessions : at[s] = "live" => s \in here /\ inside[s] = Member /\ lock[s] = s
    /\ \A s \in Sessions : at[s] = "deleting" => lock[aim[s].of] = s /\ aim[s].of \in tombs
    /\ \A s \in here : "lock" \in inside[s] => inside[s] = Member
    /\ \A s, t \in Sessions : lock[t] = s =>
          \/ s = t /\ at[s] \in {"confirming", "live"}
          \/ aim[s].of = t /\ at[s] \in {"verifying", "renaming", "deleting"}
=============================================================================
