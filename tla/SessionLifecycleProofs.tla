----------------------- MODULE SessionLifecycleProofs -----------------------
(***************************************************************************)
(* Proofs about SessionLifecycle and WindowsSessions, for any number of    *)
(* sessions: no cleanup, crash or close takes anything from a live         *)
(* session, and no lock is left held by a session that has ended.          *)
(***************************************************************************)
EXTENDS WindowsSessions, TLAPS

Cleaning == {"start", "scanning", "claiming", "locking", "verifying", "reclaiming"}

\* An owner at work and a cleanup at work hold the lock of what they work on.
LockInv ==
    \A s \in Sessions :
        /\ pc[s] \in {"live", "closing"} => flock[s] = s
        /\ pc[s] \in {"verifying", "reclaiming"} => flock[target[s]] = s

\* A cleanup works on an aged directory; a directory ages only once its owner
\* wrote the marker, and before the owner is live only if the owner stalled.
AgeInv ==
    \A s \in Sessions :
        /\ pc[s] \in {"claiming", "locking", "verifying", "reclaiming"} => target[s] \in old
        /\ pc[s] \in Cleaning \cup {"creating", "marking"} => "marker" \notin members[s]
        /\ s \in old => pc[s] \notin Cleaning \cup {"creating", "marking"}
        /\ s \in old \ stalled => pc[s] \in {"live", "closing"} \cup Ended

\* What a session that has not stalled has written so far is all there.
TreeInv ==
    \A s \in Sessions \ stalled :
        /\ pc[s] \in Creating \cup {"live"} => s \in exists
        /\ pc[s] = "creating" => members[s] = {}
        /\ pc[s] = "marking" => members[s] = {"content"}
        /\ pc[s] = "locking_file" => members[s] = {"content", "marker"}
        /\ pc[s] \in {"opening", "flocking", "live"} => members[s] = Member

\* A session that has not created its directory has none.
BornInv == \A s \in Sessions : pc[s] \in Cleaning => s \notin exists /\ members[s] = {}

\* The inductive invariant.
IInv == TypeOK /\ LockInv /\ NoLockLeak /\ AgeInv /\ TreeInv /\ BornInv

\* The invariant holds initially.
LEMMA InitIInv == Init => IInv
  BY LifecycleAssumption DEF Init, IInv, TypeOK, LockInv, NoLockLeak, AgeInv, TreeInv, BornInv,
     Creating, Cleaning, Ended, Step, Member

\* What has to be shown of each step: it keeps the type of the state, and with it
\* each other part of the invariant.
LEMMA StepIInv ==
    ASSUME IInv, NEW s \in Sessions, CleanupNext(s) \/ OwnNext(s) \/ Crash(s) \/ Age(s)
    PROVE  IInv'
<1> USE LifecycleAssumption
<1> USE DEF Goto, Creating, Cleaning, Ended, Step, Member
<1>1. CASE ListCandidates(s)
  <2>1. TypeOK' BY <1>1 DEF ListCandidates, IInv, TypeOK
  <2>2. LockInv' BY <1>1 DEF ListCandidates, IInv, TypeOK, LockInv, NoLockLeak
  <2>3. NoLockLeak' BY <1>1 DEF ListCandidates, IInv, TypeOK, LockInv, NoLockLeak
  <2>4. AgeInv' BY <1>1 DEF ListCandidates, IInv, TypeOK, AgeInv
  <2>5. TreeInv' BY <1>1 DEF ListCandidates, IInv, TypeOK, LockInv, AgeInv, TreeInv
  <2>6. BornInv' BY <1>1 DEF ListCandidates, IInv, TypeOK, AgeInv, BornInv
  <2>7. QED BY <2>1, <2>2, <2>3, <2>4, <2>5, <2>6 DEF IInv
<1>2. CASE Examine(s)
  <2>1. TypeOK' BY <1>2 DEF Examine, IInv, TypeOK
  <2>2. LockInv' BY <1>2 DEF Examine, IInv, TypeOK, LockInv, NoLockLeak
  <2>3. NoLockLeak' BY <1>2 DEF Examine, IInv, TypeOK, LockInv, NoLockLeak
  <2>4. AgeInv' BY <1>2 DEF Examine, IInv, TypeOK, AgeInv
  <2>5. TreeInv' BY <1>2 DEF Examine, IInv, TypeOK, LockInv, AgeInv, TreeInv
  <2>6. BornInv' BY <1>2 DEF Examine, IInv, TypeOK, AgeInv, BornInv
  <2>7. QED BY <2>1, <2>2, <2>3, <2>4, <2>5, <2>6 DEF IInv
<1>3. CASE OpenLock(s)
  <2>1. TypeOK' BY <1>3 DEF OpenLock, NextCandidate, IInv, TypeOK
  <2>2. LockInv' BY <1>3 DEF OpenLock, NextCandidate, IInv, TypeOK, LockInv, NoLockLeak
  <2>3. NoLockLeak' BY <1>3 DEF OpenLock, NextCandidate, IInv, TypeOK, LockInv, NoLockLeak
  <2>4. AgeInv' BY <1>3 DEF OpenLock, NextCandidate, IInv, TypeOK, AgeInv
  <2>5. TreeInv' BY <1>3 DEF OpenLock, NextCandidate, IInv, TypeOK, LockInv, AgeInv, TreeInv
  <2>6. BornInv' BY <1>3 DEF OpenLock, NextCandidate, IInv, TypeOK, AgeInv, BornInv
  <2>7. QED BY <2>1, <2>2, <2>3, <2>4, <2>5, <2>6 DEF IInv
<1>4. CASE TryLock(s)
  <2>1. TypeOK' BY <1>4 DEF TryLock, NextCandidate, IInv, TypeOK
  <2>2. LockInv' BY <1>4 DEF TryLock, NextCandidate, IInv, TypeOK, LockInv, NoLockLeak, AgeInv
  <2>3. NoLockLeak' BY <1>4 DEF TryLock, NextCandidate, IInv, TypeOK, LockInv, NoLockLeak
  <2>4. AgeInv' BY <1>4 DEF TryLock, NextCandidate, IInv, TypeOK, AgeInv
  <2>5. TreeInv' BY <1>4 DEF TryLock, NextCandidate, IInv, TypeOK, LockInv, AgeInv, TreeInv
  <2>6. BornInv' BY <1>4 DEF TryLock, NextCandidate, IInv, TypeOK, AgeInv, BornInv
  <2>7. QED BY <2>1, <2>2, <2>3, <2>4, <2>5, <2>6 DEF IInv
<1>5. CASE VerifyClaim(s)
  <2>1. TypeOK' BY <1>5 DEF VerifyClaim, NextCandidate, IInv, TypeOK
  <2>2. LockInv' BY <1>5 DEF VerifyClaim, NextCandidate, IInv, TypeOK, LockInv, NoLockLeak, AgeInv
  <2>3. NoLockLeak' BY <1>5 DEF VerifyClaim, NextCandidate, IInv, TypeOK, LockInv, NoLockLeak
  <2>4. AgeInv' BY <1>5 DEF VerifyClaim, NextCandidate, IInv, TypeOK, AgeInv
  <2>5. TreeInv' BY <1>5 DEF VerifyClaim, NextCandidate, IInv, TypeOK, LockInv, AgeInv, TreeInv
  <2>6. BornInv' BY <1>5 DEF VerifyClaim, NextCandidate, IInv, TypeOK, AgeInv, BornInv
  <2>7. QED BY <2>1, <2>2, <2>3, <2>4, <2>5, <2>6 DEF IInv
<1>6. CASE ReclaimMember(s)
  <2>1. TypeOK' BY <1>6 DEF ReclaimMember, RemoveMember, IInv, TypeOK
  <2>2. LockInv' BY <1>6 DEF ReclaimMember, RemoveMember, IInv, TypeOK, LockInv, NoLockLeak
  <2>3. NoLockLeak' BY <1>6 DEF ReclaimMember, RemoveMember, IInv, TypeOK, LockInv, NoLockLeak
  <2>4. AgeInv' BY <1>6 DEF ReclaimMember, RemoveMember, IInv, TypeOK, AgeInv
  <2>5. TreeInv' BY <1>6 DEF ReclaimMember, RemoveMember, IInv, TypeOK, LockInv, AgeInv, TreeInv
  <2>6. BornInv' BY <1>6 DEF ReclaimMember, RemoveMember, IInv, TypeOK, AgeInv, BornInv
  <2>7. QED BY <2>1, <2>2, <2>3, <2>4, <2>5, <2>6 DEF IInv
<1>7. CASE ReclaimEnds(s)
  <2>1. TypeOK' BY <1>7 DEF ReclaimEnds, NextCandidate, RemoveLast, IInv, TypeOK
  <2>2. LockInv' BY <1>7 DEF ReclaimEnds, NextCandidate, RemoveLast, IInv, TypeOK, LockInv, NoLockLeak
  <2>3. NoLockLeak' BY <1>7 DEF ReclaimEnds, NextCandidate, RemoveLast, IInv, TypeOK, LockInv, NoLockLeak
  <2>4. AgeInv' BY <1>7 DEF ReclaimEnds, NextCandidate, RemoveLast, IInv, TypeOK, AgeInv
  <2>5. TreeInv' BY <1>7 DEF ReclaimEnds, NextCandidate, RemoveLast, IInv, TypeOK, LockInv, AgeInv, TreeInv
  <2>6. BornInv' BY <1>7 DEF ReclaimEnds, NextCandidate, RemoveLast, IInv, TypeOK, AgeInv, BornInv
  <2>7. QED BY <2>1, <2>2, <2>3, <2>4, <2>5, <2>6 DEF IInv
<1>8. CASE CreateDirectory(s)
  <2>1. TypeOK' BY <1>8 DEF CreateDirectory, IInv, TypeOK
  <2>2. LockInv' BY <1>8 DEF CreateDirectory, IInv, TypeOK, LockInv, NoLockLeak
  <2>3. NoLockLeak' BY <1>8 DEF CreateDirectory, IInv, TypeOK, LockInv, NoLockLeak
  <2>4. AgeInv' BY <1>8 DEF CreateDirectory, IInv, TypeOK, AgeInv
  <2>5. TreeInv' BY <1>8 DEF CreateDirectory, IInv, TypeOK, LockInv, AgeInv, TreeInv, BornInv
  <2>6. BornInv' BY <1>8 DEF CreateDirectory, IInv, TypeOK, AgeInv, BornInv
  <2>7. QED BY <2>1, <2>2, <2>3, <2>4, <2>5, <2>6 DEF IInv
<1>9. CASE CreateContent(s)
  <2>1. TypeOK' BY <1>9 DEF CreateContent, WriteMember, IInv, TypeOK
  <2>2. LockInv' BY <1>9 DEF CreateContent, WriteMember, IInv, TypeOK, LockInv, NoLockLeak
  <2>3. NoLockLeak' BY <1>9 DEF CreateContent, WriteMember, IInv, TypeOK, LockInv, NoLockLeak
  <2>4. AgeInv' BY <1>9 DEF CreateContent, WriteMember, IInv, TypeOK, AgeInv
  <2>5. TreeInv' BY <1>9 DEF CreateContent, WriteMember, IInv, TypeOK, LockInv, AgeInv, TreeInv
  <2>6. BornInv' BY <1>9 DEF CreateContent, WriteMember, IInv, TypeOK, AgeInv, BornInv
  <2>7. QED BY <2>1, <2>2, <2>3, <2>4, <2>5, <2>6 DEF IInv
<1>10. CASE WriteMarker(s)
  <2>1. TypeOK' BY <1>10 DEF WriteMarker, WriteMember, IInv, TypeOK
  <2>2. LockInv' BY <1>10 DEF WriteMarker, WriteMember, IInv, TypeOK, LockInv, NoLockLeak
  <2>3. NoLockLeak' BY <1>10 DEF WriteMarker, WriteMember, IInv, TypeOK, LockInv, NoLockLeak
  <2>4. AgeInv' BY <1>10 DEF WriteMarker, WriteMember, IInv, TypeOK, AgeInv
  <2>5. TreeInv' BY <1>10 DEF WriteMarker, WriteMember, IInv, TypeOK, LockInv, AgeInv, TreeInv
  <2>6. BornInv' BY <1>10 DEF WriteMarker, WriteMember, IInv, TypeOK, AgeInv, BornInv
  <2>7. QED BY <2>1, <2>2, <2>3, <2>4, <2>5, <2>6 DEF IInv
<1>11. CASE WriteLockFile(s)
  <2>1. TypeOK' BY <1>11 DEF WriteLockFile, WriteMember, IInv, TypeOK
  <2>2. LockInv' BY <1>11 DEF WriteLockFile, WriteMember, IInv, TypeOK, LockInv, NoLockLeak
  <2>3. NoLockLeak' BY <1>11 DEF WriteLockFile, WriteMember, IInv, TypeOK, LockInv, NoLockLeak
  <2>4. AgeInv' BY <1>11 DEF WriteLockFile, WriteMember, IInv, TypeOK, AgeInv
  <2>5. TreeInv' BY <1>11 DEF WriteLockFile, WriteMember, IInv, TypeOK, LockInv, AgeInv, TreeInv
  <2>6. BornInv' BY <1>11 DEF WriteLockFile, WriteMember, IInv, TypeOK, AgeInv, BornInv
  <2>7. QED BY <2>1, <2>2, <2>3, <2>4, <2>5, <2>6 DEF IInv
<1>12. CASE OpenOwnLock(s)
  <2>1. TypeOK' BY <1>12 DEF OpenOwnLock, IInv, TypeOK
  <2>2. LockInv' BY <1>12 DEF OpenOwnLock, IInv, TypeOK, LockInv, NoLockLeak
  <2>3. NoLockLeak' BY <1>12 DEF OpenOwnLock, IInv, TypeOK, LockInv, NoLockLeak
  <2>4. AgeInv' BY <1>12 DEF OpenOwnLock, IInv, TypeOK, AgeInv
  <2>5. TreeInv' BY <1>12 DEF OpenOwnLock, IInv, TypeOK, LockInv, AgeInv, TreeInv
  <2>6. BornInv' BY <1>12 DEF OpenOwnLock, IInv, TypeOK, AgeInv, BornInv
  <2>7. QED BY <2>1, <2>2, <2>3, <2>4, <2>5, <2>6 DEF IInv
<1>13. CASE LockOwn(s)
  <2>1. TypeOK' BY <1>13 DEF LockOwn, IInv, TypeOK
  <2>2. LockInv' BY <1>13 DEF LockOwn, IInv, TypeOK, LockInv, NoLockLeak
  <2>3. NoLockLeak' BY <1>13 DEF LockOwn, IInv, TypeOK, LockInv, NoLockLeak
  <2>4. AgeInv' BY <1>13 DEF LockOwn, IInv, TypeOK, AgeInv
  <2>5. TreeInv' BY <1>13 DEF LockOwn, IInv, TypeOK, LockInv, AgeInv, TreeInv
  <2>6. BornInv' BY <1>13 DEF LockOwn, IInv, TypeOK, AgeInv, BornInv
  <2>7. QED BY <2>1, <2>2, <2>3, <2>4, <2>5, <2>6 DEF IInv
<1>14. CASE CreateFails(s)
  <2>1. TypeOK' BY <1>14 DEF CreateFails, IInv, TypeOK
  <2>2. LockInv' BY <1>14 DEF CreateFails, IInv, TypeOK, LockInv, NoLockLeak
  <2>3. NoLockLeak' BY <1>14 DEF CreateFails, IInv, TypeOK, LockInv, NoLockLeak
  <2>4. AgeInv' BY <1>14 DEF CreateFails, IInv, TypeOK, AgeInv
  <2>5. TreeInv' BY <1>14 DEF CreateFails, IInv, TypeOK, LockInv, AgeInv, TreeInv
  <2>6. BornInv' BY <1>14 DEF CreateFails, IInv, TypeOK, AgeInv, BornInv
  <2>7. QED BY <2>1, <2>2, <2>3, <2>4, <2>5, <2>6 DEF IInv
<1>15. CASE UndoMember(s)
  <2>1. TypeOK' BY <1>15 DEF UndoMember, RemoveMember, IInv, TypeOK
  <2>2. LockInv' BY <1>15 DEF UndoMember, RemoveMember, IInv, TypeOK, LockInv, NoLockLeak
  <2>3. NoLockLeak' BY <1>15 DEF UndoMember, RemoveMember, IInv, TypeOK, LockInv, NoLockLeak
  <2>4. AgeInv' BY <1>15 DEF UndoMember, RemoveMember, IInv, TypeOK, AgeInv
  <2>5. TreeInv' BY <1>15 DEF UndoMember, RemoveMember, IInv, TypeOK, LockInv, AgeInv, TreeInv
  <2>6. BornInv' BY <1>15 DEF UndoMember, RemoveMember, IInv, TypeOK, AgeInv, BornInv
  <2>7. QED BY <2>1, <2>2, <2>3, <2>4, <2>5, <2>6 DEF IInv
<1>16. CASE UndoEnds(s)
  <2>1. TypeOK' BY <1>16 DEF UndoEnds, RemoveLast, IInv, TypeOK
  <2>2. LockInv' BY <1>16 DEF UndoEnds, RemoveLast, IInv, TypeOK, LockInv, NoLockLeak
  <2>3. NoLockLeak' BY <1>16 DEF UndoEnds, RemoveLast, IInv, TypeOK, LockInv, NoLockLeak
  <2>4. AgeInv' BY <1>16 DEF UndoEnds, RemoveLast, IInv, TypeOK, AgeInv
  <2>5. TreeInv' BY <1>16 DEF UndoEnds, RemoveLast, IInv, TypeOK, LockInv, AgeInv, TreeInv
  <2>6. BornInv' BY <1>16 DEF UndoEnds, RemoveLast, IInv, TypeOK, AgeInv, BornInv
  <2>7. QED BY <2>1, <2>2, <2>3, <2>4, <2>5, <2>6 DEF IInv
<1>17. CASE CloseBegin(s)
  <2>1. TypeOK' BY <1>17 DEF CloseBegin, IInv, TypeOK
  <2>2. LockInv' BY <1>17 DEF CloseBegin, IInv, TypeOK, LockInv, NoLockLeak, AgeInv
  <2>3. NoLockLeak' BY <1>17 DEF CloseBegin, IInv, TypeOK, LockInv, NoLockLeak
  <2>4. AgeInv' BY <1>17 DEF CloseBegin, IInv, TypeOK, AgeInv
  <2>5. TreeInv' BY <1>17 DEF CloseBegin, IInv, TypeOK, LockInv, AgeInv, TreeInv
  <2>6. BornInv' BY <1>17 DEF CloseBegin, IInv, TypeOK, AgeInv, BornInv
  <2>7. QED BY <2>1, <2>2, <2>3, <2>4, <2>5, <2>6 DEF IInv
<1>18. CASE CloseMember(s)
  <2>1. TypeOK' BY <1>18 DEF CloseMember, RemoveMember, IInv, TypeOK
  <2>2. LockInv' BY <1>18 DEF CloseMember, RemoveMember, IInv, TypeOK, LockInv, NoLockLeak
  <2>3. NoLockLeak' BY <1>18 DEF CloseMember, RemoveMember, IInv, TypeOK, LockInv, NoLockLeak
  <2>4. AgeInv' BY <1>18 DEF CloseMember, RemoveMember, IInv, TypeOK, AgeInv
  <2>5. TreeInv' BY <1>18 DEF CloseMember, RemoveMember, IInv, TypeOK, LockInv, AgeInv, TreeInv
  <2>6. BornInv' BY <1>18 DEF CloseMember, RemoveMember, IInv, TypeOK, AgeInv, BornInv
  <2>7. QED BY <2>1, <2>2, <2>3, <2>4, <2>5, <2>6 DEF IInv
<1>19. CASE CloseEnds(s)
  <2>1. TypeOK' BY <1>19 DEF CloseEnds, RemoveLast, IInv, TypeOK
  <2>2. LockInv' BY <1>19 DEF CloseEnds, RemoveLast, IInv, TypeOK, LockInv, NoLockLeak
  <2>3. NoLockLeak' BY <1>19 DEF CloseEnds, RemoveLast, IInv, TypeOK, LockInv, NoLockLeak
  <2>4. AgeInv' BY <1>19 DEF CloseEnds, RemoveLast, IInv, TypeOK, AgeInv
  <2>5. TreeInv' BY <1>19 DEF CloseEnds, RemoveLast, IInv, TypeOK, LockInv, AgeInv, TreeInv
  <2>6. BornInv' BY <1>19 DEF CloseEnds, RemoveLast, IInv, TypeOK, AgeInv, BornInv
  <2>7. QED BY <2>1, <2>2, <2>3, <2>4, <2>5, <2>6 DEF IInv
<1>20. CASE Crash(s)
  <2>1. TypeOK' BY <1>20 DEF Crash, IInv, TypeOK
  <2>2. LockInv' BY <1>20 DEF Crash, IInv, TypeOK, LockInv, NoLockLeak, AgeInv
  <2>3. NoLockLeak' BY <1>20 DEF Crash, IInv, TypeOK, LockInv, NoLockLeak
  <2>4. AgeInv' BY <1>20 DEF Crash, IInv, TypeOK, AgeInv
  <2>5. TreeInv' BY <1>20 DEF Crash, IInv, TypeOK, LockInv, AgeInv, TreeInv
  <2>6. BornInv' BY <1>20 DEF Crash, IInv, TypeOK, AgeInv, BornInv
  <2>7. QED BY <2>1, <2>2, <2>3, <2>4, <2>5, <2>6 DEF IInv
<1>21. CASE Age(s)
  <2>1. TypeOK' BY <1>21 DEF Age, IInv, TypeOK
  <2>2. LockInv' BY <1>21 DEF Age, IInv, TypeOK, LockInv, NoLockLeak
  <2>3. NoLockLeak' BY <1>21 DEF Age, IInv, TypeOK, LockInv, NoLockLeak
  <2>4. AgeInv' BY <1>21 DEF Age, IInv, TypeOK, AgeInv
  <2>5. TreeInv' BY <1>21 DEF Age, IInv, TypeOK, LockInv, AgeInv, TreeInv
  <2>6. BornInv' BY <1>21 DEF Age, IInv, TypeOK, AgeInv, BornInv
  <2>7. QED BY <2>1, <2>2, <2>3, <2>4, <2>5, <2>6 DEF IInv
<1>22. QED
  BY <1>1, <1>2, <1>3, <1>4, <1>5, <1>6, <1>7, <1>8, <1>9, <1>10, <1>11, <1>12, <1>13, <1>14, <1>15, <1>16, <1>17, <1>18, <1>19, <1>20, <1>21 DEF CleanupNext, OwnNext

\* A step that changes nothing keeps the invariant.
LEMMA StutterIInv == IInv /\ UNCHANGED vars => IInv'
  BY DEF IInv, vars, TypeOK, LockInv, NoLockLeak, AgeInv, TreeInv, BornInv

\* The invariant holds in every reachable state.
LEMMA AlwaysIInv == Spec => []IInv
<1>1. IInv /\ [Next]_vars => IInv'
  BY StepIInv, StutterIInv DEF Next
<1>2. QED BY <1>1, InitIInv, PTL DEF Spec

\* A live session that did not stall has its whole directory and its lock, and
\* locks are held only by owners and cleanups at work: acquire_session_lock,
\* remove_locked_session_tree and the finally block of cleanup_orphan_sessions.
THEOREM SessionsIntact == Spec => [](TypeOK /\ LiveIntact /\ NoLockLeak)
<1>1. IInv => TypeOK /\ LiveIntact /\ NoLockLeak
  BY DEF IInv, LiveIntact, LockInv, TreeInv
<1>2. QED BY <1>1, AlwaysIInv, PTL

\* A cleanup deletes only directories of ended sessions, and no directory has two
\* deleters, unless its owner stalled before it was live.
THEOREM RemovalIsExclusive == Spec => []RemovalExclusive
<1>1. IInv => ReclaimOnlyEnded
  <2>1. SUFFICES ASSUME IInv, NEW s \in Sessions, pc[s] = "reclaiming", target[s] \notin stalled
                 PROVE  pc[target[s]] \in Ended
    BY DEF ReclaimOnlyEnded
  <2>2. target[s] \in Sessions /\ pc[target[s]] \in {"live", "closing"} \cup Ended
    BY <2>1 DEF IInv, TypeOK, AgeInv
  <2>3. pc[target[s]] \notin {"live", "closing"}
    <3>1. flock[target[s]] = s BY <2>1 DEF IInv, LockInv
    <3>2. pc[target[s]] \in {"live", "closing"} => flock[target[s]] = target[s]
      BY <2>1, <2>2 DEF IInv, LockInv
    <3>3. QED BY <2>1, <3>1, <3>2
  <2>4. QED BY <2>2, <2>3
<1>2. IInv => OneRemover
  <2>1. SUFFICES ASSUME IInv, NEW t \in Sessions \ stalled, NEW s \in Removers(t), NEW u \in Removers(t)
                 PROVE  s = u
    BY DEF OneRemover
  <2>2. ASSUME NEW r \in Removers(t), pc[r] = "reclaiming" PROVE flock[t] = r /\ pc[t] \in Ended
    BY <1>1, <2>1, <2>2 DEF ReclaimOnlyEnded, Removers, IInv, LockInv
  <2>3. ASSUME NEW r \in Removers(t), pc[r] # "reclaiming"
        PROVE  r = t /\ pc[t] \notin Ended
    BY <2>3 DEF Removers, Ended
  <2>4. QED BY <2>1, <2>2, <2>3
<1>3. IInv => RemovalExclusive BY <1>1, <1>2 DEF RemovalExclusive
<1>4. QED BY <1>3, AlwaysIInv, PTL

-----------------------------------------------------------------------------
(* The Windows host: the invariant *)

WinPoints ==
    {"start", "scanning", "claiming", "reclaiming_own", "verifying", "renaming", "deleting",
     "creating", "marking", "locking_file", "opening", "flocking", "confirming", "live",
     "undoing", "closed", "crashed"}

WinType ==
    /\ at \in [Sessions -> WinPoints]
    /\ listed \in [Sessions -> SUBSET Entry]
    /\ aim \in [Sessions -> Entry \cup {NoEntry}]
    /\ here \subseteq Sessions /\ tombs \subseteq Sessions
    /\ inside \in [Sessions -> SUBSET Member]
    /\ lock \in [Sessions -> Sessions \cup {Nobody}]

\* Locks are held exactly by the owners and the removals that need them.
WinLocks ==
    /\ \A s \in Sessions :
          /\ at[s] \in {"confirming", "live"} => lock[s] = s
          /\ at[s] \in {"verifying", "renaming", "deleting"} =>
                aim[s].of \in Sessions /\ lock[aim[s].of] = s
          /\ at[s] = "claiming" => aim[s].of \in Sessions
          /\ at[s] = "reclaiming_own" => aim[s].of = s
    /\ \A s, t \in Sessions : lock[t] = s =>
          \/ s = t /\ at[s] \in {"confirming", "live"}
          \/ aim[s].of = t /\ at[s] \in {"verifying", "renaming", "deleting"}

\* A directory under its own name holds what its owner has written so far.
WinTrees ==
    /\ here \cap tombs = {}
    /\ \A s \in Sessions :
          /\ at[s] = "deleting" => aim[s].of \in tombs
          /\ at[s] = "live" => s \in here /\ "lock" \in inside[s]
    /\ \A s \in here :
          /\ "lock" \in inside[s] => inside[s] = Member
          /\ at[s] = "creating" => inside[s] = {}
          /\ at[s] = "marking" => inside[s] = {"content"}
          /\ at[s] = "locking_file" => inside[s] = {"content", "marker"}

\* A session still cleaning up after others.
Early(s) ==
    \/ at[s] \in {"start", "scanning", "claiming"}
    \/ at[s] \in {"verifying", "renaming", "deleting"} /\ aim[s].of # s

\* It has no directory of its own and meets none.
WinBorn ==
    \A s \in Sessions :
        /\ Early(s) => s \notin here \cup tombs /\ inside[s] = {} /\ \A e \in listed[s] : e.of # s
        /\ at[s] = "claiming" => aim[s].of # s

WinInv == WinType /\ WinLocks /\ WinTrees /\ WinBorn

\* Nothing is open or locked at first.
LEMMA InitWinInv == WinInit => WinInv
<1> SUFFICES ASSUME WinInit PROVE WinInv OBVIOUS
<1> USE LifecycleAssumption DEF WinInit
<1>1. WinType BY DEF WinType, WinPoints, NoEntry, Entry
<1>2. WinLocks BY DEF WinLocks
<1>3. WinTrees BY DEF WinTrees
<1>4. WinBorn BY DEF WinBorn
<1>5. QED BY <1>1, <1>2, <1>3, <1>4 DEF WinInv

\* What an entry is.
LEMMA EntryFacts ==
    /\ \A t \in Sessions : /\ Named(t) \in Entry /\ Named(t).of = t
                           /\ Tombstone(t) \in Entry /\ Tombstone(t).of = t
    /\ \A e \in Entry : e.of \in Sessions /\ e.tomb \in BOOLEAN
    /\ NoEntry.of = Nobody /\ Nobody \notin Sessions
  BY LifecycleAssumption DEF Named, Tombstone, Entry, NoEntry

\* The steps of a cleanup (cleanup_orphan_sessions).
LEMMA ListEntriesKeeps ==
    ASSUME WinInv, NEW s \in Sessions, ListEntries(s)
    PROVE  WinInv'
<1> USE EntryFacts DEF ListEntries, Move
<1>a. WinType /\ WinLocks /\ WinTrees /\ WinBorn BY DEF WinInv
<1>1. WinType' BY <1>a DEF WinType, WinPoints, Member
<1>2. WinLocks' BY <1>a DEF WinType, WinLocks
<1>3. WinTrees' BY <1>a DEF WinType, WinLocks, WinTrees, WinBorn, Early, Member
<1>4. WinBorn' BY <1>a DEF WinType, WinLocks, WinBorn, Early
<1>5. QED BY <1>1, <1>2, <1>3, <1>4 DEF WinInv

\* Taking an entry of the listing keeps the invariant.
LEMMA TakeEntryKeeps ==
    ASSUME WinInv, NEW s \in Sessions, TakeEntry(s)
    PROVE  WinInv'
<1> USE EntryFacts DEF TakeEntry, Move
<1>a. WinType /\ WinLocks /\ WinTrees /\ WinBorn BY DEF WinInv
<1>1. WinType' BY <1>a DEF WinType, WinPoints, Member
<1>2. WinLocks' BY <1>a DEF WinType, WinLocks
<1>3. WinTrees' BY <1>a DEF WinType, WinLocks, WinTrees, WinBorn, Early, Member
<1>4. WinBorn' BY <1>a DEF WinType, WinLocks, WinBorn, Early
<1>5. QED BY <1>1, <1>2, <1>3, <1>4 DEF WinInv

\* Acquiring the lock of a candidate keeps the invariant.
LEMMA AcquireExternalKeeps ==
    ASSUME WinInv, NEW s \in Sessions, AcquireExternal(s)
    PROVE  WinInv'
<1> USE EntryFacts DEF AcquireExternal, Leave, Release, Move
<1>a. WinType /\ WinLocks /\ WinTrees /\ WinBorn BY DEF WinInv
<1>1. WinType' BY <1>a DEF WinType, WinPoints, Member
<1>2. WinLocks' BY <1>a DEF WinType, WinLocks
<1>3. WinTrees' BY <1>a DEF WinType, WinLocks, WinTrees, WinBorn, Early, Member
<1>4. WinBorn' BY <1>a DEF WinType, WinLocks, WinBorn, Early
<1>5. QED BY <1>1, <1>2, <1>3, <1>4 DEF WinInv

\* Looking at a candidate under its lock keeps the invariant.
LEMMA VerifyCandidateKeeps ==
    ASSUME WinInv, NEW s \in Sessions, VerifyCandidate(s)
    PROVE  WinInv'
<1> USE EntryFacts DEF VerifyCandidate, Leave, Release, MarkerOld, Present, Move
<1>a. WinType /\ WinLocks /\ WinTrees /\ WinBorn BY DEF WinInv
<1>1. WinType' BY <1>a DEF WinType, WinPoints, Member
<1>2. WinLocks' BY <1>a DEF WinType, WinLocks
<1>3. WinTrees' BY <1>a DEF WinType, WinLocks, WinTrees, WinBorn, Early, Member
<1>4. WinBorn' BY <1>a DEF WinType, WinLocks, WinBorn, Early
<1>5. QED BY <1>1, <1>2, <1>3, <1>4 DEF WinInv

\* The steps of a removal (_new_tombstone, _delete_private_tombstone).
LEMMA RenameKeeps ==
    ASSUME WinInv, NEW s \in Sessions, Rename(s)
    PROVE  WinInv'
<1> USE EntryFacts DEF Rename, Leave, Release, Move
<1>a. WinType /\ WinLocks /\ WinTrees /\ WinBorn BY DEF WinInv
<1>1. WinType' BY <1>a DEF WinType, WinPoints, Member
<1>2. WinLocks' BY <1>a DEF WinType, WinLocks
<1>3. WinTrees' BY <1>a DEF WinType, WinLocks, WinTrees, WinBorn, Early, Member
<1>4. WinBorn' BY <1>a DEF WinType, WinLocks, WinBorn, Early
<1>5. QED BY <1>1, <1>2, <1>3, <1>4 DEF WinInv

\* Deleting one member of a tombstone keeps the invariant.
LEMMA DeleteMemberKeeps ==
    ASSUME WinInv, NEW s \in Sessions, DeleteMember(s)
    PROVE  WinInv'
<1> USE EntryFacts DEF DeleteMember, FirstMember, Move
<1>a. WinType /\ WinLocks /\ WinTrees /\ WinBorn BY DEF WinInv
<1>1. WinType' BY <1>a DEF WinType, WinPoints, Member
<1>2. WinLocks' BY <1>a DEF WinType, WinLocks
<1>3. WinTrees' BY <1>a DEF WinType, WinLocks, WinTrees, WinBorn, Early, Member
<1>4. WinBorn' BY <1>a DEF WinType, WinLocks, WinBorn, Early
<1>5. QED BY <1>1, <1>2, <1>3, <1>4 DEF WinInv

\* Ending the deletion of a tombstone keeps the invariant.
LEMMA DeleteEndsKeeps ==
    ASSUME WinInv, NEW s \in Sessions, DeleteEnds(s)
    PROVE  WinInv'
<1> USE EntryFacts DEF DeleteEnds, Leave, Release, Move
<1>a. WinType /\ WinLocks /\ WinTrees /\ WinBorn BY DEF WinInv
<1>1. WinType' BY <1>a DEF WinType, WinPoints, Member
<1>2. WinLocks' BY <1>a DEF WinType, WinLocks
<1>3. WinTrees' BY <1>a DEF WinType, WinLocks, WinTrees, WinBorn, Early, Member
<1>4. WinBorn' BY <1>a DEF WinType, WinLocks, WinBorn, Early
<1>5. QED BY <1>1, <1>2, <1>3, <1>4 DEF WinInv

\* The steps of a creation, its failure, and close().
LEMMA MakeDirectoryKeeps ==
    ASSUME WinInv, NEW s \in Sessions, MakeDirectory(s)
    PROVE  WinInv'
<1> USE EntryFacts DEF MakeDirectory, Move
<1>a. WinType /\ WinLocks /\ WinTrees /\ WinBorn BY DEF WinInv
<1>1. WinType' BY <1>a DEF WinType, WinPoints, Member
<1>2. WinLocks' BY <1>a DEF WinType, WinLocks
<1>3. WinTrees' BY <1>a DEF WinType, WinLocks, WinTrees, WinBorn, Early, Member
<1>4. WinBorn' BY <1>a DEF WinType, WinLocks, WinBorn, Early
<1>5. QED BY <1>1, <1>2, <1>3, <1>4 DEF WinInv

\* Writing a file of the new directory keeps the invariant.
LEMMA WritePrivateKeeps ==
    ASSUME WinInv, NEW s \in Sessions, WritePrivate(s)
    PROVE  WinInv'
<1> USE EntryFacts DEF WritePrivate, After, Written, Move
<1>a. WinType /\ WinLocks /\ WinTrees /\ WinBorn BY DEF WinInv
<1>1. WinType' BY <1>a DEF WinType, WinPoints, Member
<1>2. WinLocks' BY <1>a DEF WinType, WinLocks
<1>3. WinTrees' BY <1>a DEF WinType, WinLocks, WinTrees, WinBorn, Early, Member
<1>4. WinBorn' BY <1>a DEF WinType, WinLocks, WinBorn, Early
<1>5. QED BY <1>1, <1>2, <1>3, <1>4 DEF WinInv

\* Reading the own lock file keeps the invariant.
LEMMA ReadOwnLockKeeps ==
    ASSUME WinInv, NEW s \in Sessions, ReadOwnLock(s)
    PROVE  WinInv'
<1> USE EntryFacts DEF ReadOwnLock, Move
<1>a. WinType /\ WinLocks /\ WinTrees /\ WinBorn BY DEF WinInv
<1>1. WinType' BY <1>a DEF WinType, WinPoints, Member
<1>2. WinLocks' BY <1>a DEF WinType, WinLocks
<1>3. WinTrees' BY <1>a DEF WinType, WinLocks, WinTrees, WinBorn, Early, Member
<1>4. WinBorn' BY <1>a DEF WinType, WinLocks, WinBorn, Early
<1>5. QED BY <1>1, <1>2, <1>3, <1>4 DEF WinInv

\* Locking it keeps the invariant.
LEMMA LockExternalKeeps ==
    ASSUME WinInv, NEW s \in Sessions, LockExternal(s)
    PROVE  WinInv'
<1> USE EntryFacts DEF LockExternal, Move
<1>a. WinType /\ WinLocks /\ WinTrees /\ WinBorn BY DEF WinInv
<1>1. WinType'
  <2>1. CASE lock' = [lock EXCEPT ![s] = s] /\ at' = [at EXCEPT ![s] = "confirming"]
    BY <1>a, <2>1 DEF WinType, WinPoints
  <2>2. CASE UNCHANGED lock /\ at' = [at EXCEPT ![s] = "undoing"]
    BY <1>a, <2>2 DEF WinType, WinPoints
  <2>3. QED BY <2>1, <2>2
<1>2. WinLocks' BY <1>a DEF WinType, WinLocks
<1>3. WinTrees' BY <1>a DEF WinType, WinLocks, WinTrees, WinBorn, Early, Member
<1>4. WinBorn' BY <1>a DEF WinType, WinLocks, WinBorn, Early
<1>5. QED BY <1>1, <1>2, <1>3, <1>4 DEF WinInv

\* Looking at the directory again under the lock keeps the invariant.
LEMMA ConfirmKeeps ==
    ASSUME WinInv, NEW s \in Sessions, Confirm(s)
    PROVE  WinInv'
<1> USE EntryFacts DEF Confirm, Release, Move
<1>a. WinType /\ WinLocks /\ WinTrees /\ WinBorn BY DEF WinInv
<1>1. WinType' BY <1>a DEF WinType, WinPoints, Member
<1>2. WinLocks' BY <1>a DEF WinType, WinLocks
<1>3. WinTrees' BY <1>a DEF WinType, WinLocks, WinTrees, WinBorn, Early, Member
<1>4. WinBorn' BY <1>a DEF WinType, WinLocks, WinBorn, Early
<1>5. QED BY <1>1, <1>2, <1>3, <1>4 DEF WinInv

\* Undoing a failed creation keeps the invariant.
LEMMA UndoKeeps ==
    ASSUME WinInv, NEW s \in Sessions, Undo(s)
    PROVE  WinInv'
<1> USE EntryFacts DEF Undo, Named, Move
<1>a. WinType /\ WinLocks /\ WinTrees /\ WinBorn BY DEF WinInv
<1>1. WinType' BY <1>a DEF WinType, WinPoints, Member
<1>2. WinLocks' BY <1>a DEF WinType, WinLocks
<1>3. WinTrees' BY <1>a DEF WinType, WinLocks, WinTrees, WinBorn, Early, Member
<1>4. WinBorn' BY <1>a DEF WinType, WinLocks, WinBorn, Early
<1>5. QED BY <1>1, <1>2, <1>3, <1>4 DEF WinInv

\* close() of a session keeps the invariant.
LEMMA CloseSessionKeeps ==
    ASSUME WinInv, NEW s \in Sessions, CloseSession(s)
    PROVE  WinInv'
<1> USE EntryFacts DEF CloseSession, Release, Named, Move
<1>a. WinType /\ WinLocks /\ WinTrees /\ WinBorn BY DEF WinInv
<1>1. WinType' BY <1>a DEF WinType, WinPoints, Member
<1>2. WinLocks' BY <1>a DEF WinType, WinLocks
<1>3. WinTrees' BY <1>a DEF WinType, WinLocks, WinTrees, WinBorn, Early, Member
<1>4. WinBorn' BY <1>a DEF WinType, WinLocks, WinBorn, Early
<1>5. QED BY <1>1, <1>2, <1>3, <1>4 DEF WinInv

\* Process loss and time.
LEMMA LostKeeps ==
    ASSUME WinInv, NEW s \in Sessions, Lost(s)
    PROVE  WinInv'
<1> USE EntryFacts DEF Lost, Release, Move
<1>a. WinType /\ WinLocks /\ WinTrees /\ WinBorn BY DEF WinInv
<1>1. WinType' BY <1>a DEF WinType, WinPoints, Member
<1>2. WinLocks' BY <1>a DEF WinType, WinLocks
<1>3. WinTrees' BY <1>a DEF WinType, WinLocks, WinTrees, WinBorn, Early, Member
<1>4. WinBorn' BY <1>a DEF WinType, WinLocks, WinBorn, Early
<1>5. QED BY <1>1, <1>2, <1>3, <1>4 DEF WinInv

\* A marker that grows old keeps the invariant.
LEMMA GrowOldKeeps ==
    ASSUME WinInv, NEW s \in Sessions, GrowOld(s)
    PROVE  WinInv'
<1> USE EntryFacts DEF GrowOld, Move
<1>a. WinType /\ WinLocks /\ WinTrees /\ WinBorn BY DEF WinInv
<1>1. WinType' BY <1>a DEF WinType, WinPoints, Member
<1>2. WinLocks' BY <1>a DEF WinType, WinLocks
<1>3. WinTrees' BY <1>a DEF WinType, WinLocks, WinTrees, WinBorn, Early, Member
<1>4. WinBorn' BY <1>a DEF WinType, WinLocks, WinBorn, Early
<1>5. QED BY <1>1, <1>2, <1>3, <1>4 DEF WinInv


\* Every step of the sessions, of their crashes and of the clock keeps the invariant.
LEMMA NextWinInv == WinInv /\ [WinNext]_winVars => WinInv'
<1>1. WinInv /\ UNCHANGED winVars => WinInv'
  BY DEF WinInv, winVars, WinType, WinLocks, WinTrees, WinBorn, Early
<1>2. WinInv /\ WinNext => WinInv'
  BY ListEntriesKeeps, TakeEntryKeeps, AcquireExternalKeeps, VerifyCandidateKeeps, RenameKeeps,
     DeleteMemberKeeps, DeleteEndsKeeps, MakeDirectoryKeeps, WritePrivateKeeps, ReadOwnLockKeeps,
     LockExternalKeeps, ConfirmKeeps, UndoKeeps, CloseSessionKeeps, LostKeeps, GrowOldKeeps
  DEF WinNext
<1>3. QED BY <1>1, <1>2

\* Who holds which lock and what each directory holds on the Windows host
\* (_windows_local_host.py), always.
THEOREM WindowsInvariant == WinSpec => []WinInv
  BY InitWinInv, NextWinInv, PTL DEF WinSpec

\* A live session keeps its whole directory and its lock, trees are deleted only as
\* tombstones by the one holder of their lock, and no exit keeps a lock
\* (cleanup_orphan_sessions, acquire_session_lock, remove_private_tree,
\* remove_locked_session_tree on Windows).
THEOREM WindowsClaimsHonoured == WinSpec => []ClaimsHonoured
<1>1. WinInv => ClaimsHonoured
  BY DEF WinInv, WinType, WinLocks, WinTrees, ClaimsHonoured
<1>2. QED BY <1>1, WindowsInvariant, PTL

\* Locks of the POSIX host are held by live or closing owners and by a cleanup at work,
\* by nobody else: no early exit of the cleanup loop keeps one (cleanup_orphan_sessions).
THEOREM LocksAreReleased == Spec => []NoLockLeak
<1>1. IInv => NoLockLeak BY DEF IInv
<1>2. QED BY <1>1, AlwaysIInv, PTL

=============================================================================
