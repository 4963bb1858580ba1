----------------------- MODULE WorkerControllerProofs -----------------------
(***************************************************************************)
(* Proofs about WorkerController, for any number of calls, closers and     *)
(* permits and any set of host faults the theorem allows.                  *)
(***************************************************************************)
EXTENDS WorkerController, FiniteSetTheorems, TLAPS

\* TypeOK without the range of the semaphore, which needs CapacityConserved.
TypeCore ==
    /\ capacity \in Nat
    /\ lock \in Calls \cup Closers \cup {Nobody}
    /\ closed \in BOOLEAN
    /\ active \subseteq Calls
    /\ allDone \in BOOLEAN
    /\ pc \in [Calls -> CallStep]
    /\ reason \in [Calls -> FailureCode \cup {"none"}]
    /\ outcome \in [Calls -> Outcome]
    /\ cpc \in [Closers -> CloseStep]
    /\ snapshot \in [Closers -> SUBSET Calls]
    /\ closedBy \in Closers \cup {Nobody}
    /\ workRoot \subseteq Calls
    /\ published \in [Dirs -> Calls \cup {Nobody}]
    /\ cancelled \subseteq Calls
    /\ expired \subseteq Calls
    /\ child \in [Calls -> Primary]
    /\ group \subseteq Calls
    /\ termSent \subseteq Calls
    /\ response \in [Calls -> Response]
    /\ noise \in [Calls -> Noise]
    /\ accepting \subseteq Calls
    /\ gotResponse \in [Calls -> Response]
    /\ gotNoise \in [Calls -> Noise]
    /\ responseFailed \subseteq Calls
    /\ noiseFailed \subseteq Calls

-----------------------------------------------------------------------------
(* Types *)

\* Every verdict is one of the outcomes a call may have.
LEMMA VerdictType ==
    ASSUME TypeCore, NEW c \in Calls
    PROVE  Verdict(c) \in Outcome \ {"none"}
BY DEF TypeCore, Verdict, Decoded, Outcome, FailureCode, Response, Noise

\* What a call is doing changes no type.
LEMMA CallTypes ==
    ASSUME TypeCore, NEW c \in Calls, CallNext(c)
    PROVE  TypeCore'
<1> USE ControllerAssumption DEF TypeCore, Finish, Goto, CallStep, Outcome, FailureCode,
        ctrlVars, closeVars, childVars, readVars
<1>1. CASE Acquire(c) BY <1>1 DEF Acquire
<1>2. CASE CheckOpen(c) BY <1>2 DEF CheckOpen
<1>3. CASE Prepare(c) BY <1>3 DEF Prepare, PrepareFailure
<1>4. CASE LaunchBegin(c) BY <1>4 DEF LaunchBegin
<1>5. CASE Launch(c) BY <1>5 DEF Launch, Primary
<1>6. CASE RegisterActive(c) BY <1>6 DEF RegisterActive
<1>7. CASE StartReaders(c) BY <1>7 DEF StartReaders
<1>8. CASE SendRequest(c) BY <1>8 DEF SendRequest
<1>9. CASE MonitorCancel(c) BY <1>9 DEF MonitorCancel, MonitorStop
<1>10. CASE MonitorStreams(c) BY <1>10 DEF MonitorStreams, MonitorStop
<1>11. CASE MonitorChild(c) BY <1>11 DEF MonitorChild, MonitorStop
<1>12. CASE CleanTerminate(c) BY <1>12 DEF CleanTerminate
<1>13. CASE CleanKill(c) BY <1>13 DEF CleanKill, KillTrees, Primary
<1>14. CASE JoinReaders(c) BY <1>14 DEF JoinReaders
<1>15. CASE Judge(c) BY <1>15, VerdictType DEF Judge
<1>16. CASE VerifyBundle(c) BY <1>16 DEF VerifyBundle
<1>17. CASE PublishCheck(c) BY <1>17 DEF PublishCheck
<1>18. CASE PublishRename(c) BY <1>18 DEF PublishRename
<1>19. CASE CloseHandle(c) BY <1>19 DEF CloseHandle
<1>20. CASE LeaveActive(c) BY <1>20 DEF LeaveActive
<1>21. CASE DiscardWorkRoot(c) BY <1>21 DEF DiscardWorkRoot
<1>22. CASE ReleaseCapacity(c) BY <1>22 DEF ReleaseCapacity
<1>23. QED
  BY <1>1, <1>2, <1>3, <1>4, <1>5, <1>6, <1>7, <1>8, <1>9, <1>10, <1>11, <1>12, <1>13,
     <1>14, <1>15, <1>16, <1>17, <1>18, <1>19, <1>20, <1>21, <1>22
  DEF CallNext

\* The environment's steps change no type.
LEMMA EnvTypes ==
    ASSUME TypeCore, NEW c \in Calls,
           ReaderNext(c) \/ ChildNext(c) \/ Cancel(c) \/ Expire(c)
    PROVE  TypeCore'
<1> USE ControllerAssumption DEF TypeCore, Response, Noise, Primary,
        ctrlVars, callVars, closeVars, childVars, readVars
<1>1. CASE ReadNoise(c) BY <1>1 DEF ReadNoise
<1>2. CASE ReadResponse(c) BY <1>2 DEF ReadResponse
<1>3. CASE ReadFails(c) BY <1>3 DEF ReadFails
<1>4. CASE ChildReads(c) BY <1>4 DEF ChildReads
<1>5. CASE ChildNoise(c) BY <1>5 DEF ChildNoise
<1>6. CASE ChildResponds(c) BY <1>6 DEF ChildResponds
<1>7. CASE ChildExits(c) BY <1>7 DEF ChildExits
<1>8. CASE DescendantExits(c) BY <1>8 DEF DescendantExits
<1>9. CASE Cancel(c) BY <1>9 DEF Cancel
<1>10. CASE Expire(c) BY <1>10 DEF Expire
<1>11. QED
  BY <1>1, <1>2, <1>3, <1>4, <1>5, <1>6, <1>7, <1>8, <1>9, <1>10
  DEF ReaderNext, ChildNext

\* The steps of close() change no type.
LEMMA CloseTypes ==
    ASSUME TypeCore, NEW k \in Closers, CloseNext(k)
    PROVE  TypeCore'
<1> USE ControllerAssumption DEF TypeCore, CloseStep, Primary,
        ctrlVars, callVars, closeVars, childVars, readVars
<1>1. CASE CloseBegin(k) BY <1>1 DEF CloseBegin
<1>2. CASE CloseTerminate(k) BY <1>2 DEF CloseTerminate
<1>3. CASE CloseWait(k) BY <1>3 DEF CloseWait
<1>4. CASE CloseKill(k) BY <1>4 DEF CloseKill, KillTrees
<1>5. CASE CloseReturn(k) BY <1>5 DEF CloseReturn
<1>6. QED
  BY <1>1, <1>2, <1>3, <1>4, <1>5
  DEF CloseNext

\* Every step of the controller, its callers and its workers keeps the types.
LEMMA TypeCoreStep == TypeCore /\ [Next]_vars => TypeCore'
<1> SUFFICES ASSUME TypeCore, [Next]_vars PROVE TypeCore' OBVIOUS
<1>1. CASE UNCHANGED vars
  BY <1>1 DEF TypeCore, vars, ctrlVars, callVars, closeVars, childVars, readVars
<1>2. CASE Next BY <1>2, CallTypes, EnvTypes, CloseTypes DEF Next
<1>3. QED BY <1>1, <1>2

-----------------------------------------------------------------------------
(* What the three kinds of steps leave alone *)

\* Callers, clock, workers and capture threads touch neither the controller nor
\* the control state of calls; a process tree only shrinks by itself.
LEMMA EnvFrame ==
    ASSUME NEW c \in Calls, ReaderNext(c) \/ ChildNext(c) \/ Cancel(c) \/ Expire(c)
    PROVE  /\ UNCHANGED <<ctrlVars, callVars, closeVars, workRoot, published>>
           /\ group' \subseteq group
<1> USE DEF ctrlVars, callVars, closeVars, childVars, readVars
<1>1. CASE ReadNoise(c) BY <1>1 DEF ReadNoise
<1>2. CASE ReadResponse(c) BY <1>2 DEF ReadResponse
<1>3. CASE ReadFails(c) BY <1>3 DEF ReadFails
<1>4. CASE ChildReads(c) BY <1>4 DEF ChildReads
<1>5. CASE ChildNoise(c) BY <1>5 DEF ChildNoise
<1>6. CASE ChildResponds(c) BY <1>6 DEF ChildResponds
<1>7. CASE ChildExits(c) BY <1>7 DEF ChildExits
<1>8. CASE DescendantExits(c) BY <1>8 DEF DescendantExits
<1>9. CASE Cancel(c) BY <1>9 DEF Cancel
<1>10. CASE Expire(c) BY <1>10 DEF Expire
<1>11. QED
  BY <1>1, <1>2, <1>3, <1>4, <1>5, <1>6, <1>7, <1>8, <1>9, <1>10
  DEF ReaderNext, ChildNext

\* close() changes the control state of no call and publishes nothing.
LEMMA CloseFrame ==
    ASSUME NEW k \in Closers, CloseNext(k)
    PROVE  /\ UNCHANGED <<capacity, lock, active, allDone, callVars, workRoot, published>>
           /\ group' \subseteq group
<1> USE DEF ctrlVars, callVars, closeVars, childVars, readVars
<1>1. CASE CloseBegin(k) BY <1>1 DEF CloseBegin
<1>2. CASE CloseTerminate(k) BY <1>2 DEF CloseTerminate
<1>3. CASE CloseWait(k) BY <1>3 DEF CloseWait
<1>4. CASE CloseKill(k) BY <1>4 DEF CloseKill, KillTrees
<1>5. CASE CloseReturn(k) BY <1>5 DEF CloseReturn
<1>6. QED
  BY <1>1, <1>2, <1>3, <1>4, <1>5
  DEF CloseNext

-----------------------------------------------------------------------------
(* Permits *)

Holders == {d \in Calls : Holding(d)}

\* A step of a call takes one permit for itself, returns its own, or neither.
LEMMA HoldersStep ==
    ASSUME TypeCore, NEW c \in Calls, CallNext(c)
    PROVE  \/ Holders' = Holders /\ capacity' = capacity
           \/ /\ c \notin Holders /\ Holders' = Holders \cup {c}
              /\ capacity > 0 /\ capacity' = capacity - 1
           \/ /\ c \in Holders /\ Holders' = Holders \ {c}
              /\ capacity' = capacity + 1
<1> USE DEF TypeCore, Holders, Holding, Finish, Goto, ctrlVars
<1>1. CASE Acquire(c) BY <1>1 DEF Acquire
<1>2. CASE CheckOpen(c) BY <1>2 DEF CheckOpen
<1>3. CASE Prepare(c) BY <1>3 DEF Prepare, PrepareFailure
<1>4. CASE LaunchBegin(c) BY <1>4 DEF LaunchBegin
<1>5. CASE Launch(c) BY <1>5 DEF Launch
<1>6. CASE RegisterActive(c) BY <1>6 DEF RegisterActive
<1>7. CASE StartReaders(c) BY <1>7 DEF StartReaders
<1>8. CASE SendRequest(c) BY <1>8 DEF SendRequest
<1>9. CASE MonitorCancel(c) BY <1>9 DEF MonitorCancel, MonitorStop
<1>10. CASE MonitorStreams(c) BY <1>10 DEF MonitorStreams, MonitorStop
<1>11. CASE MonitorChild(c) BY <1>11 DEF MonitorChild, MonitorStop
<1>12. CASE CleanTerminate(c) BY <1>12 DEF CleanTerminate
<1>13. CASE CleanKill(c) BY <1>13 DEF CleanKill, KillTrees
<1>14. CASE JoinReaders(c) BY <1>14 DEF JoinReaders
<1>15. CASE Judge(c) BY <1>15 DEF Judge
<1>16. CASE VerifyBundle(c) BY <1>16 DEF VerifyBundle
<1>17. CASE PublishCheck(c) BY <1>17 DEF PublishCheck
<1>18. CASE PublishRename(c) BY <1>18 DEF PublishRename
<1>19. CASE CloseHandle(c) BY <1>19 DEF CloseHandle
<1>20. CASE LeaveActive(c) BY <1>20 DEF LeaveActive
<1>21. CASE DiscardWorkRoot(c) BY <1>21 DEF DiscardWorkRoot
<1>22. CASE ReleaseCapacity(c) BY <1>22 DEF ReleaseCapacity
<1>23. QED
  BY <1>1, <1>2, <1>3, <1>4, <1>5, <1>6, <1>7, <1>8, <1>9, <1>10, <1>11, <1>12, <1>13,
     <1>14, <1>15, <1>16, <1>17, <1>18, <1>19, <1>20, <1>21, <1>22
  DEF CallNext

\* Permits are conserved by every step, so the semaphore stays in its range.
LEMMA CapacityStep ==
    ASSUME TypeCore, CapacityConserved, [Next]_vars
    PROVE  CapacityConserved'
<1> USE ControllerAssumption
<1>1. IsFiniteSet(Holders)
  BY FS_Subset DEF Holders
<1>2. capacity + Cardinality(Holders) = ConcurrentWorkers /\ capacity \in Nat
  BY DEF CapacityConserved, Holders, TypeCore
<1>3. Cardinality(Holders) \in Nat
  BY <1>1, FS_CardinalityType
<1>4. capacity' + Cardinality(Holders') = ConcurrentWorkers
  <2>1. CASE Holders' = Holders /\ capacity' = capacity BY <2>1, <1>2
  <2>2. ASSUME NEW c \in Calls, CallNext(c) PROVE capacity' + Cardinality(Holders') = ConcurrentWorkers
    <3>1. CASE Holders' = Holders /\ capacity' = capacity BY <3>1, <1>2
    <3>2. CASE c \notin Holders /\ Holders' = Holders \cup {c} /\ capacity' = capacity - 1
      <4>1. Cardinality(Holders') = Cardinality(Holders) + 1
        BY <3>2, <1>1, FS_AddElement
      <4>2. QED BY <4>1, <3>2, <1>2, <1>3
    <3>3. CASE c \in Holders /\ Holders' = Holders \ {c} /\ capacity' = capacity + 1
      <4>1. Cardinality(Holders') = Cardinality(Holders) - 1
        BY <3>3, <1>1, FS_RemoveElement
      <4>2. QED BY <4>1, <3>3, <1>2, <1>3
    <3>4. QED BY <2>2, <3>1, <3>2, <3>3, HoldersStep
  <2>3. CASE UNCHANGED vars
    BY <2>3, <2>1 DEF vars, ctrlVars, callVars, Holders, Holding
  <2>4. ASSUME NEW c \in Calls, ReaderNext(c) \/ ChildNext(c) \/ Cancel(c) \/ Expire(c)
        PROVE  Holders' = Holders /\ capacity' = capacity
    BY <2>4, EnvFrame DEF ctrlVars, callVars, Holders, Holding
  <2>5. ASSUME NEW k \in Closers, CloseNext(k)
        PROVE  Holders' = Holders /\ capacity' = capacity
    BY <2>5, CloseFrame DEF callVars, Holders, Holding
  <2>6. QED BY <2>1, <2>2, <2>3, <2>4, <2>5 DEF Next
<1>5. QED BY <1>4 DEF CapacityConserved, Holders

\* The number of free permits and of calls in progress gives the range.
LEMMA TypeFromCore == TypeCore /\ CapacityConserved => TypeOK
<1> SUFFICES ASSUME TypeCore, CapacityConserved PROVE TypeOK OBVIOUS
<1>1. IsFiniteSet(Holders) /\ Cardinality(Holders) \in Nat
  BY FS_Subset, FS_CardinalityType, ControllerAssumption DEF Holders
<1>2. capacity + Cardinality(Holders) = ConcurrentWorkers
  BY DEF CapacityConserved, Holders
<1>3. capacity \in 0..ConcurrentWorkers
  BY <1>1, <1>2, ControllerAssumption DEF TypeCore
<1>4. QED BY <1>3 DEF TypeCore, TypeOK

-----------------------------------------------------------------------------
(* The lock, the registry, the process trees and close() *)

LockSteps == {"launching", "registering", "renaming"}
RegisteredSteps == {"starting", "sending", "mon_cancel", "mon_streams", "mon_child",
                    "terminating", "killing", "joining", "judging", "verifying",
                    "publishing", "renaming", "closing", "leaving"}
TreeSteps == {"registering", "starting", "sending", "mon_cancel", "mon_streams",
              "mon_child", "terminating", "killing"}
EndSteps == {"closing", "leaving", "discarding", "releasing", "done"}

\* The lock is held across steps only by a call that launches or renames, and by
\* nobody once close() has begun.
LockInv ==
    /\ \A c \in Calls : lock = c <=> pc[c] \in LockSteps
    /\ closed => lock = Nobody

\* _all_done is set exactly when no worker is registered, so the wait in close()
\* neither returns early nor waits for nobody.
AllDoneExact == allDone <=> active = {}

RegistryInv ==
    /\ active = {c \in Calls : pc[c] \in RegisteredSteps}
    /\ AllDoneExact

\* A tree lives between its launch and the kill of the cleanup, and its
\* workspace exists from before the launch until after the finally block began.
TreeInv ==
    /\ \A c \in group : pc[c] \in TreeSteps
    /\ \A c \in Calls : pc[c] \in TreeSteps \cup RegisteredSteps \cup {"prepared", "launching"}
                            => c \in workRoot

CloserInv ==
    \A k \in Closers :
        /\ cpc[k] # "idle" => closed
        /\ closedBy = k => cpc[k] # "idle"
        /\ cpc[k] = "waiting_killed" => group = {}
        /\ cpc[k] = "returned" /\ closedBy = k => group = {}

PublishInv ==
    /\ \A c \in Calls : pc[c] \notin EndSteps => outcome[c] = "none"
    /\ PublishedAgrees

\* The inductive invariant.
IInv == TypeCore /\ CapacityConserved /\ LockInv /\ RegistryInv /\ TreeInv /\ CloserInv /\ PublishInv

\* The strengthened invariant holds initially.
LEMMA InitIInv == Init => IInv
<1> SUFFICES ASSUME Init PROVE IInv OBVIOUS
<1> USE ControllerAssumption DEF Init
<1>1. TypeCore
  BY DEF TypeCore, CallStep, CloseStep, Outcome, FailureCode, Primary, Response, Noise
<1>2. CapacityConserved
  <2>1. {c \in Calls : Holding(c)} = {} BY DEF Holding
  <2>2. Cardinality({c \in Calls : Holding(c)}) = 0 BY <2>1, FS_EmptySet
  <2>3. capacity = ConcurrentWorkers OBVIOUS
  <2>4. QED BY <2>2, <2>3 DEF CapacityConserved
<1>3. LockInv /\ RegistryInv /\ TreeInv /\ CloserInv
  BY DEF LockInv, RegistryInv, AllDoneExact, TreeInv, CloserInv, LockSteps, RegisteredSteps, TreeSteps
<1>4. PublishInv
  BY DEF PublishInv, PublishedAgrees, EndSteps
<1>5. QED BY <1>1, <1>2, <1>3, <1>4 DEF IInv

\* A call keeps the lock discipline and the registry.
LEMMA CallLocks ==
    ASSUME TypeCore, LockInv, RegistryInv, NEW c \in Calls, CallNext(c)
    PROVE  LockInv' /\ RegistryInv'
<1> USE ControllerAssumption DEF TypeCore, LockInv, RegistryInv, AllDoneExact, LockSteps,
        RegisteredSteps, CallStep, Finish, Goto, ctrlVars
<1>1. CASE Acquire(c) BY <1>1 DEF Acquire
<1>2. CASE CheckOpen(c) BY <1>2 DEF CheckOpen
<1>3. CASE Prepare(c) BY <1>3 DEF Prepare, PrepareFailure
<1>4. CASE LaunchBegin(c) BY <1>4 DEF LaunchBegin
<1>5. CASE Launch(c) BY <1>5 DEF Launch
<1>6. CASE RegisterActive(c) BY <1>6 DEF RegisterActive
<1>7. CASE StartReaders(c) BY <1>7 DEF StartReaders
<1>8. CASE SendRequest(c) BY <1>8 DEF SendRequest
<1>9. CASE MonitorCancel(c) BY <1>9 DEF MonitorCancel, MonitorStop
<1>10. CASE MonitorStreams(c) BY <1>10 DEF MonitorStreams, MonitorStop
<1>11. CASE MonitorChild(c) BY <1>11 DEF MonitorChild, MonitorStop
<1>12. CASE CleanTerminate(c) BY <1>12 DEF CleanTerminate
<1>13. CASE CleanKill(c) BY <1>13 DEF CleanKill, KillTrees
<1>14. CASE JoinReaders(c) BY <1>14 DEF JoinReaders
<1>15. CASE Judge(c) BY <1>15 DEF Judge
<1>16. CASE VerifyBundle(c) BY <1>16 DEF VerifyBundle
<1>17. CASE PublishCheck(c) BY <1>17 DEF PublishCheck
<1>18. CASE PublishRename(c) BY <1>18 DEF PublishRename
<1>19. CASE CloseHandle(c) BY <1>19 DEF CloseHandle
<1>20. CASE LeaveActive(c) BY <1>20 DEF LeaveActive
<1>21. CASE DiscardWorkRoot(c) BY <1>21 DEF DiscardWorkRoot
<1>22. CASE ReleaseCapacity(c) BY <1>22 DEF ReleaseCapacity
<1>23. QED
  BY <1>1, <1>2, <1>3, <1>4, <1>5, <1>6, <1>7, <1>8, <1>9, <1>10, <1>11, <1>12, <1>13,
     <1>14, <1>15, <1>16, <1>17, <1>18, <1>19, <1>20, <1>21, <1>22
  DEF CallNext

\* Without a failing Thread.start, a call kills its tree before it leaves the
\* registry, and keeps the workspace as long.
LEMMA CallTrees ==
    ASSUME "reader_start" \notin Faults, TypeCore, TreeInv, NEW c \in Calls, CallNext(c)
    PROVE  TreeInv'
<1> USE ControllerAssumption DEF TypeCore, TreeInv, TreeSteps,
        RegisteredSteps, CallStep, Finish, Goto, ctrlVars, childVars
<1>1. CASE Acquire(c) BY <1>1 DEF Acquire
<1>2. CASE CheckOpen(c) BY <1>2 DEF CheckOpen
<1>3. CASE Prepare(c) BY <1>3 DEF Prepare, PrepareFailure
<1>4. CASE LaunchBegin(c) BY <1>4 DEF LaunchBegin
<1>5. CASE Launch(c) BY <1>5 DEF Launch
<1>6. CASE RegisterActive(c) BY <1>6 DEF RegisterActive
<1>7. CASE StartReaders(c) BY <1>7 DEF StartReaders
<1>8. CASE SendRequest(c) BY <1>8 DEF SendRequest
<1>9. CASE MonitorCancel(c) BY <1>9 DEF MonitorCancel, MonitorStop
<1>10. CASE MonitorStreams(c) BY <1>10 DEF MonitorStreams, MonitorStop
<1>11. CASE MonitorChild(c) BY <1>11 DEF MonitorChild, MonitorStop
<1>12. CASE CleanTerminate(c) BY <1>12 DEF CleanTerminate
<1>13. CASE CleanKill(c) BY <1>13 DEF CleanKill, KillTrees
<1>14. CASE JoinReaders(c) BY <1>14 DEF JoinReaders
<1>15. CASE Judge(c) BY <1>15 DEF Judge
<1>16. CASE VerifyBundle(c) BY <1>16 DEF VerifyBundle
<1>17. CASE PublishCheck(c) BY <1>17 DEF PublishCheck
<1>18. CASE PublishRename(c) BY <1>18 DEF PublishRename
<1>19. CASE CloseHandle(c) BY <1>19 DEF CloseHandle
<1>20. CASE LeaveActive(c) BY <1>20 DEF LeaveActive
<1>21. CASE DiscardWorkRoot(c) BY <1>21 DEF DiscardWorkRoot
<1>22. CASE ReleaseCapacity(c) BY <1>22 DEF ReleaseCapacity
<1>23. QED
  BY <1>1, <1>2, <1>3, <1>4, <1>5, <1>6, <1>7, <1>8, <1>9, <1>10, <1>11, <1>12, <1>13,
     <1>14, <1>15, <1>16, <1>17, <1>18, <1>19, <1>20, <1>21, <1>22
  DEF CallNext

\* A call reports success exactly when it published.
LEMMA CallPublishes ==
    ASSUME TypeCore, PublishInv, NEW c \in Calls, CallNext(c)
    PROVE  PublishInv'
<1> USE ControllerAssumption DEF TypeCore, PublishInv, PublishedAgrees, EndSteps, CallStep, Finish, Goto
<1>1. CASE Acquire(c) BY <1>1 DEF Acquire
<1>2. CASE CheckOpen(c) BY <1>2 DEF CheckOpen
<1>3. CASE Prepare(c) BY <1>3 DEF Prepare, PrepareFailure
<1>4. CASE LaunchBegin(c) BY <1>4 DEF LaunchBegin
<1>5. CASE Launch(c) BY <1>5 DEF Launch
<1>6. CASE RegisterActive(c) BY <1>6 DEF RegisterActive
<1>7. CASE StartReaders(c) BY <1>7 DEF StartReaders
<1>8. CASE SendRequest(c) BY <1>8 DEF SendRequest
<1>9. CASE MonitorCancel(c) BY <1>9 DEF MonitorCancel, MonitorStop
<1>10. CASE MonitorStreams(c) BY <1>10 DEF MonitorStreams, MonitorStop
<1>11. CASE MonitorChild(c) BY <1>11 DEF MonitorChild, MonitorStop
<1>12. CASE CleanTerminate(c) BY <1>12 DEF CleanTerminate
<1>13. CASE CleanKill(c) BY <1>13 DEF CleanKill, KillTrees
<1>14. CASE JoinReaders(c) BY <1>14 DEF JoinReaders
<1>15. CASE Judge(c) BY <1>15 DEF Judge
<1>16. CASE VerifyBundle(c) BY <1>16 DEF VerifyBundle
<1>17. CASE PublishCheck(c) BY <1>17 DEF PublishCheck
<1>18. CASE PublishRename(c) BY <1>18 DEF PublishRename
<1>19. CASE CloseHandle(c) BY <1>19 DEF CloseHandle
<1>20. CASE LeaveActive(c) BY <1>20 DEF LeaveActive
<1>21. CASE DiscardWorkRoot(c) BY <1>21 DEF DiscardWorkRoot
<1>22. CASE ReleaseCapacity(c) BY <1>22 DEF ReleaseCapacity
<1>23. QED
  BY <1>1, <1>2, <1>3, <1>4, <1>5, <1>6, <1>7, <1>8, <1>9, <1>10, <1>11, <1>12, <1>13,
     <1>14, <1>15, <1>16, <1>17, <1>18, <1>19, <1>20, <1>21, <1>22
  DEF CallNext

\* A call starts no process once close() has begun.
LEMMA CallClosers ==
    ASSUME TypeCore, LockInv, CloserInv, NEW c \in Calls, CallNext(c)
    PROVE  CloserInv'
<1> USE ControllerAssumption DEF TypeCore, CloserInv, LockInv, LockSteps, ctrlVars, closeVars, childVars
<1>1. CASE Launch(c)
  <2>1. ~closed BY <1>1 DEF Launch
  <2>2. QED BY <2>1, <1>1 DEF Launch
<1>2. CASE CleanKill(c) BY <1>2 DEF CleanKill, KillTrees
<1>3. ASSUME ~Launch(c), ~CleanKill(c)
      PROVE  UNCHANGED <<closed, cpc, closedBy, group>>
  BY <1>3 DEF CallNext, Acquire, CheckOpen, Prepare, LaunchBegin, RegisterActive, StartReaders,
     SendRequest, MonitorCancel, MonitorStreams, MonitorChild, CleanTerminate, JoinReaders,
     Judge, VerifyBundle, PublishCheck, PublishRename, CloseHandle, LeaveActive,
     DiscardWorkRoot, ReleaseCapacity
<1>4. QED BY <1>1, <1>2, <1>3

\* A step of close() keeps the invariant; the kill reaches every tree there is.
LEMMA CloseInv ==
    ASSUME TypeCore, LockInv, RegistryInv, TreeInv, CloserInv, PublishInv,
           NEW k \in Closers, CloseNext(k)
    PROVE  LockInv' /\ RegistryInv' /\ TreeInv' /\ CloserInv' /\ PublishInv'
<1> USE ControllerAssumption
<1>1. RegistryInv' /\ TreeInv' /\ PublishInv'
  BY CloseFrame DEF RegistryInv, AllDoneExact, TreeInv, PublishInv, PublishedAgrees, callVars
<1>2. LockInv'
  BY CloseFrame DEF LockInv, LockSteps, callVars, ctrlVars, closeVars, TypeCore, CloseNext, CloseBegin,
     CloseTerminate, CloseWait, CloseKill, CloseReturn
<1>3. CloserInv'
  <2> USE DEF TypeCore, CloserInv, ctrlVars, callVars, closeVars, childVars
  <2>1. CASE CloseBegin(k) BY <2>1 DEF CloseBegin
  <2>2. CASE CloseTerminate(k) BY <2>2 DEF CloseTerminate
  <2>3. CASE CloseWait(k)
    <3>1. allDone /\ closed => group = {}
      BY DEF RegistryInv, AllDoneExact, TreeInv, LockInv, LockSteps, TreeSteps, RegisteredSteps
    <3>2. QED BY <2>3, <3>1 DEF CloseWait
  <2>4. CASE CloseKill(k)
    <3>1. group' = {}
      BY <2>4 DEF CloseKill, KillTrees, HandleOpen, RegistryInv, TreeInv, LockInv, LockSteps,
         TreeSteps, RegisteredSteps
    <3>2. QED BY <2>4, <3>1 DEF CloseKill
  <2>5. CASE CloseReturn(k) BY <2>5 DEF CloseReturn
  <2>6. QED BY <2>1, <2>2, <2>3, <2>4, <2>5 DEF CloseNext
<1>4. QED BY <1>1, <1>2, <1>3

\* The environment's steps keep the invariant.
LEMMA EnvInv ==
    ASSUME TypeCore, LockInv, RegistryInv, TreeInv, CloserInv, PublishInv,
           NEW c \in Calls, ReaderNext(c) \/ ChildNext(c) \/ Cancel(c) \/ Expire(c)
    PROVE  LockInv' /\ RegistryInv' /\ TreeInv' /\ CloserInv' /\ PublishInv'
<1>1. UNCHANGED <<ctrlVars, callVars, closeVars, workRoot, published>> /\ group' \subseteq group
  BY EnvFrame
<1>2. QED
  BY <1>1 DEF ctrlVars, callVars, closeVars, LockInv, RegistryInv, AllDoneExact, TreeInv,
     CloserInv, PublishInv, PublishedAgrees

\* The strengthened invariant is inductive when Thread.start does not fail.
LEMMA StepIInv ==
    ASSUME "reader_start" \notin Faults
    PROVE  IInv /\ [Next]_vars => IInv'
<1> SUFFICES ASSUME IInv, [Next]_vars PROVE IInv' OBVIOUS
<1> USE DEF IInv
<1>1. TypeCore' BY TypeCoreStep
<1>2. CapacityConserved' BY CapacityStep
<1>3. LockInv' /\ RegistryInv' /\ TreeInv' /\ CloserInv' /\ PublishInv'
  <2>1. CASE UNCHANGED vars
    BY <2>1 DEF vars, ctrlVars, callVars, closeVars, childVars, LockInv, RegistryInv, AllDoneExact,
       TreeInv, CloserInv, PublishInv, PublishedAgrees
  <2>2. ASSUME NEW c \in Calls, CallNext(c)
        PROVE  LockInv' /\ RegistryInv' /\ TreeInv' /\ CloserInv' /\ PublishInv'
    BY <2>2, CallLocks, CallTrees, CallClosers, CallPublishes
  <2>3. CASE Next BY <2>2, <2>3, EnvInv, CloseInv DEF Next
  <2>4. QED BY <2>1, <2>3
<1>4. QED BY <1>1, <1>2, <1>3

\* The part of the invariant that no host fault disturbs.
LEMMA StepCapacity == (TypeCore /\ CapacityConserved) /\ [Next]_vars => (TypeCore /\ CapacityConserved)'
BY TypeCoreStep, CapacityStep

-----------------------------------------------------------------------------
(* What a successful call says of its worker *)

ListeningSteps == {"starting", "sending", "mon_cancel", "mon_streams", "mon_child", "terminating"}
DeadSteps == {"joining", "judging", "verifying", "publishing", "renaming"}

\* What the call says of its worker is so, and the worker can change it no more.
Honest(c) ==
    c \notin group /\ child[c] = "exited" /\ response[c] = "success" /\ noise[c] = "quiet"

HonestInv ==
    \A c \in Calls :
        /\ pc[c] \in ListeningSteps => c \in accepting
        /\ pc[c] \in {"killing", "joining", "judging"} /\ reason[c] = "none" => c \in accepting
        /\ pc[c] \in DeadSteps => c \notin group /\ child[c] \notin {"starting", "running"}
        /\ pc[c] = "judging" /\ reason[c] = "none" =>
              /\ c \in noiseFailed \/ gotNoise[c] = noise[c]
              /\ c \in responseFailed \/ gotResponse[c] = response[c]
        /\ pc[c] \in {"verifying", "publishing", "renaming"} \/ outcome[c] = "success" => Honest(c)

\* A verdict of success is drawn from complete captures of a worker that exited with code 0.
LEMMA VerdictHonest ==
    ASSUME TypeCore, HonestInv, NEW c \in Calls, pc[c] = "judging", Verdict(c) = "success"
    PROVE  Honest(c)
<1>1. reason[c] = "none" /\ child[c] = "exited" /\ c \notin responseFailed \cup noiseFailed
  BY DEF Verdict, TypeCore, FailureCode
<1>2. gotNoise[c] = "quiet" /\ gotResponse[c] = "success"
  BY <1>1 DEF Verdict, Decoded
<1>3. QED BY <1>1, <1>2 DEF HonestInv, Honest, DeadSteps

\* A call keeps the facts its success is built on.
LEMMA CallHonest ==
    ASSUME "join_timeout" \notin Faults, TypeCore, PublishInv, HonestInv, NEW c \in Calls, CallNext(c)
    PROVE  HonestInv'
<1> USE ControllerAssumption DEF TypeCore, PublishInv, EndSteps, HonestInv, Honest, ListeningSteps,
        DeadSteps, CallStep, Finish, Goto, childVars, readVars
<1>1. CASE Acquire(c) BY <1>1 DEF Acquire
<1>2. CASE CheckOpen(c) BY <1>2 DEF CheckOpen
<1>3. CASE Prepare(c) BY <1>3 DEF Prepare, PrepareFailure
<1>4. CASE LaunchBegin(c) BY <1>4 DEF LaunchBegin
<1>5. CASE Launch(c) BY <1>5 DEF Launch
<1>6. CASE RegisterActive(c) BY <1>6 DEF RegisterActive
<1>7. CASE StartReaders(c) BY <1>7 DEF StartReaders
<1>8. CASE SendRequest(c) BY <1>8 DEF SendRequest
<1>9. CASE MonitorCancel(c) BY <1>9 DEF MonitorCancel, MonitorStop
<1>10. CASE MonitorStreams(c) BY <1>10 DEF MonitorStreams, MonitorStop
<1>11. CASE MonitorChild(c) BY <1>11 DEF MonitorChild, MonitorStop
<1>12. CASE CleanTerminate(c) BY <1>12 DEF CleanTerminate
<1>13. CASE CleanKill(c) BY <1>13 DEF CleanKill, KillTrees
<1>14. CASE JoinReaders(c) BY <1>14 DEF JoinReaders, ReadersEnded
<1>15. CASE Judge(c) BY <1>15, VerdictHonest, VerdictType DEF Judge
<1>16. CASE VerifyBundle(c) BY <1>16 DEF VerifyBundle
<1>17. CASE PublishCheck(c) BY <1>17 DEF PublishCheck
<1>18. CASE PublishRename(c) BY <1>18 DEF PublishRename
<1>19. CASE CloseHandle(c) BY <1>19 DEF CloseHandle
<1>20. CASE LeaveActive(c) BY <1>20 DEF LeaveActive
<1>21. CASE DiscardWorkRoot(c) BY <1>21 DEF DiscardWorkRoot
<1>22. CASE ReleaseCapacity(c) BY <1>22 DEF ReleaseCapacity
<1>23. QED
  BY <1>1, <1>2, <1>3, <1>4, <1>5, <1>6, <1>7, <1>8, <1>9, <1>10, <1>11, <1>12, <1>13,
     <1>14, <1>15, <1>16, <1>17, <1>18, <1>19, <1>20, <1>21, <1>22
  DEF CallNext

\* So does everything around it.
LEMMA EnvHonest ==
    ASSUME TypeCore, HonestInv, NEW c \in Calls,
           ReaderNext(c) \/ ChildNext(c) \/ Cancel(c) \/ Expire(c)
    PROVE  HonestInv'
<1> USE DEF TypeCore, HonestInv, Honest, ListeningSteps, DeadSteps, ctrlVars, callVars, closeVars,
        childVars, readVars
<1>1. CASE ReadNoise(c) BY <1>1 DEF ReadNoise
<1>2. CASE ReadResponse(c) BY <1>2 DEF ReadResponse
<1>3. CASE ReadFails(c) BY <1>3 DEF ReadFails
<1>4. CASE ChildReads(c) BY <1>4 DEF ChildReads
<1>5. CASE ChildNoise(c) BY <1>5 DEF ChildNoise
<1>6. CASE ChildResponds(c) BY <1>6 DEF ChildResponds
<1>7. CASE ChildExits(c) BY <1>7 DEF ChildExits
<1>8. CASE DescendantExits(c) BY <1>8 DEF DescendantExits
<1>9. CASE Cancel(c) BY <1>9 DEF Cancel
<1>10. CASE Expire(c) BY <1>10 DEF Expire
<1>11. QED
  BY <1>1, <1>2, <1>3, <1>4, <1>5, <1>6, <1>7, <1>8, <1>9, <1>10
  DEF ReaderNext, ChildNext

\* No step of a close() makes a call lie about its success.
LEMMA CloseHonest ==
    ASSUME TypeCore, HonestInv, NEW k \in Closers, CloseNext(k)
    PROVE  HonestInv'
<1> USE DEF TypeCore, HonestInv, Honest, ListeningSteps, DeadSteps, callVars, closeVars, childVars, readVars
<1>1. CASE CloseBegin(k) BY <1>1 DEF CloseBegin
<1>2. CASE CloseTerminate(k) BY <1>2 DEF CloseTerminate
<1>3. CASE CloseWait(k) BY <1>3 DEF CloseWait
<1>4. CASE CloseKill(k) BY <1>4 DEF CloseKill, KillTrees
<1>5. CASE CloseReturn(k) BY <1>5 DEF CloseReturn
<1>6. QED BY <1>1, <1>2, <1>3, <1>4, <1>5 DEF CloseNext

\* Without a join that times out, every step keeps the facts.
LEMMA StepHonest ==
    ASSUME "join_timeout" \notin Faults
    PROVE  (TypeCore /\ PublishInv /\ HonestInv) /\ [Next]_vars => (TypeCore /\ PublishInv /\ HonestInv)'
<1> SUFFICES ASSUME TypeCore, PublishInv, HonestInv, [Next]_vars
             PROVE  (TypeCore /\ PublishInv /\ HonestInv)'
  OBVIOUS
<1>1. CASE UNCHANGED vars
  BY <1>1 DEF vars, ctrlVars, callVars, closeVars, childVars, readVars, TypeCore, PublishInv,
     PublishedAgrees, HonestInv, Honest
<1>2. ASSUME NEW c \in Calls, CallNext(c) PROVE PublishInv' /\ HonestInv'
  BY <1>2, CallPublishes, CallHonest
<1>3. ASSUME NEW c \in Calls, ReaderNext(c) \/ ChildNext(c) \/ Cancel(c) \/ Expire(c)
      PROVE  PublishInv' /\ HonestInv'
  BY <1>3, EnvFrame, EnvHonest DEF callVars, PublishInv, PublishedAgrees
<1>4. ASSUME NEW k \in Closers, CloseNext(k) PROVE PublishInv' /\ HonestInv'
  BY <1>4, CloseFrame, CloseHonest DEF callVars, PublishInv, PublishedAgrees
<1>5. QED BY <1>1, <1>2, <1>3, <1>4, TypeCoreStep DEF Next

-----------------------------------------------------------------------------
(* Theorems *)

\* Types and permits, whatever may fail: every exit of execute_operation and
\* _execute_inspection returns its permit exactly once, and the semaphore never
\* leaves its range.
THEOREM PermitsConserved == Spec => [](TypeOK /\ CapacityConserved)
<1>1. Init => TypeCore /\ CapacityConserved BY InitIInv DEF IInv
<1>2. TypeCore /\ CapacityConserved => TypeOK /\ CapacityConserved BY TypeFromCore
<1>3. QED BY <1>1, <1>2, StepCapacity, PTL DEF Spec

\* A live process tree is always in the registry or being launched under the
\* lock, and its workspace exists, when Thread.start does not fail.
THEOREM TreesOwned ==
    ASSUME "reader_start" \notin Faults
    PROVE  Spec => []TreeOwned
<1>1. IInv => TreeOwned
  BY DEF IInv, TypeCore, TreeInv, LockInv, RegistryInv, TreeOwned,
     TreeSteps, LockSteps, RegisteredSteps
<1>2. QED BY <1>1, InitIInv, StepIInv, PTL DEF Spec

\* The wait of close() is exact, and when the effective close() returns, on
\* either path, no worker process is left.
THEOREM CloseIsComplete ==
    ASSUME "reader_start" \notin Faults
    PROVE  Spec => [](AllDoneExact /\ CloseLeavesNoTree)
<1>1. IInv => AllDoneExact /\ CloseLeavesNoTree
  BY DEF IInv, RegistryInv, CloserInv, CloseLeavesNoTree
<1>2. QED BY <1>1, InitIInv, StepIInv, PTL DEF Spec

\* Success is reported exactly for the bundle that was published.
THEOREM PublicationAgrees ==
    ASSUME "reader_start" \notin Faults
    PROVE  Spec => []PublishedAgrees
<1>1. IInv => PublishedAgrees BY DEF IInv, PublishInv
<1>2. QED BY <1>1, InitIInv, StepIInv, PTL DEF Spec

\* Nothing is published after close() has begun: the check and the rename share
\* one section of the lock.
THEOREM ShutdownStopsPublication ==
    ASSUME "reader_start" \notin Faults
    PROVE  Spec => NoPublishAfterClose
<1>1. IInv /\ [Next]_vars => [closed => UNCHANGED published]_vars
  <2> SUFFICES ASSUME IInv, Next, closed PROVE UNCHANGED published
    BY DEF vars
  <2>1. ASSUME NEW c \in Calls, CallNext(c) PROVE UNCHANGED published
    <3>1. ~PublishRename(c)
      BY ControllerAssumption DEF IInv, TypeCore, LockInv, LockSteps, PublishRename
    <3>2. QED
      BY <2>1, <3>1 DEF CallNext, Acquire, CheckOpen, Prepare, LaunchBegin, Launch, RegisterActive,
         StartReaders, SendRequest, MonitorCancel, MonitorStreams, MonitorChild, CleanTerminate,
         CleanKill, JoinReaders, Judge, VerifyBundle, PublishCheck, CloseHandle, LeaveActive,
         DiscardWorkRoot, ReleaseCapacity
  <2>2. QED BY <2>1, EnvFrame, CloseFrame DEF Next
<1>2. QED BY <1>1, InitIInv, StepIInv, PTL DEF Spec, NoPublishAfterClose

\* A successful call ran a worker that exited with code 0 after a success response and
\* whose whole tree wrote nothing outside the typed protocol, when every capture thread is
\* joined: the captures execute_operation and _execute_inspection judge are complete.
THEOREM SuccessIsHonest ==
    ASSUME "join_timeout" \notin Faults
    PROVE  Spec => []HonestSuccess
<1>1. Init => HonestInv BY DEF Init, HonestInv, ListeningSteps, DeadSteps
<1>2. TypeCore /\ PublishInv /\ HonestInv => HonestSuccess BY DEF HonestInv, Honest, HonestSuccess
<1>3. QED BY <1>1, <1>2, InitIInv, StepHonest, PTL DEF Spec, IInv
=============================================================================
