-------------------------- MODULE ThreadPoolProofs --------------------------
(***************************************************************************)
(* Proofs about ThreadPool: PoolInv is inductive when the manager waits    *)
(* for run() after startThreads (Handshake), and it implies the safety     *)
(* properties of the pool.                                                 *)
(***************************************************************************)
EXTENDS ThreadPool, TLAPS

USE DEF InRunPC, WorkerPC, ManagerPC, Active, InRun, Free, flags, status,
        worker, tvars, mvars, WorkerGoes, WorkerExits

(* The steps of threadStart, and those of ~Thread.                         *)
StartPC == {"startCall", "startReset", "startCreate"}
DeletePC == {"dying", "free"}

(* In destroyAllThreads after its stopThreads.                             *)
DestroysAll ==
  \/ mpc \in {"relock", "destroy"}
  \/ mpc \in DeletePC /\ poolLock = Manager

(* Which steps hold the pool mutex, and what the iterator and the thread   *)
(* being visited have to do with the set.                                  *)
LockInv ==
  /\ mpc \in StartPC \cup {"start", "signal", "scan", "destroy", "aborted"}
       => poolLock = Manager
  /\ mpc \in {"idle", "poll", "await", "relock"} => poolLock = NoOne
  /\ todo \subseteq threads
  /\ poolLock = NoOne => todo = {}
  /\ mpc \in StartPC => cur \in threads \ todo
  /\ mpc \in DeletePC =>
       /\ cur \in Threads \ todo
       /\ IF poolLock = Manager THEN cur \in threads
                                ELSE cur \notin threads \cup Removers

(* Threads are created in startThreads only, each at most once in it.      *)
CreatedInv ==
  \A w \in Workers : wpc[w] = "created" =>
    /\ mpc \in StartPC \cup {"start", "await", "aborted"}
    /\ wobj[w] \notin todo
    /\ mpc \in StartPC => wobj[w] # cur

(* threadStart goes on only with an object that nobody runs.               *)
FreshInv ==
  mpc \in {"startReset", "startCreate"} => \A w \in Workers : ~Active(w, cur)

(* IsRunning and runcount tell of every run, and there is one at a time.   *)
RunInv ==
  \A t \in Threads, w \in Workers :
    /\ InRun(w, t) => IsRunning[t] /\ runcount[t] >= 1
    /\ \A v \in Workers : Active(w, t) /\ Active(v, t) => w = v

(* Only SelfDeleters are deleted by their own OS thread, the only one they *)
(* ever have, and when run() is over they have left the pool for good.     *)
SelfDeleteInv ==
  /\ \A t \in Threads : deleteMe[t] => t \in SelfDeleters
  /\ \A w \in Workers :
       /\ wpc[w] = "deleting" => wobj[w] \in SelfDeleters
       /\ wobj[w] \in SelfDeleters =>
            /\ \A v \in Workers : wobj[v] = wobj[w] => v = w
            /\ wpc[w] \in {"tail", "deleting"} =>
                 runcount[wobj[w]] >= 1 /\ wobj[w] \notin threads

(* What running() has established about the threads it looked at stays     *)
(* true until the method that asked is done with them.  It does not hold   *)
(* of the threads addThread takes meanwhile that run already.              *)
JoinedInv ==
  \A t \in threads, w \in Workers :
    \/ mpc = "scan" /\ t \notin todo
    \/ DestroysAll /\ t \notin late
    => ~Active(w, t)

PoolInv ==
  /\ TypeOK /\ LockInv /\ CreatedInv /\ FreshInv /\ RunInv /\ SelfDeleteInv
  /\ JoinedInv /\ PoolPointsToLive /\ NoRunOnDeleted

USE DEF StartPC, DeletePC, DestroysAll
-----------------------------------------------------------------------------
(* What Mutex::signal does to the OS threads.                              *)
OnlyWakes ==
  /\ wobj' = wobj
  /\ wpc' \in [Workers -> WorkerPC]
  /\ \A w \in Workers :
       \/ wpc'[w] = wpc[w]
       \/ wpc[w] = "waiting" /\ wpc'[w] = "wokeWait"
       \/ wpc[w] = "sleeping" /\ wpc'[w] = "wokeSleep"

LEMMA SignalEffect ==
  ASSUME NEW t \in Threads, ThreadTypeOK, Signal(t)
  PROVE  OnlyWakes
BY DEF Signal, Waiters, ThreadTypeOK, OnlyWakes

-----------------------------------------------------------------------------
(* The manager: a step that needs more than the conjunct it preserves is   *)
(* listed with the conjuncts it needs.                                     *)
LEMMA ManagerKeepsInv ==
  ASSUME PoolInv, Handshake, ManagerStep
  PROVE  PoolInv'
<1> USE ThreadAssumption, PoolAssumption
    DEF PoolInv, TypeOK, ThreadTypeOK, OnlyWakes
<1>1. CASE StartThreads
  BY <1>1 DEF StartThreads, Lock, LockInv, CreatedInv, FreshInv, RunInv,
     SelfDeleteInv, JoinedInv, PoolPointsToLive, NoRunOnDeleted
<1>2. CASE StartVisit
  BY <1>2 DEF StartVisit, Visit, LockInv, CreatedInv, FreshInv, RunInv,
     SelfDeleteInv, JoinedInv, PoolPointsToLive, NoRunOnDeleted
<1>3. CASE StartCall
  <2>1. TypeOK' /\ LockInv'
    BY <1>3 DEF StartCall, Abort, ManagerGoes, LockInv
  <2>2. FreshInv'
    BY <1>3 DEF StartCall, Abort, ManagerGoes, FreshInv, LockInv, CreatedInv,
       RunInv
  <2>3. CreatedInv' /\ RunInv' /\ SelfDeleteInv' /\ JoinedInv' /\
        PoolPointsToLive' /\ NoRunOnDeleted'
    BY <1>3 DEF StartCall, Abort, ManagerGoes, CreatedInv, RunInv,
       SelfDeleteInv, JoinedInv, PoolPointsToLive, NoRunOnDeleted
  <2>4. QED
    BY <2>1, <2>2, <2>3 DEF PoolInv
<1>4. CASE StartReset
  <2>1. TypeOK' /\ LockInv'
    BY <1>4 DEF StartReset, ThreadStartReset, ManagerGoes, LockInv
  <2>2. RunInv'
    BY <1>4 DEF StartReset, ThreadStartReset, ManagerGoes, RunInv, LockInv,
       FreshInv
  <2>3. CreatedInv' /\ FreshInv' /\ SelfDeleteInv' /\ JoinedInv' /\
        PoolPointsToLive' /\ NoRunOnDeleted'
    BY <1>4 DEF StartReset, ThreadStartReset, ManagerGoes, CreatedInv,
       FreshInv, SelfDeleteInv, JoinedInv, PoolPointsToLive, NoRunOnDeleted
  <2>4. QED
    BY <2>1, <2>2, <2>3 DEF PoolInv
<1>5. CASE StartCreate
  <2>1. CASE ThreadStartCreate(cur) /\ ManagerGoes("start") /\ UNCHANGED poolLock
    <3>1. TypeOK' /\ LockInv'
      BY <1>5, <2>1 DEF StartCreate, ManagerGoes, Abort, ThreadStartCreate,
         LockInv
    <3>2. CreatedInv'
      BY <1>5, <2>1 DEF StartCreate, ManagerGoes, Abort, ThreadStartCreate,
         CreatedInv, LockInv
    <3>3. RunInv'
      BY <1>5, <2>1 DEF StartCreate, ManagerGoes, Abort, ThreadStartCreate,
         RunInv, FreshInv
    <3>4. SelfDeleteInv'
      BY <1>5, <2>1 DEF StartCreate, ManagerGoes, Abort, ThreadStartCreate,
         SelfDeleteInv, LockInv, FreshInv
    <3>5. FreshInv' /\ JoinedInv' /\ PoolPointsToLive' /\ NoRunOnDeleted'
      BY <1>5, <2>1 DEF StartCreate, ManagerGoes, Abort, ThreadStartCreate,
         FreshInv, JoinedInv, PoolPointsToLive, NoRunOnDeleted
    <3>6. QED
      BY <3>1, <3>2, <3>3, <3>4, <3>5 DEF PoolInv
  <2>2. CASE ThreadStartFails(cur) /\ Abort
    <3>1. TypeOK' /\ LockInv'
      BY <1>5, <2>2 DEF StartCreate, ManagerGoes, Abort, ThreadStartFails,
         LockInv
    <3>2. RunInv'
      BY <1>5, <2>2 DEF StartCreate, ManagerGoes, Abort, ThreadStartFails,
         RunInv, FreshInv
    <3>3. CreatedInv' /\ FreshInv' /\ SelfDeleteInv' /\ JoinedInv' /\
          PoolPointsToLive' /\ NoRunOnDeleted'
      BY <1>5, <2>2 DEF StartCreate, ManagerGoes, Abort, ThreadStartFails,
         CreatedInv, FreshInv, SelfDeleteInv, JoinedInv, PoolPointsToLive,
         NoRunOnDeleted
    <3>4. QED
      BY <3>1, <3>2, <3>3 DEF PoolInv
  <2>3. QED
    BY <1>5, <2>1, <2>2 DEF StartCreate
<1>6. CASE StartEnd
  BY <1>6 DEF StartEnd, Unlock, ManagerGoes, LockInv, CreatedInv, FreshInv,
     RunInv, SelfDeleteInv, JoinedInv, PoolPointsToLive, NoRunOnDeleted
<1>7. CASE Await
  BY <1>7 DEF Await, ManagerGoes, LockInv, CreatedInv, FreshInv, RunInv,
     SelfDeleteInv, JoinedInv, PoolPointsToLive, NoRunOnDeleted
<1>8. CASE StopThreads
  BY <1>8 DEF StopThreads, Lock, LockInv, CreatedInv, FreshInv, RunInv,
     SelfDeleteInv, JoinedInv, PoolPointsToLive, NoRunOnDeleted
<1>9. ASSUME NEW t \in todo, mpc = "signal", Visit(t), ThreadSignalStop(Manager, t),
             UNCHANGED <<threads, poolLock, mpc, cur, goal, late>>
      PROVE  PoolInv'
  <2>0. OnlyWakes
    BY <1>9, SignalEffect DEF ThreadSignalStop
  <2>1. TypeOK' /\ LockInv'
    BY <1>9, <2>0 DEF Visit, ThreadSignalStop, LockInv
  <2>2. CreatedInv' /\ FreshInv' /\ RunInv' /\ SelfDeleteInv' /\
        JoinedInv' /\ PoolPointsToLive' /\ NoRunOnDeleted'
    BY <1>9, <2>0 DEF Visit, ThreadSignalStop, CreatedInv, FreshInv, RunInv,
       SelfDeleteInv, JoinedInv, PoolPointsToLive, NoRunOnDeleted
  <2>3. QED
    BY <2>1, <2>2 DEF PoolInv
<1>10. CASE SignalEnd
  BY <1>10 DEF SignalEnd, Unlock, ManagerGoes, LockInv, CreatedInv, FreshInv,
     RunInv, SelfDeleteInv, JoinedInv, PoolPointsToLive, NoRunOnDeleted
<1>11. CASE Scan
  BY <1>11 DEF Scan, Lock, LockInv, CreatedInv, FreshInv, RunInv,
     SelfDeleteInv, JoinedInv, PoolPointsToLive, NoRunOnDeleted
<1>12. CASE ScanVisit
  <2>1. TypeOK' /\ LockInv'
    BY <1>12 DEF ScanVisit, Visit, Unlock, Abort, LockInv
  <2>2. JoinedInv'
    BY <1>12 DEF ScanVisit, Visit, Unlock, Abort, JoinedInv, CreatedInv,
       RunInv
  <2>3. CreatedInv' /\ FreshInv' /\ RunInv' /\ SelfDeleteInv' /\
        PoolPointsToLive' /\ NoRunOnDeleted'
    BY <1>12 DEF ScanVisit, Visit, Unlock, Abort, CreatedInv, FreshInv,
       RunInv, SelfDeleteInv, PoolPointsToLive, NoRunOnDeleted
  <2>4. QED
    BY <2>1, <2>2, <2>3 DEF PoolInv
<1>13. CASE ScanEnd
  BY <1>13 DEF ScanEnd, Unlock, ManagerGoes, LockInv, CreatedInv, FreshInv,
     RunInv, SelfDeleteInv, JoinedInv, PoolPointsToLive, NoRunOnDeleted
<1>14. CASE Relock
  BY <1>14 DEF Relock, Lock, LockInv, CreatedInv, FreshInv, RunInv,
     SelfDeleteInv, JoinedInv, PoolPointsToLive, NoRunOnDeleted
<1>15. ASSUME NEW t \in todo, mpc = "destroy", Visit(t), BeginDelete(t),
             UNCHANGED <<threads, poolLock, goal, late>>
      PROVE  PoolInv'
  <2>1. CASE ThreadStopRequest(t) /\ mpc' = "dying"
    <3>0. OnlyWakes
      BY <1>15, <2>1, SignalEffect DEF ThreadStopRequest
    <3>1. TypeOK' /\ LockInv'
      BY <1>15, <2>1, <3>0 DEF Visit, BeginDelete, ThreadStopRequest, LockInv
    <3>2. CreatedInv' /\ FreshInv' /\ RunInv' /\ SelfDeleteInv' /\
          JoinedInv' /\ PoolPointsToLive' /\ NoRunOnDeleted'
      BY <1>15, <2>1, <3>0 DEF Visit, BeginDelete, ThreadStopRequest,
         CreatedInv, FreshInv, RunInv, SelfDeleteInv, JoinedInv,
         PoolPointsToLive, NoRunOnDeleted
    <3>3. QED
      BY <3>1, <3>2 DEF PoolInv
  <2>2. CASE ThreadStopReturn(t) /\ mpc' = "free"
    <3>1. TypeOK' /\ LockInv'
      BY <1>15, <2>2 DEF Visit, BeginDelete, ThreadStopReturn, LockInv
    <3>2. NoRunOnDeleted'
      BY <1>15, <2>2 DEF Visit, BeginDelete, ThreadStopReturn, NoRunOnDeleted,
         CreatedInv, RunInv
    <3>3. CreatedInv' /\ FreshInv' /\ RunInv' /\ SelfDeleteInv' /\
          JoinedInv' /\ PoolPointsToLive'
      BY <1>15, <2>2 DEF Visit, BeginDelete, ThreadStopReturn, CreatedInv,
         FreshInv, RunInv, SelfDeleteInv, JoinedInv, PoolPointsToLive
    <3>4. QED
      BY <3>1, <3>2, <3>3 DEF PoolInv
  <2>3. QED
    BY <1>15, <2>1, <2>2 DEF BeginDelete
<1>16. ASSUME NEW t \in Threads, DestroyThread(t)
      PROVE  PoolInv'
  <2>1. CASE ThreadStopRequest(t) /\ mpc' = "dying"
    <3>0. OnlyWakes
      BY <1>16, <2>1, SignalEffect DEF ThreadStopRequest
    <3>1. TypeOK' /\ LockInv'
      BY <1>16, <2>1, <3>0 DEF DestroyThread, BeginDelete, ThreadStopRequest,
         LockInv
    <3>2. CreatedInv' /\ FreshInv' /\ RunInv' /\ SelfDeleteInv' /\
          JoinedInv' /\ PoolPointsToLive' /\ NoRunOnDeleted'
      BY <1>16, <2>1, <3>0 DEF DestroyThread, BeginDelete, ThreadStopRequest,
         CreatedInv, FreshInv, RunInv, SelfDeleteInv, JoinedInv,
         PoolPointsToLive, NoRunOnDeleted
    <3>3. QED
      BY <3>1, <3>2 DEF PoolInv
  <2>2. CASE ThreadStopReturn(t) /\ mpc' = "free"
    <3>1. TypeOK' /\ LockInv'
      BY <1>16, <2>2 DEF DestroyThread, BeginDelete, ThreadStopReturn, LockInv
    <3>2. NoRunOnDeleted'
      BY <1>16, <2>2 DEF DestroyThread, BeginDelete, ThreadStopReturn,
         NoRunOnDeleted, CreatedInv, RunInv
    <3>3. CreatedInv' /\ FreshInv' /\ RunInv' /\ SelfDeleteInv' /\
          JoinedInv' /\ PoolPointsToLive'
      BY <1>16, <2>2 DEF DestroyThread, BeginDelete, ThreadStopReturn,
         CreatedInv, FreshInv, RunInv, SelfDeleteInv, JoinedInv,
         PoolPointsToLive
    <3>4. QED
      BY <3>1, <3>2, <3>3 DEF PoolInv
  <2>3. QED
    BY <1>16, <2>1, <2>2 DEF DestroyThread, BeginDelete
<1>17. CASE Dying
  <2>1. TypeOK' /\ LockInv'
    BY <1>17 DEF Dying, ThreadStopReturn, ManagerGoes, LockInv
  <2>2. NoRunOnDeleted'
    BY <1>17 DEF Dying, ThreadStopReturn, ManagerGoes, NoRunOnDeleted,
       CreatedInv, RunInv
  <2>3. CreatedInv' /\ FreshInv' /\ RunInv' /\ SelfDeleteInv' /\
        JoinedInv' /\ PoolPointsToLive'
    BY <1>17 DEF Dying, ThreadStopReturn, ManagerGoes, CreatedInv, FreshInv,
       RunInv, SelfDeleteInv, JoinedInv, PoolPointsToLive
  <2>4. QED
    BY <2>1, <2>2, <2>3 DEF PoolInv
<1>18. CASE DyingFrees
  <2>1. TypeOK' /\ LockInv'
    BY <1>18 DEF DyingFrees, ThreadFree, ManagerGoes, LockInv
  <2>2. PoolPointsToLive'
    BY <1>18 DEF DyingFrees, ThreadFree, ManagerGoes, PoolPointsToLive,
       LockInv
  <2>3. CreatedInv' /\ FreshInv' /\ RunInv' /\ SelfDeleteInv' /\
        JoinedInv' /\ NoRunOnDeleted'
    BY <1>18 DEF DyingFrees, ThreadFree, ManagerGoes, CreatedInv, FreshInv,
       RunInv, SelfDeleteInv, JoinedInv, NoRunOnDeleted
  <2>4. QED
    BY <2>1, <2>2, <2>3 DEF PoolInv
<1>19. CASE DestroyEnd
  BY <1>19 DEF DestroyEnd, Unlock, ManagerGoes, LockInv, CreatedInv, FreshInv,
     RunInv, SelfDeleteInv, JoinedInv, PoolPointsToLive, NoRunOnDeleted
<1>20. QED
  BY <1>1, <1>2, <1>3, <1>4, <1>5, <1>6, <1>7, <1>8, <1>9, <1>10, <1>11,
     <1>12, <1>13, <1>14, <1>15, <1>16, <1>17, <1>18, <1>19
  DEF ManagerStep, SignalVisit, DestroyVisit

-----------------------------------------------------------------------------
(* The other application threads: a running thread that addThread takes    *)
(* in the middle of a stop is late, and none has deleted itself.           *)
LEMMA OtherKeepsInv ==
  ASSUME PoolInv, OtherStep
  PROVE  PoolInv'
<1> USE ThreadAssumption, PoolAssumption
    DEF PoolInv, TypeOK, ThreadTypeOK, OnlyWakes
<1>1. ASSUME NEW t \in Threads, DeleteOnExit(t)
      PROVE  PoolInv'
  BY <1>1 DEF DeleteOnExit, ThreadDeleteOnExit, LockInv, CreatedInv, FreshInv,
     RunInv, SelfDeleteInv, JoinedInv, PoolPointsToLive, NoRunOnDeleted
<1>2. ASSUME NEW t \in Threads, AddThread(t)
      PROVE  PoolInv'
  BY <1>2 DEF AddThread, LockInv, CreatedInv, FreshInv, RunInv, SelfDeleteInv,
     JoinedInv, PoolPointsToLive, NoRunOnDeleted
<1>3. ASSUME NEW t \in Threads, RemoveThread(t)
      PROVE  PoolInv'
  BY <1>3 DEF RemoveThread, LockInv, CreatedInv, FreshInv, RunInv,
     SelfDeleteInv, JoinedInv, PoolPointsToLive, NoRunOnDeleted
<1>4. ASSUME NEW t \in Threads, Suspend(t)
      PROVE  PoolInv'
  BY <1>4 DEF Suspend, InPool, ThreadSuspend, LockInv, CreatedInv, FreshInv,
     RunInv, SelfDeleteInv, JoinedInv, PoolPointsToLive, NoRunOnDeleted
<1>5. ASSUME NEW t \in Threads, Resume(t)
      PROVE  PoolInv'
  BY <1>5 DEF Resume, InPool, ThreadResume, LockInv, CreatedInv, FreshInv,
     RunInv, SelfDeleteInv, JoinedInv, PoolPointsToLive, NoRunOnDeleted
<1>6. CASE Clear
  BY <1>6 DEF Clear, LockInv, CreatedInv, FreshInv, RunInv, SelfDeleteInv,
     JoinedInv, PoolPointsToLive, NoRunOnDeleted
<1>7. QED
  BY <1>1, <1>2, <1>3, <1>4, <1>5, <1>6 DEF OtherStep

-----------------------------------------------------------------------------
(* The threads of the pool: with the run go both marks of it, and a thread *)
(* that deletes itself is in no set any more.                              *)
LEMMA WorkerKeepsInv ==
  ASSUME PoolInv, NEW w \in Workers, Worker(w)
  PROVE  PoolInv'
<1> USE ThreadAssumption, PoolAssumption
    DEF PoolInv, TypeOK, ThreadTypeOK, OnlyWakes
<1>1. CASE RemoveSelf(w)
  BY <1>1 DEF RemoveSelf, LockInv, CreatedInv, FreshInv, RunInv,
     SelfDeleteInv, JoinedInv, PoolPointsToLive, NoRunOnDeleted
<1>2. CASE ResumeSignal(w)
  <2>0. OnlyWakes
    BY <1>2, SignalEffect DEF ResumeSignal, ThreadResumeSignal
  <2>1. TypeOK' /\ LockInv'
    BY <1>2, <2>0 DEF ResumeSignal, ThreadResumeSignal, LockInv
  <2>2. CreatedInv' /\ FreshInv' /\ RunInv' /\ SelfDeleteInv' /\
        JoinedInv' /\ PoolPointsToLive' /\ NoRunOnDeleted'
    BY <1>2, <2>0 DEF ResumeSignal, ThreadResumeSignal, CreatedInv, FreshInv,
       RunInv, SelfDeleteInv, JoinedInv, PoolPointsToLive, NoRunOnDeleted
  <2>3. QED
    BY <2>1, <2>2 DEF PoolInv
<1>3. ASSUME StartUp(w), UNCHANGED <<threads, poolLock, mvars>>
      PROVE  PoolInv'
  BY <1>3 DEF StartUp, LockInv, CreatedInv, FreshInv, RunInv, SelfDeleteInv,
     JoinedInv, PoolPointsToLive, NoRunOnDeleted
<1>4. ASSUME ShouldStop(w), UNCHANGED <<threads, poolLock, mvars>>
      PROVE  PoolInv'
  BY <1>4 DEF ShouldStop, LockInv, CreatedInv, FreshInv, RunInv,
     SelfDeleteInv, JoinedInv, PoolPointsToLive, NoRunOnDeleted
<1>5. ASSUME LoopOrReturn(w), UNCHANGED <<threads, poolLock, mvars>>
      PROVE  PoolInv'
  BY <1>5 DEF LoopOrReturn, LockInv, CreatedInv, FreshInv, RunInv,
     SelfDeleteInv, JoinedInv, PoolPointsToLive, NoRunOnDeleted
<1>6. ASSUME WaitSuspended(w), UNCHANGED <<threads, poolLock, mvars>>
      PROVE  PoolInv'
  BY <1>6 DEF WaitSuspended, LockInv, CreatedInv, FreshInv, RunInv,
     SelfDeleteInv, JoinedInv, PoolPointsToLive, NoRunOnDeleted
<1>7. ASSUME Removed(w), EndRun(w), UNCHANGED <<threads, poolLock, mvars>>
      PROVE  PoolInv'
  <2>1. TypeOK' /\ LockInv'
    BY <1>7 DEF EndRun, Removed, LockInv
  <2>2. SelfDeleteInv'
    BY <1>7 DEF EndRun, Removed, SelfDeleteInv, RunInv
  <2>3. CreatedInv' /\ FreshInv' /\ RunInv' /\ JoinedInv' /\
        PoolPointsToLive' /\ NoRunOnDeleted'
    BY <1>7 DEF EndRun, Removed, CreatedInv, FreshInv, RunInv, JoinedInv,
       PoolPointsToLive, NoRunOnDeleted
  <2>4. QED
    BY <2>1, <2>2, <2>3 DEF PoolInv
<1>8. ASSUME CheckDeleteOnExit(w), UNCHANGED <<threads, poolLock, mvars>>
      PROVE  PoolInv'
  <2>1. TypeOK' /\ LockInv'
    BY <1>8 DEF CheckDeleteOnExit, LockInv
  <2>2. CreatedInv' /\ FreshInv' /\ RunInv' /\ SelfDeleteInv'
    BY <1>8 DEF CheckDeleteOnExit, CreatedInv, FreshInv, RunInv, SelfDeleteInv
  <2>3. JoinedInv' /\ PoolPointsToLive' /\ NoRunOnDeleted'
    BY <1>8 DEF CheckDeleteOnExit, JoinedInv, PoolPointsToLive, NoRunOnDeleted
  <2>4. QED
    BY <2>1, <2>2, <2>3 DEF PoolInv
<1>9. ASSUME DeleteSelf(w), UNCHANGED <<threads, poolLock, mvars>>
      PROVE  PoolInv'
  <2>1. TypeOK' /\ LockInv'
    BY <1>9 DEF DeleteSelf, LockInv
  <2>2. PoolPointsToLive'
    BY <1>9 DEF DeleteSelf, PoolPointsToLive, LockInv, SelfDeleteInv
  <2>3. NoRunOnDeleted'
    BY <1>9 DEF DeleteSelf, NoRunOnDeleted, SelfDeleteInv
  <2>4. CreatedInv' /\ FreshInv' /\ RunInv' /\ SelfDeleteInv' /\
        JoinedInv'
    BY <1>9 DEF DeleteSelf, CreatedInv, FreshInv, RunInv, SelfDeleteInv,
       JoinedInv
  <2>5. QED
    BY <2>1, <2>2, <2>3, <2>4 DEF PoolInv
<1>10. ASSUME TailOnFreed(w), UNCHANGED <<threads, poolLock, mvars>>
      PROVE  PoolInv'
  BY <1>10 DEF TailOnFreed, LockInv, CreatedInv, FreshInv, RunInv,
     SelfDeleteInv, JoinedInv, PoolPointsToLive, NoRunOnDeleted
<1>11. QED
  BY <1>1, <1>2, <1>3, <1>4, <1>5, <1>6, <1>7, <1>8, <1>9, <1>10
  DEF Worker, WorkerLives

-----------------------------------------------------------------------------
LEMMA InitPoolInv == Init => PoolInv
BY ThreadAssumption, PoolAssumption
DEF Init, ThreadInit, PoolInv, TypeOK, ThreadTypeOK, LockInv, CreatedInv,
    FreshInv, RunInv, SelfDeleteInv, JoinedInv, PoolPointsToLive,
    NoRunOnDeleted

(* Whatever the application and the threads do, as long as the manager     *)
(* waits for run() of the threads it started before its next call.         *)
THEOREM PoolInvariant == Handshake /\ Spec => []PoolInv
<1> SUFFICES ASSUME Handshake
             PROVE  Spec => []PoolInv
  OBVIOUS
<1>1. Init => PoolInv
  BY InitPoolInv
<1>2. ASSUME PoolInv, [Next]_vars
      PROVE  PoolInv'
  <2> USE <1>2
  <2>1. CASE ManagerStep
    BY <2>1, ManagerKeepsInv
  <2>2. CASE OtherStep
    BY <2>2, OtherKeepsInv
  <2>3. ASSUME NEW w \in Workers, Worker(w)
        PROVE  PoolInv'
    BY <2>3, WorkerKeepsInv
  <2>4. CASE UNCHANGED vars
    BY <2>4 DEF vars, PoolInv, TypeOK, ThreadTypeOK, LockInv, CreatedInv,
       FreshInv, RunInv, SelfDeleteInv, JoinedInv, PoolPointsToLive,
       NoRunOnDeleted
  <2>5. QED
    BY <2>1, <2>2, <2>3, <2>4 DEF Next
<1>3. QED
  BY <1>1, <1>2, PTL DEF Spec

(* The variables keep their types.                                         *)
THEOREM PoolTypeCorrect == Handshake /\ Spec => []TypeOK
<1>1. PoolInv => TypeOK
  BY DEF PoolInv
<1>2. QED
  BY <1>1, PoolInvariant, PTL

(* The pool and its iterators hold no pointer to a deleted thread, outside *)
(* of destroyAllThreads, although threads delete themselves.               *)
THEOREM PoolPointsToLiveHolds == Handshake /\ Spec => []PoolPointsToLive
<1>1. PoolInv => PoolPointsToLive
  BY DEF PoolInv
<1>2. QED
  BY <1>1, PoolInvariant, PTL

(* No OS thread runs on a thread that is deleted or past the threadStop of *)
(* its destructor.                                                         *)
THEOREM NoRunOnDeletedHolds == Handshake /\ Spec => []NoRunOnDeleted
<1>1. PoolInv => NoRunOnDeleted
  BY DEF PoolInv
<1>2. QED
  BY <1>1, PoolInvariant, PTL

(* destroyAllThreads waits for no thread that waits for the pool, unless   *)
(* that thread was running when it joined after the stop: by JoinedInv the *)
(* others in the set run no more when it comes to that.                    *)
THEOREM NoRemovalDeadlockHolds == Handshake /\ Spec => []NoRemovalDeadlock
<1>1. PoolInv => NoRemovalDeadlock
  BY DEF PoolInv, JoinedInv, NoRemovalDeadlock
<1>2. QED
  BY <1>1, PoolInvariant, PTL

(* The step with which stopThreads returns, or destroyAllThreads goes on   *)
(* to delete, finds no thread of the pool running or about to run.         *)
THEOREM StopThreadsJoinsHolds == Handshake /\ Spec => StopThreadsJoins
<1>1. PoolInv /\ [Next]_vars =>
        [mpc = "scan" /\ mpc' \in {"idle", "relock"} =>
           \A t \in threads : \A w \in Workers : ~Active(w, t)]_vars
  <2> SUFFICES ASSUME PoolInv, Next, mpc = "scan", mpc' \in {"idle", "relock"},
                      NEW t \in threads, NEW w \in Workers
               PROVE  ~Active(w, t)
    BY DEF vars
  <2>1. ScanEnd
    <3>1. \/ ScanVisit \/ ScanEnd
          \/ UNCHANGED mpc
      BY DEF Next, ManagerStep, DestroyThread, StartThreads, StartVisit, StartCall,
         StartReset, StartCreate, StartEnd, Await, StopThreads, SignalVisit,
         SignalEnd, Scan, Relock, DestroyVisit, Dying, DyingFrees, DestroyEnd,
         OtherStep, DeleteOnExit, AddThread, RemoveThread, Suspend, Resume,
         Clear, Worker, RemoveSelf, ResumeSignal
    <3>2. ~ScanVisit
      BY DEF ScanVisit, Abort
    <3>3. QED
      BY <3>1, <3>2
  <2>2. t \notin todo
    BY <2>1 DEF ScanEnd
  <2>3. QED
    BY <2>2 DEF PoolInv, JoinedInv
<1>2. QED
  BY <1>1, PoolInvariant, PTL DEF Spec, StopThreadsJoins

=============================================================================
