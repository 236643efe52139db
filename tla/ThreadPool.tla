----------------------------- MODULE ThreadPool -----------------------------
(***************************************************************************)
(* ppl7::ThreadPool (src/src/core/ThreadPool.cpp): a set of Thread objects *)
(* behind a mutex.                                                         *)
(*                                                                         *)
(* One application thread, the manager, starts, stops and destroys the     *)
(* threads of the pool; the others add, remove, suspend and resume them.   *)
(* The threads in Removers take themselves out of the pool when run() ends *)
(* (the case the note at stopThreads is about), those in SelfDeleters have *)
(* threadDeleteOnExit set as well.                                         *)
(*                                                                         *)
(* Methods that visit every thread hold the pool mutex across the visit;   *)
(* each visit is a step.  The others are one step.                         *)
(***************************************************************************)
EXTENDS Thread

CONSTANTS
  Manager,       (* the application thread that runs the pool              *)
  Removers,      (* threads that call removeThread(this) as they end       *)
  SelfDeleters,  (* Removers with threadDeleteOnExit                       *)
  Handshake,     (* the manager waits for run() after startThreads         *)
  MaxRuns        (* bound: how often an object is started                  *)

ASSUME PoolAssumption ==
  /\ Manager \in Callers
  /\ Removers \subseteq Threads
  /\ SelfDeleters \subseteq Removers
  /\ Handshake \in BOOLEAN
  /\ MaxRuns \in Nat

VARIABLES
  threads,   (* the set of the pool                                        *)
  poolLock,  (* mutex: who holds it between two steps                      *)
  mpc,       (* what the manager is doing                                  *)
  todo,      (* the threads its iterator has still to visit                *)
  cur,       (* the thread it is visiting, in a call of several steps      *)
  goal,      (* what follows the stopThreads it is in                      *)
  late       (* history: the threads that joined the pool already running  *)
             (* since running() last found every thread of it stopped      *)

mvars == <<mpc, todo, cur, goal, late>>
vars == <<tvars, threads, poolLock, mvars>>

(* "signal": in signalStopThreads; "poll": before or after MSleep(1);      *)
(* "scan": in running(); "start..." and "await": startThreads;             *)
(* "relock", "destroy", "dying", "free": the rest of destroyAllThreads;    *)
(* "aborted": an exception left the method with the pool mutex held.       *)
ManagerPC == {"idle", "signal", "poll", "scan", "start", "startCall",
              "startReset", "startCreate", "await", "relock", "destroy",
              "dying", "free", "aborted"}

Init ==
  /\ ThreadInit
  /\ threads = {}
  /\ poolLock = NoOne
  /\ mpc = "idle" /\ todo = {} /\ cur = NoOne /\ goal = "stop"
  /\ late = {}

Lock == poolLock = NoOne /\ poolLock' = Manager
Unlock == poolLock = Manager /\ poolLock' = NoOne

ManagerGoes(pc) == mpc' = pc /\ UNCHANGED <<todo, cur, goal, late>>

(* The next thread of the iteration, and the iteration without it.         *)
Visit(t) == t \in todo /\ todo' = todo \ {t}

(* An exception thrown inside the loop: no unlock.                         *)
Abort == mpc' = "aborted" /\ todo' = {} /\ UNCHANGED <<cur, goal, late, poolLock>>

(* delete thread: ~Thread begins with threadStop.                          *)
BeginDelete(t) ==
  /\ \/ ThreadStopRequest(t) /\ mpc' = "dying"
     \/ ThreadStopReturn(t) /\ mpc' = "free"
  /\ cur' = t

-----------------------------------------------------------------------------
(* Methods that do not iterate.                                            *)

(* A thread that deletes itself is told so before it joins the pool.       *)
DeleteOnExit(t) ==
  /\ t \in SelfDeleters /\ ~deleteMe[t]
  /\ ThreadDeleteOnExit(t)
  /\ UNCHANGED <<threads, poolLock, mvars>>

(* addThread takes a thread in whatever state it is and whatever the       *)
(* manager is doing, as the class says ("jederzeit"); only not one that    *)
(* destroyThread is deleting.  One that deletes itself is added before its *)
(* first start or by its own run(): nobody else can know that it is alive. *)
AddThread(t) ==
  /\ poolLock = NoOne
  /\ t \notin threads
  /\ alive[t] /\ ~(mpc \in {"dying", "free"} /\ cur = t)
  /\ t \in SelfDeleters =>
       \/ deleteMe[t] /\ runcount[t] = 0
       \/ \E w \in Workers : wobj[w] = t /\ wpc[w] \in {"run", "body"}
  /\ threads' = threads \cup {t}
  /\ late' = IF mpc \in {"poll", "relock"} /\ \E w \in Workers : Active(w, t)
             THEN late \cup {t} ELSE late
  /\ UNCHANGED <<tvars, poolLock, mpc, todo, cur, goal>>

RemoveThread(t) ==
  /\ poolLock = NoOne
  /\ threads' = threads \ {t}
  /\ UNCHANGED <<tvars, poolLock, mvars>>

Clear ==
  /\ poolLock = NoOne
  /\ threads' = {}
  /\ UNCHANGED <<tvars, poolLock, mvars>>

(* A mistake: destroyThread does not take the thread out of the set.       *)
DestroyThreadKept(t) ==
  /\ mpc = "idle"
  /\ poolLock = NoOne
  /\ t \in threads \ Removers
  /\ BeginDelete(t)
  /\ UNCHANGED <<threads, poolLock, todo, goal, late>>

(* destroyThread erases under the lock and deletes after the unlock.       *)
DestroyThread(t) ==
  /\ mpc = "idle"
  /\ poolLock = NoOne
  /\ t \in threads \ Removers
  /\ threads' = threads \ {t}
  /\ BeginDelete(t)
  /\ UNCHANGED <<poolLock, todo, goal, late>>

-----------------------------------------------------------------------------
(* startThreads.                                                           *)

StartThreads ==
  /\ mpc = "idle"
  /\ Lock
  /\ mpc' = "start" /\ todo' = threads
  /\ UNCHANGED <<tvars, threads, cur, goal, late>>

StartVisit ==
  /\ mpc = "start"
  /\ \E t \in todo :
       /\ Visit(t)
       /\ Free(t)
       /\ IF IsRunning[t] \/ runcount[t] >= MaxRuns
          THEN mpc' = mpc /\ cur' = cur
          ELSE mpc' = "startCall" /\ cur' = t
  /\ UNCHANGED <<tvars, threads, poolLock, goal, late>>

(* threadStart looks at IsRunning itself, and throws.                      *)
StartCall ==
  /\ mpc = "startCall"
  /\ Free(cur)
  /\ IF IsRunning[cur]
     THEN Abort
     ELSE ManagerGoes("startReset") /\ UNCHANGED poolLock
  /\ UNCHANGED <<tvars, threads>>

StartReset ==
  /\ mpc = "startReset"
  /\ ThreadStartReset(cur)
  /\ ManagerGoes("startCreate")
  /\ UNCHANGED <<threads, poolLock>>

(* No OS thread: ThreadStartException, and again no unlock.                *)
StartCreate ==
  /\ mpc = "startCreate"
  /\ \/ ThreadStartCreate(cur) /\ ManagerGoes("start") /\ UNCHANGED poolLock
     \/ ThreadStartFails(cur) /\ Abort
  /\ UNCHANGED threads

StartEnd ==
  /\ mpc = "start"
  /\ todo = {}
  /\ Unlock
  /\ ManagerGoes(IF Handshake THEN "await" ELSE "idle")
  /\ UNCHANGED <<tvars, threads>>

Await ==
  /\ mpc = "await"
  /\ \A w \in Workers : wpc[w] # "created"
  /\ ManagerGoes("idle")
  /\ UNCHANGED <<tvars, threads, poolLock>>

-----------------------------------------------------------------------------
(* stopThreads, on its own or as the first part of destroyAllThreads.      *)

(* A mistake: destroyAllThreads leaves the stopping to the destructors.    *)
StopThreadsSkipped ==
  /\ mpc = "idle"
  /\ Lock
  /\ todo' = threads
  /\ goal' \in {"stop", "destroyAll"}
  /\ mpc' = IF goal' = "stop" THEN "signal" ELSE "destroy"
  /\ UNCHANGED <<tvars, threads, cur, late>>

StopThreads ==
  /\ mpc = "idle"
  /\ Lock
  /\ mpc' = "signal" /\ todo' = threads
  /\ goal' \in {"stop", "destroyAll"}
  /\ UNCHANGED <<tvars, threads, cur, late>>

SignalVisit ==
  /\ mpc = "signal"
  /\ \E t \in todo : Visit(t) /\ ThreadSignalStop(Manager, t)
  /\ UNCHANGED <<threads, poolLock, mpc, cur, goal, late>>

SignalEnd ==
  /\ mpc = "signal"
  /\ todo = {}
  /\ Unlock
  /\ ManagerGoes("poll")
  /\ UNCHANGED <<tvars, threads>>

Scan ==
  /\ mpc = "poll"
  /\ Lock
  /\ mpc' = "scan" /\ todo' = threads
  /\ UNCHANGED <<tvars, threads, cur, goal, late>>

(* A mistake: running() answers after the first thread it looks at.        *)
ScanVisitFirst ==
  /\ mpc = "scan"
  /\ \E t \in todo :
       /\ Free(t)
       /\ todo' = {}
       /\ IF IsRunning[t] THEN Unlock /\ mpc' = "poll"
                          ELSE UNCHANGED <<mpc, poolLock>>
  /\ UNCHANGED <<tvars, threads, cur, goal, late>>

(* A mistake: running() does not unlock before its early return.           *)
ScanVisitLocked ==
  /\ mpc = "scan"
  /\ \E t \in todo :
       /\ Free(t)
       /\ IF IsRunning[t] THEN mpc' = "poll" /\ todo' = {}
                          ELSE Visit(t) /\ UNCHANGED mpc
  /\ UNCHANGED <<tvars, threads, poolLock, cur, goal, late>>

(* running() unlocks at the first running thread; threadIsRunning throws   *)
(* if the manager itself was left holding the thread's mutex.              *)
ScanVisit ==
  /\ mpc = "scan"
  /\ \E t \in todo :
       \/ /\ Free(t) /\ IsRunning[t]
          /\ Unlock /\ mpc' = "poll" /\ todo' = {}
          /\ UNCHANGED <<cur, goal, late>>
       \/ /\ Free(t) /\ ~IsRunning[t]
          /\ Visit(t)
          /\ UNCHANGED <<mpc, cur, goal, late, poolLock>>
       \/ /\ Throws(Manager, t)
          /\ Abort
  /\ UNCHANGED <<tvars, threads>>

ScanEnd ==
  /\ mpc = "scan"
  /\ todo = {}
  /\ Unlock
  /\ mpc' = IF goal = "stop" THEN "idle" ELSE "relock"
  /\ late' = {}
  /\ UNCHANGED <<tvars, threads, todo, cur, goal>>

-----------------------------------------------------------------------------
(* destroyAllThreads deletes every thread with the pool mutex held.        *)

Relock ==
  /\ mpc = "relock"
  /\ Lock
  /\ mpc' = "destroy" /\ todo' = threads
  /\ UNCHANGED <<tvars, threads, cur, goal, late>>

DestroyVisit ==
  /\ mpc = "destroy"
  /\ \E t \in todo :
       /\ Visit(t)
       /\ BeginDelete(t)
  /\ UNCHANGED <<threads, poolLock, goal, late>>

(* ~Thread: its threadStop waits for the end of the run, ...               *)
Dying ==
  /\ mpc = "dying"
  /\ ThreadStopReturn(cur)
  /\ ManagerGoes("free")
  /\ UNCHANGED <<threads, poolLock>>

(* ... then the object goes.                                               *)
DyingFrees ==
  /\ mpc = "free"
  /\ ThreadFree(cur)
  /\ ManagerGoes(IF poolLock = Manager THEN "destroy" ELSE "idle")
  /\ UNCHANGED <<threads, poolLock>>

DestroyEnd ==
  /\ mpc = "destroy"
  /\ todo = {}
  /\ threads' = {} /\ late' = {}
  /\ Unlock
  /\ mpc' = "idle"
  /\ UNCHANGED <<tvars, todo, cur, goal>>

ManagerStep ==
  \/ \E t \in Threads : DestroyThread(t)
  \/ StartThreads \/ StartVisit \/ StartCall \/ StartReset \/ StartCreate
  \/ StartEnd \/ Await
  \/ StopThreads \/ SignalVisit \/ SignalEnd \/ Scan \/ ScanVisit \/ ScanEnd
  \/ Relock \/ DestroyVisit \/ Dying \/ DyingFrees \/ DestroyEnd

-----------------------------------------------------------------------------
(* The other application threads.                                          *)

InPool(t) == t \in threads /\ poolLock = NoOne

Suspend(t) ==
  /\ InPool(t)
  /\ ThreadSuspend(t)
  /\ UNCHANGED <<threads, poolLock, mvars>>

Resume(t) ==
  /\ InPool(t)
  /\ suspendFlag[t]
  /\ ThreadResume(t)
  /\ UNCHANGED <<threads, poolLock, mvars>>

(* The signal of a threadResume reaches the thread.                        *)
ResumeSignal(w) ==
  /\ wpc[w] = "waiting"
  /\ ~suspendFlag[wobj[w]]
  /\ ThreadResumeSignal(wobj[w])
  /\ UNCHANGED <<threads, poolLock, mvars>>

OtherStep ==
  \/ \E t \in Threads :
       DeleteOnExit(t) \/ AddThread(t) \/ RemoveThread(t) \/ Suspend(t) \/ Resume(t)
  \/ Clear

-----------------------------------------------------------------------------
(* The threads of the pool.                                                *)

(* run() of a Remover ends with removeThread(this).                        *)
RemoveSelf(w) ==
  /\ wpc[w] = "returned"
  /\ wobj[w] \in Removers \cap threads
  /\ poolLock = NoOne
  /\ threads' = threads \ {wobj[w]}
  /\ UNCHANGED <<tvars, poolLock, mvars>>

Removed(w) == wobj[w] \notin Removers \cap threads

WorkerLives(w) ==
  \/ StartUp(w) \/ ShouldStop(w) \/ LoopOrReturn(w) \/ WaitSuspended(w)
  \/ Removed(w) /\ EndRun(w)
  \/ CheckDeleteOnExit(w) \/ DeleteSelf(w) \/ TailOnFreed(w)

Worker(w) ==
  \/ RemoveSelf(w)
  \/ ResumeSignal(w)
  \/ WorkerLives(w) /\ UNCHANGED <<threads, poolLock, mvars>>

Next ==
  \/ ManagerStep
  \/ OtherStep
  \/ \E w \in Workers : Worker(w)

(* A call that was entered goes on; every OS thread is scheduled, and      *)
(* run() keeps asking threadShouldStop.  MSleep(1) lets the threads at the *)
(* pool mutex between two scans, which a polling manager would otherwise   *)
(* take again and again: a thread that tries again and again gets it.      *)
Fairness ==
  /\ WF_vars(ManagerStep /\ mpc # "idle")
  /\ \A w \in Workers :
       /\ SF_vars(RemoveSelf(w))
       /\ WF_vars(ResumeSignal(w))
       /\ WF_vars((\/ StartUp(w) \/ ShouldStop(w) \/ LoopOrReturn(w)
                   \/ wpc[w] = "wokeWait" /\ WaitSuspended(w)
                   \/ Removed(w) /\ EndRun(w)
                   \/ CheckDeleteOnExit(w) \/ DeleteSelf(w))
                  /\ UNCHANGED <<threads, poolLock, mvars>>)

Spec == Init /\ [][Next]_vars
FairSpec == Spec /\ Fairness

-----------------------------------------------------------------------------
(* The values of the variables.                                            *)
TypeOK ==
  /\ ThreadTypeOK
  /\ threads \subseteq Threads
  /\ poolLock \in {Manager, NoOne}
  /\ mpc \in ManagerPC
  /\ todo \subseteq Threads
  /\ cur \in Threads \cup {NoOne}
  /\ goal \in {"stop", "destroyAll"}
  /\ late \subseteq Threads

(* Every pointer the pool holds, in its set or in an iteration under way,  *)
(* points to an object that has not been deleted, although threads delete  *)
(* themselves; only destroyAllThreads keeps deleted ones, until it clears  *)
(* the set.                                                                *)
PoolPointsToLive ==
  \A t \in Threads : ~alive[t] =>
    /\ t \notin todo
    /\ t \in threads => mpc \in {"destroy", "dying", "free"} /\ poolLock = Manager

(* No thread runs on, or is about to run on, an object that is deleted or  *)
(* whose destructor is past its threadStop.                                *)
NoRunOnDeleted ==
  \A t \in Threads : \A w \in Workers :
    ~alive[t] \/ (mpc = "free" /\ cur = t) => ~Active(w, t)

(* stopThreads returns only when no thread of the pool is running or about *)
(* to: running() looks at the threads one after the other.                 *)
StopThreadsJoins ==
  [][mpc = "scan" /\ mpc' \in {"idle", "relock"} =>
       \A t \in threads : \A w \in Workers : ~Active(w, t)]_vars

(* A thread that removes itself from the pool never waits for a manager    *)
(* that waits, with the pool locked, for that thread to end.  The one      *)
(* exception is a thread that ran already when addThread took it after     *)
(* stopThreads had last looked at the pool: destroyAllThreads lets go of   *)
(* the mutex between its stopThreads and its loop (142, 143), and then     *)
(* neither the note at stopThreads (234) nor "jederzeit" (48) is kept.     *)
NoRemovalDeadlock ==
  \A w \in Workers :
    ~(/\ poolLock = Manager /\ mpc = "dying" /\ wobj[w] = cur
      /\ wpc[w] \in InRunPC /\ cur \in (Removers \cap threads) \ late)

(* stopThreads and destroyAllThreads come to an end, with threads joining, *)
(* leaving the pool and deleting themselves meanwhile, unless an exception *)
(* left the pool locked, threadSignalStop left a thread locked, or a       *)
(* thread runs that joined the pool running after signalStopThreads: none  *)
(* of the pool's methods tells that one to stop before running() has found *)
(* it stopped.                                                             *)
StopThreadsReturns ==
  mpc \in {"signal", "poll", "scan", "relock", "destroy", "dying", "free"}
    ~> \/ mpc \in {"idle", "aborted"}
       \/ \E t \in Threads : lockedBy[t] # NoOne
       \/ \E t \in late \cap threads : IsRunning[t]

=============================================================================
