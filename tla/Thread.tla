------------------------------- MODULE Thread -------------------------------
(***************************************************************************)
(* ppl7::Thread (src/src/core/Threads.cpp): the methods of a Thread object *)
(* and the OS threads that execute ThreadProc on it.                       *)
(*                                                                         *)
(* threadmutex is an error-checking pthread mutex with a condition         *)
(* variable.  A critical section that does not block inside is one step,   *)
(* guarded by the mutex being free.  lockedBy[t] tells who holds the mutex *)
(* of t ACROSS steps: the only method that returns with the mutex held is  *)
(* threadSignalStop on a suspended thread.                                 *)
(*                                                                         *)
(* The modules ThreadControl and ThreadPool add the callers.               *)
(***************************************************************************)
EXTENDS Naturals, FiniteSets

CONSTANTS
  Threads,  (* the Thread objects                                          *)
  Workers,  (* the OS threads pthread_create can hand out                  *)
  Callers,  (* the threads of the application that call the methods        *)
  NoOne     (* no Thread object, and nobody holding a mutex                *)

ASSUME ThreadAssumption == NoOne \notin Threads \cup Callers

VARIABLES
  alive,        (* alive[t]: the object has not been deleted               *)
  stopFlag,     (* flags & 1                                               *)
  suspendFlag,  (* flags & 2                                               *)
  IsRunning,
  IsSuspended,
  deleteMe,
  runcount,
  lockedBy,     (* who holds threadmutex between two steps                 *)
  wpc,          (* what an OS thread is doing                              *)
  wobj          (* the Thread object an OS thread executes                 *)

flags == <<stopFlag, suspendFlag>>
status == <<IsRunning, IsSuspended, runcount>>
worker == <<wpc, wobj>>
tvars == <<alive, flags, status, deleteMe, lockedBy, worker>>

(* "run": run() is about to ask threadShouldStop; "body": it was told to   *)
(* go on; "waiting"/"sleeping": it waits on the condition variable in      *)
(* threadWaitSuspended/threadSleep; "woke...": it left the condition       *)
(* variable and needs the mutex again; "tail": threadStartUp has returned  *)
(* to ThreadProc.                                                          *)
InRunPC == {"run", "body", "waiting", "wokeWait", "sleeping", "wokeSleep",
            "returned"}
WorkerPC == InRunPC \cup {"idle", "created", "tail", "deleting"}

InRun(w, t) == wobj[w] = t /\ wpc[w] \in InRunPC
Active(w, t) == wobj[w] = t /\ wpc[w] \in InRunPC \cup {"created"}

ThreadInit ==
  /\ alive = [t \in Threads |-> TRUE]
  /\ stopFlag = [t \in Threads |-> FALSE]
  /\ suspendFlag = [t \in Threads |-> FALSE]
  /\ IsRunning = [t \in Threads |-> FALSE]
  /\ IsSuspended = [t \in Threads |-> FALSE]
  /\ deleteMe = [t \in Threads |-> FALSE]
  /\ runcount = [t \in Threads |-> 0]
  /\ lockedBy = [t \in Threads |-> NoOne]
  /\ wpc = [w \in Workers |-> "idle"]
  /\ wobj = [w \in Workers |-> NoOne]

-----------------------------------------------------------------------------
(* The mutex and its condition variable.                                   *)

Free(t) == alive[t] /\ lockedBy[t] = NoOne

WorkerGoes(w, pc) ==
  /\ wpc' = [wpc EXCEPT ![w] = pc]
  /\ UNCHANGED wobj

Waiters(t) == {w \in Workers : wobj[w] = t /\ wpc[w] \in {"waiting", "sleeping"}}

(* Mutex::signal: pthread_cond_signal wakes one waiter, if there is one.   *)
Signal(t) ==
  /\ UNCHANGED wobj
  /\ IF Waiters(t) = {}
     THEN UNCHANGED wpc
     ELSE \E w \in Waiters(t) :
            wpc' = [wpc EXCEPT ![w] = IF @ = "waiting" THEN "wokeWait"
                                                       ELSE "wokeSleep"]

-----------------------------------------------------------------------------
(* Methods of the caller's side.  `Throws' is what lock() does when the    *)
(* caller holds the mutex itself: DeadlockException.                       *)

Throws(c, t) == alive[t] /\ lockedBy[t] = c

ThreadSuspend(t) ==
  /\ Free(t)
  /\ suspendFlag' = [suspendFlag EXCEPT ![t] = TRUE]
  /\ UNCHANGED <<alive, stopFlag, status, deleteMe, lockedBy, worker>>

(* A mistake: resuming clears every flag.                                  *)
ThreadResumeClearsAll(t) ==
  /\ Free(t)
  /\ suspendFlag' = [suspendFlag EXCEPT ![t] = FALSE]
  /\ stopFlag' = [stopFlag EXCEPT ![t] = FALSE]
  /\ UNCHANGED <<alive, status, deleteMe, lockedBy, worker>>

(* The part of threadResume under the lock; the signal comes after the     *)
(* unlock and only if the thread was seen suspended.                       *)
ThreadResume(t) ==
  /\ Free(t)
  /\ suspendFlag' = [suspendFlag EXCEPT ![t] = FALSE]
  /\ UNCHANGED <<alive, stopFlag, status, deleteMe, lockedBy, worker>>

ThreadResumeSignal(t) ==
  /\ Signal(t)
  /\ UNCHANGED <<alive, flags, status, deleteMe, lockedBy>>

(* threadSignalStop unlocks only when the thread is not suspended.         *)
ThreadSignalStop(c, t) ==
  /\ Free(t)
  /\ stopFlag' = [stopFlag EXCEPT ![t] = TRUE]
  /\ IF IsSuspended[t]
     THEN Signal(t) /\ lockedBy' = [lockedBy EXCEPT ![t] = c]
     ELSE UNCHANGED <<worker, lockedBy>>
  /\ UNCHANGED <<alive, suspendFlag, status, deleteMe>>

(* A mistake: threadStop does not wake a suspended thread.                 *)
ThreadStopRequestSilent(t) ==
  /\ Free(t)
  /\ IsRunning[t]
  /\ stopFlag' = [stopFlag EXCEPT ![t] = TRUE]
  /\ UNCHANGED <<alive, suspendFlag, status, deleteMe, lockedBy, worker>>

(* threadStop up to its first look at IsRunning, when the thread runs.     *)
ThreadStopRequest(t) ==
  /\ Free(t)
  /\ IsRunning[t]
  /\ stopFlag' = [stopFlag EXCEPT ![t] = TRUE]
  /\ IF IsSuspended[t] THEN Signal(t) ELSE UNCHANGED worker
  /\ UNCHANGED <<alive, suspendFlag, status, deleteMe, lockedBy>>

(* A mistake: threadStop does not wait.                                    *)
ThreadStopReturnAtOnce(t) ==
  /\ Free(t)
  /\ stopFlag' = [stopFlag EXCEPT ![t] = FALSE]
  /\ UNCHANGED <<alive, suspendFlag, status, deleteMe, lockedBy, worker>>

(* threadStop from the look that finds IsRunning = 0 to its return.        *)
ThreadStopReturn(t) ==
  /\ Free(t)
  /\ ~IsRunning[t]
  /\ stopFlag' = [stopFlag EXCEPT ![t] = FALSE]
  /\ UNCHANGED <<alive, suspendFlag, status, deleteMe, lockedBy, worker>>

(* The rest of ~Thread, after its threadStop has returned.                 *)
ThreadFree(t) ==
  /\ Free(t)
  /\ alive' = [alive EXCEPT ![t] = FALSE]
  /\ UNCHANGED <<flags, status, deleteMe, lockedBy, worker>>

ThreadDeleteOnExit(t) ==
  /\ Free(t)
  /\ deleteMe' = [deleteMe EXCEPT ![t] = TRUE]
  /\ UNCHANGED <<alive, flags, status, lockedBy, worker>>

(* threadStart after threadIsRunning said no: it writes both fields        *)
(* without the mutex ...                                                   *)
ThreadStartReset(t) ==
  /\ alive[t]
  /\ IsSuspended' = [IsSuspended EXCEPT ![t] = FALSE]
  /\ IsRunning' = [IsRunning EXCEPT ![t] = FALSE]
  /\ UNCHANGED <<alive, flags, runcount, deleteMe, lockedBy, worker>>

(* ... and calls pthread_create, which may find no OS thread to give.      *)
ThreadStartCreate(t) ==
  /\ alive[t]
  /\ \E w \in Workers :
       /\ wpc[w] = "idle"
       /\ wpc' = [wpc EXCEPT ![w] = "created"]
       /\ wobj' = [wobj EXCEPT ![w] = t]
  /\ UNCHANGED <<alive, flags, status, deleteMe, lockedBy>>

ThreadStartFails(t) ==
  /\ Free(t)
  /\ \A w \in Workers : wpc[w] # "idle"
  /\ IsRunning' = [IsRunning EXCEPT ![t] = FALSE]
  /\ UNCHANGED <<alive, flags, IsSuspended, runcount, deleteMe, lockedBy, worker>>

-----------------------------------------------------------------------------
(* The OS thread: ThreadProc, threadStartUp and what run() calls.          *)

StartUp(w) ==
  LET t == wobj[w] IN
  /\ wpc[w] = "created"
  /\ Free(t)
  /\ runcount' = [runcount EXCEPT ![t] = @ + 1]
  /\ IsRunning' = [IsRunning EXCEPT ![t] = TRUE]
  /\ IsSuspended' = [IsSuspended EXCEPT ![t] = FALSE]
  /\ WorkerGoes(w, "run")
  /\ UNCHANGED <<alive, flags, deleteMe, lockedBy>>

ShouldStop(w) ==
  /\ wpc[w] = "run"
  /\ Free(wobj[w])
  /\ WorkerGoes(w, IF stopFlag[wobj[w]] THEN "returned" ELSE "body")
  /\ UNCHANGED <<alive, flags, status, deleteMe, lockedBy>>

(* One turn of run()'s loop ends, or run() returns on its own.             *)
LoopOrReturn(w) ==
  /\ wpc[w] = "body"
  /\ \E pc \in {"run", "returned"} : WorkerGoes(w, pc)
  /\ UNCHANGED <<alive, flags, status, deleteMe, lockedBy>>

(* A mistake: threadWaitSuspended does not set IsSuspended.                *)
WaitSuspendedUnmarked(w) ==
  LET t == wobj[w]
      waits == suspendFlag[t] /\ ~stopFlag[t]
  IN
  /\ wpc[w] \in {"body", "wokeWait"}
  /\ Free(t)
  /\ WorkerGoes(w, IF waits THEN "waiting" ELSE "run")
  /\ UNCHANGED <<alive, flags, status, deleteMe, lockedBy>>

(* The loop of threadWaitSuspended, entered from run() and after a wake.   *)
WaitSuspended(w) ==
  LET t == wobj[w]
      waits == suspendFlag[t] /\ ~stopFlag[t]
  IN
  /\ wpc[w] \in {"body", "wokeWait"}
  /\ Free(t)
  /\ IsSuspended' = [IsSuspended EXCEPT ![t] = waits]
  /\ WorkerGoes(w, IF waits THEN "waiting" ELSE "run")
  /\ UNCHANGED <<alive, flags, IsRunning, runcount, deleteMe, lockedBy>>

(* A mistake: threadSleep does not set IsSuspended.                        *)
SleepUnmarked(w) ==
  /\ wpc[w] = "body"
  /\ Free(wobj[w])
  /\ WorkerGoes(w, "sleeping")
  /\ UNCHANGED <<alive, flags, status, deleteMe, lockedBy>>

(* threadSleep waits without a look at the flags, ...                      *)
Sleep(w) ==
  /\ wpc[w] = "body"
  /\ Free(wobj[w])
  /\ IsSuspended' = [IsSuspended EXCEPT ![wobj[w]] = TRUE]
  /\ WorkerGoes(w, "sleeping")
  /\ UNCHANGED <<alive, flags, IsRunning, runcount, deleteMe, lockedBy>>

(* ... and returns after any wake-up.                                      *)
SleepEnds(w) ==
  /\ wpc[w] = "wokeSleep"
  /\ Free(wobj[w])
  /\ IsSuspended' = [IsSuspended EXCEPT ![wobj[w]] = FALSE]
  /\ WorkerGoes(w, "run")
  /\ UNCHANGED <<alive, flags, IsRunning, runcount, deleteMe, lockedBy>>

(* pthread_cond_timedwait gives up: threadSleep(msec) with msec > 0.       *)
SleepTimeout(w) ==
  /\ wpc[w] = "sleeping"
  /\ WorkerGoes(w, "wokeSleep")
  /\ UNCHANGED <<alive, flags, status, deleteMe, lockedBy>>

(* A timeout or a spurious wake-up in threadWaitSuspended.                 *)
WaitTimeout(w) ==
  /\ wpc[w] = "waiting"
  /\ WorkerGoes(w, "wokeWait")
  /\ UNCHANGED <<alive, flags, status, deleteMe, lockedBy>>

EndRun(w) ==
  LET t == wobj[w] IN
  /\ wpc[w] = "returned"
  /\ Free(t)
  /\ stopFlag' = [stopFlag EXCEPT ![t] = FALSE]
  /\ suspendFlag' = [suspendFlag EXCEPT ![t] = FALSE]
  /\ IsRunning' = [IsRunning EXCEPT ![t] = FALSE]
  /\ IsSuspended' = [IsSuspended EXCEPT ![t] = FALSE]
  /\ WorkerGoes(w, "tail")
  /\ UNCHANGED <<alive, runcount, deleteMe, lockedBy>>

WorkerExits(w) ==
  /\ wpc' = [wpc EXCEPT ![w] = "idle"]
  /\ wobj' = [wobj EXCEPT ![w] = NoOne]

(* A mistake: ThreadProc deletes every object.                             *)
DeleteUnasked(w) ==
  /\ wpc[w] = "tail"
  /\ Free(wobj[w])
  /\ WorkerGoes(w, "deleting")
  /\ UNCHANGED <<alive, flags, status, deleteMe, lockedBy>>

(* ThreadProc asks the object whether to delete it.                        *)
CheckDeleteOnExit(w) ==
  /\ wpc[w] = "tail"
  /\ Free(wobj[w])
  /\ IF deleteMe[wobj[w]] THEN WorkerGoes(w, "deleting") ELSE WorkerExits(w)
  /\ UNCHANGED <<alive, flags, status, deleteMe, lockedBy>>

(* delete ts->threadClass: ~Thread finds IsRunning = 0 and frees.          *)
DeleteSelf(w) ==
  LET t == wobj[w] IN
  /\ wpc[w] = "deleting"
  /\ Free(t)
  /\ ~IsRunning[t]
  /\ stopFlag' = [stopFlag EXCEPT ![t] = FALSE]
  /\ alive' = [alive EXCEPT ![t] = FALSE]
  /\ WorkerExits(w)
  /\ UNCHANGED <<suspendFlag, status, deleteMe, lockedBy>>

(* The object is gone: what the tail of ThreadProc reads of it is          *)
(* undefined.  One outcome is that it still reads deleteMe = 0 and leaves. *)
TailOnFreed(w) ==
  /\ wpc[w] = "tail"
  /\ ~alive[wobj[w]]
  /\ WorkerExits(w)
  /\ UNCHANGED <<alive, flags, status, deleteMe, lockedBy>>

(* What run() does once it was started.                                    *)
RunStep(w) ==
  \/ ShouldStop(w) \/ LoopOrReturn(w)
  \/ WaitSuspended(w) \/ WaitTimeout(w)
  \/ Sleep(w) \/ SleepEnds(w) \/ SleepTimeout(w)

WorkerStep(w) ==
  \/ StartUp(w) \/ RunStep(w) \/ EndRun(w)
  \/ CheckDeleteOnExit(w) \/ DeleteSelf(w) \/ TailOnFreed(w)

-----------------------------------------------------------------------------
ThreadTypeOK ==
  /\ alive \in [Threads -> BOOLEAN]
  /\ stopFlag \in [Threads -> BOOLEAN]
  /\ suspendFlag \in [Threads -> BOOLEAN]
  /\ IsRunning \in [Threads -> BOOLEAN]
  /\ IsSuspended \in [Threads -> BOOLEAN]
  /\ deleteMe \in [Threads -> BOOLEAN]
  /\ runcount \in [Threads -> Nat]
  /\ lockedBy \in [Threads -> Callers \cup {NoOne}]
  /\ wpc \in [Workers -> WorkerPC]
  /\ wobj \in [Workers -> Threads \cup {NoOne}]
  /\ \A w \in Workers : wpc[w] = "idle" <=> wobj[w] = NoOne

=============================================================================
