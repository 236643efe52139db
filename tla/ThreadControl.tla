---------------------------- MODULE ThreadControl ----------------------------
(***************************************************************************)
(* Application threads calling the methods of ppl7::Thread objects.        *)
(*                                                                         *)
(* Every object has one owner that starts, stops and deletes it, one call  *)
(* after the other; Helpers suspend, resume and signal it at any time.     *)
(*                                                                         *)
(* With Handshake the owner, after threadStart, waits until                *)
(* threadRunCount has advanced before its next call (the example in        *)
(* docs/examples/CThread_ThreadMain.cpp sleeps five seconds instead).      *)
(* Without it the owner goes on at once.                                   *)
(***************************************************************************)
EXTENDS Thread

CONSTANTS
  Helpers,    (* application threads that do not own an object             *)
  Owner,      (* Owner[t]: the application thread that owns t              *)
  Handshake,  (* the owner waits for run() to begin after threadStart      *)
  MaxRuns     (* bound: how often an object is started                     *)

ASSUME ControlAssumption ==
  /\ Helpers \subseteq Callers
  /\ Owner \in [Threads -> Callers \ Helpers]
  /\ Handshake \in BOOLEAN
  /\ MaxRuns \in Nat

VARIABLES
  opc,      (* opc[t]: where the owner of t is in its calls on t           *)
  oruns,    (* what threadRunCount was when the owner called threadStart   *)
  hobj      (* hobj[h]: the object h is about to signal, in threadResume   *)

cvars == <<opc, oruns, hobj>>
vars == <<tvars, cvars>>

(* "idle": never started, or threadStop has returned; "up": started;       *)
(* "handed": started with deleteMe set, the object now deletes itself;     *)
(* "destroying": in ~Thread's threadStop; "freeing": after it.             *)
OwnerPC == {"idle", "startReset", "startCreate", "awaitRun", "up", "handed",
            "stopping", "destroying", "freeing", "freed"}

Init ==
  /\ ThreadInit
  /\ opc = [t \in Threads |-> "idle"]
  /\ oruns = [t \in Threads |-> 0]
  /\ hobj = [h \in Helpers |-> NoOne]

OwnerGoes(t, pc) ==
  /\ opc' = [opc EXCEPT ![t] = pc]
  /\ UNCHANGED <<oruns, hobj>>

Idle(t) == opc[t] \in {"idle", "up"}

(* No helper is inside a call on t: an owner gives an object up only then. *)
Unshared(t) == \A h \in Helpers : hobj[h] # t

-----------------------------------------------------------------------------
(* The owner.                                                              *)

(* A mistake: threadStart does not look at IsRunning.                      *)
CallStartUnchecked(t) ==
  /\ Idle(t)
  /\ Free(t)
  /\ runcount[t] < MaxRuns
  /\ opc' = [opc EXCEPT ![t] = "startReset"]
  /\ oruns' = [oruns EXCEPT ![t] = runcount[t]]
  /\ UNCHANGED <<tvars, hobj>>

(* threadStart throws ThreadAlreadyRunningException when IsRunning is set, *)
(* and so does nothing.                                                    *)
CallStart(t) ==
  /\ Idle(t)
  /\ Free(t)
  /\ ~IsRunning[t]
  /\ runcount[t] < MaxRuns
  /\ deleteMe[t] => Unshared(t)
  /\ opc' = [opc EXCEPT ![t] = "startReset"]
  /\ oruns' = [oruns EXCEPT ![t] = runcount[t]]
  /\ UNCHANGED <<tvars, hobj>>

StartReset(t) ==
  /\ opc[t] = "startReset"
  /\ ThreadStartReset(t)
  /\ OwnerGoes(t, "startCreate")

StartCreate(t) ==
  /\ opc[t] = "startCreate"
  /\ \/ /\ ThreadStartCreate(t)
        /\ OwnerGoes(t, IF deleteMe[t] THEN "handed"
                        ELSE IF Handshake THEN "awaitRun" ELSE "up")
     \/ /\ ThreadStartFails(t)
        /\ OwnerGoes(t, "up")

AwaitRun(t) ==
  /\ opc[t] = "awaitRun"
  /\ runcount[t] > oruns[t]
  /\ OwnerGoes(t, "up")
  /\ UNCHANGED tvars

(* Only before the first start: the tail of an earlier ThreadProc would    *)
(* read deleteMe too, and delete the object under its owner.               *)
DeleteOnExit(t) ==
  /\ opc[t] = "idle"
  /\ runcount[t] = 0
  /\ ThreadDeleteOnExit(t)
  /\ UNCHANGED cvars

(* threadStop, and ~Thread, which begins with it.                          *)
CallStop(t) ==
  /\ Idle(t)
  /\ \/ ThreadStopRequest(t) /\ OwnerGoes(t, "stopping")
     \/ ThreadStopReturn(t) /\ OwnerGoes(t, "idle")

CallDelete(t) ==
  /\ Idle(t)
  /\ Unshared(t)
  /\ \/ ThreadStopRequest(t) /\ OwnerGoes(t, "destroying")
     \/ ThreadStopReturn(t) /\ OwnerGoes(t, "freeing")

StopReturns(t) ==
  /\ opc[t] \in {"stopping", "destroying"}
  /\ ThreadStopReturn(t)
  /\ OwnerGoes(t, IF opc[t] = "stopping" THEN "idle" ELSE "freeing")

DeleteFrees(t) ==
  /\ opc[t] = "freeing"
  /\ ThreadFree(t)
  /\ OwnerGoes(t, "freed")

(* A call of an owner that holds the mutex itself, as threadSignalStop may *)
(* leave it, throws DeadlockException and changes nothing.                 *)
OwnerSignalStop(t) ==
  /\ Idle(t)
  /\ ThreadSignalStop(Owner[t], t)
  /\ UNCHANGED cvars

OwnerStep(t) ==
  \/ CallStart(t) \/ StartReset(t) \/ StartCreate(t) \/ AwaitRun(t)
  \/ DeleteOnExit(t) \/ CallStop(t) \/ CallDelete(t) \/ StopReturns(t)
  \/ DeleteFrees(t) \/ OwnerSignalStop(t)

-----------------------------------------------------------------------------
(* The helpers.  They leave an object alone once it is being deleted or    *)
(* deletes itself.                                                         *)

Shared(t) ==
  /\ ~deleteMe[t]
  /\ opc[t] \notin {"handed", "destroying", "freeing", "freed"}

Suspend(h, t) ==
  /\ hobj[h] = NoOne
  /\ Shared(t)
  /\ ThreadSuspend(t)
  /\ UNCHANGED cvars

Resume(h, t) ==
  /\ hobj[h] = NoOne
  /\ Shared(t)
  /\ ThreadResume(t)
  /\ hobj' = [hobj EXCEPT ![h] = IF IsSuspended[t] THEN t ELSE NoOne]
  /\ UNCHANGED <<opc, oruns>>

ResumeSignal(h) ==
  /\ hobj[h] # NoOne
  /\ ThreadResumeSignal(hobj[h])
  /\ hobj' = [hobj EXCEPT ![h] = NoOne]
  /\ UNCHANGED <<opc, oruns>>

SignalStop(h, t) ==
  /\ hobj[h] = NoOne
  /\ Shared(t)
  /\ ThreadSignalStop(h, t)
  /\ UNCHANGED cvars

HelperStep(h) ==
  \/ \E t \in Threads : Suspend(h, t) \/ Resume(h, t) \/ SignalStop(h, t)
  \/ ResumeSignal(h)

Worker(w) == WorkerStep(w) /\ UNCHANGED cvars

Next ==
  \/ \E t \in Threads : OwnerStep(t)
  \/ \E h \in Helpers : HelperStep(h)
  \/ \E w \in Workers : Worker(w)

(* The scheduler runs every OS thread; a call that was entered goes on;    *)
(* run() asks threadShouldStop in every turn of its loop, as the note at   *)
(* threadStop demands of it, sleeps with a timeout and ends its turns.     *)
Fairness ==
  /\ \A t \in Threads :
       WF_vars(StartReset(t) \/ StartCreate(t) \/ AwaitRun(t)
               \/ StopReturns(t) \/ DeleteFrees(t))
  /\ \A h \in Helpers : WF_vars(ResumeSignal(h))
  /\ \A w \in Workers :
       WF_vars((\/ StartUp(w) \/ ShouldStop(w) \/ LoopOrReturn(w)
                \/ SleepEnds(w) \/ SleepTimeout(w)
                \/ wpc[w] = "wokeWait" /\ WaitSuspended(w)
                \/ EndRun(w) \/ CheckDeleteOnExit(w) \/ DeleteSelf(w))
               /\ UNCHANGED cvars)

Spec == Init /\ [][Next]_vars
FairSpec == Spec /\ Fairness

-----------------------------------------------------------------------------
(* The values of the variables.                                            *)
TypeOK ==
  /\ ThreadTypeOK
  /\ opc \in [Threads -> OwnerPC]
  /\ oruns \in [Threads -> Nat]
  /\ hobj \in [Helpers -> Threads \cup {NoOne}]

(* At most one OS thread is between pthread_create and the end of          *)
(* threadStartUp for an object, and IsRunning tells whether there is one   *)
(* that has begun.  threadStart checks and writes IsRunning in separate    *)
(* steps, and only the new thread sets it.                                 *)
OneRun ==
  \A t \in Threads :
    /\ \A v, w \in Workers : Active(v, t) /\ Active(w, t) => v = w
    /\ IsRunning[t] <=> \E w \in Workers : InRun(w, t)

(* When threadStop or ~Thread's threadStop has returned, no OS thread      *)
(* executes run() of the object or is on its way into it, and a deleted    *)
(* object is never run on.                                                 *)
StopJoins ==
  \A t \in Threads : \A w \in Workers :
    opc[t] \in {"idle", "freeing", "freed"} \/ ~alive[t] => ~Active(w, t)

(* A thread that waits on the condition variable is marked IsSuspended:    *)
(* threadStop, threadSignalStop and threadResume signal only if they see   *)
(* the mark.                                                               *)
WaiterIsMarked ==
  \A w \in Workers : wpc[w] \in {"waiting", "sleeping"} => IsSuspended[wobj[w]]

(* While the owner waits in threadStop for a run to end, that run still    *)
(* finds the stop flag set when it asks.                                   *)
StopStaysRequested ==
  \A t \in Threads : \A w \in Workers :
    opc[t] \in {"stopping", "destroying"} /\ Active(w, t) => stopFlag[t]

(* An object is deleted by its owner or by its own thread, never by both,  *)
(* and a thread that is about to delete its object finds it alive.         *)
DeletedOnce ==
  \A t \in Threads :
    /\ opc[t] = "freed" => ~deleteMe[t] \/ \A w \in Workers : wobj[w] # t
    /\ \A w \in Workers : wobj[w] = t /\ wpc[w] = "deleting" =>
         alive[t] /\ opc[t] = "handed"

(* threadStop returns, and ~Thread with it, unless somebody was left       *)
(* holding the mutex.                                                      *)
StopTerminates ==
  \A t \in Threads :
    opc[t] \in {"stopping", "destroying"}
      ~> (opc[t] \notin {"stopping", "destroying"} \/ lockedBy[t] # NoOne)

(* A thread in threadWaitSuspended goes on after threadResume, unless it   *)
(* is suspended again: the signal is sent after the unlock, and the wait   *)
(* is entered with the flags checked under the same lock.                  *)
ResumeWakes ==
  \A w \in Workers :
    (wpc[w] = "waiting" /\ ~suspendFlag[wobj[w]])
      ~> (wpc[w] # "waiting" \/ suspendFlag[wobj[w]])

(* Threads.cpp 820-822: without a timeout, threadWaitSuspended waits until *)
(* threadResume, threadSignalStop, threadStop or the destructor is called. *)
(* So a stop flag ends the wait.                                           *)
StopEndsSuspension ==
  \A w \in Workers :
    (wpc[w] \in {"waiting", "wokeWait"} /\ stopFlag[wobj[w]])
      ~> wpc[w] \notin {"waiting", "wokeWait"}

-----------------------------------------------------------------------------
(* The inductive invariant behind OneRun, StopJoins, WaiterIsMarked,       *)
(* StopStaysRequested and DeletedOnce, for owners that wait (Handshake).   *)

(* A thread that has not begun is one its owner waits for or has handed    *)
(* over, and until it begins threadRunCount stays at what the owner saw.   *)
CreatedIsAwaited ==
  \A t \in Threads :
    /\ opc[t] \in {"startReset", "startCreate"} => runcount[t] = oruns[t]
    /\ \A w \in Workers :
         wobj[w] = t /\ wpc[w] = "created" =>
           /\ opc[t] \in {"awaitRun", "handed"}
           /\ opc[t] = "awaitRun" => runcount[t] = oruns[t]

(* Before its first run an object has only a thread that has not begun.    *)
FirstRunBegins ==
  \A t \in Threads : \A w \in Workers :
    wobj[w] = t /\ runcount[t] = 0 => wpc[w] = "created"

(* The owner begins a start, and is done with a stop, only when no thread  *)
(* is active on the object.                                                *)
OwnerKnows ==
  \A t \in Threads : \A w \in Workers :
    opc[t] \in {"idle", "startReset", "startCreate", "freeing", "freed"}
      => ~Active(w, t)

(* An object that deletes itself belongs to the one thread started on it.  *)
SelfDeletes ==
  \A t \in Threads : \A w \in Workers :
    wobj[w] = t =>
      /\ wpc[w] = "deleting" => deleteMe[t]
      /\ deleteMe[t] => /\ opc[t] = "handed" /\ alive[t]
                        /\ \A v \in Workers : wobj[v] = t => v = w

(* A deleted object was deleted by its owner or had been handed over.      *)
DeadIsGivenUp ==
  \A t \in Threads : ~alive[t] =>
    /\ opc[t] \in {"freed", "handed"}
    /\ \A w \in Workers : ~Active(w, t)

(* A handed-over object has deleteMe set.                                  *)
HandedDeletes == \A t \in Threads : opc[t] = "handed" => deleteMe[t]

ControlInv ==
  /\ TypeOK /\ OneRun /\ WaiterIsMarked /\ StopStaysRequested
  /\ CreatedIsAwaited /\ FirstRunBegins /\ OwnerKnows
  /\ SelfDeletes /\ DeadIsGivenUp /\ HandedDeletes

=============================================================================
