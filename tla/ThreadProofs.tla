---------------------------- MODULE ThreadProofs ----------------------------
(***************************************************************************)
(* Proofs about ThreadControl: ControlInv is inductive when the owners     *)
(* wait for each start, and it implies the safety properties.              *)
(***************************************************************************)
EXTENDS ThreadControl, TLAPS

USE DEF InRunPC, WorkerPC, OwnerPC, Active, InRun, Free, Idle, OwnerGoes,
        WorkerGoes, WorkerExits, flags, status, worker, cvars, tvars

(* The conjuncts of ControlInv that relate an object to the OS threads     *)
(* started on it.                                                          *)
StructureInv ==
  /\ OneRun /\ CreatedIsAwaited /\ FirstRunBegins /\ OwnerKnows
  /\ SelfDeletes /\ DeadIsGivenUp /\ HandedDeletes

(* The conjuncts about the flags, over and above the types.                *)
FlagInv == WaiterIsMarked /\ StopStaysRequested

LEMMA ControlInvParts == ControlInv <=> TypeOK /\ StructureInv /\ FlagInv
BY DEF ControlInv, StructureInv, FlagInv

LEMMA InitControlInv == Init => ControlInv
BY ThreadAssumption, ControlAssumption
DEF Init, ThreadInit, ControlInv, TypeOK, ThreadTypeOK, OneRun, WaiterIsMarked,
    StopStaysRequested, CreatedIsAwaited, FirstRunBegins, OwnerKnows,
    SelfDeletes, DeadIsGivenUp, HandedDeletes

(* A step inside run() or a call that only touches flags moves no thread   *)
(* into or out of an object.                                               *)
LEMMA QuietStep ==
  ASSUME TypeOK, StructureInv,
         wobj' = wobj, alive' = alive, IsRunning' = IsRunning,
         runcount' = runcount, deleteMe' = deleteMe, opc' = opc, oruns' = oruns,
         \A w \in Workers : \/ wpc'[w] = wpc[w]
                            \/ wpc[w] \in InRunPC /\ wpc'[w] \in InRunPC
  PROVE  StructureInv'
<1>1. \A t \in Threads, w \in Workers : InRun(w, t)' <=> InRun(w, t)
  BY DEF TypeOK, ThreadTypeOK
<1>2. \A t \in Threads, w \in Workers : Active(w, t)' <=> Active(w, t)
  BY DEF TypeOK, ThreadTypeOK
<1>3. \A w \in Workers : /\ wpc'[w] = "created" <=> wpc[w] = "created"
                         /\ wpc'[w] = "deleting" <=> wpc[w] = "deleting"
  OBVIOUS
<1> HIDE DEF InRun, Active
<1>4. OneRun'
  BY <1>1, <1>2 DEF StructureInv, OneRun
<1>5. CreatedIsAwaited' /\ FirstRunBegins'
  BY <1>3 DEF StructureInv, CreatedIsAwaited, FirstRunBegins
<1>6. OwnerKnows' /\ DeadIsGivenUp'
  BY <1>2 DEF StructureInv, OwnerKnows, DeadIsGivenUp
<1>7. SelfDeletes' /\ HandedDeletes'
  BY <1>3 DEF StructureInv, SelfDeletes, HandedDeletes
<1>8. QED
  BY <1>4, <1>5, <1>6, <1>7 DEF StructureInv

(* What Mutex::signal does to the OS threads.                              *)
LEMMA SignalEffect ==
  ASSUME NEW t \in Threads, TypeOK, Signal(t)
  PROVE  /\ wobj' = wobj
         /\ wpc' \in [Workers -> WorkerPC]
         /\ \A w \in Workers :
              \/ wpc'[w] = wpc[w]
              \/ wpc[w] = "waiting" /\ wpc'[w] = "wokeWait"
              \/ wpc[w] = "sleeping" /\ wpc'[w] = "wokeSleep"
BY DEF Signal, Waiters, TypeOK, ThreadTypeOK

-----------------------------------------------------------------------------
LEMMA HelperKeepsInv ==
  ASSUME TypeOK, StructureInv, FlagInv, NEW h \in Helpers, HelperStep(h)
  PROVE  TypeOK' /\ StructureInv' /\ FlagInv'
<1> USE ThreadAssumption, ControlAssumption DEF TypeOK, ThreadTypeOK
<1>1. ASSUME NEW t \in Threads, Suspend(h, t)
      PROVE  TypeOK' /\ StructureInv' /\ FlagInv'
  <2>1. TypeOK'
    BY <1>1 DEF Suspend, ThreadSuspend
  <2>2. StructureInv'
    BY <1>1, QuietStep DEF Suspend, ThreadSuspend
  <2>3. FlagInv'
    BY <1>1 DEF Suspend, ThreadSuspend, FlagInv, WaiterIsMarked, StopStaysRequested
  <2>4. QED
    BY <2>1, <2>2, <2>3
<1>2. ASSUME NEW t \in Threads, Resume(h, t)
      PROVE  TypeOK' /\ StructureInv' /\ FlagInv'
  <2>1. TypeOK'
    BY <1>2 DEF Resume, ThreadResume
  <2>2. StructureInv'
    BY <1>2, QuietStep DEF Resume, ThreadResume
  <2>3. FlagInv'
    BY <1>2 DEF Resume, ThreadResume, FlagInv, WaiterIsMarked, StopStaysRequested
  <2>4. QED
    BY <2>1, <2>2, <2>3
<1>3. ASSUME NEW t \in Threads, SignalStop(h, t)
      PROVE  TypeOK' /\ StructureInv' /\ FlagInv'
  <2>0. /\ wobj' = wobj
        /\ wpc' \in [Workers -> WorkerPC]
        /\ \A w \in Workers :
             \/ wpc'[w] = wpc[w]
             \/ wpc[w] = "waiting" /\ wpc'[w] = "wokeWait"
             \/ wpc[w] = "sleeping" /\ wpc'[w] = "wokeSleep"
    BY <1>3, SignalEffect DEF SignalStop, ThreadSignalStop
  <2>1. TypeOK'
    BY <1>3, <2>0 DEF SignalStop, ThreadSignalStop
  <2>2. StructureInv'
    BY <1>3, <2>0, QuietStep DEF SignalStop, ThreadSignalStop
  <2>3. FlagInv'
    BY <1>3, <2>0 DEF SignalStop, ThreadSignalStop, FlagInv, WaiterIsMarked,
                      StopStaysRequested
  <2>4. QED
    BY <2>1, <2>2, <2>3
<1>4. CASE ResumeSignal(h)
  <2>0. /\ wobj' = wobj
        /\ wpc' \in [Workers -> WorkerPC]
        /\ \A w \in Workers :
             \/ wpc'[w] = wpc[w]
             \/ wpc[w] = "waiting" /\ wpc'[w] = "wokeWait"
             \/ wpc[w] = "sleeping" /\ wpc'[w] = "wokeSleep"
    BY <1>4, SignalEffect DEF ResumeSignal, ThreadResumeSignal
  <2>1. TypeOK'
    BY <1>4, <2>0 DEF ResumeSignal, ThreadResumeSignal
  <2>2. StructureInv'
    BY <1>4, <2>0, QuietStep DEF ResumeSignal, ThreadResumeSignal
  <2>3. FlagInv'
    BY <1>4, <2>0 DEF ResumeSignal, ThreadResumeSignal, FlagInv, WaiterIsMarked,
                      StopStaysRequested
  <2>4. QED
    BY <2>1, <2>2, <2>3
<1>5. QED
  BY <1>1, <1>2, <1>3, <1>4 DEF HelperStep

-----------------------------------------------------------------------------
(* What an OS thread does inside run().                                    *)
LEMMA RunKeepsInv ==
  ASSUME TypeOK, StructureInv, FlagInv, NEW w \in Workers, RunStep(w),
         UNCHANGED cvars
  PROVE  TypeOK' /\ StructureInv' /\ FlagInv'
<1> USE ThreadAssumption DEF TypeOK, ThreadTypeOK
<1>0. wpc[w] # "idle" => wobj[w] \in Threads
  OBVIOUS
<1>a. ASSUME NEW t \in Threads, NEW v \in Workers, Active(w, t), Active(v, t)
      PROVE  v = w
  BY <1>a DEF StructureInv, OneRun
<1>1. CASE ShouldStop(w)
  <2>1. TypeOK'
    BY <1>1, <1>0 DEF ShouldStop
  <2>2. StructureInv'
    BY <1>1, <1>0, QuietStep DEF ShouldStop
  <2>3. FlagInv'
    BY <1>1, <1>0, <1>a DEF ShouldStop, FlagInv, WaiterIsMarked, StopStaysRequested
  <2>4. QED
    BY <2>1, <2>2, <2>3
<1>2. CASE LoopOrReturn(w)
  <2>1. TypeOK'
    BY <1>2, <1>0 DEF LoopOrReturn
  <2>2. StructureInv'
    BY <1>2, <1>0, QuietStep DEF LoopOrReturn
  <2>3. FlagInv'
    BY <1>2, <1>0, <1>a DEF LoopOrReturn, FlagInv, WaiterIsMarked, StopStaysRequested
  <2>4. QED
    BY <2>1, <2>2, <2>3
<1>3. CASE WaitSuspended(w)
  <2>1. TypeOK'
    BY <1>3, <1>0 DEF WaitSuspended
  <2>2. StructureInv'
    BY <1>3, <1>0, QuietStep DEF WaitSuspended
  <2>3. FlagInv'
    BY <1>3, <1>0, <1>a DEF WaitSuspended, FlagInv, WaiterIsMarked, StopStaysRequested
  <2>4. QED
    BY <2>1, <2>2, <2>3
<1>4. CASE WaitTimeout(w)
  <2>1. TypeOK'
    BY <1>4, <1>0 DEF WaitTimeout
  <2>2. StructureInv'
    BY <1>4, <1>0, QuietStep DEF WaitTimeout
  <2>3. FlagInv'
    BY <1>4, <1>0, <1>a DEF WaitTimeout, FlagInv, WaiterIsMarked, StopStaysRequested
  <2>4. QED
    BY <2>1, <2>2, <2>3
<1>5. CASE Sleep(w)
  <2>1. TypeOK'
    BY <1>5, <1>0 DEF Sleep
  <2>2. StructureInv'
    BY <1>5, <1>0, QuietStep DEF Sleep
  <2>3. FlagInv'
    BY <1>5, <1>0, <1>a DEF Sleep, FlagInv, WaiterIsMarked, StopStaysRequested
  <2>4. QED
    BY <2>1, <2>2, <2>3
<1>6. CASE SleepEnds(w)
  <2>1. TypeOK'
    BY <1>6, <1>0 DEF SleepEnds
  <2>2. StructureInv'
    BY <1>6, <1>0, QuietStep DEF SleepEnds
  <2>3. FlagInv'
    BY <1>6, <1>0, <1>a DEF SleepEnds, FlagInv, WaiterIsMarked, StopStaysRequested
  <2>4. QED
    BY <2>1, <2>2, <2>3
<1>7. CASE SleepTimeout(w)
  <2>1. TypeOK'
    BY <1>7, <1>0 DEF SleepTimeout
  <2>2. StructureInv'
    BY <1>7, <1>0, QuietStep DEF SleepTimeout
  <2>3. FlagInv'
    BY <1>7, <1>0, <1>a DEF SleepTimeout, FlagInv, WaiterIsMarked, StopStaysRequested
  <2>4. QED
    BY <2>1, <2>2, <2>3
<1>8. QED
  BY <1>1, <1>2, <1>3, <1>4, <1>5, <1>6, <1>7 DEF RunStep

(* What an OS thread does in threadStartUp and ThreadProc.                 *)
LEMMA WorkerKeepsInv ==
  ASSUME TypeOK, StructureInv, FlagInv, NEW w \in Workers, WorkerStep(w),
         UNCHANGED cvars
  PROVE  TypeOK' /\ StructureInv' /\ FlagInv'
<1> USE ThreadAssumption DEF TypeOK, ThreadTypeOK
<1>0. wpc[w] # "idle" => wobj[w] \in Threads
  OBVIOUS
<1>a. ASSUME NEW t \in Threads, NEW v \in Workers, Active(w, t), Active(v, t)
      PROVE  v = w
  BY <1>a DEF StructureInv, OneRun
<1>1. CASE StartUp(w)
  <2>1. TypeOK'
    BY <1>1, <1>0, <1>a DEF StartUp
  <2>2. OneRun'
    BY <1>1, <1>0, <1>a DEF StartUp, StructureInv, OneRun
  <2>3. CreatedIsAwaited'
    BY <1>1, <1>0, <1>a DEF StartUp, StructureInv, CreatedIsAwaited, OwnerKnows
  <2>4. FirstRunBegins'
    BY <1>1, <1>0, <1>a DEF StartUp, StructureInv, FirstRunBegins
  <2>5. OwnerKnows'
    BY <1>1, <1>0, <1>a DEF StartUp, StructureInv, OwnerKnows
  <2>6. SelfDeletes'
    BY <1>1, <1>0, <1>a DEF StartUp, StructureInv, SelfDeletes
  <2>7. DeadIsGivenUp'
    BY <1>1, <1>0, <1>a DEF StartUp, StructureInv, DeadIsGivenUp
  <2>8. HandedDeletes'
    BY <1>1, <1>0, <1>a DEF StartUp, StructureInv, HandedDeletes
  <2>9. FlagInv'
    BY <1>1, <1>0, <1>a DEF StartUp, FlagInv, WaiterIsMarked, StopStaysRequested
  <2>10. QED
    BY <2>1, <2>2, <2>3, <2>4, <2>5, <2>6, <2>7, <2>8, <2>9 DEF StructureInv
<1>2. CASE EndRun(w)
  <2>1. TypeOK'
    BY <1>2, <1>0, <1>a DEF EndRun
  <2>2. OneRun'
    BY <1>2, <1>0, <1>a DEF EndRun, StructureInv, OneRun
  <2>3. CreatedIsAwaited'
    BY <1>2, <1>0, <1>a DEF EndRun, StructureInv, CreatedIsAwaited
  <2>4. FirstRunBegins'
    BY <1>2, <1>0, <1>a DEF EndRun, StructureInv, FirstRunBegins
  <2>5. OwnerKnows'
    BY <1>2, <1>0, <1>a DEF EndRun, StructureInv, OwnerKnows
  <2>6. SelfDeletes'
    BY <1>2, <1>0, <1>a DEF EndRun, StructureInv, SelfDeletes
  <2>7. DeadIsGivenUp'
    BY <1>2, <1>0, <1>a DEF EndRun, StructureInv, DeadIsGivenUp
  <2>8. HandedDeletes'
    BY <1>2, <1>0, <1>a DEF EndRun, StructureInv, HandedDeletes
  <2>9. FlagInv'
    BY <1>2, <1>0, <1>a DEF EndRun, FlagInv, WaiterIsMarked, StopStaysRequested
  <2>10. QED
    BY <2>1, <2>2, <2>3, <2>4, <2>5, <2>6, <2>7, <2>8, <2>9 DEF StructureInv
<1>3. CASE CheckDeleteOnExit(w)
  <2>1. TypeOK'
    BY <1>3, <1>0, <1>a DEF CheckDeleteOnExit
  <2>2. OneRun'
    BY <1>3, <1>0, <1>a DEF CheckDeleteOnExit, StructureInv, OneRun
  <2>3. CreatedIsAwaited'
    BY <1>3, <1>0, <1>a DEF CheckDeleteOnExit, StructureInv, CreatedIsAwaited
  <2>4. FirstRunBegins'
    BY <1>3, <1>0, <1>a DEF CheckDeleteOnExit, StructureInv, FirstRunBegins
  <2>5. OwnerKnows'
    BY <1>3, <1>0, <1>a DEF CheckDeleteOnExit, StructureInv, OwnerKnows
  <2>6. SelfDeletes'
    BY <1>3, <1>0, <1>a DEF CheckDeleteOnExit, StructureInv, SelfDeletes
  <2>7. DeadIsGivenUp'
    BY <1>3, <1>0, <1>a DEF CheckDeleteOnExit, StructureInv, DeadIsGivenUp
  <2>8. HandedDeletes'
    BY <1>3, <1>0, <1>a DEF CheckDeleteOnExit, StructureInv, HandedDeletes
  <2>9. FlagInv'
    BY <1>3, <1>0, <1>a DEF CheckDeleteOnExit, FlagInv, WaiterIsMarked, StopStaysRequested
  <2>10. QED
    BY <2>1, <2>2, <2>3, <2>4, <2>5, <2>6, <2>7, <2>8, <2>9 DEF StructureInv
<1>4. CASE DeleteSelf(w)
  <2>0. /\ opc[wobj[w]] = "handed"
        /\ \A v \in Workers : wobj[v] = wobj[w] => v = w
    BY <1>4, <1>0 DEF DeleteSelf, StructureInv, SelfDeletes
  <2>1. TypeOK'
    BY <1>4, <1>0, <1>a DEF DeleteSelf
  <2>2. OneRun'
    BY <1>4, <1>0, <1>a DEF DeleteSelf, StructureInv, OneRun
  <2>3. CreatedIsAwaited'
    BY <1>4, <1>0, <1>a DEF DeleteSelf, StructureInv, CreatedIsAwaited
  <2>4. FirstRunBegins'
    BY <1>4, <1>0, <1>a DEF DeleteSelf, StructureInv, FirstRunBegins
  <2>5. OwnerKnows'
    BY <1>4, <1>0, <1>a DEF DeleteSelf, StructureInv, OwnerKnows
  <2>6. SelfDeletes'
    BY <1>4, <1>0, <2>0 DEF DeleteSelf, StructureInv, SelfDeletes
  <2>7. DeadIsGivenUp'
    BY <1>4, <1>0, <2>0 DEF DeleteSelf, StructureInv, DeadIsGivenUp
  <2>8. HandedDeletes'
    BY <1>4, <1>0, <1>a DEF DeleteSelf, StructureInv, HandedDeletes
  <2>9. FlagInv'
    BY <1>4, <1>0, <2>0 DEF DeleteSelf, FlagInv, WaiterIsMarked, StopStaysRequested
  <2>10. QED
    BY <2>1, <2>2, <2>3, <2>4, <2>5, <2>6, <2>7, <2>8, <2>9 DEF StructureInv
<1>5. CASE TailOnFreed(w)
  <2>1. TypeOK'
    BY <1>5, <1>0, <1>a DEF TailOnFreed
  <2>2. OneRun'
    BY <1>5, <1>0, <1>a DEF TailOnFreed, StructureInv, OneRun
  <2>3. CreatedIsAwaited'
    BY <1>5, <1>0, <1>a DEF TailOnFreed, StructureInv, CreatedIsAwaited
  <2>4. FirstRunBegins'
    BY <1>5, <1>0, <1>a DEF TailOnFreed, StructureInv, FirstRunBegins
  <2>5. OwnerKnows'
    BY <1>5, <1>0, <1>a DEF TailOnFreed, StructureInv, OwnerKnows
  <2>6. SelfDeletes'
    BY <1>5, <1>0, <1>a DEF TailOnFreed, StructureInv, SelfDeletes
  <2>7. DeadIsGivenUp'
    BY <1>5, <1>0, <1>a DEF TailOnFreed, StructureInv, DeadIsGivenUp
  <2>8. HandedDeletes'
    BY <1>5, <1>0, <1>a DEF TailOnFreed, StructureInv, HandedDeletes
  <2>9. FlagInv'
    BY <1>5, <1>0, <1>a DEF TailOnFreed, FlagInv, WaiterIsMarked, StopStaysRequested
  <2>10. QED
    BY <2>1, <2>2, <2>3, <2>4, <2>5, <2>6, <2>7, <2>8, <2>9 DEF StructureInv
<1>6. CASE RunStep(w)
  BY <1>6, RunKeepsInv
<1>7. QED
  BY <1>1, <1>2, <1>3, <1>4, <1>5, <1>6 DEF WorkerStep

-----------------------------------------------------------------------------
(* What the owner of an object does.                                       *)
LEMMA OwnerKeepsInv ==
  ASSUME TypeOK, StructureInv, FlagInv, NEW t \in Threads, OwnerStep(t),
         Handshake
  PROVE  TypeOK' /\ StructureInv' /\ FlagInv'
<1> USE ThreadAssumption, ControlAssumption DEF TypeOK, ThreadTypeOK
<1>a. /\ \A u \in Threads : \A v, w \in Workers :
           Active(v, u) /\ Active(w, u) => v = w
      /\ \A u \in Threads : IsRunning[u] <=> \E w \in Workers : InRun(w, u)
  BY DEF StructureInv, OneRun
<1>b. ASSUME NEW u \in Threads, opc[u] \in {"idle", "up"}, ~IsRunning[u],
             NEW w \in Workers
      PROVE  ~Active(w, u)
  BY <1>a, <1>b DEF StructureInv, CreatedIsAwaited
<1>1. CASE CallStart(t)
  <2>1. TypeOK'
    BY <1>1 DEF CallStart
  <2>2. OneRun'
    BY <1>1, <1>a DEF CallStart, StructureInv, OneRun
  <2>3. CreatedIsAwaited'
    BY <1>1, <1>a DEF CallStart, StructureInv, CreatedIsAwaited
  <2>4. FirstRunBegins'
    BY <1>1, <1>a DEF CallStart, StructureInv, FirstRunBegins
  <2>5. OwnerKnows'
    BY <1>1, <1>b DEF CallStart, StructureInv, OwnerKnows
  <2>6. SelfDeletes'
    BY <1>1, <1>a DEF CallStart, StructureInv, SelfDeletes
  <2>7. DeadIsGivenUp'
    BY <1>1, <1>a DEF CallStart, StructureInv, DeadIsGivenUp
  <2>8. HandedDeletes'
    BY <1>1, <1>a DEF CallStart, StructureInv, HandedDeletes
  <2>9. FlagInv'
    BY <1>1, <1>a DEF CallStart, StructureInv, OwnerKnows, FlagInv,
       WaiterIsMarked, StopStaysRequested
  <2>10. QED
    BY <2>1, <2>2, <2>3, <2>4, <2>5, <2>6, <2>7, <2>8, <2>9 DEF StructureInv
<1>2. CASE StartReset(t)
  <2>1. TypeOK'
    BY <1>2 DEF StartReset, ThreadStartReset
  <2>2. OneRun'
    BY <1>2, <1>a DEF StartReset, ThreadStartReset, StructureInv, OneRun,
       OwnerKnows
  <2>3. CreatedIsAwaited'
    BY <1>2, <1>a DEF StartReset, ThreadStartReset, StructureInv, CreatedIsAwaited
  <2>4. FirstRunBegins'
    BY <1>2, <1>a DEF StartReset, ThreadStartReset, StructureInv, FirstRunBegins
  <2>5. OwnerKnows'
    BY <1>2, <1>a DEF StartReset, ThreadStartReset, StructureInv, OwnerKnows
  <2>6. SelfDeletes'
    BY <1>2, <1>a DEF StartReset, ThreadStartReset, StructureInv, SelfDeletes
  <2>7. DeadIsGivenUp'
    BY <1>2, <1>a DEF StartReset, ThreadStartReset, StructureInv, DeadIsGivenUp
  <2>8. HandedDeletes'
    BY <1>2, <1>a DEF StartReset, ThreadStartReset, StructureInv, HandedDeletes
  <2>9. FlagInv'
    BY <1>2, <1>a DEF StartReset, ThreadStartReset, StructureInv, OwnerKnows, FlagInv,
       WaiterIsMarked, StopStaysRequested
  <2>10. QED
    BY <2>1, <2>2, <2>3, <2>4, <2>5, <2>6, <2>7, <2>8, <2>9 DEF StructureInv
<1>3. CASE AwaitRun(t)
  <2>1. TypeOK'
    BY <1>3 DEF AwaitRun
  <2>2. OneRun'
    BY <1>3, <1>a DEF AwaitRun, StructureInv, OneRun
  <2>3. CreatedIsAwaited'
    BY <1>3, <1>a DEF AwaitRun, StructureInv, CreatedIsAwaited
  <2>4. FirstRunBegins'
    BY <1>3, <1>a DEF AwaitRun, StructureInv, FirstRunBegins
  <2>5. OwnerKnows'
    BY <1>3, <1>a DEF AwaitRun, StructureInv, OwnerKnows
  <2>6. SelfDeletes'
    BY <1>3, <1>a DEF AwaitRun, StructureInv, SelfDeletes
  <2>7. DeadIsGivenUp'
    BY <1>3, <1>a DEF AwaitRun, StructureInv, DeadIsGivenUp
  <2>8. HandedDeletes'
    BY <1>3, <1>a DEF AwaitRun, StructureInv, HandedDeletes
  <2>9. FlagInv'
    BY <1>3, <1>a DEF AwaitRun, StructureInv, OwnerKnows, FlagInv,
       WaiterIsMarked, StopStaysRequested
  <2>10. QED
    BY <2>1, <2>2, <2>3, <2>4, <2>5, <2>6, <2>7, <2>8, <2>9 DEF StructureInv
<1>4. CASE DeleteOnExit(t)
  <2>1. TypeOK'
    BY <1>4 DEF DeleteOnExit, ThreadDeleteOnExit
  <2>2. OneRun'
    BY <1>4, <1>a DEF DeleteOnExit, ThreadDeleteOnExit, StructureInv, OneRun
  <2>3. CreatedIsAwaited'
    BY <1>4, <1>a DEF DeleteOnExit, ThreadDeleteOnExit, StructureInv, CreatedIsAwaited
  <2>4. FirstRunBegins'
    BY <1>4, <1>a DEF DeleteOnExit, ThreadDeleteOnExit, StructureInv, FirstRunBegins
  <2>5. OwnerKnows'
    BY <1>4, <1>a DEF DeleteOnExit, ThreadDeleteOnExit, StructureInv, OwnerKnows
  <2>6. SelfDeletes'
    BY <1>4 DEF DeleteOnExit, ThreadDeleteOnExit, StructureInv, SelfDeletes,
       FirstRunBegins, OwnerKnows
  <2>7. DeadIsGivenUp'
    BY <1>4, <1>a DEF DeleteOnExit, ThreadDeleteOnExit, StructureInv, DeadIsGivenUp
  <2>8. HandedDeletes'
    BY <1>4, <1>a DEF DeleteOnExit, ThreadDeleteOnExit, StructureInv, HandedDeletes
  <2>9. FlagInv'
    BY <1>4, <1>a DEF DeleteOnExit, ThreadDeleteOnExit, StructureInv, OwnerKnows, FlagInv,
       WaiterIsMarked, StopStaysRequested
  <2>10. QED
    BY <2>1, <2>2, <2>3, <2>4, <2>5, <2>6, <2>7, <2>8, <2>9 DEF StructureInv
<1>5. CASE StopReturns(t)
  <2>1. TypeOK'
    BY <1>5 DEF StopReturns, ThreadStopReturn
  <2>2. OneRun'
    BY <1>5, <1>a DEF StopReturns, ThreadStopReturn, StructureInv, OneRun
  <2>3. CreatedIsAwaited'
    BY <1>5, <1>a DEF StopReturns, ThreadStopReturn, StructureInv, CreatedIsAwaited
  <2>4. FirstRunBegins'
    BY <1>5, <1>a DEF StopReturns, ThreadStopReturn, StructureInv, FirstRunBegins
  <2>5. OwnerKnows'
    BY <1>5, <1>a DEF StopReturns, ThreadStopReturn, StructureInv, OwnerKnows,
       CreatedIsAwaited
  <2>6. SelfDeletes'
    BY <1>5, <1>a DEF StopReturns, ThreadStopReturn, StructureInv, SelfDeletes
  <2>7. DeadIsGivenUp'
    BY <1>5, <1>a DEF StopReturns, ThreadStopReturn, StructureInv, DeadIsGivenUp
  <2>8. HandedDeletes'
    BY <1>5, <1>a DEF StopReturns, ThreadStopReturn, StructureInv, HandedDeletes
  <2>9. FlagInv'
    BY <1>5, <1>a DEF StopReturns, ThreadStopReturn, StructureInv, OwnerKnows, FlagInv,
       WaiterIsMarked, StopStaysRequested
  <2>10. QED
    BY <2>1, <2>2, <2>3, <2>4, <2>5, <2>6, <2>7, <2>8, <2>9 DEF StructureInv
<1>6. CASE DeleteFrees(t)
  <2>1. TypeOK'
    BY <1>6 DEF DeleteFrees, ThreadFree
  <2>2. OneRun'
    BY <1>6, <1>a DEF DeleteFrees, ThreadFree, StructureInv, OneRun
  <2>3. CreatedIsAwaited'
    BY <1>6, <1>a DEF DeleteFrees, ThreadFree, StructureInv, CreatedIsAwaited
  <2>4. FirstRunBegins'
    BY <1>6, <1>a DEF DeleteFrees, ThreadFree, StructureInv, FirstRunBegins
  <2>5. OwnerKnows'
    BY <1>6, <1>a DEF DeleteFrees, ThreadFree, StructureInv, OwnerKnows
  <2>6. SelfDeletes'
    BY <1>6, <1>a DEF DeleteFrees, ThreadFree, StructureInv, SelfDeletes
  <2>7. DeadIsGivenUp'
    BY <1>6 DEF DeleteFrees, ThreadFree, StructureInv, DeadIsGivenUp, OwnerKnows
  <2>8. HandedDeletes'
    BY <1>6, <1>a DEF DeleteFrees, ThreadFree, StructureInv, HandedDeletes
  <2>9. FlagInv'
    BY <1>6, <1>a DEF DeleteFrees, ThreadFree, StructureInv, OwnerKnows, FlagInv,
       WaiterIsMarked, StopStaysRequested
  <2>10. QED
    BY <2>1, <2>2, <2>3, <2>4, <2>5, <2>6, <2>7, <2>8, <2>9 DEF StructureInv
<1>7. CASE StartCreate(t)
  <2>1. CASE ThreadStartCreate(t) /\ OwnerGoes(t, IF deleteMe[t] THEN "handed" ELSE "awaitRun")
    <3>0. PICK x \in Workers : /\ wpc[x] = "idle"
                               /\ wpc' = [wpc EXCEPT ![x] = "created"]
                               /\ wobj' = [wobj EXCEPT ![x] = t]
      BY <2>1 DEF ThreadStartCreate
    <3>b. /\ opc[t] = "startCreate"
          /\ \A w \in Workers : ~Active(w, t)
          /\ deleteMe[t] => \A w \in Workers : wobj[w] # t
      BY <1>7 DEF StartCreate, StructureInv, OwnerKnows, SelfDeletes
    <3>1. TypeOK'
      BY <2>1, <3>0, <3>b DEF ThreadStartCreate
    <3>2. OneRun'
      BY <2>1, <3>0, <3>b, <1>a DEF ThreadStartCreate, StructureInv, OneRun
    <3>3. CreatedIsAwaited'
      BY <2>1, <3>0, <3>b, <1>a DEF ThreadStartCreate, StructureInv, CreatedIsAwaited
    <3>4. FirstRunBegins'
      BY <2>1, <3>0, <3>b, <1>a DEF ThreadStartCreate, StructureInv, FirstRunBegins
    <3>5. OwnerKnows'
      BY <2>1, <3>0, <3>b, <1>a DEF ThreadStartCreate, StructureInv, OwnerKnows
    <3>6. SelfDeletes'
      BY <2>1, <3>0, <3>b, <1>a DEF ThreadStartCreate, StructureInv, SelfDeletes
    <3>7. DeadIsGivenUp'
      BY <2>1, <3>0, <3>b, <1>a DEF ThreadStartCreate, StructureInv, DeadIsGivenUp
    <3>8. HandedDeletes'
      BY <2>1, <3>0, <3>b, <1>a DEF ThreadStartCreate, StructureInv, HandedDeletes
    <3>9. FlagInv'
      BY <2>1, <3>0, <3>b, <1>a DEF ThreadStartCreate, StructureInv, OwnerKnows, FlagInv,
         WaiterIsMarked, StopStaysRequested
    <3>10. QED
      BY <3>1, <3>2, <3>3, <3>4, <3>5, <3>6, <3>7, <3>8, <3>9 DEF StructureInv
  <2>2. CASE ThreadStartFails(t) /\ OwnerGoes(t, "up")
    <3>b. opc[t] = "startCreate" /\ \A w \in Workers : ~Active(w, t)
      BY <1>7 DEF StartCreate, StructureInv, OwnerKnows
    <3>1. TypeOK'
      BY <2>2, <3>b DEF ThreadStartFails
    <3>2. OneRun'
      BY <2>2, <3>b, <1>a DEF ThreadStartFails, StructureInv, OneRun
    <3>3. CreatedIsAwaited'
      BY <2>2, <3>b, <1>a DEF ThreadStartFails, StructureInv, CreatedIsAwaited
    <3>4. FirstRunBegins'
      BY <2>2, <3>b, <1>a DEF ThreadStartFails, StructureInv, FirstRunBegins
    <3>5. OwnerKnows'
      BY <2>2, <3>b, <1>a DEF ThreadStartFails, StructureInv, OwnerKnows
    <3>6. SelfDeletes'
      BY <2>2, <3>b, <1>a DEF ThreadStartFails, StructureInv, SelfDeletes
    <3>7. DeadIsGivenUp'
      BY <2>2, <3>b, <1>a DEF ThreadStartFails, StructureInv, DeadIsGivenUp
    <3>8. HandedDeletes'
      BY <2>2, <3>b, <1>a DEF ThreadStartFails, StructureInv, HandedDeletes
    <3>9. FlagInv'
      BY <2>2, <3>b, <1>a DEF ThreadStartFails, StructureInv, OwnerKnows, FlagInv,
         WaiterIsMarked, StopStaysRequested
    <3>10. QED
      BY <3>1, <3>2, <3>3, <3>4, <3>5, <3>6, <3>7, <3>8, <3>9 DEF StructureInv
  <2>3. QED
    BY <1>7, <2>1, <2>2 DEF StartCreate
<1>8. CASE CallStop(t)
  <2>1. CASE ThreadStopRequest(t) /\ OwnerGoes(t, "stopping")
    <3>0. /\ wobj' = wobj
          /\ wpc' \in [Workers -> WorkerPC]
          /\ \A w \in Workers :
               \/ wpc'[w] = wpc[w]
               \/ wpc[w] = "waiting" /\ wpc'[w] = "wokeWait"
               \/ wpc[w] = "sleeping" /\ wpc'[w] = "wokeSleep"
      BY <2>1, SignalEffect DEF ThreadStopRequest
    <3>b. opc[t] = "up" /\ IsRunning[t]
      BY <1>8, <2>1, <1>a DEF CallStop, ThreadStopRequest, StructureInv, OwnerKnows
    <3>c. \A u \in Threads, w \in Workers :
            /\ Active(w, u)' <=> Active(w, u)
            /\ InRun(w, u)' <=> InRun(w, u)
      BY <3>0
    <3>d. \A w \in Workers : wpc'[w] = "created" <=> wpc[w] = "created"
      BY <3>0
    <3>e. \A w \in Workers : wpc'[w] = "deleting" <=> wpc[w] = "deleting"
      BY <3>0
    <3>1. TypeOK'
      BY <2>1, <3>0, <3>b, <3>c, <3>d, <3>e DEF ThreadStopRequest
    <3>2. OneRun'
      BY <2>1, <3>0, <3>b, <3>c, <3>d, <3>e, <1>a DEF ThreadStopRequest, StructureInv, OneRun
    <3>3. CreatedIsAwaited'
      BY <2>1, <3>0, <3>b, <3>c, <3>d, <3>e, <1>a DEF ThreadStopRequest, StructureInv, CreatedIsAwaited
    <3>4. FirstRunBegins'
      BY <2>1, <3>0, <3>b, <3>c, <3>d, <3>e, <1>a DEF ThreadStopRequest, StructureInv, FirstRunBegins
    <3>5. OwnerKnows'
      BY <2>1, <3>0, <3>b, <3>c, <3>d, <3>e, <1>a DEF ThreadStopRequest, StructureInv, OwnerKnows
    <3>6. SelfDeletes'
      BY <2>1, <3>0, <3>b, <3>c, <3>d, <3>e, <1>a DEF ThreadStopRequest, StructureInv, SelfDeletes
    <3>7. DeadIsGivenUp'
      BY <2>1, <3>0, <3>b, <3>c, <3>d, <3>e, <1>a DEF ThreadStopRequest, StructureInv, DeadIsGivenUp
    <3>8. HandedDeletes'
      BY <2>1, <3>0, <3>b, <3>c, <3>d, <3>e, <1>a DEF ThreadStopRequest, StructureInv, HandedDeletes
    <3>9. FlagInv'
      BY <2>1, <3>0, <3>b, <3>c, <3>d, <3>e, <1>a DEF ThreadStopRequest, StructureInv, OwnerKnows, FlagInv,
         WaiterIsMarked, StopStaysRequested
    <3>10. QED
      BY <3>1, <3>2, <3>3, <3>4, <3>5, <3>6, <3>7, <3>8, <3>9 DEF StructureInv
  <2>2. CASE ThreadStopReturn(t) /\ OwnerGoes(t, "idle")
    <3>b. opc[t] \in {"idle", "up"} /\ \A w \in Workers : ~Active(w, t)
      BY <1>8, <2>2, <1>b DEF CallStop, ThreadStopReturn
    <3>1. TypeOK'
      BY <2>2, <3>b DEF ThreadStopReturn
    <3>2. OneRun'
      BY <2>2, <3>b, <1>a DEF ThreadStopReturn, StructureInv, OneRun
    <3>3. CreatedIsAwaited'
      BY <2>2, <3>b, <1>a DEF ThreadStopReturn, StructureInv, CreatedIsAwaited
    <3>4. FirstRunBegins'
      BY <2>2, <3>b, <1>a DEF ThreadStopReturn, StructureInv, FirstRunBegins
    <3>5. OwnerKnows'
      BY <2>2, <3>b, <1>a DEF ThreadStopReturn, StructureInv, OwnerKnows
    <3>6. SelfDeletes'
      BY <2>2, <3>b, <1>a DEF ThreadStopReturn, StructureInv, SelfDeletes
    <3>7. DeadIsGivenUp'
      BY <2>2, <3>b, <1>a DEF ThreadStopReturn, StructureInv, DeadIsGivenUp
    <3>8. HandedDeletes'
      BY <2>2, <3>b, <1>a DEF ThreadStopReturn, StructureInv, HandedDeletes
    <3>9. FlagInv'
      BY <2>2, <3>b, <1>a DEF ThreadStopReturn, StructureInv, OwnerKnows, FlagInv,
         WaiterIsMarked, StopStaysRequested
    <3>10. QED
      BY <3>1, <3>2, <3>3, <3>4, <3>5, <3>6, <3>7, <3>8, <3>9 DEF StructureInv
  <2>3. QED
    BY <1>8, <2>1, <2>2 DEF CallStop
<1>9. CASE CallDelete(t)
  <2>1. CASE ThreadStopRequest(t) /\ OwnerGoes(t, "destroying")
    <3>0. /\ wobj' = wobj
          /\ wpc' \in [Workers -> WorkerPC]
          /\ \A w \in Workers :
               \/ wpc'[w] = wpc[w]
               \/ wpc[w] = "waiting" /\ wpc'[w] = "wokeWait"
               \/ wpc[w] = "sleeping" /\ wpc'[w] = "wokeSleep"
      BY <2>1, SignalEffect DEF ThreadStopRequest
    <3>b. opc[t] = "up" /\ IsRunning[t]
      BY <1>9, <2>1, <1>a DEF CallDelete, ThreadStopRequest, StructureInv, OwnerKnows
    <3>c. \A u \in Threads, w \in Workers :
            /\ Active(w, u)' <=> Active(w, u)
            /\ InRun(w, u)' <=> InRun(w, u)
      BY <3>0
    <3>d. \A w \in Workers : wpc'[w] = "created" <=> wpc[w] = "created"
      BY <3>0
    <3>e. \A w \in Workers : wpc'[w] = "deleting" <=> wpc[w] = "deleting"
      BY <3>0
    <3>1. TypeOK'
      BY <2>1, <3>0, <3>b, <3>c, <3>d, <3>e DEF ThreadStopRequest
    <3>2. OneRun'
      BY <2>1, <3>0, <3>b, <3>c, <3>d, <3>e, <1>a DEF ThreadStopRequest, StructureInv, OneRun
    <3>3. CreatedIsAwaited'
      BY <2>1, <3>0, <3>b, <3>c, <3>d, <3>e, <1>a DEF ThreadStopRequest, StructureInv, CreatedIsAwaited
    <3>4. FirstRunBegins'
      BY <2>1, <3>0, <3>b, <3>c, <3>d, <3>e, <1>a DEF ThreadStopRequest, StructureInv, FirstRunBegins
    <3>5. OwnerKnows'
      BY <2>1, <3>0, <3>b, <3>c, <3>d, <3>e, <1>a DEF ThreadStopRequest, StructureInv, OwnerKnows
    <3>6. SelfDeletes'
      BY <2>1, <3>0, <3>b, <3>c, <3>d, <3>e, <1>a DEF ThreadStopRequest, StructureInv, SelfDeletes
    <3>7. DeadIsGivenUp'
      BY <2>1, <3>0, <3>b, <3>c, <3>d, <3>e, <1>a DEF ThreadStopRequest, StructureInv, DeadIsGivenUp
    <3>8. HandedDeletes'
      BY <2>1, <3>0, <3>b, <3>c, <3>d, <3>e, <1>a DEF ThreadStopRequest, StructureInv, HandedDeletes
    <3>9. FlagInv'
      BY <2>1, <3>0, <3>b, <3>c, <3>d, <3>e, <1>a DEF ThreadStopRequest, StructureInv, OwnerKnows, FlagInv,
         WaiterIsMarked, StopStaysRequested
    <3>10. QED
      BY <3>1, <3>2, <3>3, <3>4, <3>5, <3>6, <3>7, <3>8, <3>9 DEF StructureInv
  <2>2. CASE ThreadStopReturn(t) /\ OwnerGoes(t, "freeing")
    <3>b. opc[t] \in {"idle", "up"} /\ \A w \in Workers : ~Active(w, t)
      BY <1>9, <2>2, <1>b DEF CallDelete, ThreadStopReturn
    <3>1. TypeOK'
      BY <2>2, <3>b DEF ThreadStopReturn
    <3>2. OneRun'
      BY <2>2, <3>b, <1>a DEF ThreadStopReturn, StructureInv, OneRun
    <3>3. CreatedIsAwaited'
      BY <2>2, <3>b, <1>a DEF ThreadStopReturn, StructureInv, CreatedIsAwaited
    <3>4. FirstRunBegins'
      BY <2>2, <3>b, <1>a DEF ThreadStopReturn, StructureInv, FirstRunBegins
    <3>5. OwnerKnows'
      BY <2>2, <3>b, <1>a DEF ThreadStopReturn, StructureInv, OwnerKnows
    <3>6. SelfDeletes'
      BY <2>2, <3>b, <1>a DEF ThreadStopReturn, StructureInv, SelfDeletes
    <3>7. DeadIsGivenUp'
      BY <2>2, <3>b, <1>a DEF ThreadStopReturn, StructureInv, DeadIsGivenUp
    <3>8. HandedDeletes'
      BY <2>2, <3>b, <1>a DEF ThreadStopReturn, StructureInv, HandedDeletes
    <3>9. FlagInv'
      BY <2>2, <3>b, <1>a DEF ThreadStopReturn, StructureInv, OwnerKnows, FlagInv,
         WaiterIsMarked, StopStaysRequested
    <3>10. QED
      BY <3>1, <3>2, <3>3, <3>4, <3>5, <3>6, <3>7, <3>8, <3>9 DEF StructureInv
  <2>3. QED
    BY <1>9, <2>1, <2>2 DEF CallDelete
<1>10. CASE OwnerSignalStop(t)
  <2>0. /\ wobj' = wobj
        /\ wpc' \in [Workers -> WorkerPC]
        /\ \A w \in Workers :
             \/ wpc'[w] = wpc[w]
             \/ wpc[w] = "waiting" /\ wpc'[w] = "wokeWait"
             \/ wpc[w] = "sleeping" /\ wpc'[w] = "wokeSleep"
    BY <1>10, SignalEffect DEF OwnerSignalStop, ThreadSignalStop
  <2>1. TypeOK'
    BY <1>10, <2>0 DEF OwnerSignalStop, ThreadSignalStop
  <2>2. StructureInv'
    BY <1>10, <2>0, QuietStep DEF OwnerSignalStop, ThreadSignalStop
  <2>3. FlagInv'
    BY <1>10, <2>0 DEF OwnerSignalStop, ThreadSignalStop, FlagInv,
                       WaiterIsMarked, StopStaysRequested
  <2>4. QED
    BY <2>1, <2>2, <2>3
<1>11. QED
  BY <1>1, <1>2, <1>3, <1>4, <1>5, <1>6, <1>7, <1>8, <1>9, <1>10 DEF OwnerStep

-----------------------------------------------------------------------------
(* Whatever the application threads do, as long as each owner waits for    *)
(* the start of its object (threadRunCount) before its next call.          *)
THEOREM ControlInvariant == Handshake /\ Spec => []ControlInv
<1> SUFFICES ASSUME Handshake
             PROVE  Spec => []ControlInv
  OBVIOUS
<1>1. Init => ControlInv
  BY InitControlInv
<1>2. ASSUME ControlInv, [Next]_vars
      PROVE  ControlInv'
  <2> USE <1>2, ControlInvParts
  <2>1. ASSUME NEW t \in Threads, OwnerStep(t)
        PROVE  ControlInv'
    BY <2>1, OwnerKeepsInv DEF ControlInv, StructureInv, FlagInv
  <2>2. ASSUME NEW h \in Helpers, HelperStep(h)
        PROVE  ControlInv'
    BY <2>2, HelperKeepsInv DEF ControlInv, StructureInv, FlagInv
  <2>3. ASSUME NEW w \in Workers, Worker(w)
        PROVE  ControlInv'
    BY <2>3, WorkerKeepsInv DEF Worker, ControlInv, StructureInv, FlagInv
  <2>4. CASE UNCHANGED vars
    BY <2>4 DEF vars, ControlInv, TypeOK, ThreadTypeOK, OneRun, WaiterIsMarked,
       StopStaysRequested, CreatedIsAwaited, FirstRunBegins, OwnerKnows,
       SelfDeletes, DeadIsGivenUp, HandedDeletes
  <2>5. QED
    BY <2>1, <2>2, <2>3, <2>4 DEF Next
<1>3. QED
  BY <1>1, <1>2, PTL DEF Spec

(* The variables keep their types.                                         *)
THEOREM ThreadTypeCorrect == Handshake /\ Spec => []TypeOK
<1>1. ControlInv => TypeOK
  BY DEF ControlInv
<1>2. QED
  BY <1>1, ControlInvariant, PTL

(* Two OS threads never run the same object, and IsRunning tells the truth *)
(* about it, although threadStart tests and writes it in separate steps.   *)
THEOREM OneRunHolds == Handshake /\ Spec => []OneRun
<1>1. ControlInv => OneRun
  BY DEF ControlInv
<1>2. QED
  BY <1>1, ControlInvariant, PTL

(* When threadStop or the destructor's threadStop has returned, the run is *)
(* over, and no deleted object is run on.                                  *)
THEOREM StopJoinsHolds == Handshake /\ Spec => []StopJoins
<1>1. ControlInv => StopJoins
  BY DEF ControlInv, OwnerKnows, DeadIsGivenUp, StopJoins
<1>2. QED
  BY <1>1, ControlInvariant, PTL

(* No wake-up is lost to the test of IsSuspended before the signal: a      *)
(* thread on the condition variable is always marked.                      *)
THEOREM WaiterIsMarkedHolds == Handshake /\ Spec => []WaiterIsMarked
<1>1. ControlInv => WaiterIsMarked
  BY DEF ControlInv
<1>2. QED
  BY <1>1, ControlInvariant, PTL

(* A stop request stays set until the run it is meant for has ended.       *)
THEOREM StopStaysRequestedHolds == Handshake /\ Spec => []StopStaysRequested
<1>1. ControlInv => StopStaysRequested
  BY DEF ControlInv
<1>2. QED
  BY <1>1, ControlInvariant, PTL

(* An object is deleted by its owner or by its own thread, never by both.  *)
THEOREM DeletedOnceHolds == Handshake /\ Spec => []DeletedOnce
<1>1. ControlInv => DeletedOnce
  BY DEF ControlInv, SelfDeletes, DeletedOnce
<1>2. QED
  BY <1>1, ControlInvariant, PTL

=============================================================================
