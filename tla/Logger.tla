------------------------------- MODULE Logger -------------------------------
(***************************************************************************)
(* ppl7::Logger (src/src/core/Logger.cpp): threads that print, change log  *)
(* files, levels, filters and handlers, and terminate the logger.          *)
(*                                                                         *)
(* stack[t] is the call stack of thread t: the frame at its head is the    *)
(* function it executes, "at" the place in it.  checkRotate prints itself, *)
(* so the stack is needed.  A call that holds the mutex from its first to  *)
(* its last statement, and throws nothing, is one step.                    *)
(***************************************************************************)
EXTENDS LogFiles

CONSTANTS
  Threads,
  INFO, DEBUG,  (* the priority of the logger's own messages, and the one  *)
                (* whose file gets the messages of all priorities          *)
  Levels,
  Places,       (* modules or source files a filter may name               *)
  Handlers,     (* the LogHandler objects                                  *)
  Nodes,        (* bound: addresses for the nodes of the handler list      *)
  Maxsize,      (* the other argument of setLogRotate, in lines            *)
  Offers,       (* bound: the calls each thread may make                   *)
  Setups,       (* bound: the names, generations and handlers to begin with*)
  Calls,        (* bound: how often a thread calls the logger              *)
  MaxFaults     (* bound: file operations that fail, handlers that throw   *)

(* The calls of the logger, with their arguments.                          *)
AnyCall ==
  [op : {"print"}, prio : Prios, level : Levels, place : Places \cup {NULL}, lines : Nat \ {0}]
  \cup [op : {"setFilter"}, place : Places, level : Levels]
  \cup [op : {"deleteFilter"}, place : Places]
  \cup [op : {"setLogfile"}, prio : Prios, name : Names \cup {NULL}, level : Levels \cup {NULL}]
  \cup [op : {"setLogLevel"}, prio : Prios, level : Levels]
  \cup [op : {"addLogHandler", "deleteLogHandler"}, handler : Handlers]
  \cup [op : {"setLogRotate", "terminate"}]

ASSUME LoggerAssumption ==
  /\ Prios \subseteq Nat /\ {INFO, DEBUG} \subseteq Prios
  /\ Levels \subseteq Nat /\ 0 \in Levels /\ Maxsize \in Nat
  /\ NULL \notin Threads \cup Handlers \cup Nodes \cup Levels
  /\ \A t \in Threads : Offers[t] \subseteq AnyCall
  /\ \A setup \in Setups :
       setup.names \in [Prios -> Names \cup {NULL}] /\ setup.handlers \in Seq(Nodes)

VARIABLES
  mutex,        (* who holds it: an error-checking mutex                   *)
  debuglevel,
  filter,       (* FilterModule and FilterFile: the level of a place       *)
  generations,  (* 1 as long as rotate_mechanism is 0                      *)
  inrotate,
  handlers,     (* the nodes of the handler list, in order                 *)
  handlerOf,    (* the handler of a node                                   *)
  stack,
  calls,        (* the calls each thread has left                          *)
  printed,      (* the number of messages printed                          *)
  faults,
  terminated,   (* terminate has begun to close files                      *)
  kept          (* the last call of t ended with an exception from inside  *)
                (* output(), or was setLogfile with an empty file name     *)

config == <<debuglevel, filter, generations>>
list == <<handlers, handlerOf>>
history == <<printed, terminated, kept>>
vars == <<files, mutex, config, inrotate, list, stack, calls, faults, history>>

-----------------------------------------------------------------------------
LockingOps ==
  {"setLogfile", "setLogLevel", "setLogRotate", "addLogHandler", "deleteLogHandler"}

PrintFrame(p, l, m, n) ==
  [op |-> "print", at |-> "lock", prio |-> p, level |-> l, msg |-> m, lines |-> n]
OutputFrame(p, l, line) ==
  [op |-> "output", at |-> "own", prio |-> p, level |-> l, line |-> line, node |-> NULL]
(* A mistake: the loop begins one generation too low.                      *)
RotateFrameShort(p) ==
  [op |-> "checkRotate", at |-> "check", prio |-> p, i |-> Generations - 1]
RotateFrame(p) == [op |-> "checkRotate", at |-> "check", prio |-> p, i |-> Generations]

(* What the logger itself prints: "Logfile started", "Logfile Rotated".    *)
Note == <<0, 1>>

At(t, op, at) ==
  stack[t] # <<>> /\ Head(stack[t]).op = op /\ Head(stack[t]).at = at
Top(t) == Head(stack[t])
Idle(t) == stack[t] = <<>>

Begins(t, frames) == stack' = [stack EXCEPT ![t] = frames]
Goes(t, at) == stack' = [stack EXCEPT ![t] = <<[Top(t) EXCEPT !.at = at]>> \o Tail(@)]
Enters(t, at, frame) ==
  stack' = [stack EXCEPT ![t] = <<frame, [Top(t) EXCEPT !.at = at]>> \o Tail(@)]
Returns(t) == stack' = [stack EXCEPT ![t] = Tail(@)]

(* An exception leaves all calls.  Only setLogfile catches it, unlocks and *)
(* throws it again.                                                        *)
Throws(t) ==
  LET caught == \E i \in DOMAIN stack[t] : stack[t][i].op = "setLogfile" IN
  /\ stack' = [stack EXCEPT ![t] = <<>>]
  /\ mutex' = IF caught /\ mutex = t THEN NULL ELSE mutex
  /\ kept' = [kept EXCEPT ![t] = ~caught]
  /\ UNCHANGED <<printed, terminated>>

(* A file operation fails.                                                 *)
Fails(t) == faults < MaxFaults /\ faults' = faults + 1 /\ Throws(t)

(* A thread begins a call.  One that still has the mutex gets              *)
(* DeadlockException whatever it calls: it is not seen again.              *)
Call(t) ==
  /\ Idle(t) /\ calls[t] > 0 /\ mutex # t
  /\ calls' = [calls EXCEPT ![t] = @ - 1]
  /\ UNCHANGED <<files, mutex, inrotate, list, faults, terminated, kept>>

isFiltered(place, l) == place # NULL /\ filter[place] # NULL /\ l >= filter[place]

(* Without the mutex.                                                      *)
shouldPrint(place, p, l) == debuglevel[p] >= l /\ ~isFiltered(place, l)

-----------------------------------------------------------------------------
(* The calls.                                                              *)

(* print and printf (one line), printArray and hexDump (several outputs    *)
(* under one lock).                                                        *)
print(t, p, l, place, n) ==
  /\ Call(t)
  /\ shouldPrint(place, p, l)
  /\ printed' = printed + 1
  /\ Begins(t, <<PrintFrame(p, l, printed + 1, n)>>)
  /\ UNCHANGED config

(* Filters are looked up and changed without the mutex.  Each is one step: *)
(* a change in the middle of another thread's look-up, which the code does *)
(* nothing to prevent and C++ does not define, is left out.                *)
setFilter(t, place, l) ==
  /\ Call(t)
  /\ filter' = [filter EXCEPT ![place] = l]
  /\ UNCHANGED <<debuglevel, generations, stack, printed>>

deleteFilter(t, place) == filter[place] # NULL /\ setFilter(t, place, NULL)

(* The other calls begin with the lock.                                    *)
Locking(t, c) ==
  /\ Call(t)
  /\ Begins(t, <<[x \in DOMAIN c \cup {"at"} |-> IF x = "at" THEN "lock" ELSE c[x]]>>)
  /\ UNCHANGED <<config, printed>>

(* terminate prints its message, then closes the files.                    *)
CallTerminate(t) ==
  /\ Call(t)
  /\ Begins(t, <<PrintFrame(INFO, 0, 0, 1),
                 [op |-> "terminate", at |-> "close", todo |-> Prios]>>)
  /\ UNCHANGED <<config, printed>>

-----------------------------------------------------------------------------
Locks(t, op) == At(t, op, "lock") /\ mutex = NULL

(* Unlocked again, setLogfile and setLogLevel print at level 0.            *)
Announces(t, at, p) ==
  IF debuglevel'[p] >= 0 THEN Enters(t, at, PrintFrame(p, 0, 0, 1)) ELSE Goes(t, at)

(* The file is closed and opened under the mutex.  With an empty name the  *)
(* mutex is not unlocked.                                                  *)
setLogfile(t) ==
  LET f == Top(t) IN
  /\ Locks(t, "setLogfile")
  /\ debuglevel' = IF f.level = NULL THEN debuglevel ELSE [debuglevel EXCEPT ![f.prio] = f.level]
  /\ \/ /\ f.name # NULL
        /\ Open(f.prio, f.name)
        /\ logfilename' = [logfilename EXCEPT ![f.prio] = f.name]
        /\ Announces(t, "return", f.prio)
        /\ UNCHANGED <<mutex, faults, history>>
     \/ /\ f.name # NULL                 \* it cannot be opened
        /\ logff' = [logff EXCEPT ![f.prio] = NULL]
        /\ logfilename' = [logfilename EXCEPT ![f.prio] = f.name]
        /\ Fails(t)
        /\ UNCHANGED <<dir, content, put, users>>
     \/ /\ f.name = NULL
        /\ Close(f.prio)
        /\ mutex' = t
        /\ kept' = [kept EXCEPT ![t] = TRUE]
        /\ Returns(t)
        /\ UNCHANGED <<faults, printed, terminated>>
  /\ UNCHANGED <<filter, generations, inrotate, list, calls>>

setLogLevel(t) ==
  LET f == Top(t) IN
  /\ Locks(t, "setLogLevel")
  /\ debuglevel' = [debuglevel EXCEPT ![f.prio] = f.level]
  /\ Announces(t, "return", f.prio)
  /\ UNCHANGED <<files, mutex, filter, generations, inrotate, list, calls, faults, history>>

setLogRotate(t) ==
  /\ Locks(t, "setLogRotate")
  /\ generations' = Generations
  /\ Returns(t)
  /\ UNCHANGED <<files, mutex, debuglevel, filter, inrotate, list, calls, faults, history>>

(* A mistake: the early return, after the first handler, does not unlock.  *)
addLogHandlerKeeps(t) ==
  /\ Locks(t, "addLogHandler")
  /\ Nodes \ ToSet(handlers) # {}
  /\ LET node == CHOOSE node \in Nodes \ ToSet(handlers) : TRUE IN
       /\ handlers' = Append(handlers, node)
       /\ handlerOf' = [handlerOf EXCEPT ![node] = Top(t).handler]
  /\ mutex' = IF handlers = <<>> THEN t ELSE NULL
  /\ Returns(t)
  /\ UNCHANGED <<files, config, inrotate, calls, faults, history>>

(* A handler may be in the list more than once.                            *)
addLogHandler(t) ==
  /\ Locks(t, "addLogHandler")
  /\ Nodes \ ToSet(handlers) # {}
  /\ LET node == CHOOSE node \in Nodes \ ToSet(handlers) : TRUE IN
       /\ handlers' = Append(handlers, node)
       /\ handlerOf' = [handlerOf EXCEPT ![node] = Top(t).handler]
  /\ Returns(t)
  /\ UNCHANGED <<files, mutex, config, inrotate, calls, faults, history>>

(* A mistake: without the lock.                                            *)
deleteLogHandlerUnlocked(t) ==
  /\ At(t, "deleteLogHandler", "lock")
  /\ handlers' = RemoveFirstMatch(handlers, LAMBDA node : handlerOf[node] = Top(t).handler)
  /\ Returns(t)
  /\ UNCHANGED <<files, mutex, config, inrotate, handlerOf, calls, faults, history>>

(* The first node of the handler is unlinked and freed.                    *)
deleteLogHandler(t) ==
  /\ Locks(t, "deleteLogHandler")
  /\ handlers' = RemoveFirstMatch(handlers, LAMBDA node : handlerOf[node] = Top(t).handler)
  /\ Returns(t)
  /\ UNCHANGED <<files, mutex, config, inrotate, handlerOf, calls, faults, history>>

(* The files are closed, one after the other, without the mutex.           *)
TerminateClose(t) ==
  /\ At(t, "terminate", "close")
  /\ LET p == Min(Top(t).todo)
         rest == Top(t).todo \ {p}
     IN  /\ Close(p)
         /\ stack' = [stack EXCEPT ![t] =
              <<[Top(t) EXCEPT !.todo = rest, !.at = IF rest = {} THEN "lock" ELSE "close"]>>
                \o Tail(@)]
  /\ terminated' = TRUE
  /\ UNCHANGED <<mutex, config, inrotate, list, calls, faults, printed, kept>>

TerminateFree(t) ==
  /\ Locks(t, "terminate")
  /\ handlers' = <<>>
  /\ debuglevel' = [p \in Prios |-> 0]
  /\ Returns(t)
  /\ UNCHANGED <<files, mutex, filter, generations, inrotate, handlerOf, calls, faults, history>>

-----------------------------------------------------------------------------
(* print under the mutex: one output for each line, then the unlock.       *)

PrintLock(t) ==
  /\ Locks(t, "print")
  /\ mutex' = t
  /\ Enters(t, "locked", OutputFrame(Top(t).prio, Top(t).level, <<Top(t).msg, 1>>))
  /\ UNCHANGED <<files, config, inrotate, list, calls, faults, history>>

(* A handler that prints: the mutex says DeadlockException.                *)
PrintDeadlock(t) ==
  /\ At(t, "print", "lock") /\ mutex = t
  /\ Throws(t)
  /\ UNCHANGED <<files, config, inrotate, list, calls, faults>>

(* A mistake: the lock is given up before the next line.                   *)
PrintNextUnlocked(t) ==
  /\ At(t, "print", "locked") /\ Top(t).lines > 1
  /\ mutex' = NULL
  /\ stack' = [stack EXCEPT ![t] =
       <<OutputFrame(Top(t).prio, Top(t).level, <<Top(t).msg, 2>>),
         [Top(t) EXCEPT !.lines = @ - 1]>> \o Tail(@)]
  /\ UNCHANGED <<files, config, inrotate, list, calls, faults, history>>

PrintNext(t) ==
  /\ At(t, "print", "locked") /\ Top(t).lines > 1
  /\ stack' = [stack EXCEPT ![t] =
       <<OutputFrame(Top(t).prio, Top(t).level, <<Top(t).msg, 2>>),
         [Top(t) EXCEPT !.lines = @ - 1]>> \o Tail(@)]
  /\ UNCHANGED <<files, mutex, config, inrotate, list, calls, faults, history>>

PrintUnlock(t) ==
  /\ At(t, "print", "locked") /\ Top(t).lines = 1
  /\ mutex' = NULL
  /\ Returns(t)
  /\ UNCHANGED <<files, config, inrotate, list, calls, faults, history>>

(* The printing call of setLogfile or setLogLevel is over.                 *)
Return(t) ==
  /\ ~Idle(t) /\ Top(t).at = "return"
  /\ Returns(t)
  /\ UNCHANGED <<files, mutex, config, inrotate, list, calls, faults, history>>

NodeAfter(node) == handlers[1 + CHOOSE i \in DOMAIN handlers : handlers[i] = node]

(* h = firsthandler; without one output returns.                           *)
ToHandlers(t) ==
  IF handlers = <<>> THEN Returns(t)
  ELSE stack' = [stack EXCEPT ![t] =
         <<[Top(t) EXCEPT !.at = "handlers", !.node = Head(handlers)]>> \o Tail(@)]

Unlogged == <<mutex, config, inrotate, list, calls>>

(* output: is the message for the file of its own priority?                *)
OutputOwn(t) ==
  /\ At(t, "output", "own")
  /\ Goes(t, IF Top(t).level <= debuglevel[Top(t).prio] /\ isOpen(Top(t).prio)
             THEN "write" ELSE "debug")
  /\ UNCHANGED <<files, Unlogged, faults, history>>

(* And for the file of DEBUG?  The code asks whether the file of its own   *)
(* priority is open, and whether it is another one.                        *)
OutputDebug(t) ==
  LET f == Top(t)
      also == /\ f.prio # DEBUG
              /\ f.level <= debuglevel[DEBUG]
              /\ isOpen(f.prio)
              /\ filename(f.prio) # filename(DEBUG)
  IN  /\ At(t, "output", "debug")
      /\ IF also THEN Goes(t, "writeDebug") ELSE ToHandlers(t)
      /\ UNCHANGED <<files, Unlogged, faults, history>>

(* puts and flush; they fail if the file is not open (any more).  Then     *)
(* checkRotate, which returns at once without rotation or inside of one.   *)
OutputPuts(t, at, p, then) ==
  /\ At(t, "output", at)
  /\ \/ /\ isOpen(p)
        /\ Puts(p, Top(t).line)
        /\ IF inrotate \/ generations = 1 THEN Goes(t, then)
           ELSE Enters(t, then, RotateFrame(p))
        /\ UNCHANGED <<mutex, faults, history>>
     \/ ~isOpen(p) /\ Throws(t) /\ UNCHANGED <<files, faults>>
     \/ Fails(t) /\ UNCHANGED files
  /\ UNCHANGED <<config, inrotate, list, calls>>

OutputWrite(t) == OutputPuts(t, "write", Top(t).prio, "debug")
OutputWriteDebug(t) == OutputPuts(t, "writeDebug", DEBUG, "first")

(* After the file of DEBUG.                                                *)
OutputFirst(t) ==
  /\ At(t, "output", "first")
  /\ ToHandlers(t)
  /\ UNCHANGED <<files, Unlogged, faults, history>>

(* logMessage of the handler is called with the mutex held.  It returns,   *)
(* and after the last one output does; or it throws, or it prints itself.  *)
OutputHandlers(t) ==
  /\ At(t, "output", "handlers")
  /\ \/ /\ IF Top(t).node = Last(handlers) THEN Returns(t)
           ELSE stack' = [stack EXCEPT ![t] =
                  <<[Top(t) EXCEPT !.node = NodeAfter(@)]>> \o Tail(@)]
        /\ UNCHANGED <<mutex, faults, history>>
     \/ Fails(t)
     \/ /\ faults < MaxFaults /\ faults' = faults + 1
        /\ Enters(t, "handlers", PrintFrame(DEBUG, 0, 0, 1))
        /\ UNCHANGED <<mutex, history>>
  /\ UNCHANGED <<files, config, inrotate, list, calls>>

-----------------------------------------------------------------------------
(* checkRotate.                                                            *)

RotateCheck(t) ==
  LET p == Top(t).prio IN
  /\ At(t, "checkRotate", "check")
  /\ \/ /\ isOpen(p) /\ size(p) <= Maxsize
        /\ Returns(t) /\ UNCHANGED <<inrotate, mutex, history>>
     \/ /\ isOpen(p) /\ size(p) > Maxsize
        /\ inrotate' = TRUE
        /\ Enters(t, "close", OutputFrame(p, 0, Note))
        /\ UNCHANGED <<mutex, history>>
     \/ ~isOpen(p) /\ Throws(t) /\ UNCHANGED inrotate        \* File::size throws
  /\ UNCHANGED <<files, config, list, calls, faults>>

RotateClose(t) ==
  /\ At(t, "checkRotate", "close")
  /\ Close(Top(t).prio)
  /\ Goes(t, "shift")
  /\ UNCHANGED <<Unlogged, faults, history>>

(* Generation i - 1 becomes generation i; the last turn, after the loop,   *)
(* makes the file itself generation 1 and fails when it is gone.           *)
RotateShift(t) ==
  LET f == Top(t)
      n == logfilename[f.prio]
  IN  /\ At(t, "checkRotate", "shift")
      /\ \/ /\ f.i > 1 \/ dir[n][0] # NULL
            /\ Shift(n, f.i)
            /\ stack' = [stack EXCEPT ![t] =
                 <<[f EXCEPT !.at = IF f.i > 1 THEN "shift" ELSE "open", !.i = @ - 1]>> \o Tail(@)]
            /\ UNCHANGED <<mutex, faults, history>>
         \/ Fails(t) /\ UNCHANGED files
         \/ f.i > 1 /\ Fails(t) /\ Unlink(n, f.i)        \* after the unlink
         \/ f.i = 1 /\ dir[n][0] = NULL /\ Throws(t) /\ UNCHANGED <<files, faults>>
      /\ UNCHANGED <<config, inrotate, list, calls>>

RotateOpen(t) ==
  LET p == Top(t).prio IN
  /\ At(t, "checkRotate", "open")
  /\ \/ /\ Open(p, logfilename[p]) /\ UNCHANGED logfilename
        /\ Enters(t, "reset", OutputFrame(p, 0, Note))
        /\ UNCHANGED <<mutex, faults, history>>
     \/ Fails(t) /\ UNCHANGED files
  /\ UNCHANGED <<config, inrotate, list, calls>>

RotateReset(t) ==
  /\ At(t, "checkRotate", "reset")
  /\ inrotate' = FALSE
  /\ Returns(t)
  /\ UNCHANGED <<files, mutex, config, list, calls, faults, history>>

-----------------------------------------------------------------------------
CallAny(t) ==
  \E c \in Offers[t] :
    \/ c.op = "print" /\ print(t, c.prio, c.level, c.place, c.lines)
    \/ c.op = "setFilter" /\ setFilter(t, c.place, c.level)
    \/ c.op = "deleteFilter" /\ deleteFilter(t, c.place)
    \/ c.op = "terminate" /\ CallTerminate(t)
    \/ c.op \in LockingOps /\ Locking(t, c)

Step(t) ==
  \/ setLogfile(t) \/ setLogLevel(t) \/ setLogRotate(t)
  \/ addLogHandler(t) \/ deleteLogHandler(t)
  \/ TerminateClose(t) \/ TerminateFree(t)
  \/ PrintLock(t) \/ PrintDeadlock(t) \/ PrintNext(t) \/ PrintUnlock(t) \/ Return(t)
  \/ OutputOwn(t) \/ OutputWrite(t) \/ OutputDebug(t) \/ OutputWriteDebug(t)
  \/ OutputFirst(t) \/ OutputHandlers(t)
  \/ RotateCheck(t) \/ RotateClose(t) \/ RotateShift(t) \/ RotateOpen(t) \/ RotateReset(t)

Next == \E t \in Threads : CallAny(t) \/ Step(t)

(* The application has set up the logger: the file of DEBUG before that of *)
(* the others, which then announce themselves in both.                     *)
Init ==
  /\ \E setup \in Setups :
       /\ logfilename = setup.names
       /\ generations = setup.generations
       /\ handlers = setup.handlers
  /\ LET opened == {p \in Prios : logfilename[p] # NULL}
         notes(n) == IF logfilename[DEBUG] = n THEN Cardinality(opened)
                     ELSE Cardinality({p \in opened : logfilename[p] = n})
         inode == CHOOSE f \in [Names -> Inodes] : \A a, b \in Names : f[a] = f[b] => a = b
         started(n) == [i \in 1..notes(n) |-> Note]
     IN  /\ logff = [p \in Prios |-> IF p \in opened THEN inode[logfilename[p]] ELSE NULL]
         /\ users = [n \in Names |-> {p \in Prios : logfilename[p] = n}]
         /\ dir = [n \in Names |-> [g \in 0..Generations |->
                     IF g = 0 /\ users[n] # {} THEN inode[n] ELSE NULL]]
         /\ put = [n \in Names |-> started(n)]
         /\ content = [f \in Inodes |->
                         IF \E n \in Names : inode[n] = f
                         THEN started(CHOOSE n \in Names : inode[n] = f) ELSE <<>>]
  /\ mutex = NULL
  /\ debuglevel = [p \in Prios |-> 0]
  /\ filter = [place \in Places |-> NULL]
  /\ inrotate = FALSE
  /\ handlerOf \in [Nodes -> Handlers]
  /\ stack = [t \in Threads |-> <<>>]
  /\ calls = Calls
  /\ printed = 0 /\ faults = 0 /\ terminated = FALSE
  /\ kept = [t \in Threads |-> FALSE]

Spec == Init /\ [][Next]_vars

(* A handler that is called returns, and a thread that may go on does.     *)
FairSpec == Spec /\ \A t \in Threads : WF_vars(Step(t))

-----------------------------------------------------------------------------
(* What output() has looked at before is still so when it uses it: the     *)
(* file it found open is open, unless terminate closed it, and the node of *)
(* the handler list it goes on with is in the list, whatever the other     *)
(* threads set, add and delete meanwhile.                                  *)
OutputUndisturbed ==
  \A t \in Threads :
    /\ At(t, "output", "write") => isOpen(Top(t).prio) \/ terminated
    /\ At(t, "output", "handlers") => Top(t).node \in ToSet(handlers)

(* As long as a name belongs to one priority, its file and the generations *)
(* on disk are, in this order, the last part of what was written to it,    *)
(* even when rotation failed half way; and lines are given up only when    *)
(* all generations exist and are full.                                     *)
RotationLosesOldest ==
  \A n \in Names : Cardinality(users[n]) <= 1 =>
    /\ IsSuffix(OnDisk(n), put[n])
    /\ OnDisk(n) # put[n] /\ ~inrotate =>
         \A g \in 1..Generations : dir[n][g] # NULL /\ Len(content[dir[n][g]]) > Maxsize

(* The lines of one printArray or hexDump follow each other in the file:   *)
(* nothing comes between them but what the rotation notes.                 *)
BlocksStayTogether ==
  \A n \in Names : \A i \in DOMAIN put[n] : put[n][i][2] = 2 =>
    \E j \in 1..i - 1 :
      /\ put[n][j] = <<put[n][i][1], 1>>
      /\ \A k \in j + 1..i - 1 : put[n][k] \in {Note, put[n][i]}

(* Every call returns, unless the mutex has been left locked by one that   *)
(* returned before; and that was one that ended with an exception from     *)
(* inside output(), or setLogfile without a file name.                     *)
CallsReturn ==
  \A t \in Threads :
    ~Idle(t) ~> Idle(t) \/ (mutex # NULL /\ Idle(mutex) /\ kept[mutex])

=============================================================================
