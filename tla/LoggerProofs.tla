---------------------------- MODULE LoggerProofs ----------------------------
(***************************************************************************)
(* What ppl7::Logger (src/src/core/Logger.cpp) keeps, for any threads,     *)
(* priorities, names, handlers and calls: what output() has looked at      *)
(* before it uses it stays so, the lines of one block stay together, and   *)
(* rotation loses no lines but the oldest.                                 *)
(***************************************************************************)
EXTENDS Logger, SequenceTheorems, FiniteSetTheorems, WellFoundedInduction, TLAPS

(* Frames of the call stack.                                               *)
LineSet == Nat \X {1, 2}
PrintFrames ==
  [op : {"print"}, at : {"lock", "locked"}, prio : Prios, level : Nat, msg : Nat,
   lines : Nat \ {0}]
OutputFrames ==
  [op : {"output"},
   at : {"own", "write", "debug", "writeDebug", "first", "handlers"},
   prio : Prios, level : Nat, line : LineSet, node : Nodes \cup {NULL}]
RotateFrames ==
  [op : {"checkRotate"}, at : {"check", "close", "shift", "open", "reset"}, prio : Prios, i : Int]
CallFrames ==
  [op : {"setLogfile"}, at : {"lock", "return"}, prio : Prios, name : Names \cup {NULL},
   level : Levels \cup {NULL}]
  \cup [op : {"setLogLevel"}, at : {"lock", "return"}, prio : Prios, level : Levels]
  \cup [op : {"addLogHandler", "deleteLogHandler"}, at : {"lock"}, handler : Handlers]
  \cup [op : {"setLogRotate"}, at : {"lock"}]
  \cup [op : {"terminate"}, at : {"close", "lock"}, todo : SUBSET Prios]
AnyFrame == PrintFrames \cup OutputFrames \cup RotateFrames \cup CallFrames

Cold(f) == f.op \notin {"print", "output", "checkRotate"}
Locked(f) == f.op = "print" /\ f.at = "locked"
Holds(f) == f.op \in {"output", "checkRotate"} \/ Locked(f)

(* From where frame i may have been called.                                *)
Fits(s, i) ==
  /\ Cold(s[i]) => i = Len(s)
  /\ Locked(s[i]) => i = Len(s) \/ Cold(s[i + 1])
  /\ s[i].op = "print" /\ ~Locked(s[i]) =>
       i = 1 /\ (Len(s) = 1 \/ Cold(s[2]) \/ (s[2].op = "output" /\ s[2].at = "handlers"))
  /\ s[i].op = "output" =>
       /\ i < Len(s)
       /\ \/ /\ Locked(s[i + 1])
             /\ s[i].prio = s[i + 1].prio /\ s[i].level = s[i + 1].level
             /\ s[i].line[1] = s[i + 1].msg
          \/ s[i + 1].op = "checkRotate" /\ s[i + 1].at # "check" /\ s[i].line = Note
       /\ s[i].at \in {"own", "write", "writeDebug"} => i = 1
       /\ s[i].at = "writeDebug" => s[i].prio # DEBUG
  /\ s[i].op = "checkRotate" =>
       /\ i + 1 < Len(s)
       /\ s[i + 1].op = "output" /\ Locked(s[i + 2])
       /\ s[i].at = "check" => i = 1
Shape(s) == \A i \in 1..Len(s) : Fits(s, i)

(* A thread that is inside output() or checkRotate has the mutex.          *)
Holding(t) == \A i \in 1..Len(stack[t]) : Holds(stack[t][i]) => mutex = t

(* The last lines of q are of block m, and the first of them is there.     *)
Follows(q, m) ==
  \E j \in 1..Len(q) : q[j] = <<m, 1>> /\ \A k \in j + 1..Len(q) : q[k] \in {Note, <<m, 2>>}
FollowsIn(n, m) == n \in Names => Follows(put[n], m)

Rotating(s, p) == \E i \in 1..Len(s) : s[i].op = "checkRotate" /\ s[i].prio = p
(* File p is closed and stays so, as far as the thread is concerned.       *)
Shut(s, p) == ~isOpen(p) /\ ~Rotating(s, p)

(* If the lines of a print after the first go to a file, the first did.    *)
OwnOK(s, f) ==
  \/ f.level > debuglevel[f.prio]
  \/ FollowsIn(logfilename[f.prio], f.msg)
  \/ Shut(s, f.prio)
DebugOK(s, f) ==
  \/ f.prio = DEBUG
  \/ f.level > debuglevel[DEBUG]
  \/ FollowsIn(logfilename[DEBUG], f.msg)
  \/ Shut(s, f.prio)
  \/ logfilename[f.prio] = logfilename[DEBUG]
Continues(s, b, places) ==
  b = 1 \/ s[b - 1].line[2] = 2 \/ s[b - 1].at \in places

LinesOK(s, i) ==
  /\ Continues(s, i, {"debug", "writeDebug", "first", "handlers"}) => OwnOK(s, s[i])
  /\ Continues(s, i, {"first", "handlers"}) => DebugOK(s, s[i])

FrameOK(f) ==
  /\ f.op = "output" /\ f.at = "handlers" => f.node \in ToSet(handlers)
  /\ f.op = "output" /\ f.at = "write" =>
       /\ isOpen(f.prio) \/ terminated
       /\ f.level <= debuglevel[f.prio]
  /\ f.op = "output" /\ f.at = "writeDebug" /\ f.line[2] = 2 =>
       FollowsIn(logfilename[DEBUG], f.line[1]) \/ ~isOpen(DEBUG)
  /\ f.op = "checkRotate" => /\ logfilename[f.prio] # NULL
                             /\ f.at # "check" => inrotate

(* What the thread that has the mutex relies on.                           *)
Work(s) ==
  \A i \in 1..Len(s) : FrameOK(s[i]) /\ (Locked(s[i]) => LinesOK(s, i))

Together(q) ==
  \A i \in 1..Len(q) : q[i][2] = 2 =>
    \E j \in 1..i - 1 : /\ q[j] = <<q[i][1], 1>>
                        /\ \A k \in j + 1..i - 1 : q[k] \in {Note, q[i]}

FilesOK ==
  /\ logff = [p \in Prios |-> logff[p]]
  /\ logfilename \in [Prios -> Names \cup {NULL}]
  /\ \A p \in Prios : isOpen(p) => logfilename[p] # NULL
  /\ put \in [Names -> Seq(LineSet)]
  /\ \A n \in Names : Together(put[n])
  /\ handlers \in Seq(Nodes)
  /\ debuglevel \in [Prios -> Nat]
StateOK == FilesOK /\ printed \in Nat /\ mutex \in Threads \cup {NULL}

LoggerInv ==
  /\ StateOK
  /\ stack \in [Threads -> Seq(AnyFrame)]
  /\ \A t \in Threads : Shape(stack[t]) /\ Holding(t)
  /\ mutex # NULL => \A s \in {stack[mutex]} : Work(s)

-----------------------------------------------------------------------------
(* The stack, when the function at its head goes on, calls or returns:     *)
(* frame i of the new one is frame i - d of the old one from lo on.        *)
Parts(s, r, lo, d) ==
  /\ Len(r) = Len(s) + d
  /\ lo - d >= 2
  /\ \A i \in lo..Len(r) : r[i] = s[i - d]

Swapped(s, r, g) == r \in Seq(AnyFrame) /\ r[1] = g /\ Len(r) >= 1 /\ Parts(s, r, 2, 0)
Pushed(s, r, f, g) ==
  r \in Seq(AnyFrame) /\ r[1] = f /\ r[2] = g /\ Len(r) >= 2 /\ Parts(s, r, 3, 1)
Popped(s, r) == r \in Seq(AnyFrame) /\ Parts(s, r, 1, -1)

(* The head is replaced.                                                   *)
LEMMA SwapParts ==
  ASSUME NEW s \in Seq(AnyFrame), s # << >>, NEW g \in AnyFrame,
         NEW r, r = <<g>> \o Tail(s)
  PROVE  Swapped(s, r, g)
BY DEF Parts, Swapped

(* A frame is pushed on the head, which is replaced.                       *)
LEMMA PushParts ==
  ASSUME NEW s \in Seq(AnyFrame), s # << >>, NEW f \in AnyFrame, NEW g \in AnyFrame,
         NEW r, r = <<f, g>> \o Tail(s)
  PROVE  Pushed(s, r, f, g)
BY DEF Parts, Pushed

(* The head is popped.                                                     *)
LEMMA PopParts ==
  ASSUME NEW s \in Seq(AnyFrame), s # << >>, NEW r, r = Tail(s)
  PROVE  Popped(s, r)
BY DEF Parts, Popped

(* The head of a stack.                                                    *)
LEMMA HeadFrame ==
  ASSUME NEW s \in Seq(AnyFrame), s # << >>
  PROVE  Head(s) = s[1] /\ s[1] \in AnyFrame /\ Len(s) \in Nat /\ Len(s) >= 1
OBVIOUS

-----------------------------------------------------------------------------
(* The frames, by the function they belong to.                             *)

LEMMA PrintIs ==
  ASSUME NEW f \in AnyFrame, f.op = "print"
  PROVE  f \in PrintFrames
BY DEF AnyFrame, OutputFrames, RotateFrames, CallFrames

LEMMA OutputIs ==
  ASSUME NEW f \in AnyFrame, f.op = "output"
  PROVE  f \in OutputFrames
BY DEF AnyFrame, PrintFrames, RotateFrames, CallFrames

LEMMA RotateIs ==
  ASSUME NEW f \in AnyFrame, f.op = "checkRotate"
  PROVE  f \in RotateFrames
BY DEF AnyFrame, PrintFrames, OutputFrames, CallFrames

(* A frame goes on to another place.                                       *)
LEMMA PrintGoes ==
  ASSUME NEW f \in AnyFrame, f.op = "print"
  PROVE  LET g == [f EXCEPT !.at = "locked"] IN
           /\ g \in AnyFrame /\ Locked(g) /\ ~Cold(g) /\ g.op = "print"
           /\ g.prio = f.prio /\ g.level = f.level /\ g.msg = f.msg
<1>1. f \in PrintFrames
  BY PrintIs
<1>2. [f EXCEPT !.at = "locked"] \in PrintFrames
  BY <1>1 DEF PrintFrames
<1>. QED
  BY <1>1, <1>2 DEF AnyFrame, PrintFrames, Locked, Cold

Moved(g, f, at) ==
  /\ g \in AnyFrame /\ g.op = "output" /\ g.at = at
  /\ g.prio = f.prio /\ g.level = f.level /\ g.line = f.line

LEMMA OutputGoes ==
  ASSUME NEW f \in AnyFrame, f.op = "output",
         NEW at \in {"own", "write", "debug", "writeDebug", "first", "handlers"}
  PROVE  Moved([f EXCEPT !.at = at], f, at)
<1>1. f \in OutputFrames
  BY OutputIs
<1>2. [f EXCEPT !.at = at] \in OutputFrames
  BY <1>1 DEF OutputFrames
<1>. QED
  BY <1>1, <1>2 DEF AnyFrame, OutputFrames, Moved

(* It goes on with a node of the handler list.                             *)
MovedTo(g, f, node) == Moved(g, f, "handlers") /\ g.node = node

LEMMA OutputGoesTo ==
  ASSUME NEW f \in AnyFrame, f.op = "output", NEW node \in Nodes
  PROVE  /\ MovedTo([f EXCEPT !.at = "handlers", !.node = node], f, node)
         /\ f.at = "handlers" => MovedTo([f EXCEPT !.node = node], f, node)
<1>1. f \in OutputFrames
  BY OutputIs
<1>2. /\ [f EXCEPT !.at = "handlers", !.node = node] \in OutputFrames
      /\ [f EXCEPT !.node = node] \in OutputFrames
  BY <1>1 DEF OutputFrames
<1>. QED
  BY <1>1, <1>2 DEF AnyFrame, OutputFrames, Moved, MovedTo

(* The frames that are pushed.                                             *)
LEMMA NewPrintFrame ==
  ASSUME NEW p \in Prios, NEW l \in Nat, NEW m \in Nat, NEW n \in Nat \ {0}
  PROVE  LET f == PrintFrame(p, l, m, n) IN
           f \in AnyFrame /\ f.op = "print" /\ f.at = "lock" /\ ~Locked(f) /\ ~Cold(f)
BY DEF PrintFrame, AnyFrame, PrintFrames, Locked, Cold

LEMMA NewOutputFrame ==
  ASSUME NEW p \in Prios, NEW l \in Nat, NEW line \in LineSet
  PROVE  LET f == OutputFrame(p, l, line) IN
           /\ f \in AnyFrame /\ f.op = "output" /\ f.at = "own"
           /\ f.prio = p /\ f.level = l /\ f.line = line
BY DEF OutputFrame, AnyFrame, OutputFrames

LEMMA NewRotateFrame ==
  ASSUME NEW p \in Prios
  PROVE  LET f == RotateFrame(p) IN
           f \in AnyFrame /\ f.op = "checkRotate" /\ f.at = "check" /\ f.prio = p
BY LogFilesAssumption DEF RotateFrame, AnyFrame, RotateFrames

-----------------------------------------------------------------------------
(* What a frame says of its callers still holds when the frames above it   *)
(* change.                                                                 *)
LEMMA ShapeBelow ==
  ASSUME NEW s \in Seq(AnyFrame), NEW r \in Seq(AnyFrame), NEW lo \in 1..3, NEW d \in {-1, 0, 1},
         Parts(s, r, lo, d), Shape(s),
         \A i \in 1..Len(r) : i < lo => Fits(r, i)
  PROVE  Shape(r)
<1> SUFFICES ASSUME NEW i \in 1..Len(r), i >= lo
             PROVE  Fits(r, i)
  BY DEF Shape
<1>1. /\ Len(r) \in Nat /\ Len(s) \in Nat /\ Len(r) = Len(s) + d /\ lo - d >= 2
      /\ \A j \in lo..Len(r) : r[j] = s[j - d]
  BY DEF Parts
<1>2. i - d \in 2..Len(s) /\ r[i] = s[i - d]
  BY <1>1
<1>3. Fits(s, i - d)
  BY <1>2 DEF Shape
<1>4. i < Len(r) => i - d < Len(s) /\ r[i + 1] = s[(i - d) + 1]
  BY <1>1
<1>5. i + 1 < Len(r) => (i - d) + 1 < Len(s) /\ r[i + 2] = s[(i - d) + 2]
  BY <1>1
<1>6. /\ i - d # 1 /\ (i = Len(r) <=> i - d = Len(s)) /\ (i < Len(r) <=> i - d < Len(s))
      /\ (i + 1 < Len(r) <=> (i - d) + 1 < Len(s)) /\ (i # Len(r) => i < Len(r))
      /\ (i + 1 < Len(r) => i < Len(r))
  <2>1. Len(r) \in Nat /\ Len(s) \in Nat /\ Len(r) = Len(s) + d /\ i >= lo /\ lo - d >= 2
    BY <1>1
  <2>. QED
    BY <2>1
<1>. DEFINE j == i - d
<1>7. /\ r[i] = s[j] /\ Fits(s, j) /\ j # 1
      /\ (i < Len(r) => r[i + 1] = s[j + 1]) /\ (i + 1 < Len(r) => r[i + 2] = s[j + 2])
      /\ (i = Len(r) <=> j = Len(s)) /\ (i < Len(r) <=> j < Len(s))
      /\ (i + 1 < Len(r) <=> j + 1 < Len(s)) /\ (i # Len(r) => i < Len(r))
      /\ (i + 1 < Len(r) => i < Len(r))
  <2>1. r[i] = s[j] /\ Fits(s, j) /\ j # 1
    BY <1>2, <1>3, <1>6
  <2>2. i < Len(r) => r[i + 1] = s[j + 1]
    BY <1>4
  <2>3. i + 1 < Len(r) => r[i + 2] = s[j + 2]
    BY <1>5
  <2>. QED
    BY <2>1, <2>2, <2>3, <1>6
<1>. HIDE DEF j
<1>. QED
  BY <1>7 DEF Fits

(* Below a print that has the mutex there is at most the call it is part   *)
(* of.                                                                     *)
LEMMA BelowLocked ==
  ASSUME NEW s \in Seq(AnyFrame), Shape(s), NEW i \in 1..Len(s), Locked(s[i]),
         NEW j \in i + 1..Len(s)
  PROVE  j = i + 1 /\ Len(s) = i + 1 /\ Cold(s[j]) /\ ~Locked(s[j]) /\ s[j].op # "checkRotate"
<1>1. Fits(s, i) /\ Fits(s, i + 1)
  BY DEF Shape
<1>2. Cold(s[i + 1]) /\ i + 1 = Len(s)
  BY <1>1 DEF Fits
<1>. QED
  BY <1>2 DEF Cold, Locked

(* A call that prints not itself is the only one.                          *)
LEMMA ColdAlone ==
  ASSUME NEW s \in Seq(AnyFrame), Shape(s), s # << >>, Cold(s[1])
  PROVE  Len(s) = 1 /\ Tail(s) = << >>
<1>1. Len(s) \in Nat /\ Len(s) >= 1
  BY HeadFrame
<1>2. Fits(s, 1)
  BY <1>1 DEF Shape
<1>3. Len(s) = 1
  BY <1>2 DEF Fits
<1>4. Tail(s) \in Seq(AnyFrame) /\ Len(Tail(s)) = 0
  BY <1>3
<1>. QED
  BY <1>3, <1>4, EmptySeq

-----------------------------------------------------------------------------
(* What the holder of the mutex relies on, below the head of its stack.    *)

(* The world has changed only so that frames below the head need not care. *)
Undisturbed ==
  handlers' = handlers /\ logfilename' = logfilename /\ debuglevel' = debuglevel

LEMMA FrameBelow ==
  ASSUME NEW f \in AnyFrame, FrameOK(f), Undisturbed,
         f.op = "output" => f.at \notin {"own", "write", "writeDebug"},
         f.op = "checkRotate" => inrotate' = TRUE \/ inrotate' = inrotate
  PROVE  FrameOK(f)'
BY DEF FrameOK, Undisturbed

LEMMA WorkBelow ==
  ASSUME NEW s \in Seq(AnyFrame), NEW r \in Seq(AnyFrame), NEW lo \in 1..3, NEW d \in {-1, 0, 1},
         Parts(s, r, lo, d), Shape(s), Work(s), Undisturbed,
         inrotate' = TRUE \/ inrotate' = inrotate
           \/ (\A i \in lo..Len(r) : r[i].op # "checkRotate"),
         \A i \in 1..Len(r) : i < lo => FrameOK(r[i])',
         \A i \in 1..Len(r) : i <= lo /\ Locked(r[i]) => LinesOK(r, i)',
         \A i \in 1..Len(r) : i > lo /\ Locked(r[i]) =>
           (OwnOK(s, r[i]) => OwnOK(r, r[i])') /\ (DebugOK(s, r[i]) => DebugOK(r, r[i])')
  PROVE  Work(r)'
<1>1. /\ Len(r) \in Nat /\ Len(s) \in Nat /\ Len(r) = Len(s) + d /\ lo - d >= 2
      /\ \A j \in lo..Len(r) : r[j] = s[j - d]
  BY DEF Parts
<1>2. ASSUME NEW i \in 1..Len(r), i >= lo
      PROVE  FrameOK(r[i])'
  <2>1. i - d \in 2..Len(s) /\ r[i] = s[i - d]
    BY <1>1, <1>2
  <2>2. FrameOK(s[i - d]) /\ Fits(s, i - d) /\ r[i] \in AnyFrame
    BY <2>1 DEF Shape, Work
  <2>3. r[i].op = "output" => r[i].at \notin {"own", "write", "writeDebug"}
    BY <2>1, <2>2 DEF Fits
  <2>4. r[i].op = "checkRotate" => inrotate' = TRUE \/ inrotate' = inrotate
    BY <1>2
  <2>. QED
    BY <2>1, <2>2, <2>3, <2>4, FrameBelow
<1>3. ASSUME NEW i \in 1..Len(r), i > lo, Locked(r[i])
      PROVE  LinesOK(r, i)'
  <2>. DEFINE j == i - d
  <2>0. i \in lo..Len(r) /\ i - 1 \in lo..Len(r)
    BY <1>1, <1>3
  <2>1. /\ j \in 2..Len(s) /\ r[i] = s[j] /\ r[i - 1] = s[j - 1] /\ i # 1 /\ j # 1
    <3>1. r[i] = s[i - d] /\ r[i - 1] = s[(i - 1) - d]
      BY <1>1, <2>0
    <3>2. (i - 1) - d = j - 1 /\ j \in 2..Len(s) /\ i # 1 /\ j # 1
      BY <1>1, <2>0
    <3>. QED
      BY <3>1, <3>2
  <2>2. LinesOK(s, j)
    BY <2>1, <1>3 DEF Work
  <2>3. /\ OwnOK(s, r[i]) => OwnOK(r, r[i])'
        /\ DebugOK(s, r[i]) => DebugOK(r, r[i])'
    BY <1>3
  <2>. HIDE DEF j
  <2>. QED
    BY <2>1, <2>2, <2>3 DEF LinesOK, Continues
<1>. QED
  BY <1>1, <1>2, <1>3 DEF Work

(* What the lines of a print rely on stays, if no file is written to and   *)
(* no file that was shut is opened.                                        *)
LEMMA LinesStay ==
  ASSUME NEW s, NEW r, NEW f, Undisturbed, put' = put,
         Shut(s, f.prio) => Shut(r, f.prio)'
  PROVE  (OwnOK(s, f) => OwnOK(r, f)') /\ (DebugOK(s, f) => DebugOK(r, f)')
BY DEF OwnOK, DebugOK, Undisturbed, FollowsIn

(* The frames that rotate are the same.                                    *)
LEMMA RotatingBelow ==
  ASSUME NEW s \in Seq(AnyFrame), NEW r \in Seq(AnyFrame), NEW lo \in 1..3, NEW d \in {-1, 0, 1},
         Parts(s, r, lo, d), NEW p, Rotating(r, p),
         \A i \in 1..Len(r) : i < lo => r[i].op # "checkRotate" \/ r[i].prio # p
  PROVE  Rotating(s, p)
<1>1. /\ Len(r) \in Nat /\ Len(s) \in Nat /\ Len(r) = Len(s) + d /\ lo - d >= 2
      /\ \A j \in lo..Len(r) : r[j] = s[j - d]
  BY DEF Parts
<1>2. PICK i \in 1..Len(r) : r[i].op = "checkRotate" /\ r[i].prio = p
  BY DEF Rotating
<1>3. i >= lo
  BY <1>2
<1>4. i - d \in 1..Len(s) /\ r[i] = s[i - d]
  BY <1>1, <1>3
<1>. QED
  BY <1>2, <1>4 DEF Rotating

-----------------------------------------------------------------------------
(* One step of thread t.                                                   *)

(* The stack of t becomes r; what the holder of the mutex relies on is     *)
(* shown for the one who has it afterwards.                                *)
LEMMA StackStep ==
  ASSUME LoggerInv, NEW t \in Threads, NEW r \in Seq(AnyFrame),
         stack' = [stack EXCEPT ![t] = r], StateOK', Shape(r),
         \A i \in 1..Len(r) : Holds(r[i]) => mutex' = t,
         mutex' = mutex \/ (mutex \in {NULL, t} /\ mutex' \in {NULL, t}),
         mutex' = t => Work(r)',
         \A u \in Threads : u # t /\ mutex' = u => \A s \in {stack[u]} : Work(s)'
  PROVE  LoggerInv'
<1>1. stack' \in [Threads -> Seq(AnyFrame)]
  BY DEF LoggerInv
<1>2. stack'[t] = r /\ \A u \in Threads : u # t => stack'[u] = stack[u]
  BY DEF LoggerInv
<1>3. ASSUME NEW u \in Threads
      PROVE  Shape(stack[u])' /\ Holding(u)'
  <2>1. CASE u = t
    BY <1>2, <2>1 DEF Holding
  <2>2. CASE u # t
    <3>1. Shape(stack[u]) /\ Holding(u)
      BY DEF LoggerInv
    <3>2. stack'[u] = stack[u]
      BY <1>2, <2>2
    <3>3. mutex = u => mutex' = u
      BY <2>2, LoggerAssumption
    <3>. QED
      BY <3>1, <3>2, <3>3 DEF Holding
  <2>. QED
    BY <2>1, <2>2
<1>4. ASSUME mutex' # NULL, NEW s \in {stack'[mutex']}
      PROVE  Work(s)'
  <2>1. mutex' \in Threads
    BY <1>4 DEF StateOK
  <2>2. CASE mutex' = t
    BY <1>2, <2>2
  <2>3. CASE mutex' # t
    BY <1>2, <2>1, <2>3
  <2>. QED
    BY <2>2, <2>3
<1>. QED
  BY <1>1, <1>3, <1>4 DEF LoggerInv

(* The files and what is remembered stay as they are.                      *)
LEMMA StateStays ==
  ASSUME StateOK, printed' \in Nat, mutex' \in Threads \cup {NULL},
         UNCHANGED <<logff, logfilename, put, debuglevel>>, handlers' \in Seq(Nodes)
  PROVE  StateOK'
BY DEF StateOK, FilesOK, isOpen

(* Nothing the holder relies on changes, but terminate may close a file.   *)
LEMMA WorkStays ==
  ASSUME NEW s, Work(s), Undisturbed, put' = put, inrotate' = inrotate,
         terminated => terminated',
         \A p \in Prios : ~isOpen(p) => ~isOpen(p)',
         \A p \in Prios : isOpen(p) => isOpen(p)' \/ terminated',
         \A i \in 1..Len(s) : s[i] \in AnyFrame
  PROVE  Work(s)'
<1> SUFFICES ASSUME NEW i \in 1..Len(s)
             PROVE  FrameOK(s[i])' /\ (Locked(s[i]) => LinesOK(s, i)')
  BY DEF Work
<1>1. FrameOK(s[i]) /\ (Locked(s[i]) => LinesOK(s, i)) /\ s[i] \in AnyFrame
  BY DEF Work
<1>2. DEBUG \in Prios
  BY LoggerAssumption
<1>3. FrameOK(s[i])'
  <2>1. s[i].op = "output" => s[i].prio \in Prios
    BY <1>1, OutputIs DEF OutputFrames
  <2>. QED
    BY <1>1, <1>2, <2>1 DEF FrameOK, Undisturbed, FollowsIn
<1>4. ASSUME Locked(s[i])
      PROVE  LinesOK(s, i)'
  <2>1. s[i].prio \in Prios
    BY <1>1, <1>4, PrintIs DEF PrintFrames, Locked
  <2>2. Shut(s, s[i].prio) => Shut(s, s[i].prio)'
    BY <2>1 DEF Shut, Rotating
  <2>3. /\ OwnOK(s, s[i]) => OwnOK(s, s[i])'
        /\ DebugOK(s, s[i]) => DebugOK(s, s[i])'
    BY <2>2, LinesStay
  <2>4. LinesOK(s, i)
    BY <1>1, <1>4
  <2>. QED
    BY <2>3, <2>4 DEF LinesOK, Continues
<1>. QED
  BY <1>3, <1>4

(* A stack without the mutex.                                              *)
LEMMA WorkOfNone ==
  ASSUME NEW s \in Seq(AnyFrame),
         \A i \in 1..Len(s) : Cold(s[i]) \/ (s[i].op = "print" /\ ~Locked(s[i]))
  PROVE  Work(s) /\ Work(s)' /\ \A i \in 1..Len(s) : ~Holds(s[i])
BY DEF Work, FrameOK, Cold, Locked, Holds

-----------------------------------------------------------------------------
(* The steps of a thread that is not inside output() afterwards.           *)

Free(s) == \A i \in 1..Len(s) : Cold(s[i]) \/ (s[i].op = "print" /\ ~Locked(s[i]))

LEMMA ShortStacks ==
  ASSUME NEW f \in AnyFrame, f.op = "print", ~Locked(f), NEW g \in AnyFrame, Cold(g)
  PROVE  \A s \in {<<f>>, <<g>>, <<f, g>>, << >>} : s \in Seq(AnyFrame) /\ Shape(s) /\ Free(s)
<1>1. <<f>> \in Seq(AnyFrame) /\ Shape(<<f>>) /\ Free(<<f>>)
  BY DEF Shape, Fits, Free, Cold, Locked
<1>2. <<g>> \in Seq(AnyFrame) /\ Shape(<<g>>) /\ Free(<<g>>)
  BY DEF Shape, Fits, Free, Cold, Locked
<1>3. <<f, g>> \in Seq(AnyFrame) /\ Shape(<<f, g>>) /\ Free(<<f, g>>)
  <2>1. /\ Len(<<f, g>>) = 2 /\ <<f, g>>[1] = f /\ <<f, g>>[2] = g
        /\ <<f, g>> \in Seq(AnyFrame) /\ f.op # "output" /\ f.op # "checkRotate" /\ ~Cold(f)
        /\ g.op # "output" /\ g.op # "checkRotate" /\ g.op # "print" /\ ~Locked(g)
    BY DEF Cold, Locked
  <2>. HIDE DEF Cold, Locked
  <2>2. Fits(<<f, g>>, 1) /\ Fits(<<f, g>>, 2)
    BY <2>1 DEF Fits
  <2>3. \A i \in 1..2 : i = 1 \/ i = 2
    OBVIOUS
  <2>. QED
    BY <2>1, <2>2, <2>3 DEF Shape, Free
<1>4. << >> \in Seq(AnyFrame) /\ Shape(<< >>) /\ Free(<< >>)
  BY DEF Shape, Free
<1>. QED
  BY <1>1, <1>2, <1>3, <1>4

LEMMA FreeStep ==
  ASSUME LoggerInv, NEW t \in Threads, NEW r \in Seq(AnyFrame),
         stack' = [stack EXCEPT ![t] = r], StateOK', Shape(r), Free(r),
         mutex' = mutex \/ (mutex \in {NULL, t} /\ mutex' \in {NULL, t}),
         \A u \in Threads : u # t /\ mutex' = u =>
           /\ Undisturbed /\ put' = put /\ inrotate' = inrotate /\ (terminated => terminated')
           /\ \A p \in Prios : ~isOpen(p) => ~isOpen(p)'
           /\ \A p \in Prios : isOpen(p) => isOpen(p)' \/ terminated'
  PROVE  LoggerInv'
<1>1. Work(r)' /\ \A i \in 1..Len(r) : ~Holds(r[i])
  BY WorkOfNone DEF Free
<1>2. ASSUME NEW u \in Threads, u # t, mutex' = u, NEW s \in {stack[u]}
      PROVE  Work(s)'
  <2>1. mutex = u
    BY <1>2, LoggerAssumption
  <2>2. Work(s)
    BY <2>1, <1>2, LoggerAssumption DEF LoggerInv
  <2>3. \A i \in 1..Len(s) : s[i] \in AnyFrame
    BY <1>2 DEF LoggerInv
  <2>. QED
    BY <1>2, <2>2, <2>3, WorkStays
<1>. QED
  BY <1>1, <1>2, StackStep

(* An exception leaves the logger.                                         *)
LEMMA ThrowsKeepsInv ==
  ASSUME LoggerInv, NEW t \in Threads, Throws(t), FilesOK', mutex \in {NULL, t}
  PROVE  LoggerInv'
<1>1. << >> \in Seq(AnyFrame) /\ Shape(<< >>) /\ Free(<< >>)
  BY DEF Shape, Free
<1>2. /\ stack' = [stack EXCEPT ![t] = << >>] /\ mutex' \in {NULL, t}
      /\ printed' = printed /\ mutex' \in Threads \cup {NULL}
  BY DEF Throws
<1>3. StateOK'
  BY <1>2 DEF StateOK, LoggerInv
<1>4. \A u \in Threads : u # t => mutex' # u
  BY <1>2, LoggerAssumption
<1>. HIDE DEF Throws
<1>. QED
  BY <1>1, <1>2, <1>3, <1>4, FreeStep

(* A cold frame that begins, and one that goes on.                         *)
LEMMA CallFrame ==
  ASSUME NEW c \in AnyCall, c.op \in LockingOps,
         NEW f, f = [x \in DOMAIN c \cup {"at"} |-> IF x = "at" THEN "lock" ELSE c[x]]
  PROVE  f \in AnyFrame /\ Cold(f)
<1>1. CASE c.op = "setLogfile"
  <2>1. c \in [op : {"setLogfile"}, prio : Prios, name : Names \cup {NULL},
               level : Levels \cup {NULL}]
    BY <1>1 DEF AnyCall
  <2>2. f = [op |-> "setLogfile", at |-> "lock", prio |-> c.prio, name |-> c.name,
             level |-> c.level]
    BY <2>1
  <2>. QED
    BY <2>1, <2>2 DEF AnyFrame, CallFrames, Cold
<1>2. CASE c.op = "setLogLevel"
  <2>1. c \in [op : {"setLogLevel"}, prio : Prios, level : Levels]
    BY <1>2 DEF AnyCall
  <2>2. f = [op |-> "setLogLevel", at |-> "lock", prio |-> c.prio, level |-> c.level]
    BY <2>1
  <2>. QED
    BY <2>1, <2>2 DEF AnyFrame, CallFrames, Cold
<1>3. CASE c.op \in {"addLogHandler", "deleteLogHandler"}
  <2>1. c \in [op : {"addLogHandler", "deleteLogHandler"}, handler : Handlers]
    BY <1>3 DEF AnyCall
  <2>2. f = [op |-> c.op, at |-> "lock", handler |-> c.handler]
    BY <2>1
  <2>. QED
    BY <2>1, <2>2 DEF AnyFrame, CallFrames, Cold
<1>4. CASE c.op = "setLogRotate"
  <2>1. c \in [op : {"setLogRotate", "terminate"}]
    BY <1>4 DEF AnyCall
  <2>2. f = [op |-> "setLogRotate", at |-> "lock"]
    BY <2>1, <1>4
  <2>. QED
    BY <2>1, <2>2 DEF AnyFrame, CallFrames, Cold
<1>. QED
  BY <1>1, <1>2, <1>3, <1>4 DEF LockingOps

(* A thread begins a call.                                                 *)
LEMMA CallKeepsInv ==
  ASSUME LoggerInv, NEW t \in Threads, CallAny(t)
  PROVE  LoggerInv'
<1>1. PICK c \in Offers[t] :
        \/ c.op = "print" /\ print(t, c.prio, c.level, c.place, c.lines)
        \/ c.op = "setFilter" /\ setFilter(t, c.place, c.level)
        \/ c.op = "deleteFilter" /\ deleteFilter(t, c.place)
        \/ c.op = "terminate" /\ CallTerminate(t)
        \/ c.op \in LockingOps /\ Locking(t, c)
  BY DEF CallAny
<1>2. c \in AnyCall
  BY LoggerAssumption
<1>3. ASSUME Call(t), UNCHANGED debuglevel, printed' \in Nat,
             NEW r, r \in Seq(AnyFrame) /\ Shape(r) /\ Free(r), Begins(t, r)
      PROVE  LoggerInv'
  <2>1. StateOK /\ handlers \in Seq(Nodes) /\ mutex \in Threads \cup {NULL}
    BY DEF LoggerInv, StateOK, FilesOK
  <2>2. /\ UNCHANGED <<logff, logfilename, put, handlers, mutex, inrotate, terminated>>
    BY <1>3 DEF Call, files, list
  <2>3. StateOK'
    BY <2>1, <2>2, <1>3, StateStays
  <2>4. /\ Undisturbed /\ put' = put /\ inrotate' = inrotate /\ (terminated => terminated')
        /\ \A p \in Prios : ~isOpen(p) => ~isOpen(p)'
        /\ \A p \in Prios : isOpen(p) => isOpen(p)' \/ terminated'
    BY <2>2, <1>3 DEF Undisturbed, isOpen
  <2>. QED
    BY <1>3, <2>2, <2>3, <2>4, FreeStep DEF Begins
<1>4. printed \in Nat /\ 0 \in Nat /\ INFO \in Prios
  BY LoggerAssumption DEF LoggerInv, StateOK
<1>5. CASE c.op = "print" /\ print(t, c.prio, c.level, c.place, c.lines)
  <2>1. c.prio \in Prios /\ c.level \in Nat /\ c.lines \in Nat \ {0}
    BY <1>2, <1>5, LoggerAssumption DEF AnyCall
  <2>. DEFINE f == PrintFrame(c.prio, c.level, printed + 1, c.lines)
  <2>0. printed + 1 \in Nat
    BY <1>4
  <2>2. f \in AnyFrame /\ f.op = "print" /\ ~Locked(f)
    BY <2>0, <2>1, NewPrintFrame
  <2>3. /\ Call(t) /\ UNCHANGED debuglevel /\ printed' \in Nat /\ Begins(t, <<f>>)
    BY <1>5, <1>4 DEF print, config
  <2>. HIDE DEF f
  <2>4. <<f>> \in Seq(AnyFrame) /\ Shape(<<f>>) /\ Free(<<f>>)
    BY <2>2 DEF Shape, Fits, Free, Cold, Locked
  <2>. QED
    BY <2>3, <2>4, <1>3
<1>6. ASSUME NEW place, NEW l, setFilter(t, place, l)
      PROVE  LoggerInv'
  <2>1. /\ Call(t) /\ UNCHANGED <<debuglevel, stack, printed>>
    BY <1>6 DEF setFilter
  <2>2. stack[t] = << >> /\ stack' = [stack EXCEPT ![t] = << >>]
    BY <2>1 DEF Call, Idle, LoggerInv
  <2>3. << >> \in Seq(AnyFrame) /\ Shape(<< >>) /\ Free(<< >>)
    BY DEF Shape, Free
  <2>. QED
    BY <2>1, <2>2, <2>3, <1>3, <1>4 DEF Begins
<1>7. CASE c.op = "deleteFilter" /\ deleteFilter(t, c.place)
  BY <1>6, <1>7 DEF deleteFilter
<1>8. CASE c.op = "terminate" /\ CallTerminate(t)
  <2>. DEFINE f == PrintFrame(INFO, 0, 0, 1)
              g == [op |-> "terminate", at |-> "close", todo |-> Prios]
  <2>1. f \in AnyFrame /\ f.op = "print" /\ ~Locked(f)
    BY <1>4, NewPrintFrame
  <2>2. g \in AnyFrame /\ Cold(g)
    BY DEF AnyFrame, CallFrames, Cold
  <2>3. /\ Call(t) /\ UNCHANGED debuglevel /\ printed' \in Nat /\ Begins(t, <<f, g>>)
    BY <1>8, <1>4 DEF CallTerminate, config
  <2>. HIDE DEF f, g
  <2>4. <<f, g>> \in Seq(AnyFrame) /\ Shape(<<f, g>>) /\ Free(<<f, g>>)
    BY <2>1, <2>2, ShortStacks
  <2>. QED
    BY <2>3, <2>4, <1>3
<1>9. CASE c.op \in LockingOps /\ Locking(t, c)
  <2>. DEFINE g == [x \in DOMAIN c \cup {"at"} |-> IF x = "at" THEN "lock" ELSE c[x]]
  <2>1. g \in AnyFrame /\ Cold(g)
    BY <1>2, <1>9, CallFrame
  <2>2. /\ Call(t) /\ UNCHANGED debuglevel /\ printed' \in Nat /\ Begins(t, <<g>>)
    BY <1>9, <1>4 DEF Locking, config
  <2>. HIDE DEF g
  <2>3. <<g>> \in Seq(AnyFrame) /\ Shape(<<g>>) /\ Free(<<g>>)
    BY <2>1 DEF Shape, Fits, Free, Cold, Locked
  <2>. QED
    BY <2>2, <2>3, <1>3
<1>. QED
  BY <1>1, <1>5, <1>6, <1>7, <1>8, <1>9

-----------------------------------------------------------------------------
(* The calls that lock the mutex and hold it for one step, and terminate.  *)

LEMMA ColdHead ==
  ASSUME LoggerInv, NEW t \in Threads, stack[t] # << >>, Cold(Top(t))
  PROVE  /\ Top(t) \in AnyFrame
         /\ Returns(t) => stack' = [stack EXCEPT ![t] = << >>]
         /\ \A at : Goes(t, at) => stack' = [stack EXCEPT ![t] = <<[Top(t) EXCEPT !.at = at]>>]
         /\ \A at, f : Enters(t, at, f) =>
              stack' = [stack EXCEPT ![t] = <<f, [Top(t) EXCEPT !.at = at]>>]
<1>1. stack[t] \in Seq(AnyFrame) /\ Shape(stack[t]) /\ stack \in [Threads -> Seq(AnyFrame)]
  BY DEF LoggerInv
<1>2. Top(t) = stack[t][1] /\ Top(t) \in AnyFrame
  BY <1>1, HeadFrame DEF Top
<1>3. Tail(stack[t]) = << >>
  BY <1>1, <1>2, ColdAlone
<1>4. \A g : <<g>> \o << >> = <<g>>
  OBVIOUS
<1>5. \A f, g : <<f, g>> \o << >> = <<f, g>>
  OBVIOUS
<1>. QED
  BY <1>1, <1>2, <1>3, <1>4, <1>5 DEF Returns, Goes, Enters

LEMMA ColdGoes ==
  ASSUME NEW f \in AnyFrame, f.op \in {"setLogfile", "setLogLevel"}
  PROVE  /\ [f EXCEPT !.at = "return"] \in AnyFrame /\ Cold([f EXCEPT !.at = "return"])
         /\ f.prio \in Prios
         /\ f.op = "setLogfile" => f.name \in Names \cup {NULL} /\ f.level \in Levels \cup {NULL}
         /\ f.op = "setLogLevel" => f.level \in Levels
<1>1. CASE f.op = "setLogfile"
  <2>1. f \in [op : {"setLogfile"}, at : {"lock", "return"}, prio : Prios,
               name : Names \cup {NULL}, level : Levels \cup {NULL}]
    BY <1>1 DEF AnyFrame, CallFrames, PrintFrames, OutputFrames, RotateFrames
  <2>. QED
    BY <2>1 DEF AnyFrame, CallFrames, Cold
<1>2. CASE f.op = "setLogLevel"
  <2>1. f \in [op : {"setLogLevel"}, at : {"lock", "return"}, prio : Prios, level : Levels]
    BY <1>2 DEF AnyFrame, CallFrames, PrintFrames, OutputFrames, RotateFrames
  <2>. QED
    BY <2>1 DEF AnyFrame, CallFrames, Cold
<1>. QED
  BY <1>1, <1>2

(* setLogfile and setLogLevel print, or not.                               *)
LEMMA AnnounceKeepsInv ==
  ASSUME LoggerInv, NEW t \in Threads, stack[t] # << >>,
         Top(t).op \in {"setLogfile", "setLogLevel"},
         Announces(t, "return", Top(t).prio), StateOK', mutex = NULL, mutex' = NULL
  PROVE  LoggerInv'
<1>. DEFINE f == PrintFrame(Top(t).prio, 0, 0, 1)
            g == [Top(t) EXCEPT !.at = "return"]
<1>1. Cold(Top(t))
  BY DEF Cold
<1>2. Top(t) \in AnyFrame
  BY <1>1, ColdHead
<1>3. g \in AnyFrame /\ Cold(g) /\ Top(t).prio \in Prios
  BY <1>2, ColdGoes
<1>4. f \in AnyFrame /\ f.op = "print" /\ ~Locked(f)
  <2>1. \A l \in Nat, m \in Nat, n \in Nat \ {0} :
          LET x == PrintFrame(Top(t).prio, l, m, n) IN
            x \in AnyFrame /\ x.op = "print" /\ ~Locked(x)
    BY <1>3, NewPrintFrame
  <2>. QED
    BY <2>1
<1>5. \/ stack' = [stack EXCEPT ![t] = <<f, g>>]
      \/ stack' = [stack EXCEPT ![t] = <<g>>]
  BY <1>1, ColdHead DEF Announces
<1>. HIDE DEF f, g
<1>6. \A s \in {<<g>>, <<f, g>>} : s \in Seq(AnyFrame) /\ Shape(s) /\ Free(s)
  BY <1>3, <1>4, ShortStacks
<1>7. \A u \in Threads : mutex' # u
  BY LoggerAssumption
<1>. QED
  BY <1>5, <1>6, <1>7, FreeStep

(* A call returns that has nothing below it.                               *)
LEMMA ReturnKeepsInv ==
  ASSUME LoggerInv, NEW t \in Threads, stack[t] # << >>, Cold(Top(t)), Returns(t), StateOK',
         \/ mutex = NULL /\ mutex' \in {NULL, t}
         \/ UNCHANGED <<logff, logfilename, put, debuglevel, handlers, mutex, inrotate, terminated>>
  PROVE  LoggerInv'
<1>1. stack' = [stack EXCEPT ![t] = << >>]
  BY ColdHead
<1>2. << >> \in Seq(AnyFrame) /\ Shape(<< >>) /\ Free(<< >>)
  BY DEF Shape, Free
<1>3. ASSUME NEW u \in Threads, u # t, mutex' = u
      PROVE  /\ Undisturbed /\ put' = put /\ inrotate' = inrotate /\ (terminated => terminated')
             /\ \A p \in Prios : ~isOpen(p) => ~isOpen(p)'
             /\ \A p \in Prios : isOpen(p) => isOpen(p)' \/ terminated'
  BY <1>3, LoggerAssumption DEF Undisturbed, isOpen
<1>. QED
  BY <1>1, <1>2, <1>3, FreeStep

(* The files, when one is opened, and when one is closed.                  *)
LEMMA OpenKeepsFiles ==
  ASSUME FilesOK, NEW p \in Prios, NEW n \in Names, Open(p, n),
         logfilename' = [logfilename EXCEPT ![p] = n]
           \/ (logfilename' = logfilename /\ logfilename[p] # NULL),
         debuglevel' \in [Prios -> Nat], handlers' \in Seq(Nodes)
  PROVE  FilesOK' /\ put' = put /\ \A q \in Prios \ {p} : isOpen(q) <=> isOpen(q)'
<1>1. put' = put /\ n # NULL /\ \E f : logff' = [logff EXCEPT ![p] = f]
  BY LogFilesAssumption DEF Open
<1>2. logff' = [q \in Prios |-> logff'[q]] /\ \A q \in Prios \ {p} : logff'[q] = logff[q]
  BY <1>1 DEF FilesOK
<1>3. logfilename' \in [Prios -> Names \cup {NULL}] /\ logfilename'[p] # NULL
      /\ \A q \in Prios \ {p} : logfilename'[q] = logfilename[q]
  BY <1>1 DEF FilesOK
<1>. QED
  BY <1>1, <1>2, <1>3 DEF FilesOK, isOpen

LEMMA CloseKeepsFiles ==
  ASSUME FilesOK, NEW p \in Prios, logff' = [logff EXCEPT ![p] = NULL], put' = put,
         \/ logfilename' = logfilename
         \/ \E n \in Names : logfilename' = [logfilename EXCEPT ![p] = n],
         debuglevel' \in [Prios -> Nat], handlers' \in Seq(Nodes)
  PROVE  FilesOK' /\ \A q \in Prios : isOpen(q)' <=> isOpen(q) /\ q # p
<1>2. /\ logff' = [q \in Prios |-> logff'[q]] /\ logff'[p] = NULL
      /\ \A q \in Prios \ {p} : logff'[q] = logff[q]
  BY DEF FilesOK
<1>3. logfilename' \in [Prios -> Names \cup {NULL}]
      /\ \A q \in Prios \ {p} : logfilename'[q] = logfilename[q]
  BY DEF FilesOK
<1>. QED
  BY <1>2, <1>3 DEF FilesOK, isOpen

LEMMA SetLogfileKeepsInv ==
  ASSUME LoggerInv, NEW t \in Threads, setLogfile(t)
  PROVE  LoggerInv'
<1>. DEFINE f == Top(t)
<1>1. /\ stack[t] # << >> /\ f.op = "setLogfile" /\ mutex = NULL /\ handlers' = handlers
      /\ debuglevel' = IF f.level = NULL THEN debuglevel ELSE [debuglevel EXCEPT ![f.prio] = f.level]
  BY DEF setLogfile, Locks, At, Top, list
<1>2. FilesOK /\ printed \in Nat
  BY DEF LoggerInv, StateOK
<1>3. Cold(f) /\ f \in AnyFrame
  BY <1>1, ColdHead DEF Cold
<1>4. f.prio \in Prios /\ f.name \in Names \cup {NULL} /\ f.level \in Levels \cup {NULL}
  BY <1>1, <1>3, ColdGoes
<1>5. debuglevel' \in [Prios -> Nat] /\ handlers' \in Seq(Nodes)
  BY <1>1, <1>2, <1>4, LoggerAssumption DEF FilesOK
<1>6. CASE /\ f.name # NULL
           /\ Open(f.prio, f.name)
           /\ logfilename' = [logfilename EXCEPT ![f.prio] = f.name]
           /\ Announces(t, "return", f.prio)
           /\ UNCHANGED <<mutex, faults, history>>
  <2>. HIDE DEF f
  <2>1. FilesOK'
    BY <1>2, <1>4, <1>5, <1>6, OpenKeepsFiles
  <2>2. StateOK' /\ mutex' = NULL
    BY <1>1, <1>2, <1>6, <2>1 DEF StateOK, history
  <2>. USE DEF f
  <2>. QED
    BY <1>1, <1>6, <2>2, AnnounceKeepsInv
<1>7. CASE /\ f.name # NULL
           /\ logff' = [logff EXCEPT ![f.prio] = NULL]
           /\ logfilename' = [logfilename EXCEPT ![f.prio] = f.name]
           /\ Fails(t)
           /\ UNCHANGED <<dir, content, put, users>>
  <2>1. FilesOK'
    BY <1>2, <1>4, <1>5, <1>7, CloseKeepsFiles
  <2>. QED
    BY <1>1, <1>7, <2>1, ThrowsKeepsInv DEF Fails
<1>8. CASE /\ f.name = NULL
           /\ Close(f.prio)
           /\ mutex' = t
           /\ Returns(t)
           /\ UNCHANGED <<faults, printed, terminated>>
  <2>1. FilesOK'
    BY <1>2, <1>4, <1>5, <1>8, CloseKeepsFiles DEF Close
  <2>2. StateOK'
    BY <1>2, <1>8, <2>1 DEF StateOK
  <2>. QED
    BY <1>1, <1>3, <1>8, <2>2, ReturnKeepsInv
<1>. QED
  BY <1>6, <1>7, <1>8 DEF setLogfile

LEMMA SetLogLevelKeepsInv ==
  ASSUME LoggerInv, NEW t \in Threads, setLogLevel(t)
  PROVE  LoggerInv'
<1>1. /\ stack[t] # << >> /\ Top(t).op = "setLogLevel" /\ mutex = NULL /\ mutex' = NULL
      /\ debuglevel' = [debuglevel EXCEPT ![Top(t).prio] = Top(t).level]
      /\ Announces(t, "return", Top(t).prio)
      /\ UNCHANGED <<logff, logfilename, put, handlers, printed>>
  BY DEF setLogLevel, Locks, At, Top, list, files, history
<1>2. Cold(Top(t)) /\ Top(t) \in AnyFrame
  BY <1>1, ColdHead DEF Cold
<1>3. Top(t).prio \in Prios /\ Top(t).level \in Nat
  BY <1>1, <1>2, ColdGoes, LoggerAssumption
<1>4. StateOK'
  BY <1>1, <1>3 DEF LoggerInv, StateOK, FilesOK, isOpen
<1>. QED
  BY <1>1, <1>4, AnnounceKeepsInv

(* The least element of a set of numbers is one of them.                   *)
LEMMA MinInSet ==
  ASSUME NEW S, S \subseteq Nat, S # {}
  PROVE  Min(S) \in S
<1>1. PICK x \in S : \A y \in S : ~(<<y, x>> \in OpToRel(<, Nat))
  BY NatLessThanWellFounded, WFMin
<1>2. \A y \in S : ~(y < x)
  BY <1>1 DEF OpToRel
<1>3. \A y \in S : x <= y
  BY <1>2
<1>. QED
  BY <1>3 DEF Min

(* The calls that do nothing but set a level, a list or the generations.   *)
LEMMA OneStepKeepsInv ==
  ASSUME LoggerInv, NEW t \in Threads,
         \/ setLogRotate(t) \/ addLogHandler(t) \/ deleteLogHandler(t) \/ TerminateFree(t)
  PROVE  LoggerInv'
<1>1. FilesOK /\ printed \in Nat /\ StateOK
  BY DEF LoggerInv, StateOK
<1>2. /\ stack[t] # << >> /\ Cold(Top(t)) /\ mutex = NULL /\ mutex' = NULL /\ Returns(t)
      /\ UNCHANGED <<logff, logfilename, put, printed>>
      /\ debuglevel' = debuglevel \/ debuglevel' = [p \in Prios |-> 0]
  BY DEF setLogRotate, addLogHandler, deleteLogHandler, TerminateFree, Locks, At, Top, Cold,
         list, files, config, history
<1>3. handlers' \in Seq(Nodes)
  <2>1. CASE setLogRotate(t) \/ TerminateFree(t)
    <3>1. handlers' = handlers \/ handlers' = << >>
      BY <2>1 DEF setLogRotate, TerminateFree, list
    <3>. QED
      BY <1>1, <3>1, EmptySeq DEF FilesOK
  <2>2. CASE addLogHandler(t)
    <3>1. PICK node \in Nodes \ ToSet(handlers) : handlers' = Append(handlers, node)
      BY <2>2 DEF addLogHandler
    <3>. QED
      BY <1>1, <3>1 DEF FilesOK
  <2>3. CASE deleteLogHandler(t)
    <3>. DEFINE I == {i \in 1..Len(handlers) : handlerOf[handlers[i]] = Top(t).handler}
    <3>1. handlers \in Seq(Nodes)
      BY <1>1 DEF FilesOK
    <3>2. \/ handlers' = handlers
          \/ I # {} /\ handlers' = SubSeq(handlers, 1, Min(I) - 1)
                                    \o SubSeq(handlers, Min(I) + 1, Len(handlers))
      BY <2>3 DEF deleteLogHandler, RemoveFirstMatch, RemoveAt, SelectInSeq
    <3>3. I # {} => Min(I) \in I
      <4>1. I \subseteq Nat
        BY <3>1
      <4>. QED
        BY <4>1, MinInSet
    <3>4. I # {} => Min(I) \in 1..Len(handlers)
      BY <3>3
    <3>5. \A m \in 1..Len(handlers) : SubSeq(handlers, 1, m - 1) \in Seq(Nodes)
                                  /\ SubSeq(handlers, m + 1, Len(handlers)) \in Seq(Nodes)
      BY <3>1
    <3>. HIDE DEF I
    <3>6. CASE handlers' = handlers
      BY <3>1, <3>6
    <3>7. CASE handlers' # handlers
      <4>. DEFINE left == SubSeq(handlers, 1, Min(I) - 1)
                  right == SubSeq(handlers, Min(I) + 1, Len(handlers))
      <4>1. left \in Seq(Nodes) /\ right \in Seq(Nodes) /\ handlers' = left \o right
        BY <3>2, <3>4, <3>5, <3>7
      <4>. HIDE DEF left, right
      <4>. QED
        BY <4>1
    <3>. QED
      BY <3>6, <3>7
  <2>. QED
    BY <2>1, <2>2, <2>3
<1>4. debuglevel' \in [Prios -> Nat]
  BY <1>1, <1>2 DEF FilesOK
<1>5. StateOK'
  BY <1>1, <1>2, <1>3, <1>4 DEF StateOK, FilesOK, isOpen
<1>. QED
  BY <1>2, <1>5, ReturnKeepsInv

LEMMA FilesStay ==
  ASSUME FilesOK, UNCHANGED <<logff, logfilename, put, debuglevel, handlers>>
  PROVE  FilesOK'
BY DEF FilesOK, isOpen

LEMMA TerminateCloseKeepsInv ==
  ASSUME LoggerInv, NEW t \in Threads, TerminateClose(t)
  PROVE  LoggerInv'
<1>. DEFINE p == Min(Top(t).todo)
            rest == Top(t).todo \ {p}
            at == IF rest = {} THEN "lock" ELSE "close"
            g == [Top(t) EXCEPT !.todo = rest, !.at = at]
<1>1. /\ stack[t] # << >> /\ Top(t).op = "terminate"
      /\ logff' = [logff EXCEPT ![p] = NULL]
      /\ stack' = [stack EXCEPT ![t] = <<g>> \o Tail(stack[t])]
      /\ UNCHANGED <<logfilename, put, debuglevel, handlers, mutex, inrotate, printed>>
      /\ terminated'
  BY DEF TerminateClose, Close, At, Top, LoggerInv, list, config
<1>2. Cold(Top(t)) /\ Top(t) \in AnyFrame
  BY <1>1, ColdHead DEF Cold
<1>3. Top(t) \in [op : {"terminate"}, at : {"close", "lock"}, todo : SUBSET Prios]
  BY <1>1, <1>2 DEF AnyFrame, CallFrames, PrintFrames, OutputFrames, RotateFrames
<1>4. g \in AnyFrame /\ Cold(g)
  BY <1>3 DEF AnyFrame, CallFrames, Cold
<1>. HIDE DEF g, p
<1>5. Tail(stack[t]) = << >>
  BY <1>1, <1>2, ColdAlone, HeadFrame DEF LoggerInv, Top
<1>6. stack' = [stack EXCEPT ![t] = <<g>>]
  <2>1. <<g>> \o << >> = <<g>>
    OBVIOUS
  <2>. QED
    BY <1>1, <1>5, <2>1
<1>7. <<g>> \in Seq(AnyFrame) /\ Shape(<<g>>) /\ Free(<<g>>)
  BY <1>4 DEF Shape, Fits, Free, Cold, Locked
<1>8. StateOK
  BY DEF LoggerInv
<1>9. /\ logff' = [q \in Prios |-> logff'[q]]
      /\ \A q \in Prios : logff'[q] = logff[q] \/ logff'[q] = NULL
  BY <1>1, <1>8 DEF StateOK, FilesOK
<1>10. StateOK'
  BY <1>1, <1>8, <1>9 DEF StateOK, FilesOK, isOpen
<1>11. /\ Undisturbed /\ put' = put /\ inrotate' = inrotate /\ (terminated => terminated')
       /\ \A q \in Prios : ~isOpen(q) => ~isOpen(q)'
       /\ \A q \in Prios : isOpen(q) => isOpen(q)' \/ terminated'
  BY <1>1, <1>9 DEF Undisturbed, isOpen
<1>. QED
  BY <1>1, <1>6, <1>7, <1>10, <1>11, FreeStep

LEMMA ReturnedKeepsInv ==
  ASSUME LoggerInv, NEW t \in Threads, Return(t)
  PROVE  LoggerInv'
<1>1. /\ stack[t] # << >> /\ Top(t).at = "return" /\ Returns(t)
      /\ UNCHANGED <<logff, logfilename, put, debuglevel, handlers, mutex, inrotate, terminated, printed>>
  BY DEF Return, Idle, files, list, config, history
<1>2. Top(t) \in AnyFrame
  BY <1>1, HeadFrame DEF LoggerInv, Top
<1>3. Cold(Top(t))
  BY <1>1, <1>2 DEF AnyFrame, PrintFrames, OutputFrames, RotateFrames, CallFrames, Cold
<1>4. StateOK'
  BY <1>1, FilesStay DEF LoggerInv, StateOK
<1>. QED
  BY <1>1, <1>3, <1>4, ReturnKeepsInv

LEMMA PrintDeadlockKeepsInv ==
  ASSUME LoggerInv, NEW t \in Threads, PrintDeadlock(t)
  PROVE  LoggerInv'
<1>1. /\ Throws(t) /\ mutex = t
      /\ UNCHANGED <<logff, logfilename, put, debuglevel, handlers>>
  BY DEF PrintDeadlock, files, list, config
<1>2. FilesOK'
  BY <1>1, FilesStay DEF LoggerInv, StateOK
<1>. QED
  BY <1>1, <1>2, ThrowsKeepsInv

-----------------------------------------------------------------------------
(* The steps of the thread that has the mutex.                             *)

LEMMA Holder ==
  ASSUME LoggerInv, NEW t \in Threads, NEW s, s = stack[t], s # << >>
  PROVE  /\ s \in Seq(AnyFrame) /\ Len(s) \in Nat /\ Len(s) >= 1 /\ Shape(s) /\ Fits(s, 1)
         /\ Top(t) = s[1] /\ s[1] \in AnyFrame /\ FilesOK /\ printed \in Nat
         /\ Holds(s[1]) => mutex = t
         /\ mutex = t => Work(s)
<1>1. s \in Seq(AnyFrame) /\ Shape(s) /\ Holding(t) /\ FilesOK /\ printed \in Nat
  BY DEF LoggerInv, StateOK
<1>2. Len(s) \in Nat /\ Len(s) >= 1 /\ Head(s) = s[1] /\ s[1] \in AnyFrame
  BY <1>1, HeadFrame
<1>. QED
  BY <1>1, <1>2, LoggerAssumption DEF Shape, Top, Holding, LoggerInv

LEMMA HolderStep ==
  ASSUME LoggerInv, NEW t \in Threads, mutex \in {NULL, t}, mutex' = t, NEW s, s = stack[t],
         s # << >>, Work(s),
         NEW r \in Seq(AnyFrame), NEW lo \in 1..3, NEW d \in {-1, 0, 1}, Parts(s, r, lo, d),
         stack' = [stack EXCEPT ![t] = r], FilesOK', printed' = printed, Undisturbed,
         inrotate' = TRUE \/ inrotate' = inrotate
           \/ (\A i \in lo..Len(r) : r[i].op # "checkRotate"),
         \A i \in 1..Len(r) : i < lo => Fits(r, i) /\ FrameOK(r[i])',
         \A i \in 1..Len(r) : i <= lo /\ Locked(r[i]) => LinesOK(r, i)',
         \A i \in 1..Len(r) : i > lo /\ Locked(r[i]) =>
           (OwnOK(s, r[i]) => OwnOK(r, r[i])') /\ (DebugOK(s, r[i]) => DebugOK(r, r[i])')
  PROVE  LoggerInv'
<1>1. s \in Seq(AnyFrame) /\ Shape(s)
  BY Holder
<1>2. Shape(r)
  BY <1>1, ShapeBelow
<1>3. Work(r)'
  BY <1>1, WorkBelow
<1>4. StateOK'
  BY DEF LoggerInv, StateOK
<1>. QED
  BY <1>2, <1>3, <1>4, LoggerAssumption, StackStep

LEMMA OneOrMore ==
  /\ \A n \in Nat : n >= 1 => n = 1 \/ (n >= 2 /\ n # 1)
  /\ \A n \in Nat : \A i \in 1..n : n = 1 => i = 1
  /\ \A n \in Nat : \A i \in 1..n : n = 2 => i = 1 \/ i = 2
OBVIOUS

(* Frames that nothing is remembered of.                                   *)
LEMMA PlainFrame ==
  ASSUME NEW f, f.op = "print" \/ Cold(f) \/ (f.op = "output" /\ f.at \in {"own", "debug", "first"})
  PROVE  FrameOK(f) /\ FrameOK(f)'
BY DEF FrameOK, Cold

LEMMA PrintLockKeepsInv ==
  ASSUME LoggerInv, NEW t \in Threads, NEW s, s = stack[t], PrintLock(t)
  PROVE  LoggerInv'
<1>. DEFINE f == OutputFrame(s[1].prio, s[1].level, <<s[1].msg, 1>>)
            g == [s[1] EXCEPT !.at = "locked"]
            r == <<f, g>> \o Tail(s)
<1>1. s # << >> /\ s[1].op = "print" /\ s[1].at = "lock" /\ mutex = NULL
  BY Holder DEF PrintLock, Locks, At, Top
<1>2. /\ s \in Seq(AnyFrame) /\ Len(s) \in Nat /\ Len(s) >= 1 /\ Shape(s) /\ Fits(s, 1)
      /\ Top(t) = s[1] /\ s[1] \in AnyFrame /\ FilesOK
  BY <1>1, Holder
<1>3. /\ stack' = [stack EXCEPT ![t] = r] /\ mutex' = t
      /\ UNCHANGED <<logff, logfilename, put, debuglevel, handlers, inrotate, printed>>
  BY <1>1, <1>2 DEF PrintLock, Enters, files, list, config, history
<1>4. s[1] \in PrintFrames
  BY <1>1, <1>2, PrintIs
<1>5. /\ f \in AnyFrame /\ f.op = "output" /\ f.at = "own" /\ f.prio = s[1].prio
      /\ f.level = s[1].level /\ f.line = <<s[1].msg, 1>>
  <2>1. s[1].prio \in Prios /\ s[1].level \in Nat /\ <<s[1].msg, 1>> \in LineSet
    BY <1>4 DEF PrintFrames, LineSet
  <2>. QED
    BY <2>1, NewOutputFrame
<1>6. /\ g \in AnyFrame /\ Locked(g) /\ g.op = "print" /\ g.prio = s[1].prio
      /\ g.level = s[1].level /\ g.msg = s[1].msg
  BY <1>1, <1>2, PrintGoes
<1>. HIDE DEF f, g
<1>a. r = <<f, g>> \o Tail(s)
  OBVIOUS
<1>. HIDE DEF r
<1>7. r \in Seq(AnyFrame) /\ r[1] = f /\ r[2] = g /\ Len(r) >= 2 /\ Parts(s, r, 3, 1)
  <2>1. Pushed(s, r, f, g)
    BY <1>1, <1>2, <1>5, <1>6, <1>a, PushParts
  <2>. QED
    BY <2>1 DEF Pushed
<1>8. Len(r) = Len(s) + 1 /\ (Len(r) >= 3 => r[3] = s[2]) /\ Len(r) \in Nat
  BY <1>2, <1>7 DEF Parts
<1>9. Len(s) = 1 \/ Cold(s[2])
  <2>1. Len(s) = 1 \/ Cold(s[2]) \/ s[2].op = "output"
    BY <1>1, <1>2 DEF Fits, Locked
  <2>2. \A i \in 1..Len(s) : ~Holds(s[i])
    BY <1>1, LoggerAssumption DEF LoggerInv, Holding
  <2>3. Len(s) >= 2 => 2 \in 1..Len(s)
    BY <1>2
  <2>4. Len(s) = 1 \/ Len(s) >= 2
    BY <1>2, OneOrMore
  <2>. QED
    BY <2>1, <2>2, <2>3, <2>4 DEF Holds
<1>10. Fits(r, 1)
  BY <1>5, <1>6, <1>7, <1>8 DEF Fits, Cold, Locked
<1>11. Fits(r, 2)
  BY <1>2, <1>6, <1>7, <1>8, <1>9 DEF Fits, Cold, Locked
<1>12. FrameOK(r[1])' /\ FrameOK(r[2])'
  BY <1>5, <1>6, <1>7, PlainFrame
<1>13. LinesOK(r, 2)'
  BY <1>5, <1>7 DEF LinesOK, Continues
<1>14. Free(s)
  <2>1. Len(s) = 1 \/ (Len(s) = 2 /\ Cold(s[2]))
    <3>1. Len(s) = 1 \/ (Len(s) >= 2 /\ Len(s) # 1)
      BY <1>2, OneOrMore
    <3>2. Len(s) >= 2 => 2 \in 1..Len(s)
      BY <1>2
    <3>3. Len(s) >= 2 => Fits(s, 2)
      BY <1>2, <3>2 DEF Shape
    <3>. QED
      BY <1>9, <3>1, <3>3 DEF Fits
  <2>2. \A i \in 1..Len(s) : i = 1 \/ (i = 2 /\ Len(s) = 2)
    BY <1>2, <2>1, OneOrMore
  <2>3. s[1].op = "print" /\ ~Locked(s[1])
    BY <1>1 DEF Locked
  <2>. QED
    BY <2>1, <2>2, <2>3 DEF Free
<1>15. Work(s)
  BY <1>2, <1>14, WorkOfNone DEF Free
<1>16. \A i \in 1..Len(r) : i >= 3 => ~Locked(r[i])
  <2>1. \A i \in 3..Len(r) : r[i] = s[i - 1] /\ i - 1 \in 1..Len(s) /\ i - 1 # 1
    BY <1>2, <1>7, <1>8 DEF Parts
  <2>. QED
    BY <1>8, <1>14, <2>1 DEF Free, Cold, Locked
<1>17. \A i \in 1..Len(r) : i < 3 => i = 1 \/ i = 2
  BY <1>8
<1>18. \A i \in 1..Len(r) : i < 3 => Fits(r, i) /\ FrameOK(r[i])'
  BY <1>10, <1>11, <1>12, <1>17
<1>19. \A i \in 1..Len(r) : i <= 3 /\ Locked(r[i]) => LinesOK(r, i)'
  <2>1. ~Locked(r[1])
    BY <1>5, <1>7 DEF Locked
  <2>. QED
    BY <1>8, <1>13, <1>16, <1>17, <2>1
<1>20. Undisturbed /\ FilesOK'
  BY <1>2, <1>3, FilesStay DEF Undisturbed
<1>21. \A i \in 1..Len(r) : i > 3 /\ Locked(r[i]) =>
         (OwnOK(s, r[i]) => OwnOK(r, r[i])') /\ (DebugOK(s, r[i]) => DebugOK(r, r[i])')
  BY <1>8, <1>16
<1>22. 3 \in 1..3 /\ 1 \in {-1, 0, 1} /\ inrotate' = inrotate /\ mutex \in {NULL, t}
       /\ printed' = printed /\ mutex' = t
  BY <1>1, <1>2, <1>3
<1>. QED
  BY <1>1, <1>2, <1>3, <1>7, <1>15, <1>18, <1>19, <1>20, <1>21, <1>22, HolderStep

(* The next line of a print.                                               *)
LEMMA PrintNextKeepsInv ==
  ASSUME LoggerInv, NEW t \in Threads, NEW s, s = stack[t], PrintNext(t)
  PROVE  LoggerInv'
<1>. DEFINE f == OutputFrame(s[1].prio, s[1].level, <<s[1].msg, 2>>)
            g == [s[1] EXCEPT !.lines = s[1].lines - 1]
            r == <<f, g>> \o Tail(s)
<1>1. s # << >> /\ s[1].op = "print" /\ s[1].at = "locked" /\ Locked(s[1]) /\ Holds(s[1])
      /\ s[1].lines > 1
  BY Holder DEF PrintNext, At, Top, Locked, Holds
<1>2. /\ s \in Seq(AnyFrame) /\ Len(s) \in Nat /\ Len(s) >= 1 /\ Shape(s) /\ Fits(s, 1)
      /\ Top(t) = s[1] /\ s[1] \in AnyFrame /\ FilesOK /\ mutex = t /\ Work(s)
  BY <1>1, Holder
<1>3. /\ stack' = [stack EXCEPT ![t] = r] /\ mutex' = t
      /\ UNCHANGED <<logff, logfilename, put, debuglevel, handlers, inrotate, printed>>
  BY <1>1, <1>2 DEF PrintNext, files, list, config, history
<1>4. s[1] \in PrintFrames
  BY <1>1, <1>2, PrintIs
<1>5. /\ f \in AnyFrame /\ f.op = "output" /\ f.at = "own" /\ f.prio = s[1].prio
      /\ f.level = s[1].level /\ f.line = <<s[1].msg, 2>>
  <2>1. s[1].prio \in Prios /\ s[1].level \in Nat /\ <<s[1].msg, 2>> \in LineSet
    BY <1>4 DEF PrintFrames, LineSet
  <2>. QED
    BY <2>1, NewOutputFrame
<1>6. /\ g \in AnyFrame /\ Locked(g) /\ g.op = "print" /\ g.prio = s[1].prio
      /\ g.level = s[1].level /\ g.msg = s[1].msg
  BY <1>1, <1>4 DEF PrintFrames, AnyFrame, Locked
<1>. HIDE DEF f, g
<1>a. r = <<f, g>> \o Tail(s)
  OBVIOUS
<1>. HIDE DEF r
<1>7. r \in Seq(AnyFrame) /\ r[1] = f /\ r[2] = g /\ Len(r) >= 2 /\ Parts(s, r, 3, 1)
  <2>1. Pushed(s, r, f, g)
    BY <1>1, <1>2, <1>5, <1>6, <1>a, PushParts
  <2>. QED
    BY <2>1 DEF Pushed
<1>8. Len(r) = Len(s) + 1 /\ (Len(r) >= 3 => r[3] = s[2]) /\ Len(r) \in Nat
  BY <1>2, <1>7 DEF Parts
<1>10. Fits(r, 1)
  BY <1>5, <1>6, <1>7, <1>8 DEF Fits, Cold, Locked
<1>11. Fits(r, 2)
  <2>1. Len(s) = 1 \/ Cold(s[2])
    BY <1>1, <1>2 DEF Fits
  <2>. QED
    BY <1>2, <1>6, <1>7, <1>8, <2>1 DEF Fits, Cold, Locked
<1>12. FrameOK(r[1])' /\ FrameOK(r[2])'
  BY <1>5, <1>6, <1>7, PlainFrame
<1>20. Undisturbed /\ FilesOK'
  BY <1>2, <1>3, FilesStay DEF Undisturbed
<1>13. LinesOK(r, 2)'
  <2>1. LinesOK(s, 1)
    BY <1>1, <1>2 DEF Work
  <2>2. OwnOK(s, s[1]) /\ DebugOK(s, s[1])
    BY <2>1 DEF LinesOK, Continues
  <2>3. OwnOK(s, g) /\ DebugOK(s, g)
    BY <1>6, <2>2 DEF OwnOK, DebugOK
  <2>4. \A p : Rotating(r, p) => Rotating(s, p)
    <3>1. \A i \in 1..Len(r) : i < 3 => r[i].op # "checkRotate"
      <4>1. \A i \in 1..Len(r) : i < 3 => i = 1 \/ i = 2
        BY <1>8
      <4>. QED
        BY <1>5, <1>6, <1>7, <4>1
    <3>. QED
      BY <1>2, <1>7, <3>1, RotatingBelow
  <2>5. \A p : Shut(s, p) => Shut(r, p)'
    BY <1>3, <2>4 DEF Shut, isOpen, Rotating
  <2>6. OwnOK(r, g)' /\ DebugOK(r, g)'
    BY <1>3, <1>20, <2>3, <2>5, LinesStay
  <2>. QED
    BY <1>7, <2>6 DEF LinesOK
<1>16. \A i \in 1..Len(r) : i >= 3 => ~Locked(r[i])
  <2>1. \A i \in 3..Len(r) : r[i] = s[i - 1] /\ i - 1 \in 1 + 1..Len(s)
    BY <1>2, <1>7, <1>8 DEF Parts
  <2>. QED
    BY <1>1, <1>2, <1>8, <2>1, BelowLocked
<1>17. \A i \in 1..Len(r) : i < 3 => i = 1 \/ i = 2
  BY <1>8
<1>18. \A i \in 1..Len(r) : i < 3 => Fits(r, i) /\ FrameOK(r[i])'
  BY <1>10, <1>11, <1>12, <1>17
<1>19. \A i \in 1..Len(r) : i <= 3 /\ Locked(r[i]) => LinesOK(r, i)'
  <2>1. ~Locked(r[1])
    BY <1>5, <1>7 DEF Locked
  <2>. QED
    BY <1>8, <1>13, <1>16, <1>17, <2>1
<1>21. \A i \in 1..Len(r) : i > 3 /\ Locked(r[i]) =>
         (OwnOK(s, r[i]) => OwnOK(r, r[i])') /\ (DebugOK(s, r[i]) => DebugOK(r, r[i])')
  BY <1>8, <1>16
<1>22. 3 \in 1..3 /\ 1 \in {-1, 0, 1} /\ inrotate' = inrotate /\ mutex \in {NULL, t}
       /\ printed' = printed /\ mutex' = t
  BY <1>1, <1>2, <1>3
<1>. QED
  BY <1>1, <1>2, <1>3, <1>7, <1>18, <1>19, <1>20, <1>21, <1>22, HolderStep

(* The lock is given up.                                                   *)
LEMMA PrintUnlockKeepsInv ==
  ASSUME LoggerInv, NEW t \in Threads, NEW s, s = stack[t], PrintUnlock(t)
  PROVE  LoggerInv'
<1>. DEFINE r == Tail(s)
<1>1. s # << >> /\ Locked(s[1]) /\ Holds(s[1])
  BY Holder DEF PrintUnlock, At, Top, Locked, Holds
<1>2. /\ s \in Seq(AnyFrame) /\ Len(s) \in Nat /\ Len(s) >= 1 /\ Shape(s) /\ FilesOK
      /\ mutex = t /\ printed \in Nat
  BY <1>1, Holder
<1>3. /\ stack' = [stack EXCEPT ![t] = r] /\ mutex' = NULL
      /\ UNCHANGED <<logff, logfilename, put, debuglevel, handlers, printed>>
  BY <1>1, <1>2 DEF PrintUnlock, Returns, files, list, config, history
<1>4. r \in Seq(AnyFrame) /\ Parts(s, r, 1, -1)
  BY <1>1, <1>2, PopParts DEF Popped
<1>. HIDE DEF r
<1>5. Shape(r)
  BY <1>2, <1>4, ShapeBelow
<1>6. Free(r)
  <2>1. \A i \in 1..Len(r) : r[i] = s[i + 1] /\ i + 1 \in 1 + 1..Len(s)
    BY <1>2, <1>4 DEF Parts
  <2>. QED
    BY <1>1, <1>2, <2>1, BelowLocked DEF Free
<1>7. StateOK'
  BY <1>2, <1>3, FilesStay DEF StateOK
<1>8. \A u \in Threads : mutex' # u
  BY <1>3, LoggerAssumption
<1>. QED
  BY <1>2, <1>3, <1>4, <1>5, <1>6, <1>7, <1>8, FreeStep

-----------------------------------------------------------------------------
(* output, called by print or by checkRotate.                              *)

LEMMA OutputStep ==
  ASSUME LoggerInv, NEW t \in Threads, mutex' = mutex, NEW s, s = stack[t], s # << >>,
         s[1].op = "output",
         NEW r \in Seq(AnyFrame), NEW lo \in 1..3, NEW d \in {-1, 0, 1}, Parts(s, r, lo, d),
         lo - d = 2, stack' = [stack EXCEPT ![t] = r], FilesOK', printed' = printed,
         Undisturbed, inrotate' = inrotate,
         \A i \in 1..Len(r) : i < lo => Fits(r, i) /\ FrameOK(r[i])' /\ ~Locked(r[i]),
         Locked(s[2]) => LinesOK(r, lo)',
         s[2].op = "checkRotate" =>
           \A f : (OwnOK(s, f) => OwnOK(r, f)') /\ (DebugOK(s, f) => DebugOK(r, f)')
  PROVE  LoggerInv'
<1>1. /\ s \in Seq(AnyFrame) /\ Len(s) \in Nat /\ Shape(s) /\ Fits(s, 1) /\ mutex = t /\ Work(s)
  BY Holder DEF Holds
<1>2. 1 < Len(s) /\ (Locked(s[2]) \/ s[2].op = "checkRotate")
  BY <1>1 DEF Fits
<1>3. /\ Len(r) = Len(s) + d /\ Len(r) \in Nat
      /\ \A i \in lo..Len(r) : r[i] = s[i - d]
  BY <1>1 DEF Parts
<1>4. \A i \in 1..Len(r) : i <= lo /\ Locked(r[i]) => LinesOK(r, i)'
  <2>1. ASSUME NEW i \in 1..Len(r), i <= lo, Locked(r[i])
        PROVE  LinesOK(r, i)'
    <3>1. i = lo
      BY <2>1
    <3>2. lo \in lo..Len(r) /\ lo - d = 2
      BY <1>3, <2>1, <3>1
    <3>3. r[lo] = s[2]
      BY <1>3, <3>2
    <3>. QED
      BY <2>1, <3>1, <3>3
  <2>. QED
    BY <2>1
<1>5. \A i \in 1..Len(r) : i > lo /\ Locked(r[i]) =>
        (OwnOK(s, r[i]) => OwnOK(r, r[i])') /\ (DebugOK(s, r[i]) => DebugOK(r, r[i])')
  <2>1. ASSUME NEW i \in 1..Len(r), i > lo, Locked(r[i])
        PROVE  s[2].op = "checkRotate"
    <3>0. i \in lo..Len(r) /\ i - d > 2 /\ i - d <= Len(s)
      BY <1>3, <2>1
    <3>1. r[i] = s[i - d] /\ i - d \in 2 + 1..Len(s) /\ 2 \in 1..Len(s)
      BY <1>1, <1>3, <3>0
    <3>2. ~Locked(s[2])
      BY <1>1, <2>1, <3>1, BelowLocked
    <3>. QED
      BY <1>2, <3>2
  <2>. QED
    BY <2>1
<1>6. mutex \in {NULL, t} /\ mutex' = t
  BY <1>1
<1>. QED
  BY <1>1, <1>4, <1>5, <1>6, HolderStep

OwnPlaces == {"debug", "writeDebug", "first", "handlers"}
DebugPlaces == {"first", "handlers"}

(* It looks at the files, or calls the handlers, and writes nothing.       *)
Quiet ==
  UNCHANGED <<logff, logfilename, put, debuglevel, handlers, mutex, inrotate, printed, terminated>>

LEMMA QuietOutput ==
  ASSUME LoggerInv, NEW t \in Threads, NEW s, s = stack[t], s # << >>,
         s[1].op = "output", Quiet,
         NEW r \in Seq(AnyFrame), NEW lo \in 1..3, NEW d \in {-1, 0, 1}, Parts(s, r, lo, d),
         lo - d = 2, stack' = [stack EXCEPT ![t] = r],
         \A i \in 1..Len(r) : i < lo =>
           Fits(r, i) /\ FrameOK(r[i]) /\ ~Locked(r[i]) /\ r[i].op # "checkRotate",
         Locked(s[2]) /\ Continues(r, lo, OwnPlaces) => OwnOK(s, s[2]),
         Locked(s[2]) /\ Continues(r, lo, DebugPlaces) => DebugOK(s, s[2])
  PROVE  LoggerInv'
<1>1. /\ s \in Seq(AnyFrame) /\ Len(s) \in Nat /\ Shape(s) /\ Fits(s, 1) /\ mutex = t /\ FilesOK
  BY Holder DEF Holds
<1>2. 1 < Len(s)
  BY <1>1 DEF Fits
<1>3. Undisturbed /\ FilesOK'
  BY <1>1, FilesStay DEF Quiet, Undisturbed
<1>4. \A p : Shut(s, p) => Shut(r, p)'
  <2>1. \A p : Rotating(r, p) => Rotating(s, p)
    BY <1>1, RotatingBelow
  <2>. QED
    BY <2>1 DEF Quiet, Shut, isOpen, Rotating
<1>5. \A f : (OwnOK(s, f) => OwnOK(r, f)') /\ (DebugOK(s, f) => DebugOK(r, f)')
  BY <1>3, <1>4, LinesStay DEF Quiet
<1>6. \A i \in 1..Len(r) : i < lo => Fits(r, i) /\ FrameOK(r[i])' /\ ~Locked(r[i])
  <2>1. \A f : FrameOK(f) => FrameOK(f)'
    BY DEF Quiet, FrameOK, isOpen, FollowsIn
  <2>. QED
    BY <2>1
<1>7. Locked(s[2]) => LinesOK(r, lo)'
  <2>0. /\ Len(r) = Len(s) + d /\ Len(r) \in Nat
        /\ \A i \in lo..Len(r) : r[i] = s[i - d]
    BY <1>1 DEF Parts
  <2>1. r[lo] = s[2]
    <3>1. lo \in lo..Len(r) /\ lo - d = 2
      BY <1>1, <1>2, <2>0
    <3>. QED
      BY <2>0, <3>1
  <2>. QED
    BY <1>5, <2>1 DEF LinesOK, Continues, OwnPlaces, DebugPlaces
<1>. QED
  BY <1>3, <1>5, <1>6, <1>7, OutputStep DEF Quiet

(* It goes on to another place.                                            *)
LEMMA QuietGoes ==
  ASSUME LoggerInv, NEW t \in Threads, NEW s, s = stack[t], s # << >>,
         s[1].op = "output", Quiet,
         NEW g \in AnyFrame, g.op = "output", g.prio = s[1].prio, g.level = s[1].level,
         g.line = s[1].line, g.at # "own", FrameOK(g),
         g.at = "write" => s[1].at = "own",
         g.at = "writeDebug" => s[1].at = "debug" /\ g.prio # DEBUG,
         stack' = [stack EXCEPT ![t] = <<g>> \o Tail(s)],
         Locked(s[2]) /\ (g.line[2] = 2 \/ g.at \in OwnPlaces) => OwnOK(s, s[2]),
         Locked(s[2]) /\ (g.line[2] = 2 \/ g.at \in DebugPlaces) => DebugOK(s, s[2])
  PROVE  LoggerInv'
<1>. DEFINE r == <<g>> \o Tail(s)
<1>1. /\ s \in Seq(AnyFrame) /\ Len(s) \in Nat /\ Len(s) >= 1 /\ Fits(s, 1)
  BY Holder
<1>2. r \in Seq(AnyFrame) /\ r[1] = g /\ Len(r) >= 1 /\ Parts(s, r, 2, 0)
  <2>1. Swapped(s, r, g)
    BY <1>1, SwapParts
  <2>. QED
    BY <2>1 DEF Swapped
<1>9. stack' = [stack EXCEPT ![t] = r]
  OBVIOUS
<1>. HIDE DEF r
<1>3. Len(r) = Len(s) /\ 1 < Len(s)
  BY <1>1, <1>2 DEF Parts, Fits
<1>4. r[2] = s[2]
  BY <1>1, <1>2, <1>3 DEF Parts
<1>5. Fits(r, 1)
  BY <1>1, <1>2, <1>3, <1>4 DEF Fits, Cold, Locked
<1>6. \A i \in 1..Len(r) : i < 2 =>
        Fits(r, i) /\ FrameOK(r[i]) /\ ~Locked(r[i]) /\ r[i].op # "checkRotate"
  <2>1. \A i \in 1..Len(r) : i < 2 => i = 1
    BY <1>1, <1>3
  <2>2. ~Locked(g)
    BY DEF Locked
  <2>. QED
    BY <1>2, <1>5, <2>1, <2>2
<1>7. /\ Locked(s[2]) /\ Continues(r, 2, OwnPlaces) => OwnOK(s, s[2])
      /\ Locked(s[2]) /\ Continues(r, 2, DebugPlaces) => DebugOK(s, s[2])
  BY <1>2 DEF Continues
<1>8. 2 \in 1..3 /\ 0 \in {-1, 0, 1} /\ 2 - 0 = 2
  OBVIOUS
<1>. QED
  <2>1. r \in Seq(AnyFrame) /\ Parts(s, r, 2, 0)
    BY <1>2
  <2>. QED
    BY <2>1, <1>6, <1>7, <1>8, <1>9, QuietOutput, ZenonT(60)

(* It returns.                                                             *)
LEMMA QuietReturns ==
  ASSUME LoggerInv, NEW t \in Threads, NEW s, s = stack[t], s # << >>,
         s[1].op = "output", Quiet, stack' = [stack EXCEPT ![t] = Tail(s)],
         Locked(s[2]) => OwnOK(s, s[2]) /\ DebugOK(s, s[2])
  PROVE  LoggerInv'
<1>. DEFINE r == Tail(s)
<1>1. s \in Seq(AnyFrame)
  BY Holder
<1>2. r \in Seq(AnyFrame) /\ Parts(s, r, 1, -1)
  BY <1>1, PopParts DEF Popped
<1>3. stack' = [stack EXCEPT ![t] = r]
  OBVIOUS
<1>. HIDE DEF r
<1>6. Len(r) \in Nat /\ \A i \in 1..Len(r) : ~(i < 1)
  BY <1>2
<1>8. 1 \in 1..3 /\ -1 \in {-1, 0, 1} /\ 1 - (-1) = 2
  OBVIOUS
<1>. QED
  BY <1>2, <1>3, <1>6, <1>8, QuietOutput

(* What the lines of the print that called output rely on.                 *)
LEMMA Before ==
  ASSUME LoggerInv, NEW t \in Threads, NEW s, s = stack[t], s # << >>,
         s[1].op = "output", Locked(s[2])
  PROVE  /\ s[1].line[2] = 2 \/ s[1].at \in OwnPlaces => OwnOK(s, s[2])
         /\ s[1].line[2] = 2 \/ s[1].at \in DebugPlaces => DebugOK(s, s[2])
         /\ s[1].prio = s[2].prio /\ s[1].level = s[2].level /\ s[1].line[1] = s[2].msg
         /\ \A p : ~Rotating(s, p)
<1>1. /\ s \in Seq(AnyFrame) /\ Len(s) \in Nat /\ Shape(s) /\ Fits(s, 1) /\ Work(s)
  BY Holder DEF Holds
<1>2. 1 < Len(s) /\ s[2].op = "print"
  BY <1>1 DEF Fits, Locked
<1>3. 2 \in 1..Len(s)
  BY <1>1, <1>2
<1>4. LinesOK(s, 2)
  BY <1>1, <1>3 DEF Work
<1>5. \A p : ~Rotating(s, p)
  <2>1. \A i \in 1..Len(s) : i = 1 \/ i = 2 \/ i \in 2 + 1..Len(s)
    BY <1>1
  <2>2. \A i \in 2 + 1..Len(s) : s[i].op # "checkRotate"
    BY <1>1, <1>3, BelowLocked
  <2>. QED
    BY <1>2, <2>1, <2>2 DEF Rotating
<1>. QED
  BY <1>1, <1>2, <1>4, <1>5 DEF LinesOK, Continues, Fits, OwnPlaces, DebugPlaces

LEMMA ToHandlersKeepsInv ==
  ASSUME LoggerInv, NEW t \in Threads, NEW s, s = stack[t], s # << >>,
         s[1].op = "output", Quiet, ToHandlers(t),
         Locked(s[2]) => OwnOK(s, s[2]) /\ DebugOK(s, s[2])
  PROVE  LoggerInv'
<1>1. s[1] \in AnyFrame /\ Top(t) = s[1] /\ FilesOK
  BY Holder
<1>2. CASE handlers = << >>
  <2>1. stack' = [stack EXCEPT ![t] = Tail(s)]
    BY <1>2 DEF ToHandlers, Returns
  <2>. QED
    BY <2>1, QuietReturns
<1>3. CASE handlers # << >>
  <2>. DEFINE g == [s[1] EXCEPT !.at = "handlers", !.node = Head(handlers)]
  <2>1. Head(handlers) \in Nodes /\ Head(handlers) \in ToSet(handlers)
    BY <1>1, <1>3 DEF FilesOK, ToSet
  <2>2. /\ g \in AnyFrame /\ g.op = "output" /\ g.at = "handlers" /\ g.prio = s[1].prio
        /\ g.level = s[1].level /\ g.line = s[1].line /\ g.node = Head(handlers)
    <3>1. MovedTo(g, s[1], Head(handlers))
      BY <1>1, <2>1, OutputGoesTo
    <3>. QED
      BY <3>1 DEF Moved, MovedTo
  <2>3. stack' = [stack EXCEPT ![t] = <<g>> \o Tail(s)]
    BY <1>1, <1>3 DEF ToHandlers
  <2>. HIDE DEF g
  <2>4. FrameOK(g)
    BY <2>1, <2>2 DEF FrameOK
  <2>5. g.at # "own" /\ g.at # "write" /\ g.at # "writeDebug"
    BY <2>2
  <2>. QED
    BY <2>2, <2>3, <2>4, <2>5, QuietGoes
<1>. QED
  BY <1>2, <1>3

LEMMA OutputOwnKeepsInv ==
  ASSUME LoggerInv, NEW t \in Threads, NEW s, s = stack[t], OutputOwn(t)
  PROVE  LoggerInv'
<1>1. /\ s # << >> /\ s[1].op = "output" /\ s[1].at = "own" /\ Top(t) = s[1]
      /\ s[1] \in AnyFrame
  BY Holder DEF OutputOwn, At, Top
<1>2. s[1].prio \in Prios /\ s[1].level \in Nat
  BY <1>1, OutputIs DEF OutputFrames
<1>3. Quiet
  BY DEF OutputOwn, Quiet, files, Unlogged, config, list, history
<1>4. /\ Locked(s[2]) /\ s[1].line[2] = 2 => OwnOK(s, s[2]) /\ DebugOK(s, s[2])
      /\ Locked(s[2]) => s[1].prio = s[2].prio /\ s[1].level = s[2].level
                         /\ \A p : ~Rotating(s, p)
  BY <1>1, Before
<1>5. CASE s[1].level <= debuglevel[s[1].prio] /\ isOpen(s[1].prio)
  <2>. DEFINE g == [s[1] EXCEPT !.at = "write"]
  <2>2. /\ g \in AnyFrame /\ g.op = "output" /\ g.at = "write" /\ g.prio = s[1].prio
        /\ g.level = s[1].level /\ g.line = s[1].line
    BY <1>1, OutputGoes DEF Moved
  <2>3. stack' = [stack EXCEPT ![t] = <<g>> \o Tail(s)]
    BY <1>1, <1>5 DEF OutputOwn, Goes
  <2>. HIDE DEF g
  <2>4. FrameOK(g)
    BY <1>5, <2>2 DEF FrameOK
  <2>5. /\ g.at # "own" /\ g.at # "writeDebug" /\ g.at \notin OwnPlaces /\ g.at \notin DebugPlaces
    BY <2>2 DEF OwnPlaces, DebugPlaces
  <2>. QED
    BY <1>1, <1>3, <1>4, <2>2, <2>3, <2>4, <2>5, QuietGoes
<1>6. CASE ~(s[1].level <= debuglevel[s[1].prio] /\ isOpen(s[1].prio))
  <2>. DEFINE g == [s[1] EXCEPT !.at = "debug"]
  <2>2. /\ g \in AnyFrame /\ g.op = "output" /\ g.at = "debug" /\ g.prio = s[1].prio
        /\ g.level = s[1].level /\ g.line = s[1].line
    BY <1>1, OutputGoes DEF Moved
  <2>3. stack' = [stack EXCEPT ![t] = <<g>> \o Tail(s)]
    BY <1>1, <1>6 DEF OutputOwn, Goes
  <2>. HIDE DEF g
  <2>4. FrameOK(g)
    BY <2>2, PlainFrame
  <2>5. g.at # "own" /\ g.at # "write" /\ g.at # "writeDebug" /\ g.at \notin DebugPlaces
    BY <2>2 DEF DebugPlaces
  <2>6. Locked(s[2]) => OwnOK(s, s[2])
    <3>1. debuglevel[s[1].prio] \in Nat
      BY <1>1, <1>2, Holder DEF FilesOK
    <3>2. s[1].level > debuglevel[s[1].prio] \/ ~isOpen(s[1].prio)
      BY <1>2, <1>6, <3>1
    <3>. QED
      BY <1>4, <3>2 DEF OwnOK, Shut
  <2>. QED
    BY <1>1, <1>3, <1>4, <2>2, <2>3, <2>4, <2>5, <2>6, QuietGoes
<1>. QED
  BY <1>5, <1>6

LEMMA OutputDebugKeepsInv ==
  ASSUME LoggerInv, NEW t \in Threads, NEW s, s = stack[t], OutputDebug(t)
  PROVE  LoggerInv'
<1>. DEFINE also == /\ s[1].prio # DEBUG
                    /\ s[1].level <= debuglevel[DEBUG]
                    /\ isOpen(s[1].prio)
                    /\ filename(s[1].prio) # filename(DEBUG)
<1>1. /\ s # << >> /\ s[1].op = "output" /\ s[1].at = "debug" /\ Top(t) = s[1]
      /\ s[1] \in AnyFrame /\ FilesOK
  BY Holder DEF OutputDebug, At, Top
<1>2. s[1].prio \in Prios /\ s[1].level \in Nat /\ DEBUG \in Prios
  BY <1>1, OutputIs, LoggerAssumption DEF OutputFrames
<1>3. Quiet /\ (IF also THEN Goes(t, "writeDebug") ELSE ToHandlers(t))
  BY <1>1 DEF OutputDebug, Quiet, files, Unlogged, config, list, history
<1>4. /\ Locked(s[2]) => OwnOK(s, s[2])
      /\ Locked(s[2]) /\ s[1].line[2] = 2 => DebugOK(s, s[2])
      /\ Locked(s[2]) => s[1].prio = s[2].prio /\ s[1].level = s[2].level
                         /\ s[1].line[1] = s[2].msg /\ \A p : ~Rotating(s, p)
  BY <1>1, Before DEF OwnPlaces
<1>5. CASE also
  <2>. DEFINE g == [s[1] EXCEPT !.at = "writeDebug"]
  <2>2. /\ g \in AnyFrame /\ g.op = "output" /\ g.at = "writeDebug" /\ g.prio = s[1].prio
        /\ g.level = s[1].level /\ g.line = s[1].line
    BY <1>1, OutputGoes DEF Moved
  <2>3. stack' = [stack EXCEPT ![t] = <<g>> \o Tail(s)]
    BY <1>1, <1>3, <1>5 DEF Goes
  <2>. HIDE DEF g
  <2>4. FrameOK(g)
    <3>1. ASSUME g.line[2] = 2
          PROVE  FollowsIn(logfilename[DEBUG], g.line[1]) \/ ~isOpen(DEBUG)
      <4>1. Locked(s[2])
        <5>1. Fits(s, 1)
          BY <1>1, Holder
        <5>2. s[1].line # Note
          BY <2>2, <3>1 DEF Note
        <5>. QED
          BY <1>1, <5>1, <5>2 DEF Fits
      <4>2. DebugOK(s, s[2])
        BY <1>4, <2>2, <3>1, <4>1
      <4>3. \/ FollowsIn(logfilename[DEBUG], s[2].msg)
            \/ logfilename[s[1].prio] = logfilename[DEBUG]
        <5>1. debuglevel[DEBUG] \in Nat
          BY <1>1, <1>2 DEF FilesOK
        <5>2. ~(s[1].level > debuglevel[DEBUG])
          BY <1>2, <1>5, <5>1
        <5>. QED
          BY <1>4, <1>5, <4>1, <4>2, <5>2 DEF DebugOK, Shut
      <4>. QED
        BY <1>4, <1>5, <2>2, <4>1, <4>3 DEF filename
    <3>. QED
      BY <2>2, <3>1 DEF FrameOK
  <2>5. /\ g.at # "own" /\ g.at # "write" /\ g.prio # DEBUG /\ g.at \notin DebugPlaces
    BY <1>5, <2>2 DEF DebugPlaces
  <2>. QED
    BY <1>1, <1>3, <1>4, <2>2, <2>3, <2>4, <2>5, QuietGoes
<1>6. CASE ~also
  <2>1. Locked(s[2]) => DebugOK(s, s[2])
    <3>1. debuglevel[DEBUG] \in Nat
      BY <1>1, <1>2 DEF FilesOK
    <3>2. \/ s[1].prio = DEBUG
          \/ s[1].level > debuglevel[DEBUG]
          \/ ~isOpen(s[1].prio)
          \/ isOpen(s[1].prio) /\ filename(s[1].prio) = filename(DEBUG)
      BY <1>2, <1>6, <3>1
    <3>3. isOpen(s[1].prio) => logfilename[s[1].prio] # NULL
      BY <1>1, <1>2 DEF FilesOK
    <3>4. isOpen(s[1].prio) /\ filename(s[1].prio) = filename(DEBUG)
            => logfilename[s[1].prio] = logfilename[DEBUG]
      BY <3>3 DEF filename
    <3>. QED
      BY <1>4, <3>2, <3>4 DEF DebugOK, Shut
  <2>. QED
    BY <1>1, <1>3, <1>4, <1>6, <2>1, ToHandlersKeepsInv
<1>. QED
  BY <1>5, <1>6

LEMMA OutputFirstKeepsInv ==
  ASSUME LoggerInv, NEW t \in Threads, NEW s, s = stack[t], OutputFirst(t)
  PROVE  LoggerInv'
<1>1. s # << >> /\ s[1].op = "output" /\ s[1].at = "first" /\ ToHandlers(t)
  BY Holder DEF OutputFirst, At, Top
<1>2. Quiet
  BY DEF OutputFirst, Quiet, files, Unlogged, config, list, history
<1>3. Locked(s[2]) => OwnOK(s, s[2]) /\ DebugOK(s, s[2])
  BY <1>1, Before DEF OwnPlaces, DebugPlaces
<1>. QED
  BY <1>1, <1>2, <1>3, ToHandlersKeepsInv

(* The handlers are called, with the mutex held.                           *)
LEMMA OutputHandlersKeepsInv ==
  ASSUME LoggerInv, NEW t \in Threads, NEW s, s = stack[t], OutputHandlers(t)
  PROVE  LoggerInv'
<1>1. /\ s # << >> /\ s[1].op = "output" /\ s[1].at = "handlers" /\ Top(t) = s[1]
      /\ s[1] \in AnyFrame /\ FilesOK /\ s \in Seq(AnyFrame)
      /\ Len(s) \in Nat /\ Len(s) >= 1 /\ Fits(s, 1) /\ mutex = t /\ Work(s) /\ printed \in Nat
  BY Holder DEF OutputHandlers, At, Top, Holds
<1>2. UNCHANGED <<logff, logfilename, put, debuglevel, handlers, inrotate>>
  BY DEF OutputHandlers, files, config, list
<1>3. Locked(s[2]) => OwnOK(s, s[2]) /\ DebugOK(s, s[2])
  BY <1>1, Before DEF OwnPlaces, DebugPlaces
<1>4. FrameOK(s[1]) /\ s[1].node \in ToSet(handlers)
  <2>1. FrameOK(s[1])
    BY <1>1 DEF Work
  <2>. QED
    BY <1>1, <2>1 DEF FrameOK
<1>5. CASE s[1].node = Last(handlers) /\ Returns(t) /\ UNCHANGED <<mutex, faults, history>>
  <2>1. Quiet /\ stack' = [stack EXCEPT ![t] = Tail(s)]
    BY <1>2, <1>5 DEF Quiet, history, Returns
  <2>. QED
    BY <1>1, <1>3, <2>1, QuietReturns
<1>6. CASE /\ s[1].node # Last(handlers)
           /\ stack' = [stack EXCEPT ![t] =
                <<[s[1] EXCEPT !.node = NodeAfter(s[1].node)]>> \o Tail(s)]
           /\ UNCHANGED <<mutex, faults, history>>
  <2>. DEFINE next == NodeAfter(s[1].node)
              g == [s[1] EXCEPT !.node = next]
  <2>1. next \in Nodes /\ next \in ToSet(handlers)
    <3>. DEFINE i == CHOOSE i \in DOMAIN handlers : handlers[i] = s[1].node
    <3>1. handlers \in Seq(Nodes)
      BY <1>1 DEF FilesOK
    <3>2. i \in DOMAIN handlers /\ handlers[i] = s[1].node
      BY <1>4 DEF ToSet
    <3>. HIDE DEF i
    <3>3. i # Len(handlers)
      BY <1>6, <3>2 DEF Last
    <3>4. 1 + i \in DOMAIN handlers
      BY <3>1, <3>2, <3>3
    <3>5. next = handlers[1 + i]
      BY DEF NodeAfter, i
    <3>. QED
      BY <3>1, <3>4, <3>5 DEF ToSet
  <2>2. /\ g \in AnyFrame /\ g.op = "output" /\ g.at = "handlers" /\ g.prio = s[1].prio
        /\ g.level = s[1].level /\ g.line = s[1].line /\ g.node = next
    <3>. HIDE DEF next
    <3>1. MovedTo(g, s[1], next)
      BY <1>1, <2>1, OutputGoesTo
    <3>. QED
      BY <3>1 DEF Moved, MovedTo
  <2>3. stack' = [stack EXCEPT ![t] = <<g>> \o Tail(s)]
    BY <1>6
  <2>. HIDE DEF g, next
  <2>4. FrameOK(g)
    BY <2>1, <2>2 DEF FrameOK
  <2>5. g.at # "own" /\ g.at # "write" /\ g.at # "writeDebug"
    BY <2>2
  <2>6. Quiet
    BY <1>2, <1>6 DEF Quiet, history
  <2>. QED
    BY <1>1, <1>3, <2>2, <2>3, <2>4, <2>5, <2>6, QuietGoes
<1>7. CASE Fails(t)
  BY <1>1, <1>2, <1>7, FilesStay, ThrowsKeepsInv DEF Fails
<1>8. CASE Enters(t, "handlers", PrintFrame(DEBUG, 0, 0, 1)) /\ UNCHANGED <<mutex, history>>
  <2>. DEFINE f == PrintFrame(DEBUG, 0, 0, 1)
              g == [s[1] EXCEPT !.at = "handlers"]
              r == <<f, g>> \o Tail(s)
  <2>1. f \in AnyFrame /\ f.op = "print" /\ ~Locked(f) /\ ~Cold(f)
    <3>1. \A l \in Nat, m \in Nat, n \in Nat \ {0} :
            LET x == PrintFrame(DEBUG, l, m, n) IN
              x \in AnyFrame /\ x.op = "print" /\ ~Locked(x) /\ ~Cold(x)
      <4>1. DEBUG \in Prios
        BY LoggerAssumption
      <4>. QED
        BY <4>1, NewPrintFrame
    <3>. QED
      BY <3>1
  <2>2. /\ g \in AnyFrame /\ g.op = "output" /\ g.at = "handlers" /\ g.prio = s[1].prio
        /\ g.level = s[1].level /\ g.line = s[1].line
    BY <1>1, OutputGoes DEF Moved
  <2>3. stack' = [stack EXCEPT ![t] = r] /\ Quiet
    BY <1>1, <1>2, <1>8 DEF Enters, Quiet, history
  <2>4. g = s[1]
    <3>1. s[1] \in OutputFrames
      BY <1>1, OutputIs
    <3>. QED
      BY <1>1, <3>1 DEF OutputFrames
  <2>. HIDE DEF f, g
  <2>5. r \in Seq(AnyFrame) /\ r[1] = f /\ r[2] = g /\ Len(r) >= 2 /\ Parts(s, r, 3, 1)
    <3>1. Pushed(s, r, f, g)
      BY <1>1, <2>1, <2>2, PushParts
    <3>. QED
      BY <3>1 DEF Pushed
  <2>. HIDE DEF r
  <2>6. Len(r) = Len(s) + 1 /\ 1 < Len(s) /\ Len(r) \in Nat
    BY <1>1, <2>5 DEF Parts, Fits
  <2>7. r[3] = s[2]
    BY <1>1, <2>5, <2>6 DEF Parts
  <2>8. Fits(r, 1)
    BY <2>1, <2>2, <2>5, <2>6 DEF Fits, Cold, Locked
  <2>9. Fits(r, 2)
    BY <1>1, <2>2, <2>5, <2>6, <2>7 DEF Fits, Cold, Locked
  <2>10. FrameOK(f) /\ FrameOK(g)
    BY <1>4, <2>1, <2>4, PlainFrame
  <2>11. \A i \in 1..Len(r) : i < 3 =>
          Fits(r, i) /\ FrameOK(r[i]) /\ ~Locked(r[i]) /\ r[i].op # "checkRotate"
    <3>1. \A i \in 1..Len(r) : i < 3 => i = 1 \/ i = 2
      BY <2>6
    <3>2. ~Locked(g)
      BY <2>2 DEF Locked
    <3>. QED
      BY <2>1, <2>2, <2>5, <2>8, <2>9, <2>10, <3>1, <3>2
  <2>12. /\ Locked(s[2]) /\ Continues(r, 3, OwnPlaces) => OwnOK(s, s[2])
         /\ Locked(s[2]) /\ Continues(r, 3, DebugPlaces) => DebugOK(s, s[2])
    BY <1>3
  <2>13. 3 \in 1..3 /\ 1 \in {-1, 0, 1} /\ 3 - 1 = 2
    OBVIOUS
  <2>. QED
    BY <1>1, <2>3, <2>5, <2>11, <2>12, <2>13, QuietOutput, ZenonT(60)
<1>. QED
  BY <1>1, <1>5, <1>6, <1>7, <1>8 DEF OutputHandlers

-----------------------------------------------------------------------------
(* A line is written.                                                      *)

LEMMA FollowsAppend ==
  ASSUME NEW q \in Seq(LineSet), NEW m, NEW line \in LineSet,
         \/ Follows(q, m) /\ line \in {Note, <<m, 1>>, <<m, 2>>}
         \/ line = <<m, 1>>
  PROVE  Follows(Append(q, line), m)
<1>. DEFINE r == Append(q, line)
<1>1. /\ Len(r) = Len(q) + 1 /\ Len(q) \in Nat /\ r[Len(q) + 1] = line
      /\ \A i \in 1..Len(q) : r[i] = q[i]
  OBVIOUS
<1>. HIDE DEF r
<1>2. CASE line = <<m, 1>>
  <2>1. Len(r) \in 1..Len(r) /\ r[Len(r)] = <<m, 1>>
        /\ \A k \in Len(r) + 1..Len(r) : r[k] \in {Note, <<m, 2>>}
    BY <1>1, <1>2
  <2>2. Follows(r, m)
    BY <2>1 DEF Follows
  <2>. QED
    BY <2>2 DEF r
<1>3. CASE Follows(q, m) /\ line \in {Note, <<m, 2>>}
  <2>1. PICK j \in 1..Len(q) : q[j] = <<m, 1>> /\ \A k \in j + 1..Len(q) : q[k] \in {Note, <<m, 2>>}
    BY <1>3 DEF Follows
  <2>2. j \in 1..Len(r) /\ r[j] = <<m, 1>>
    BY <1>1, <2>1
  <2>3. ASSUME NEW k \in j + 1..Len(r)
        PROVE  r[k] \in {Note, <<m, 2>>}
    <3>1. CASE k = Len(r)
      BY <1>1, <1>3, <3>1
    <3>2. CASE k # Len(r)
      <4>1. k \in j + 1..Len(q) /\ k \in 1..Len(q)
        BY <1>1, <2>1, <2>3, <3>2
      <4>. QED
        BY <1>1, <2>1, <4>1
    <3>. QED
      BY <3>1, <3>2
  <2>4. Follows(r, m)
    BY <2>2, <2>3 DEF Follows
  <2>. QED
    BY <2>4 DEF r
<1>. QED
  BY <1>2, <1>3

LEMMA TogetherAppend ==
  ASSUME NEW q \in Seq(LineSet), NEW line \in LineSet, Together(q),
         line[2] = 2 => Follows(q, line[1])
  PROVE  Together(Append(q, line))
<1>. DEFINE r == Append(q, line)
<1>1. /\ Len(r) = Len(q) + 1 /\ Len(q) \in Nat /\ r[Len(q) + 1] = line
      /\ \A i \in 1..Len(q) : r[i] = q[i]
  OBVIOUS
<1>. HIDE DEF r
<1>2. ASSUME NEW i \in 1..Len(r), r[i][2] = 2
      PROVE  \E j \in 1..i - 1 : /\ r[j] = <<r[i][1], 1>>
                                 /\ \A k \in j + 1..i - 1 : r[k] \in {Note, r[i]}
  <2>1. CASE i = Len(r)
    <3>1. r[i] = line /\ line = <<line[1], 2>> /\ i - 1 = Len(q)
      BY <1>1, <1>2, <2>1 DEF LineSet
    <3>2. PICK j \in 1..Len(q) :
            q[j] = <<line[1], 1>> /\ \A k \in j + 1..Len(q) : q[k] \in {Note, <<line[1], 2>>}
      BY <1>2, <3>1 DEF Follows
    <3>3. \A k \in j + 1..Len(q) : k \in 1..Len(q)
      BY <1>1, <3>2
    <3>4. r[j] = <<r[i][1], 1>> /\ \A k \in j + 1..Len(q) : r[k] \in {Note, r[i]}
      BY <1>1, <3>1, <3>2, <3>3
    <3>. QED
      BY <3>1, <3>2, <3>4
  <2>2. CASE i # Len(r)
    <3>1. i \in 1..Len(q) /\ r[i] = q[i]
      BY <1>1, <2>2
    <3>2. PICK j \in 1..i - 1 : /\ q[j] = <<q[i][1], 1>>
                                /\ \A k \in j + 1..i - 1 : q[k] \in {Note, q[i]}
      BY <1>2, <3>1 DEF Together
    <3>3. j \in 1..Len(q) /\ \A k \in j + 1..i - 1 : k \in 1..Len(q)
      BY <1>1, <3>1, <3>2
    <3>4. r[j] = <<r[i][1], 1>> /\ \A k \in j + 1..i - 1 : r[k] \in {Note, r[i]}
      BY <1>1, <3>1, <3>2, <3>3
    <3>. QED
      BY <3>2, <3>4
  <2>. QED
    BY <2>1, <2>2
<1>3. Together(r)
  BY <1>2 DEF Together
<1>. QED
  BY <1>3 DEF r

(* A line that comes from a block, or from checkRotate.                    *)
LEMMA PutsKeepsFiles ==
  ASSUME FilesOK, NEW p \in Prios, isOpen(p), NEW line \in LineSet,
         line[2] = 2 => FollowsIn(logfilename[p], line[1]), Puts(p, line),
         debuglevel' = debuglevel, handlers' = handlers
  PROVE  /\ FilesOK'
         /\ \A n, m : FollowsIn(n, m) /\ line \in {Note, <<m, 1>>, <<m, 2>>} => FollowsIn(n, m)'
         /\ \A m : line = <<m, 1>> => FollowsIn(logfilename[p], m)'
<1>. DEFINE name == logfilename[p]
<1>1. name \in Names
  BY DEF FilesOK
<1>2. /\ put' = [put EXCEPT ![name] = Append(put[name], line)]
      /\ UNCHANGED <<logff, logfilename>>
  BY DEF Puts
<1>3. put \in [Names -> Seq(LineSet)] /\ \A n \in Names : Together(put[n])
  BY DEF FilesOK
<1>. HIDE DEF name
<1>4. put'[name] = Append(put[name], line) /\ \A n \in Names \ {name} : put'[n] = put[n]
  BY <1>1, <1>2, <1>3
<1>5. put' \in [Names -> Seq(LineSet)]
  <2>1. Append(put[name], line) \in Seq(LineSet)
    BY <1>1, <1>3
  <2>. QED
    BY <1>2, <1>3, <2>1
<1>6. Together(put'[name])
  <2>1. line[2] = 2 => Follows(put[name], line[1])
    BY <1>1 DEF FollowsIn, name
  <2>2. put[name] \in Seq(LineSet) /\ Together(put[name])
    BY <1>1, <1>3
  <2>3. Together(Append(put[name], line))
    BY <2>1, <2>2, TogetherAppend
  <2>. QED
    BY <1>4, <2>3
<1>7. \A n \in Names : Together(put'[n])
  BY <1>3, <1>4, <1>6
<1>8. FilesOK'
  BY <1>2, <1>5, <1>7 DEF FilesOK, isOpen
<1>9. ASSUME NEW n, NEW m, FollowsIn(n, m), line \in {Note, <<m, 1>>, <<m, 2>>}
      PROVE  FollowsIn(n, m)'
  <2>1. CASE n = name
    <3>1. Follows(put[name], m) /\ put[name] \in Seq(LineSet)
      BY <1>1, <1>3, <1>9, <2>1 DEF FollowsIn
    <3>2. Follows(Append(put[name], line), m)
      BY <1>9, <3>1, FollowsAppend
    <3>. QED
      BY <1>4, <2>1, <3>2 DEF FollowsIn
  <2>2. CASE n # name
    BY <1>4, <1>9, <2>2 DEF FollowsIn
  <2>. QED
    BY <2>1, <2>2
<1>10. ASSUME NEW m, line = <<m, 1>>
       PROVE  FollowsIn(logfilename[p], m)'
  <2>1. put[name] \in Seq(LineSet)
    BY <1>1, <1>3
  <2>2. Follows(Append(put[name], line), m)
    BY <1>10, <2>1, FollowsAppend
  <2>. QED
    BY <1>2, <1>4, <2>2 DEF FollowsIn, name
<1>. QED
  BY <1>8, <1>9, <1>10

LEMMA LinesGrow ==
  ASSUME NEW s, NEW r, NEW f, Undisturbed,
         \A n : FollowsIn(n, f.msg) => FollowsIn(n, f.msg)',
         Shut(s, f.prio) => Shut(r, f.prio)'
  PROVE  (OwnOK(s, f) => OwnOK(r, f)') /\ (DebugOK(s, f) => DebugOK(r, f)')
<1>1. \A n : n = logfilename[f.prio] /\ FollowsIn(n, f.msg)'
             => FollowsIn(logfilename[f.prio], f.msg)'
  BY DEF Undisturbed, FollowsIn
<1>2. \A n : n = logfilename[DEBUG] /\ FollowsIn(n, f.msg)'
             => FollowsIn(logfilename[DEBUG], f.msg)'
  BY DEF Undisturbed, FollowsIn
<1>. QED
  BY <1>1, <1>2 DEF OwnOK, DebugOK, Undisturbed

(* output writes its line to file p and goes on to then, by way of         *)
(* checkRotate or not.                                                     *)
LEMMA PutsKeepsInv ==
  ASSUME LoggerInv, NEW t \in Threads, NEW s, s = stack[t], s # << >>,
         s[1].op = "output", NEW then \in {"debug", "first"},
         NEW p \in Prios, isOpen(p), Puts(p, s[1].line),
         UNCHANGED <<debuglevel, handlers, inrotate, mutex, printed>>,
         s[1].line[2] = 2 => FollowsIn(logfilename[p], s[1].line[1]),
         Goes(t, then) \/ (~inrotate /\ Enters(t, then, RotateFrame(p))),
         Locked(s[2]) => s[2].prio = p \/ OwnOK(s, s[2]),
         Locked(s[2]) => p = DEBUG \/ (then = "debug" /\ (s[1].line[2] = 2 => DebugOK(s, s[2])))
  PROVE  LoggerInv'
<1>. DEFINE f == RotateFrame(p)
            g == [s[1] EXCEPT !.at = then]
<1>1. /\ Top(t) = s[1] /\ s[1] \in AnyFrame /\ FilesOK /\ s \in Seq(AnyFrame)
      /\ Len(s) \in Nat /\ Len(s) >= 1 /\ Shape(s) /\ Fits(s, 1) /\ mutex = t /\ Work(s)
  BY Holder DEF Holds
<1>2. s[1].line \in LineSet /\ s[1].line = <<s[1].line[1], s[1].line[2]>> /\ s[1].line[2] \in {1, 2}
  BY <1>1, OutputIs DEF OutputFrames, LineSet
<1>3. 1 < Len(s) /\ (Locked(s[2]) \/ (s[2].op = "checkRotate" /\ s[2].at # "check" /\ s[1].line = Note))
  BY <1>1 DEF Fits
<1>4. /\ FilesOK'
      /\ \A n, m : FollowsIn(n, m) /\ s[1].line \in {Note, <<m, 1>>, <<m, 2>>} => FollowsIn(n, m)'
      /\ \A m : s[1].line = <<m, 1>> => FollowsIn(logfilename[p], m)'
  BY <1>1, <1>2, PutsKeepsFiles
<1>5. Undisturbed /\ logff' = logff /\ logfilename' = logfilename
  BY DEF Undisturbed, Puts
<1>6. Locked(s[2]) => s[1].prio = s[2].prio /\ s[1].level = s[2].level /\ s[1].line[1] = s[2].msg
                      /\ \A q : ~Rotating(s, q)
  BY Before
<1>7. Locked(s[2]) => \A n : FollowsIn(n, s[2].msg) => FollowsIn(n, s[2].msg)'
  <2>1. Locked(s[2]) => s[1].line \in {<<s[2].msg, 1>>, <<s[2].msg, 2>>}
    BY <1>2, <1>6
  <2>. QED
    BY <1>4, <2>1
<1>8. s[2].op = "checkRotate" => \A n, m : FollowsIn(n, m) => FollowsIn(n, m)'
  <2>1. s[2].op = "checkRotate" => s[1].line = Note
    BY <1>3 DEF Locked
  <2>. QED
    BY <1>4, <2>1
<1>9. Locked(s[2]) => FollowsIn(logfilename[p], s[2].msg)'
  <2>1. CASE Locked(s[2]) /\ s[1].line[2] = 1
    <3>1. s[1].line = <<s[2].msg, 1>>
      BY <1>2, <1>6, <2>1
    <3>. QED
      BY <1>4, <3>1
  <2>2. CASE Locked(s[2]) /\ s[1].line[2] = 2
    <3>1. FollowsIn(logfilename[p], s[2].msg)
      BY <1>6, <2>2
    <3>2. \A n : n = logfilename[p] /\ FollowsIn(n, s[2].msg)'
               => FollowsIn(logfilename[p], s[2].msg)'
      BY <1>5 DEF FollowsIn
    <3>. QED
      BY <1>7, <2>2, <3>1, <3>2
  <2>. QED
    BY <1>2, <2>1, <2>2
<1>10. /\ g \in AnyFrame /\ g.op = "output" /\ g.at = then /\ g.prio = s[1].prio
       /\ g.level = s[1].level /\ g.line = s[1].line
  <2>1. then \in {"own", "write", "debug", "writeDebug", "first", "handlers"}
    OBVIOUS
  <2>2. Moved(g, s[1], then)
    BY <1>1, <2>1, OutputGoes
  <2>. QED
    BY <2>2 DEF Moved
<1>11. /\ f \in AnyFrame /\ f.op = "checkRotate" /\ f.at = "check" /\ f.prio = p
  BY NewRotateFrame
<1>12. \/ stack' = [stack EXCEPT ![t] = <<g>> \o Tail(s)]
       \/ ~inrotate /\ stack' = [stack EXCEPT ![t] = <<f, g>> \o Tail(s)]
  BY <1>1 DEF Goes, Enters
<1>. HIDE DEF f, g
<1>13. FrameOK(g)' /\ ~Locked(g) /\ g.op # "checkRotate"
  BY <1>10, PlainFrame DEF Locked
<1>14. FrameOK(f)' /\ ~Locked(f)
  <2>1. logfilename'[p] # NULL
    BY <1>1, <1>5 DEF FilesOK
  <2>. QED
    BY <1>11, <2>1 DEF FrameOK, Locked
(* What is below.                                                          *)
<1>15. ASSUME NEW r, \A q : Rotating(r, q) /\ q # p => Rotating(s, q)
       PROVE  /\ Locked(s[2]) => (OwnOK(s, s[2]) => OwnOK(r, s[2])')
                                 /\ (DebugOK(s, s[2]) => DebugOK(r, s[2])')
              /\ s[2].op = "checkRotate" =>
                   \A x : (OwnOK(s, x) => OwnOK(r, x)') /\ (DebugOK(s, x) => DebugOK(r, x)')
  <2>1. \A q : Shut(s, q) => Shut(r, q)'
    BY <1>5, <1>15 DEF Shut, isOpen, Rotating
  <2>. QED
    BY <1>5, <1>7, <1>8, <2>1, LinesGrow
<1>16. ASSUME NEW r, NEW lo, r[lo] = s[2], r[lo - 1] = g, lo # 1, Locked(s[2]),
              OwnOK(s, s[2]) => OwnOK(r, s[2])', DebugOK(s, s[2]) => DebugOK(r, s[2])'
       PROVE  LinesOK(r, lo)'
  <2>1. OwnOK(r, s[2])'
    <3>1. CASE s[2].prio = p
      BY <1>9, <1>16, <3>1 DEF OwnOK
    <3>2. CASE OwnOK(s, s[2])
      BY <1>16, <3>2
    <3>. QED
      BY <1>16, <3>1, <3>2
  <2>2. Continues(r, lo, {"first", "handlers"}) => DebugOK(r, s[2])'
    <3>1. CASE p = DEBUG
      BY <1>9, <1>16, <3>1 DEF DebugOK
    <3>2. CASE then = "debug" /\ (s[1].line[2] = 2 => DebugOK(s, s[2]))
      BY <1>10, <1>16, <3>2 DEF Continues
    <3>. QED
      BY <1>16, <3>1, <3>2
  <2>. QED
    BY <1>16, <2>1, <2>2 DEF LinesOK, Continues
<1>17. CASE stack' = [stack EXCEPT ![t] = <<g>> \o Tail(s)]
  <2>. DEFINE r == <<g>> \o Tail(s)
  <2>1. r \in Seq(AnyFrame) /\ r[1] = g /\ Len(r) >= 1 /\ Parts(s, r, 2, 0)
    <3>1. Swapped(s, r, g)
      BY <1>1, <1>10, SwapParts
    <3>. QED
      BY <3>1 DEF Swapped
  <2>2. stack' = [stack EXCEPT ![t] = r]
    BY <1>17
  <2>. HIDE DEF r
  <2>3. Len(r) = Len(s) /\ Len(r) \in Nat
    BY <1>1, <2>1 DEF Parts
  <2>4. r[2] = s[2]
    BY <1>1, <1>3, <2>1, <2>3 DEF Parts
  <2>5. Fits(r, 1)
    BY <1>1, <1>3, <1>10, <2>1, <2>3, <2>4 DEF Fits, Cold, Locked
  <2>6. \A i \in 1..Len(r) : i < 2 => Fits(r, i) /\ FrameOK(r[i])' /\ ~Locked(r[i])
    <3>1. \A i \in 1..Len(r) : i < 2 => i = 1
      BY <2>3
    <3>. QED
      BY <1>13, <2>1, <2>5, <3>1
  <2>7. \A q : Rotating(r, q) /\ q # p => Rotating(s, q)
    <3>1. \A i \in 1..Len(r) : i < 2 => r[i].op # "checkRotate"
      <4>1. \A i \in 1..Len(r) : i < 2 => i = 1
        BY <2>3
      <4>. QED
        BY <1>13, <2>1, <4>1
    <3>. QED
      BY <1>1, <2>1, <3>1, RotatingBelow
  <2>8. /\ s[2].op = "checkRotate" =>
             \A x : (OwnOK(s, x) => OwnOK(r, x)') /\ (DebugOK(s, x) => DebugOK(r, x)')
        /\ Locked(s[2]) => LinesOK(r, 2)'
    <3>1. 2 - 1 = 1 /\ 2 # 1
      OBVIOUS
    <3>. QED
      BY <1>15, <1>16, <2>1, <2>4, <2>7, <3>1
  <2>9. 2 \in 1..3 /\ 0 \in {-1, 0, 1} /\ 2 - 0 = 2 /\ mutex' = mutex /\ printed' = printed
        /\ inrotate' = inrotate
    OBVIOUS
  <2>. QED
    BY <1>4, <1>5, <2>1, <2>2, <2>6, <2>8, <2>9, OutputStep, ZenonT(60)
<1>18. CASE ~inrotate /\ stack' = [stack EXCEPT ![t] = <<f, g>> \o Tail(s)]
  <2>. DEFINE r == <<f, g>> \o Tail(s)
  <2>1. r \in Seq(AnyFrame) /\ r[1] = f /\ r[2] = g /\ Len(r) >= 2 /\ Parts(s, r, 3, 1)
    <3>1. Pushed(s, r, f, g)
      BY <1>1, <1>10, <1>11, PushParts
    <3>. QED
      BY <3>1 DEF Pushed
  <2>2. stack' = [stack EXCEPT ![t] = r]
    BY <1>18
  <2>. HIDE DEF r
  <2>3. Len(r) = Len(s) + 1 /\ Len(r) \in Nat
    BY <1>1, <2>1 DEF Parts
  <2>4. r[3] = s[2]
    BY <1>1, <1>3, <2>1, <2>3 DEF Parts
  <2>a. Locked(s[2])
    <3>1. 2 \in 1..Len(s)
      BY <1>1, <1>3
    <3>2. FrameOK(s[2])
      BY <1>1, <3>1 DEF Work
    <3>. QED
      BY <1>3, <1>18, <3>2 DEF FrameOK
  <2>5. Fits(r, 1)
    BY <1>1, <1>3, <1>10, <1>11, <2>1, <2>3, <2>4, <2>a DEF Fits, Cold, Locked
  <2>b. Fits(r, 2)
    BY <1>1, <1>3, <1>10, <2>1, <2>3, <2>4 DEF Fits, Cold, Locked
  <2>6. \A i \in 1..Len(r) : i < 3 => Fits(r, i) /\ FrameOK(r[i])' /\ ~Locked(r[i])
    <3>1. \A i \in 1..Len(r) : i < 3 => i = 1 \/ i = 2
      BY <2>3
    <3>. QED
      BY <1>13, <1>14, <2>1, <2>5, <2>b, <3>1
  <2>7. \A q : Rotating(r, q) /\ q # p => Rotating(s, q)
    <3>1. \A q : q # p => \A i \in 1..Len(r) : i < 3 => r[i].op # "checkRotate" \/ r[i].prio # q
      <4>1. \A i \in 1..Len(r) : i < 3 => i = 1 \/ i = 2
        BY <2>3
      <4>. QED
        BY <1>11, <1>13, <2>1, <4>1
    <3>. QED
      BY <1>1, <2>1, <3>1, RotatingBelow
  <2>8. /\ s[2].op = "checkRotate" =>
             \A x : (OwnOK(s, x) => OwnOK(r, x)') /\ (DebugOK(s, x) => DebugOK(r, x)')
        /\ Locked(s[2]) => LinesOK(r, 3)'
    <3>1. 3 - 1 = 2 /\ 3 # 1
      OBVIOUS
    <3>. QED
      BY <1>15, <1>16, <2>1, <2>4, <2>7, <3>1
  <2>9. 3 \in 1..3 /\ 1 \in {-1, 0, 1} /\ 3 - 1 = 2 /\ mutex' = mutex /\ printed' = printed
        /\ inrotate' = inrotate
    OBVIOUS
  <2>. QED
    BY <1>4, <1>5, <2>1, <2>2, <2>6, <2>8, <2>9, OutputStep, ZenonT(60)
<1>. QED
  BY <1>12, <1>17, <1>18

LEMMA OutputWriteKeepsInv ==
  ASSUME LoggerInv, NEW t \in Threads, NEW s, s = stack[t], OutputWrite(t)
  PROVE  LoggerInv'
<1>. DEFINE p == s[1].prio
<1>1. /\ s # << >> /\ s[1].op = "output" /\ s[1].at = "write" /\ Top(t) = s[1]
      /\ s[1] \in AnyFrame /\ FilesOK /\ Fits(s, 1) /\ Work(s) /\ Len(s) \in Nat /\ Len(s) >= 1
      /\ mutex = t
  BY Holder DEF OutputWrite, OutputPuts, At, Top, Holds
<1>2. p \in Prios /\ s[1].level \in Nat
  BY <1>1, OutputIs DEF OutputFrames
<1>3. UNCHANGED <<debuglevel, handlers, inrotate>>
  BY DEF OutputWrite, OutputPuts, config, list
<1>4. CASE /\ isOpen(p)
           /\ Puts(p, s[1].line)
           /\ IF inrotate \/ generations = 1 THEN Goes(t, "debug")
              ELSE Enters(t, "debug", RotateFrame(p))
           /\ UNCHANGED <<mutex, faults, history>>
  <2>1. Locked(s[2]) /\ s[1].line[2] = 2 => OwnOK(s, s[2]) /\ DebugOK(s, s[2])
    BY <1>1, Before
  <2>2. Locked(s[2]) => s[2].prio = p /\ s[2].level = s[1].level /\ s[1].line[1] = s[2].msg
    BY <1>1, Before
  <2>3. ASSUME s[1].line[2] = 2
        PROVE  FollowsIn(logfilename[p], s[1].line[1])
    <3>1. Locked(s[2])
      <4>1. s[1].line # Note
        BY <2>3 DEF Note
      <4>. QED
        BY <1>1, <4>1 DEF Fits
    <3>2. s[1].level <= debuglevel[p] /\ debuglevel[p] \in Nat
      <4>1. FrameOK(s[1])
        BY <1>1 DEF Work
      <4>. QED
        BY <1>1, <1>2, <4>1 DEF FrameOK, FilesOK
    <3>3. ~(s[1].level > debuglevel[p])
      BY <1>2, <3>2
    <3>. QED
      BY <1>4, <2>1, <2>2, <2>3, <3>1, <3>3 DEF OwnOK, Shut
  <2>4. /\ "debug" \in {"debug", "first"} /\ UNCHANGED <<mutex, printed>>
        /\ Goes(t, "debug") \/ (~inrotate /\ Enters(t, "debug", RotateFrame(p)))
    BY <1>4 DEF history
  <2>. HIDE DEF p
  <2>. QED
    BY <1>1, <1>2, <1>3, <1>4, <2>1, <2>2, <2>3, <2>4, PutsKeepsInv
<1>5. CASE ~isOpen(p) /\ Throws(t) /\ UNCHANGED <<files, faults>>
  BY <1>1, <1>3, <1>5, FilesStay, ThrowsKeepsInv DEF files
<1>6. CASE Fails(t) /\ UNCHANGED files
  BY <1>1, <1>3, <1>6, FilesStay, ThrowsKeepsInv DEF files, Fails
<1>. QED
  BY <1>1, <1>4, <1>5, <1>6 DEF OutputWrite, OutputPuts

LEMMA OutputWriteDebugKeepsInv ==
  ASSUME LoggerInv, NEW t \in Threads, NEW s, s = stack[t], OutputWriteDebug(t)
  PROVE  LoggerInv'
<1>1. /\ s # << >> /\ s[1].op = "output" /\ s[1].at = "writeDebug" /\ Top(t) = s[1]
      /\ s[1] \in AnyFrame /\ FilesOK /\ Work(s) /\ Len(s) \in Nat /\ Len(s) >= 1
      /\ mutex = t
  BY Holder DEF OutputWriteDebug, OutputPuts, At, Top, Holds
<1>2. DEBUG \in Prios
  BY LoggerAssumption
<1>3. UNCHANGED <<debuglevel, handlers, inrotate>>
  BY DEF OutputWriteDebug, OutputPuts, config, list
<1>4. CASE /\ isOpen(DEBUG)
           /\ Puts(DEBUG, s[1].line)
           /\ IF inrotate \/ generations = 1 THEN Goes(t, "first")
              ELSE Enters(t, "first", RotateFrame(DEBUG))
           /\ UNCHANGED <<mutex, faults, history>>
  <2>1. Locked(s[2]) => OwnOK(s, s[2])
    BY <1>1, Before DEF OwnPlaces
  <2>2. s[1].line[2] = 2 => FollowsIn(logfilename[DEBUG], s[1].line[1])
    <3>1. FrameOK(s[1])
      BY <1>1 DEF Work
    <3>. QED
      BY <1>1, <1>4, <3>1 DEF FrameOK
  <2>3. /\ "first" \in {"debug", "first"} /\ UNCHANGED <<mutex, printed>>
        /\ Goes(t, "first") \/ (~inrotate /\ Enters(t, "first", RotateFrame(DEBUG)))
    BY <1>4 DEF history
  <2>. QED
    BY <1>1, <1>2, <1>3, <1>4, <2>1, <2>2, <2>3, PutsKeepsInv
<1>5. CASE ~isOpen(DEBUG) /\ Throws(t) /\ UNCHANGED <<files, faults>>
  BY <1>1, <1>3, <1>5, FilesStay, ThrowsKeepsInv DEF files
<1>6. CASE Fails(t) /\ UNCHANGED files
  BY <1>1, <1>3, <1>6, FilesStay, ThrowsKeepsInv DEF files, Fails
<1>. QED
  BY <1>1, <1>4, <1>5, <1>6 DEF OutputWriteDebug, OutputPuts

-----------------------------------------------------------------------------
(* checkRotate.                                                            *)

LEMMA RotateHas ==
  ASSUME LoggerInv, NEW t \in Threads, NEW s, s = stack[t], s # << >>, s[1].op = "checkRotate"
  PROVE  /\ s \in Seq(AnyFrame) /\ Len(s) \in Nat /\ Len(s) > 2 /\ Shape(s) /\ Top(t) = s[1]
         /\ s[1] \in AnyFrame /\ s[1].prio \in Prios /\ s[1].i \in Int
         /\ FilesOK /\ printed \in Nat /\ mutex = t /\ Work(s)
         /\ s[2].op = "output" /\ ~Locked(s[2]) /\ Locked(s[3])
         /\ logfilename[s[1].prio] \in Names /\ (s[1].at # "check" => inrotate)
<1>1. /\ s \in Seq(AnyFrame) /\ Len(s) \in Nat /\ Len(s) >= 1 /\ Shape(s) /\ Top(t) = s[1]
      /\ s[1] \in AnyFrame /\ FilesOK /\ printed \in Nat /\ mutex = t /\ Work(s) /\ Fits(s, 1)
  BY Holder DEF Holds
<1>2. s[1].prio \in Prios /\ s[1].i \in Int
  BY <1>1, RotateIs DEF RotateFrames
<1>3. 1 + 1 < Len(s) /\ s[2].op = "output" /\ ~Locked(s[2]) /\ Locked(s[3])
  BY <1>1 DEF Fits, Locked
<1>4. FrameOK(s[1])
  BY <1>1 DEF Work
<1>5. logfilename[s[1].prio] \in Names /\ (s[1].at # "check" => inrotate)
  BY <1>1, <1>2, <1>4 DEF FrameOK, FilesOK
<1>. QED
  BY <1>1, <1>2, <1>3, <1>5

LEMMA RotateStep ==
  ASSUME LoggerInv, NEW t \in Threads, mutex' = mutex, NEW s, s = stack[t], s # << >>,
         s[1].op = "checkRotate",
         NEW r \in Seq(AnyFrame), NEW lo \in 1..3, NEW d \in {-1, 0, 1}, Parts(s, r, lo, d),
         lo - d = 2, stack' = [stack EXCEPT ![t] = r], FilesOK', printed' = printed,
         Undisturbed, put' = put,
         inrotate' = TRUE \/ inrotate' = inrotate
           \/ (\A i \in lo..Len(r) : r[i].op # "checkRotate"),
         \A i \in 1..Len(r) : i < lo => Fits(r, i) /\ FrameOK(r[i])' /\ ~Locked(r[i]),
         \A p \in Prios : Shut(s, p) => Shut(r, p)'
  PROVE  LoggerInv'
<1>1. /\ s \in Seq(AnyFrame) /\ Len(s) \in Nat /\ Len(s) > 2 /\ mutex = t /\ Work(s) /\ ~Locked(s[2])
  BY RotateHas
<1>2. /\ Len(r) = Len(s) + d /\ Len(r) \in Nat
      /\ \A i \in lo..Len(r) : r[i] = s[i - d]
  BY <1>1 DEF Parts
<1>3. r[lo] = s[2]
  <2>1. lo \in lo..Len(r) /\ lo - d = 2
    BY <1>1, <1>2
  <2>. QED
    BY <1>2, <2>1
<1>4. \A i \in 1..Len(r) : i <= lo => ~Locked(r[i])
  <2>1. \A i \in 1..Len(r) : i <= lo => i < lo \/ i = lo
    BY <1>2
  <2>. QED
    BY <1>1, <1>3, <2>1
<1>5. ASSUME NEW i \in 1..Len(r), Locked(r[i])
      PROVE  /\ OwnOK(s, r[i]) => OwnOK(r, r[i])'
             /\ DebugOK(s, r[i]) => DebugOK(r, r[i])'
  <2>1. r[i] \in PrintFrames
    BY <1>2, <1>5, PrintIs DEF Locked
  <2>2. r[i].prio \in Prios
    BY <2>1 DEF PrintFrames
  <2>. QED
    BY <2>2, LinesStay
<1>6. mutex \in {NULL, t} /\ mutex' = t
  BY <1>1
<1>. QED
  BY <1>1, <1>4, <1>5, <1>6, HolderStep

(* checkRotate goes on; it may have closed a file.                         *)
LEMMA RotateGoesOn ==
  ASSUME LoggerInv, NEW t \in Threads, mutex' = mutex, NEW s, s = stack[t], s # << >>,
         s[1].op = "checkRotate", s[1].at # "check",
         NEW g \in AnyFrame, g.op = "checkRotate", g.prio = s[1].prio, g.at # "check",
         stack' = [stack EXCEPT ![t] = <<g>> \o Tail(s)], FilesOK', printed' = printed,
         Undisturbed, put' = put, inrotate' = inrotate,
         \A q \in Prios : ~isOpen(q) => ~isOpen(q)'
  PROVE  LoggerInv'
<1>. DEFINE r == <<g>> \o Tail(s)
<1>1. /\ s \in Seq(AnyFrame) /\ Len(s) \in Nat /\ Len(s) > 2 /\ Shape(s)
      /\ s[2].op = "output" /\ Locked(s[3]) /\ logfilename[s[1].prio] \in Names /\ inrotate
  BY RotateHas
<1>2. r \in Seq(AnyFrame) /\ r[1] = g /\ Len(r) >= 1 /\ Parts(s, r, 2, 0)
  <2>1. Swapped(s, r, g)
    BY <1>1, SwapParts
  <2>. QED
    BY <2>1 DEF Swapped
<1>3. stack' = [stack EXCEPT ![t] = r]
  OBVIOUS
<1>. HIDE DEF r
<1>4. /\ Len(r) = Len(s) /\ Len(r) \in Nat /\ r[2] = s[2] /\ r[3] = s[3]
  BY <1>1, <1>2 DEF Parts
<1>5. Fits(r, 1) /\ ~Locked(r[1])
  BY <1>1, <1>2, <1>4 DEF Fits, Cold, Locked
<1>6. FrameOK(r[1])'
  <2>1. logfilename'[g.prio] # NULL /\ inrotate'
    BY <1>1, LogFilesAssumption DEF Undisturbed
  <2>. QED
    BY <1>2, <2>1 DEF FrameOK
<1>7. \A i \in 1..Len(r) : i < 2 => i = 1
  BY <1>4
<1>8. \A i \in 1..Len(r) : i < 2 => Fits(r, i) /\ FrameOK(r[i])' /\ ~Locked(r[i])
  BY <1>5, <1>6, <1>7
<1>9. \A p \in Prios : Shut(s, p) => Shut(r, p)'
  <2>1. ASSUME NEW p, Rotating(r, p)
        PROVE  Rotating(s, p)
    <3>1. CASE p = s[1].prio
      BY <1>1, <3>1 DEF Rotating
    <3>2. CASE p # s[1].prio
      <4>1. \A i \in 1..Len(r) : i < 2 => r[i].op # "checkRotate" \/ r[i].prio # p
        BY <1>2, <1>7, <3>2
      <4>. QED
        BY <1>1, <1>2, <2>1, <4>1, RotatingBelow
    <3>. QED
      BY <3>1, <3>2
  <2>. QED
    BY <2>1 DEF Shut, Rotating
<1>10. 2 \in 1..3 /\ 0 \in {-1, 0, 1} /\ 2 - 0 = 2
  OBVIOUS
<1>. QED
  BY <1>2, <1>3, <1>8, <1>9, <1>10, RotateStep, ZenonT(60)

(* checkRotate prints its note; it may have opened its file.               *)
LEMMA RotateNotes ==
  ASSUME LoggerInv, NEW t \in Threads, mutex' = mutex, NEW s, s = stack[t], s # << >>,
         s[1].op = "checkRotate",
         NEW g \in AnyFrame, g.op = "checkRotate", g.prio = s[1].prio, g.at # "check",
         stack' = [stack EXCEPT ![t] = <<OutputFrame(s[1].prio, 0, Note), g>> \o Tail(s)],
         FilesOK', printed' = printed,
         Undisturbed, put' = put, inrotate' = TRUE,
         \A q \in Prios : ~isOpen(q) /\ q # s[1].prio => ~isOpen(q)'
  PROVE  LoggerInv'
<1>. DEFINE f == OutputFrame(s[1].prio, 0, Note)
            r == <<f, g>> \o Tail(s)
<1>1. /\ s \in Seq(AnyFrame) /\ Len(s) \in Nat /\ Len(s) > 2 /\ Shape(s) /\ s[1].prio \in Prios
      /\ s[2].op = "output" /\ Locked(s[3]) /\ logfilename[s[1].prio] \in Names
  BY RotateHas
<1>2. f \in AnyFrame /\ f.op = "output" /\ f.at = "own" /\ f.line = Note
  <2>1. 0 \in Nat /\ Note \in LineSet
    BY DEF Note, LineSet
  <2>. QED
    BY <1>1, <2>1, NewOutputFrame
<1>3. stack' = [stack EXCEPT ![t] = r]
  OBVIOUS
<1>. HIDE DEF f
<1>4. r \in Seq(AnyFrame) /\ r[1] = f /\ r[2] = g /\ Len(r) >= 2 /\ Parts(s, r, 3, 1)
  <2>1. Pushed(s, r, f, g)
    BY <1>1, <1>2, PushParts
  <2>. QED
    BY <2>1 DEF Pushed
<1>. HIDE DEF r
<1>5. /\ Len(r) = Len(s) + 1 /\ Len(r) \in Nat /\ Len(r) > 3
  BY <1>1, <1>4 DEF Parts
<1>6. r[3] = s[2] /\ r[4] = s[3]
  BY <1>1, <1>4, <1>5 DEF Parts
<1>7. Fits(r, 1) /\ ~Locked(r[1])
  BY <1>2, <1>4, <1>5 DEF Fits, Cold, Locked
<1>8. Fits(r, 2) /\ ~Locked(r[2])
  BY <1>1, <1>4, <1>5, <1>6 DEF Fits, Cold, Locked
<1>9. FrameOK(r[1])' /\ FrameOK(r[2])'
  <2>1. logfilename'[g.prio] # NULL
    BY <1>1, LogFilesAssumption DEF Undisturbed
  <2>2. FrameOK(g)'
    BY <2>1 DEF FrameOK
  <2>3. FrameOK(f)'
    BY <1>2, PlainFrame
  <2>. QED
    BY <1>4, <2>2, <2>3
<1>10. \A i \in 1..Len(r) : i < 3 => i = 1 \/ i = 2
  BY <1>5
<1>11. \A i \in 1..Len(r) : i < 3 => Fits(r, i) /\ FrameOK(r[i])' /\ ~Locked(r[i])
  BY <1>7, <1>8, <1>9, <1>10
<1>12. \A p \in Prios : Shut(s, p) => Shut(r, p)'
  <2>1. ASSUME NEW p, Rotating(r, p)
        PROVE  Rotating(s, p)
    <3>1. CASE p = s[1].prio
      BY <1>1, <3>1 DEF Rotating
    <3>2. CASE p # s[1].prio
      <4>1. \A i \in 1..Len(r) : i < 3 => r[i].op # "checkRotate" \/ r[i].prio # p
        BY <1>2, <1>4, <1>10, <3>2
      <4>. QED
        BY <1>1, <1>4, <2>1, <4>1, RotatingBelow
    <3>. QED
      BY <3>1, <3>2
  <2>2. Rotating(s, s[1].prio)
    BY <1>1 DEF Rotating
  <2>. QED
    BY <2>1, <2>2 DEF Shut, Rotating
<1>13. 3 \in 1..3 /\ 1 \in {-1, 0, 1} /\ 3 - 1 = 2
  OBVIOUS
<1>. QED
  BY <1>3, <1>4, <1>11, <1>12, <1>13, RotateStep, ZenonT(60)

(* checkRotate returns to output.                                          *)
LEMMA RotateReturns ==
  ASSUME LoggerInv, NEW t \in Threads, NEW s, s = stack[t], s # << >>,
         s[1].op = "checkRotate", stack' = [stack EXCEPT ![t] = Tail(s)],
         UNCHANGED <<logff, logfilename, put, debuglevel, handlers, mutex, printed>>
  PROVE  LoggerInv'
<1>. DEFINE r == Tail(s)
<1>1. /\ s \in Seq(AnyFrame) /\ Len(s) \in Nat /\ Len(s) > 2 /\ Shape(s) /\ FilesOK
      /\ s[2].op = "output" /\ Locked(s[3])
  BY RotateHas
<1>2. r \in Seq(AnyFrame) /\ Parts(s, r, 1, -1)
  BY <1>1, PopParts DEF Popped
<1>3. stack' = [stack EXCEPT ![t] = r]
  OBVIOUS
<1>. HIDE DEF r
<1>4. Undisturbed /\ FilesOK' /\ put' = put /\ mutex' = mutex /\ printed' = printed
  BY <1>1, FilesStay DEF Undisturbed
<1>5. \A i \in 1..Len(r) : r[i].op # "checkRotate"
  <2>1. \A i \in 1..Len(r) : r[i] = s[i + 1] /\ (i = 1 \/ i = 2 \/ i + 1 \in 3 + 1..Len(s))
    BY <1>1, <1>2 DEF Parts
  <2>2. 3 \in 1..Len(s)
    BY <1>1
  <2>3. \A j \in 3 + 1..Len(s) : s[j].op # "checkRotate"
    BY <1>1, <2>2, BelowLocked
  <2>4. s[1 + 1].op # "checkRotate" /\ s[2 + 1].op # "checkRotate"
    BY <1>1 DEF Locked
  <2>. QED
    BY <2>1, <2>3, <2>4
<1>6. \A p \in Prios : Shut(s, p) => Shut(r, p)'
  BY <1>5 DEF Shut, Rotating, isOpen
<1>7. /\ Len(r) \in Nat /\ \A i \in 1..Len(r) : ~(i < 1)
      /\ \A i \in 1..Len(r) : i < 1 => Fits(r, i) /\ FrameOK(r[i])' /\ ~Locked(r[i])
  BY <1>2
<1>8. 1 \in 1..3 /\ -1 \in {-1, 0, 1} /\ 1 - (-1) = 2
  OBVIOUS
<1>. QED
  BY <1>2, <1>3, <1>4, <1>5, <1>6, <1>7, <1>8, RotateStep, ZenonT(60)

LEMMA RotateCheckKeepsInv ==
  ASSUME LoggerInv, NEW t \in Threads, NEW s, s = stack[t], RotateCheck(t)
  PROVE  LoggerInv'
<1>. DEFINE p == s[1].prio
            g == [s[1] EXCEPT !.at = "close"]
<1>1. s # << >> /\ s[1].op = "checkRotate" /\ Top(t) = s[1]
  BY Holder DEF RotateCheck, At, Top
<1>2. FilesOK /\ mutex = t /\ s[1] \in AnyFrame
  BY <1>1, RotateHas
<1>3. UNCHANGED <<logff, logfilename, put, debuglevel, handlers>>
  BY DEF RotateCheck, files, config, list
<1>4. CASE Returns(t) /\ UNCHANGED <<inrotate, mutex, history>>
  <2>1. stack' = [stack EXCEPT ![t] = Tail(s)] /\ mutex' = mutex /\ printed' = printed
    BY <1>4 DEF Returns, history
  <2>. QED
    BY <1>1, <1>3, <2>1, RotateReturns
<1>5. CASE inrotate' = TRUE /\ Enters(t, "close", OutputFrame(p, 0, Note))
           /\ UNCHANGED <<mutex, history>>
  <2>1. g \in AnyFrame /\ g.op = "checkRotate" /\ g.prio = s[1].prio /\ g.at = "close"
    <3>1. s[1] \in RotateFrames
      BY <1>1, <1>2, RotateIs
    <3>. QED
      BY <3>1 DEF RotateFrames, AnyFrame
  <2>2. stack' = [stack EXCEPT ![t] = <<OutputFrame(s[1].prio, 0, Note), g>> \o Tail(s)]
    BY <1>1, <1>5 DEF Enters
  <2>. HIDE DEF g
  <2>3. Undisturbed /\ FilesOK' /\ put' = put /\ mutex' = mutex /\ printed' = printed
        /\ \A q \in Prios : ~isOpen(q) /\ q # s[1].prio => ~isOpen(q)'
    BY <1>2, <1>3, <1>5, FilesStay DEF Undisturbed, history, isOpen
  <2>4. g.at # "check" /\ inrotate' = TRUE
    BY <1>5, <2>1
  <2>. QED
    BY <1>1, <2>1, <2>2, <2>3, <2>4, RotateNotes
<1>6. CASE Throws(t)
  BY <1>2, <1>3, <1>6, FilesStay, ThrowsKeepsInv
<1>. QED
  BY <1>1, <1>4, <1>5, <1>6 DEF RotateCheck

LEMMA RotateCloseKeepsInv ==
  ASSUME LoggerInv, NEW t \in Threads, NEW s, s = stack[t], RotateClose(t)
  PROVE  LoggerInv'
<1>. DEFINE g == [s[1] EXCEPT !.at = "shift"]
<1>1. s # << >> /\ s[1].op = "checkRotate" /\ s[1].at = "close" /\ Top(t) = s[1]
  BY Holder DEF RotateClose, At, Top
<1>2. FilesOK /\ mutex = t /\ s[1] \in AnyFrame /\ s[1].prio \in Prios
  BY <1>1, RotateHas
<1>3. /\ logff' = [logff EXCEPT ![s[1].prio] = NULL]
      /\ UNCHANGED <<logfilename, put, debuglevel, handlers, mutex, inrotate, printed>>
      /\ Goes(t, "shift")
  BY <1>1 DEF RotateClose, Close, Unlogged, config, list, history
<1>4. g \in AnyFrame /\ g.op = "checkRotate" /\ g.prio = s[1].prio /\ g.at = "shift"
  <2>1. s[1] \in RotateFrames
    BY <1>1, <1>2, RotateIs
  <2>. QED
    BY <2>1 DEF RotateFrames, AnyFrame
<1>5. stack' = [stack EXCEPT ![t] = <<g>> \o Tail(s)]
  BY <1>1, <1>3 DEF Goes
<1>. HIDE DEF g
<1>6. debuglevel' \in [Prios -> Nat] /\ handlers' \in Seq(Nodes)
  BY <1>2, <1>3 DEF FilesOK
<1>7. FilesOK' /\ \A q \in Prios : isOpen(q)' <=> isOpen(q) /\ q # s[1].prio
  BY <1>2, <1>3, <1>6, CloseKeepsFiles
<1>8. s[1].at # "check" /\ g.at # "check" /\ Undisturbed /\ mutex' = mutex /\ put' = put
      /\ printed' = printed /\ inrotate' = inrotate
      /\ \A q \in Prios : ~isOpen(q) => ~isOpen(q)'
  BY <1>1, <1>3, <1>4, <1>7 DEF Undisturbed
<1>. QED
  BY <1>1, <1>4, <1>5, <1>7, <1>8, RotateGoesOn

LEMMA RotateShiftKeepsInv ==
  ASSUME LoggerInv, NEW t \in Threads, NEW s, s = stack[t], RotateShift(t)
  PROVE  LoggerInv'
<1>. DEFINE at == IF s[1].i > 1 THEN "shift" ELSE "open"
            g == [s[1] EXCEPT !.at = at, !.i = s[1].i - 1]
<1>1. s # << >> /\ s[1].op = "checkRotate" /\ s[1].at = "shift" /\ Top(t) = s[1]
  BY Holder DEF RotateShift, At, Top
<1>2. FilesOK /\ mutex = t /\ s[1] \in AnyFrame /\ s[1].i \in Int
  BY <1>1, RotateHas
<1>3. UNCHANGED <<logff, logfilename, put, debuglevel, handlers, inrotate>>
  BY DEF RotateShift, Shift, Unlink, files, config, list
<1>4. CASE /\ stack' = [stack EXCEPT ![t] = <<g>> \o Tail(s)]
           /\ UNCHANGED <<mutex, faults, history>>
  <2>1. g \in AnyFrame /\ g.op = "checkRotate" /\ g.prio = s[1].prio /\ g.at # "check"
    <3>1. s[1] \in RotateFrames
      BY <1>1, <1>2, RotateIs
    <3>2. s[1].i - 1 \in Int
      BY <1>2
    <3>3. g \in RotateFrames
      BY <3>1, <3>2 DEF RotateFrames
    <3>4. g.at = at /\ g.prio = s[1].prio /\ g.op = "checkRotate"
      BY <1>1, <3>1 DEF RotateFrames
    <3>. QED
      BY <3>3, <3>4 DEF AnyFrame
  <2>. HIDE DEF g
  <2>2. s[1].at # "check" /\ Undisturbed /\ mutex' = mutex /\ put' = put
        /\ printed' = printed /\ inrotate' = inrotate /\ FilesOK'
        /\ \A q \in Prios : ~isOpen(q) => ~isOpen(q)'
    BY <1>1, <1>2, <1>3, <1>4, FilesStay DEF Undisturbed, history, isOpen
  <2>. QED
    BY <1>1, <1>4, <2>1, <2>2, RotateGoesOn
<1>5. CASE Throws(t)
  BY <1>2, <1>3, <1>5, FilesStay, ThrowsKeepsInv
<1>6. CASE Fails(t)
  BY <1>5, <1>6 DEF Fails
<1>. QED
  BY <1>1, <1>4, <1>5, <1>6 DEF RotateShift

LEMMA RotateOpenKeepsInv ==
  ASSUME LoggerInv, NEW t \in Threads, NEW s, s = stack[t], RotateOpen(t)
  PROVE  LoggerInv'
<1>. DEFINE p == s[1].prio
            g == [s[1] EXCEPT !.at = "reset"]
<1>1. s # << >> /\ s[1].op = "checkRotate" /\ s[1].at = "open" /\ Top(t) = s[1]
  BY Holder DEF RotateOpen, At, Top
<1>2. /\ FilesOK /\ mutex = t /\ s[1] \in AnyFrame /\ p \in Prios /\ logfilename[p] \in Names
      /\ inrotate
  BY <1>1, RotateHas
<1>3. UNCHANGED <<debuglevel, handlers, inrotate>>
  BY DEF RotateOpen, config, list
<1>4. CASE /\ Open(p, logfilename[p]) /\ UNCHANGED logfilename
           /\ Enters(t, "reset", OutputFrame(p, 0, Note))
           /\ UNCHANGED <<mutex, faults, history>>
  <2>1. g \in AnyFrame /\ g.op = "checkRotate" /\ g.prio = s[1].prio /\ g.at = "reset"
    <3>1. s[1] \in RotateFrames
      BY <1>1, <1>2, RotateIs
    <3>. QED
      BY <3>1 DEF RotateFrames, AnyFrame
  <2>2. stack' = [stack EXCEPT ![t] = <<OutputFrame(s[1].prio, 0, Note), g>> \o Tail(s)]
    BY <1>1, <1>4 DEF Enters
  <2>. HIDE DEF g
  <2>3. debuglevel' \in [Prios -> Nat] /\ handlers' \in Seq(Nodes)
    BY <1>2, <1>3 DEF FilesOK
  <2>4. FilesOK' /\ put' = put /\ \A q \in Prios \ {p} : isOpen(q) <=> isOpen(q)'
    <3>1. logfilename' = logfilename /\ logfilename[p] # NULL
      BY <1>2, <1>4, LogFilesAssumption
    <3>. HIDE DEF p
    <3>. QED
      BY <1>2, <1>4, <2>3, <3>1, OpenKeepsFiles
  <2>5. Undisturbed /\ mutex' = mutex /\ printed' = printed /\ inrotate' = TRUE
        /\ g.at # "check" /\ \A q \in Prios : ~isOpen(q) /\ q # s[1].prio => ~isOpen(q)'
    <3>1. inrotate' = inrotate /\ inrotate = TRUE
      BY <1>2, <1>3
    <3>. QED
      BY <1>3, <1>4, <2>1, <2>4, <3>1 DEF Undisturbed, history
  <2>. QED
    BY <1>1, <2>1, <2>2, <2>4, <2>5, RotateNotes
<1>5. CASE Fails(t) /\ UNCHANGED files
  BY <1>2, <1>3, <1>5, FilesStay, ThrowsKeepsInv DEF files, Fails
<1>. QED
  BY <1>1, <1>4, <1>5 DEF RotateOpen

LEMMA RotateResetKeepsInv ==
  ASSUME LoggerInv, NEW t \in Threads, NEW s, s = stack[t], RotateReset(t)
  PROVE  LoggerInv'
<1>1. s # << >> /\ s[1].op = "checkRotate"
  BY Holder DEF RotateReset, At, Top
<1>2. /\ UNCHANGED <<logff, logfilename, put, debuglevel, handlers, mutex, printed>>
      /\ stack' = [stack EXCEPT ![t] = Tail(s)]
  BY DEF RotateReset, Returns, files, config, list, history
<1>. QED
  BY <1>1, <1>2, RotateReturns

-----------------------------------------------------------------------------
(* The theorems.                                                           *)

LEMMA InitInv ==
  ASSUME Init
  PROVE  LoggerInv
<1>1. PICK setup \in Setups : logfilename = setup.names /\ handlers = setup.handlers
  BY DEF Init
<1>2. /\ logfilename \in [Prios -> Names \cup {NULL}] /\ handlers \in Seq(Nodes)
  BY <1>1, LoggerAssumption
<1>. DEFINE opened == {p \in Prios : logfilename[p] # NULL}
            notes(n) == IF logfilename[DEBUG] = n THEN Cardinality(opened)
                        ELSE Cardinality({p \in opened : logfilename[p] = n})
            started(n) == [i \in 1..notes(n) |-> Note]
            inode == CHOOSE f \in [Names -> Inodes] : \A a, b \in Names : f[a] = f[b] => a = b
<1>3. /\ put = [n \in Names |-> started(n)]
      /\ logff = [p \in Prios |-> IF p \in opened THEN inode[logfilename[p]] ELSE NULL]
  BY DEF Init
<1>. HIDE DEF inode
<1>4. \A n : notes(n) \in Nat
  <2>1. IsFiniteSet(opened)
    BY LogFilesAssumption, FS_Subset
  <2>2. ASSUME NEW n
        PROVE  IsFiniteSet({p \in opened : logfilename[p] = n})
    BY <2>1, FS_Subset
  <2>. HIDE DEF opened
  <2>. QED
    BY <2>1, <2>2, FS_CardinalityType
<1>5. \A n : started(n) \in Seq(LineSet) /\ Together(started(n))
  <2>. HIDE DEF notes
  <2>1. Note \in LineSet /\ Note[2] = 1
    BY DEF Note, LineSet
  <2>2. \A n : Len(started(n)) = notes(n) /\ started(n) \in Seq(LineSet)
               /\ \A i \in 1..notes(n) : started(n)[i] = Note
    BY <1>4, <2>1
  <2>. HIDE DEF started
  <2>. QED
    BY <2>1, <2>2 DEF Together
<1>6. FilesOK
  <2>. HIDE DEF started, notes
  <2>1. put \in [Names -> Seq(LineSet)] /\ \A n \in Names : Together(put[n])
    BY <1>3, <1>5
  <2>2. debuglevel \in [Prios -> Nat]
    BY DEF Init
  <2>3. logff = [p \in Prios |-> logff[p]] /\ \A p \in Prios : isOpen(p) => logfilename[p] # NULL
    BY <1>3 DEF isOpen
  <2>. QED
    BY <1>2, <2>1, <2>2, <2>3 DEF FilesOK
<1>7. /\ mutex = NULL /\ printed = 0 /\ stack = [t \in Threads |-> << >>]
  BY DEF Init
<1>8. StateOK /\ stack \in [Threads -> Seq(AnyFrame)]
  BY <1>6, <1>7, EmptySeq DEF StateOK
<1>9. \A t \in Threads : Shape(stack[t]) /\ Holding(t)
  BY <1>7 DEF Shape, Holding
<1>. QED
  BY <1>7, <1>8, <1>9 DEF LoggerInv

LEMMA StepKeepsInv ==
  ASSUME LoggerInv, NEW t \in Threads, Step(t)
  PROVE  LoggerInv'
<1>1. PICK s : s = stack[t]
  OBVIOUS
<1>2. CASE setLogfile(t)
  BY <1>2, SetLogfileKeepsInv
<1>3. CASE setLogLevel(t)
  BY <1>3, SetLogLevelKeepsInv
<1>4. CASE setLogRotate(t) \/ addLogHandler(t) \/ deleteLogHandler(t) \/ TerminateFree(t)
  BY <1>4, OneStepKeepsInv
<1>5. CASE TerminateClose(t)
  BY <1>5, TerminateCloseKeepsInv
<1>6. CASE PrintLock(t)
  BY <1>1, <1>6, PrintLockKeepsInv
<1>7. CASE PrintDeadlock(t)
  BY <1>7, PrintDeadlockKeepsInv
<1>8. CASE PrintNext(t)
  BY <1>1, <1>8, PrintNextKeepsInv
<1>9. CASE PrintUnlock(t)
  BY <1>1, <1>9, PrintUnlockKeepsInv
<1>10. CASE Return(t)
  BY <1>10, ReturnedKeepsInv
<1>11. CASE OutputOwn(t)
  BY <1>1, <1>11, OutputOwnKeepsInv
<1>12. CASE OutputWrite(t)
  BY <1>1, <1>12, OutputWriteKeepsInv
<1>13. CASE OutputDebug(t)
  BY <1>1, <1>13, OutputDebugKeepsInv
<1>14. CASE OutputWriteDebug(t)
  BY <1>1, <1>14, OutputWriteDebugKeepsInv
<1>15. CASE OutputFirst(t)
  BY <1>1, <1>15, OutputFirstKeepsInv
<1>16. CASE OutputHandlers(t)
  BY <1>1, <1>16, OutputHandlersKeepsInv
<1>17. CASE RotateCheck(t)
  BY <1>1, <1>17, RotateCheckKeepsInv
<1>18. CASE RotateClose(t)
  BY <1>1, <1>18, RotateCloseKeepsInv
<1>19. CASE RotateShift(t)
  BY <1>1, <1>19, RotateShiftKeepsInv
<1>20. CASE RotateOpen(t)
  BY <1>1, <1>20, RotateOpenKeepsInv
<1>21. CASE RotateReset(t)
  BY <1>1, <1>21, RotateResetKeepsInv
<1>. QED
  BY <1>2, <1>3, <1>4, <1>5, <1>6, <1>7, <1>8, <1>9, <1>10, <1>11, <1>12, <1>13, <1>14, <1>15,
     <1>16, <1>17, <1>18, <1>19, <1>20, <1>21 DEF Step

LEMMA StutterKeepsInv ==
  ASSUME LoggerInv, UNCHANGED vars
  PROVE  LoggerInv'
<1>1. UNCHANGED <<logff, logfilename, put, debuglevel, handlers, mutex, inrotate, printed,
                  terminated, stack>>
  BY DEF vars, files, config, list, history
<1>2. StateOK' /\ stack' \in [Threads -> Seq(AnyFrame)]
  BY <1>1, FilesStay DEF LoggerInv, StateOK
<1>3. \A t \in Threads : Shape(stack[t])' /\ Holding(t)'
  BY <1>1 DEF LoggerInv, Holding
<1>4. ASSUME mutex' # NULL, NEW s \in {stack'[mutex']}
      PROVE  Work(s)'
  <2>1. Work(s) /\ stack[mutex] \in Seq(AnyFrame)
    BY <1>1, <1>4 DEF LoggerInv, StateOK
  <2>2. \A i \in 1..Len(s) : s[i] \in AnyFrame
    BY <1>1, <1>4, <2>1
  <2>3. Undisturbed /\ put' = put /\ inrotate' = inrotate /\ (terminated => terminated')
        /\ (\A p \in Prios : ~isOpen(p) => ~isOpen(p)')
        /\ (\A p \in Prios : isOpen(p) => isOpen(p)' \/ terminated')
    BY <1>1 DEF Undisturbed, isOpen
  <2>. QED
    BY <2>1, <2>2, <2>3, WorkStays
<1>. QED
  BY <1>2, <1>3, <1>4 DEF LoggerInv

(* The inductive invariant: which function may be called from which, that  *)
(* only the thread with the mutex is inside output() or checkRotate, and   *)
(* what that thread has looked at and relies on.                           *)
THEOREM LoggerInvariant == Spec => []LoggerInv
<1>1. Init => LoggerInv
  BY InitInv
<1>2. LoggerInv /\ [Next]_vars => LoggerInv'
  <2>1. ASSUME LoggerInv, Next
        PROVE  LoggerInv'
    <3>1. PICK t \in Threads : CallAny(t) \/ Step(t)
      BY <2>1 DEF Next
    <3>. QED
      BY <2>1, <3>1, CallKeepsInv, StepKeepsInv
  <2>. QED
    BY <2>1, StutterKeepsInv
<1>. QED
  BY <1>1, <1>2, PTL DEF Spec

(* The file output() found open is open when it writes to it, unless       *)
(* terminate closed it, and the handler it goes on with is still in the    *)
(* list, for any number of threads that set, add and delete meanwhile.     *)
THEOREM OutputUndisturbedHolds == Spec => []OutputUndisturbed
<1>1. LoggerInv => OutputUndisturbed
  <2>. SUFFICES ASSUME LoggerInv, NEW t \in Threads, NEW at \in {"write", "handlers"},
                       At(t, "output", at)
                PROVE  /\ at = "write" => isOpen(Top(t).prio) \/ terminated
                       /\ at = "handlers" => Top(t).node \in ToSet(handlers)
    BY DEF OutputUndisturbed
  <2>1. PICK s : s = stack[t]
    OBVIOUS
  <2>2. /\ s # << >> /\ s[1].op = "output" /\ s[1].at = at /\ Top(t) = s[1]
        /\ Work(s) /\ Len(s) \in Nat /\ Len(s) >= 1
    BY <2>1, Holder DEF At, Top, Holds
  <2>3. FrameOK(s[1])
    BY <2>2 DEF Work
  <2>. QED
    BY <2>2, <2>3 DEF FrameOK
<1>. QED
  BY <1>1, LoggerInvariant, PTL

(* The lines of one printArray or hexDump follow each other in a file,     *)
(* whatever other threads print, set or close, and wherever a handler or a *)
(* file operation fails.                                                   *)
THEOREM BlocksStayTogetherHolds == Spec => []BlocksStayTogether
<1>1. LoggerInv => BlocksStayTogether
  <2>. SUFFICES ASSUME LoggerInv, NEW n \in Names, NEW i \in DOMAIN put[n], put[n][i][2] = 2
                PROVE  \E j \in 1..i - 1 :
                         /\ put[n][j] = <<put[n][i][1], 1>>
                         /\ \A k \in j + 1..i - 1 : put[n][k] \in {Note, put[n][i]}
    BY DEF BlocksStayTogether
  <2>1. put[n] \in Seq(LineSet) /\ Together(put[n])
    BY DEF LoggerInv, StateOK, FilesOK
  <2>2. i \in 1..Len(put[n])
    BY <2>1
  <2>. QED
    BY <2>1, <2>2 DEF Together
<1>. QED
  BY <1>1, LoggerInvariant, PTL

-----------------------------------------------------------------------------
(* The files of a name: slot 0 is the file itself, slot g its generation g. *)
(* While checkRotate is in its loop one slot is empty, which goes from the *)
(* last to the first; but for it the slots are filled from 0 on.           *)

(* n has never belonged to two priorities.                                 *)
Alone(n) == \A p, q \in users[n] : p = q

Slots == 0..Generations
Bytes(d, c, g) == IF d[g] = NULL THEN <<>> ELSE c[d[g]]

EndsWith(q, s) ==
  /\ q \in Seq(LineSet) /\ s \in Seq(LineSet) /\ Len(s) <= Len(q)
  /\ \A i \in 1..Len(s) : s[i] = q[i + (Len(q) - Len(s))]

(* The slot behind g, when there is nothing in slot k.                     *)
Younger(g, k) == IF g - 1 = k THEN g - 2 ELSE g - 1

(* The generations of d are the first ones, but for slot k; and when lines *)
(* are lost they are all there.                                            *)
Chain(d, k) ==
  /\ k < Generations => d[k] = NULL
  /\ \A g \in 1..Generations : d[g] # NULL => Younger(g, k) < 0 \/ d[Younger(g, k)] # NULL
Complete(d, k) == \A g \in 1..Generations : d[g] = NULL => g = k /\ k < Generations
Ordered(n, k) == Chain(dir[n], k) /\ (OnDisk(n) = put[n] \/ Complete(dir[n], k))

Hole(f, n) ==
  IF logfilename[f.prio] = n /\ f.at \in {"shift", "open"} THEN f.i ELSE Generations
RotateOK(f) ==
  /\ f.i \in Slots
  /\ f.at \in {"check", "close"} => f.i = Generations
  /\ f.at = "shift" => f.i > 0
  /\ f.at \in {"open", "reset"} => f.i = 0
  /\ f.at \in {"shift", "open"} => ~isOpen(f.prio)
  /\ \A n \in Names : Alone(n) =>
       /\ Ordered(n, Hole(f, n))
       /\ logfilename[f.prio] = n =>
            /\ f.prio \in users[n]
            /\ f.at \in {"close", "shift"} /\ dir[n][0] # NULL => Len(content[dir[n][0]]) > Maxsize

DiskTypes ==
  /\ dir \in [Names -> [Slots -> Inodes \cup {NULL}]]
  /\ content \in [Inodes -> Seq(LineSet)]
  /\ logff \in [Prios -> Inodes \cup {NULL}]
  /\ users \in [Names -> SUBSET Prios]

(* No two names are names of the same file.                                *)
Distinct ==
  \A n, m \in Names : \A g, h \in Slots :
    dir[n][g] = dir[m][h] /\ dir[n][g] # NULL => n = m /\ g = h

(* A file that is open has no name but that it was opened with.            *)
Owned ==
  \A p \in Prios : isOpen(p) =>
    /\ p \in users[logfilename[p]]
    /\ \A n \in Names, g \in Slots : dir[n][g] = logff[p] => logfilename[p] = n
    /\ Alone(logfilename[p]) => logff[p] = dir[logfilename[p]][0]

Kept ==
  \A n \in Names : Alone(n) =>
    /\ EndsWith(put[n], OnDisk(n))
    /\ \A g \in 1..Generations : dir[n][g] # NULL => Len(content[dir[n][g]]) > Maxsize

DiskOK == DiskTypes /\ Distinct /\ Owned /\ Kept

(* Out of rotation the generations are in order.                           *)
Settled == ~inrotate => \A n \in Names : Alone(n) => Ordered(n, Generations)
RotatesOK ==
  \A t \in Threads : \A i \in 1..Len(stack[t]) :
    stack[t][i].op = "checkRotate" => RotateOK(stack[t][i])

DiskInv == DiskOK /\ inrotate \in BOOLEAN /\ Settled /\ RotatesOK

-----------------------------------------------------------------------------
(* Numbers, and sequences of lines one behind the other.                   *)

LEMMA LeastNumber ==
  ASSUME NEW T \in SUBSET Nat, T # {}
  PROVE  \E x \in T : \A y \in T : x <= y
<1>1. PICK x \in T : \A y \in T : ~ (<<y, x>> \in OpToRel(<, Nat))
  BY NatLessThanWellFounded, WFMin
<1>2. \A y \in T : ~ (y < x)
  BY <1>1 DEF OpToRel
<1> QED
  BY <1>2

(* A set of numbers that has 1, and with each the next, has all up to n.   *)
LEMMA Upwards ==
  ASSUME NEW n \in Nat, NEW T, 1 \in T, \A i \in 1..n : i \in T /\ i + 1 <= n => i + 1 \in T
  PROVE  \A i \in 1..n : i \in T
<1> SUFFICES ASSUME NEW i0 \in 1..n, i0 \notin T PROVE FALSE
  OBVIOUS
<1>1. PICK U : U = {i \in 1..n : i \notin T}
  OBVIOUS
<1>2. U \in SUBSET Nat /\ i0 \in U
  BY <1>1
<1>3. PICK x \in U : \A y \in U : x <= y
  BY <1>2, LeastNumber
<1>4. x \in 1..n /\ x \notin T /\ x # 1
  BY <1>1, <1>3
<1>5. x - 1 \in 1..n /\ ~(x <= x - 1)
  BY <1>4
<1>6. x - 1 \in T
  BY <1>1, <1>3, <1>5
<1>7. (x - 1) + 1 = x
  BY <1>4
<1> QED
  BY <1>4, <1>5, <1>6, <1>7

Texts(ss) == ss \in Seq(Seq(LineSet)) /\ Len(ss) >= 1

(* h[i] is the first i sequences of ss behind each other.                  *)
Flat(h, ss) ==
  /\ h \in [1..Len(ss) -> Seq(LineSet)]
  /\ h[1] = ss[1]
  /\ \A i \in 1..Len(ss) : i > 1 => h[i] = h[i - 1] \o ss[i]

(* It exists.                                                              *)
PartFlat(h, ss, n) ==
  /\ h \in [1..n -> Seq(LineSet)]
  /\ h[1] = ss[1]
  /\ \A i \in 1..n : i > 1 => h[i] = h[i - 1] \o ss[i]

(* FlattenSeq adds one sequence after the other.                           *)
LEMMA FlatExists ==
  ASSUME NEW ss, Texts(ss)
  PROVE  \E h : Flat(h, ss)
<1>1. PICK N \in Nat : N = Len(ss) /\ N >= 1
  BY DEF Texts
<1>2. \A i \in 1..N : ss[i] \in Seq(LineSet)
  BY <1>1 DEF Texts
<1>3. PICK T : T = {n \in 1..N : \E h : PartFlat(h, ss, n)}
  OBVIOUS
<1>4. 1 \in T
  <2>1. PartFlat([i \in 1..1 |-> ss[1]], ss, 1)
    BY <1>1, <1>2 DEF PartFlat
  <2> QED
    BY <1>1, <1>3, <2>1
<1>5. ASSUME NEW n \in 1..N, n \in T, n + 1 <= N
      PROVE  n + 1 \in T
  <2>1. PICK h : PartFlat(h, ss, n)
    BY <1>3, <1>5
  <2>2. PICK x : x = h[n] \o ss[n + 1]
    OBVIOUS
  <2>3. h[n] \in Seq(LineSet) /\ ss[n + 1] \in Seq(LineSet) /\ x \in Seq(LineSet)
    <3>1. h \in [1..n -> Seq(LineSet)] /\ n \in 1..n /\ n + 1 \in 1..N
      BY <1>5, <2>1 DEF PartFlat
    <3> QED
      BY <1>2, <2>2, <3>1
  <2>4. PICK k : k = [i \in 1..n + 1 |-> IF i <= n THEN h[i] ELSE x]
    OBVIOUS
  <2>5. \A i \in 1..n : k[i] = h[i] /\ h[i] \in Seq(LineSet)
    BY <1>5, <2>1, <2>4 DEF PartFlat
  <2>6. k[n + 1] = x
    BY <1>5, <2>4
  <2>7. k \in [1..n + 1 -> Seq(LineSet)]
    <3>1. \A i \in 1..n + 1 : i \in 1..n \/ i = n + 1
      BY <1>5
    <3>2. \A i \in 1..n + 1 : k[i] \in Seq(LineSet)
      BY <2>3, <2>5, <2>6, <3>1
    <3>3. k = [i \in 1..n + 1 |-> k[i]]
      BY <2>4
    <3> QED
      BY <3>2, <3>3
  <2>8. k[1] = ss[1]
    BY <1>5, <2>1, <2>5 DEF PartFlat
  <2>9. ASSUME NEW i \in 1..n + 1, i > 1 PROVE k[i] = k[i - 1] \o ss[i]
    <3>1. CASE i <= n
      <4>1. i \in 1..n /\ i - 1 \in 1..n
        BY <1>5, <2>9, <3>1
      <4>2. h[i] = h[i - 1] \o ss[i]
        BY <2>1, <2>9, <4>1 DEF PartFlat
      <4> QED
        BY <2>5, <4>1, <4>2
    <3>2. CASE i = n + 1
      <4>1. i - 1 = n /\ n \in 1..n
        BY <1>5, <3>2
      <4> QED
        BY <2>2, <2>5, <2>6, <3>2, <4>1
    <3>3. i <= n \/ i = n + 1
      BY <1>5
    <3> QED
      BY <3>1, <3>2, <3>3, Zenon
  <2>10. PartFlat(k, ss, n + 1)
    BY <2>7, <2>8, <2>9 DEF PartFlat
  <2>11. n + 1 \in 1..N
    BY <1>5
  <2> QED
    BY <1>3, <2>10, <2>11
<1>6. N \in T
  <2>1. \A i \in 1..N : i \in T
    BY <1>4, <1>5, Upwards
  <2> QED
    BY <1>1, <2>1
<1> QED
  BY <1>1, <1>3, <1>6 DEF PartFlat, Flat

LEMMA FlattenIs ==
  ASSUME NEW ss, Texts(ss)
  PROVE  \E h : Flat(h, ss) /\ FlattenSeq(ss) = h[Len(ss)]
<1>1. PICK N \in Nat : N = Len(ss) /\ N >= 1
  BY DEF Texts
<1>2. PICK h0 : Flat(h0, ss)
  BY FlatExists
<1>3. PICK h : h = CHOOSE f : f = [i \in 1..Len(ss) |-> IF i = 1 THEN ss[i] ELSE f[i - 1] \o ss[i]]
  OBVIOUS
<1>4. h0 = [i \in 1..Len(ss) |-> IF i = 1 THEN ss[i] ELSE h0[i - 1] \o ss[i]]
  <2>1. DOMAIN h0 = 1..Len(ss) /\ h0 = [i \in 1..Len(ss) |-> h0[i]]
    BY <1>2 DEF Flat
  <2>2. \A i \in 1..Len(ss) : h0[i] = IF i = 1 THEN ss[i] ELSE h0[i - 1] \o ss[i]
    <3>1. \A i \in 1..N : i = 1 \/ i > 1
      OBVIOUS
    <3> QED
      BY <1>1, <1>2, <3>1 DEF Flat
  <2> QED
    BY <2>1, <2>2
<1>5. h = [i \in 1..Len(ss) |-> IF i = 1 THEN ss[i] ELSE h[i - 1] \o ss[i]]
  BY <1>3, <1>4
<1>6. /\ h[1] = ss[1]
      /\ \A i \in 1..N : i > 1 => h[i] = h[i - 1] \o ss[i]
  <2>1. PICK e : e = [i \in 1..N |-> IF i = 1 THEN ss[i] ELSE h[i - 1] \o ss[i]]
    OBVIOUS
  <2>2. /\ e[1] = ss[1]
        /\ \A i \in 1..N : i > 1 => e[i] = h[i - 1] \o ss[i]
    <3>1. 1 \in 1..N /\ \A i \in 1..N : i > 1 => i # 1
      BY <1>1
    <3> QED
      BY <2>1, <3>1
  <2>3. h = e
    BY <1>1, <1>5, <2>1
  <2> QED
    BY <2>2, <2>3
<1>7. \A i \in 1..N : ss[i] \in Seq(LineSet)
  BY <1>1 DEF Texts
<1>8. \A i \in 1..N : h[i] \in Seq(LineSet)
  <2>1. PICK T : T = {i \in 1..N : h[i] \in Seq(LineSet)}
    OBVIOUS
  <2>2. 1 \in T
    BY <1>1, <1>6, <1>7, <2>1
  <2>3. ASSUME NEW i \in 1..N, i \in T, i + 1 <= N PROVE i + 1 \in T
    <3>1. i + 1 \in 1..N /\ i + 1 > 1 /\ (i + 1) - 1 = i
      BY <2>3
    <3>2. h[i + 1] = h[i] \o ss[i + 1]
      BY <1>6, <3>1
    <3>3. h[i] \in Seq(LineSet) /\ ss[i + 1] \in Seq(LineSet)
      BY <1>7, <2>1, <2>3, <3>1
    <3>4. h[i + 1] \in Seq(LineSet)
      BY <3>2, <3>3
    <3> QED
      BY <2>1, <3>1, <3>4
  <2>4. \A i \in 1..N : i \in T
    BY <2>2, <2>3, Upwards
  <2> QED
    BY <2>1, <2>4
<1>9. h \in [1..N -> Seq(LineSet)]
  <2>1. PICK y : y = h
    OBVIOUS
  <2>2. h = [i \in 1..N |-> h[i]]
    <3>1. DOMAIN h = 1..N
      BY <1>1, <1>5
    <3>2. PICK e : e = [i \in 1..N |-> IF i = 1 THEN ss[i] ELSE h[i - 1] \o ss[i]]
      OBVIOUS
    <3>3. h = e
      BY <1>1, <1>5, <3>2
    <3>4. e = [i \in 1..N |-> e[i]]
      BY <3>2
    <3> QED
      BY <3>3, <3>4
  <2> QED
    BY <1>8, <2>2
<1>10. Flat(h, ss)
  BY <1>1, <1>6, <1>9 DEF Flat
<1>11. FlattenSeq(ss) = h[Len(ss)]
  BY <1>1, <1>3 DEF FlattenSeq
<1> QED
  BY <1>10, <1>11

(* A set of slots that has the last, and with each the one before, has all.*)
LEMMA Downwards ==
  ASSUME NEW T, Generations \in T,
         \A g \in 0..Generations - 1 : g + 1 \in T => g \in T
  PROVE  \A g \in Slots : g \in T
<1>1. PICK G \in Nat : G = Generations /\ G > 1
  BY LogFilesAssumption
<1>2. PICK U : U = {i \in 1..G + 1 : G + 1 - i \in T}
  OBVIOUS
<1>3. 1 \in U
  <2>1. 1 \in 1..G + 1 /\ G + 1 - 1 = G
    BY <1>1
  <2> QED
    BY <1>1, <1>2, <2>1
<1>4. ASSUME NEW i \in 1..G + 1, i \in U, i + 1 <= G + 1
      PROVE  i + 1 \in U
  <2>1. PICK g \in Nat : g = G - i /\ g \in 0..G - 1 /\ g + 1 = G + 1 - i /\ g = G + 1 - (i + 1)
    BY <1>1, <1>4
  <2>2. g + 1 \in T
    BY <1>2, <1>4, <2>1
  <2>3. g \in T
    BY <1>1, <2>1, <2>2
  <2>4. i + 1 \in 1..G + 1
    BY <1>4
  <2> QED
    BY <1>2, <2>1, <2>3, <2>4
<1>5. \A i \in 1..G + 1 : i \in U
  <2>1. G + 1 \in Nat
    OBVIOUS
  <2> QED
    BY <1>3, <1>4, <2>1, Upwards
<1> SUFFICES ASSUME NEW g \in 0..G PROVE g \in T
  BY <1>1 DEF Slots
<1>6. G + 1 - g \in 1..G + 1 /\ G + 1 - (G + 1 - g) = g
  BY <1>1
<1> QED
  BY <1>2, <1>5, <1>6

-----------------------------------------------------------------------------
(* The lines of one name, for a directory d and contents c.                *)
DirSet == [Slots -> Inodes \cup {NULL}]
ContentSet == [Inodes -> Seq(LineSet)]
Text(d, c) == [k \in 1..Generations + 1 |-> Bytes(d, c, Generations + 1 - k)]
Left(d, c) == FlattenSeq(Text(d, c))

(* h[g]: the lines of the generations down to g.                           *)
Down(h, d, c) ==
  /\ h \in [Slots -> Seq(LineSet)]
  /\ h[Generations] = Bytes(d, c, Generations)
  /\ \A g \in 0..Generations - 1 : h[g] = h[g + 1] \o Bytes(d, c, g)

(* OnDisk(n), now and after a step.                                        *)
LEMMA OnDiskIsLeft ==
  \A n : OnDisk(n) = Left(dir[n], content)
BY DEF OnDisk, Lines, Left, Text, Bytes

LEMMA OnDiskIsLeftNext ==
  \A n : OnDisk(n)' = Left(dir'[n], content')
BY DEF OnDisk, Lines, Left, Text, Bytes

LEMMA BytesType ==
  ASSUME NEW d \in DirSet, NEW c \in ContentSet
  PROVE  \A g \in Slots : Bytes(d, c, g) \in Seq(LineSet)
<1>1. << >> \in Seq(LineSet)
  OBVIOUS
<1> SUFFICES ASSUME NEW g \in Slots PROVE Bytes(d, c, g) \in Seq(LineSet)
  OBVIOUS
<1>2. d[g] \in Inodes \cup {NULL}
  BY DEF DirSet
<1>3. d[g] # NULL => c[d[g]] \in Seq(LineSet)
  BY <1>2 DEF ContentSet
<1> QED
  BY <1>1, <1>3 DEF Bytes

(* The lines of a name come generation after generation.                   *)
LEMMA LeftIs ==
  ASSUME NEW d \in DirSet, NEW c \in ContentSet
  PROVE  \E h : Down(h, d, c) /\ Left(d, c) = h[0]
<1>1. PICK G \in Nat : G = Generations /\ G > 1
  BY LogFilesAssumption
<1>2. PICK ss : ss = Text(d, c)
  OBVIOUS
<1>3. ss = [k \in 1..G + 1 |-> Bytes(d, c, G + 1 - k)]
  BY <1>1, <1>2 DEF Text
<1>4. \A k \in 1..G + 1 : Bytes(d, c, G + 1 - k) \in Seq(LineSet)
  <2>1. \A k \in 1..G + 1 : G + 1 - k \in 0..G
    OBVIOUS
  <2> QED
    BY <1>1, <2>1, BytesType DEF Slots
<1>5. ss \in Seq(Seq(LineSet)) /\ Len(ss) = G + 1
  <2>1. ss \in [1..G + 1 -> Seq(LineSet)]
    BY <1>3, <1>4
  <2>2. G + 1 \in Nat
    OBVIOUS
  <2>3. ss \in Seq(Seq(LineSet))
    BY <2>1, <2>2, SeqDef
  <2> QED
    BY <2>1, <2>2, <2>3, LenProperties
<1>6. PICK f : Flat(f, ss) /\ FlattenSeq(ss) = f[Len(ss)]
  <2>1. Texts(ss)
    BY <1>5 DEF Texts
  <2> QED
    BY <2>1, FlattenIs
<1>7. /\ f \in [1..G + 1 -> Seq(LineSet)] /\ f[1] = ss[1]
      /\ \A i \in 1..G + 1 : i > 1 => f[i] = f[i - 1] \o ss[i]
  BY <1>5, <1>6 DEF Flat
<1>8. PICK h : h = [g \in 0..G |-> f[G + 1 - g]]
  OBVIOUS
<1>9. h \in [Slots -> Seq(LineSet)]
  <2>1. \A g \in 0..G : G + 1 - g \in 1..G + 1
    OBVIOUS
  <2> QED
    BY <1>1, <1>7, <1>8, <2>1 DEF Slots
<1>10. h[G] = Bytes(d, c, G)
  <2>1. G \in 0..G /\ G + 1 - G = 1 /\ 1 \in 1..G + 1 /\ G + 1 - 1 = G
    OBVIOUS
  <2> QED
    BY <1>3, <1>7, <1>8, <2>1
<1>11. ASSUME NEW g \in 0..G - 1 PROVE h[g] = h[g + 1] \o Bytes(d, c, g)
  <2>1. PICK i \in Nat : i = G + 1 - g
    OBVIOUS
  <2>2. i \in 1..G + 1 /\ i > 1 /\ i - 1 = G + 1 - (g + 1) /\ G + 1 - i = g
    BY <2>1
  <2>3. g \in 0..G /\ g + 1 \in 0..G
    OBVIOUS
  <2>4. f[i] = f[i - 1] \o ss[i]
    BY <1>7, <2>2
  <2>5. ss[i] = Bytes(d, c, g)
    BY <1>3, <2>2
  <2>6. h[g] = f[i] /\ h[g + 1] = f[i - 1]
    BY <1>8, <2>1, <2>2, <2>3
  <2> QED
    BY <2>4, <2>5, <2>6
<1>12. h[0] = f[Len(ss)]
  <2>1. 0 \in 0..G /\ G + 1 - 0 = G + 1
    OBVIOUS
  <2> QED
    BY <1>5, <1>8, <2>1
<1>13. Down(h, d, c)
  BY <1>1, <1>9, <1>10, <1>11 DEF Down
<1> QED
  BY <1>2, <1>6, <1>12, <1>13 DEF Left

LEMMA LeftType ==
  ASSUME NEW d \in DirSet, NEW c \in ContentSet
  PROVE  Left(d, c) \in Seq(LineSet)
<1>1. PICK h : Down(h, d, c) /\ Left(d, c) = h[0]
  BY LeftIs
<1>2. 0 \in Slots
  BY LogFilesAssumption DEF Slots
<1> QED
  BY <1>1, <1>2 DEF Down

(* What has the same lines in every slot has the same lines.               *)
LEMMA LeftSame ==
  ASSUME NEW d, NEW c, NEW e, NEW b, \A g \in Slots : Bytes(e, b, g) = Bytes(d, c, g)
  PROVE  Left(e, b) = Left(d, c)
<1>1. \A k \in 1..Generations + 1 : Generations + 1 - k \in Slots
  BY LogFilesAssumption DEF Slots
<1>2. \A k \in 1..Generations + 1 :
        Bytes(e, b, Generations + 1 - k) = Bytes(d, c, Generations + 1 - k)
  BY <1>1
<1>3. Text(e, b) = Text(d, c)
  BY <1>2 DEF Text
<1> QED
  BY <1>3 DEF Left

(* Sequences of lines behind each other.                                   *)
LEMMA LinesJoin ==
  ASSUME NEW p \in Seq(LineSet), NEW q \in Seq(LineSet), NEW r \in Seq(LineSet)
  PROVE  /\ p \o q \in Seq(LineSet) /\ p \o << >> = p /\ << >> \o p = p
         /\ p \o (q \o r) = (p \o q) \o r
BY ConcatProperties, ConcatEmptySeq, ConcatAssociative

LEMMA JoinAppend ==
  ASSUME NEW p \in Seq(LineSet), NEW q \in Seq(LineSet), NEW line \in LineSet
  PROVE  p \o Append(q, line) = Append(p \o q, line)
BY ConcatProperties, AppendProperties

(* A line is put to the file itself.                                       *)
LEMMA LeftAppend ==
  ASSUME NEW d \in DirSet, NEW c \in ContentSet, NEW b \in ContentSet, NEW line \in LineSet,
         Bytes(d, b, 0) = Append(Bytes(d, c, 0), line),
         \A g \in 1..Generations : Bytes(d, b, g) = Bytes(d, c, g)
  PROVE  Left(d, b) = Append(Left(d, c), line)
<1>1. PICK h : Down(h, d, c) /\ Left(d, c) = h[0]
  BY LeftIs
<1>2. PICK k : Down(k, d, b) /\ Left(d, b) = k[0]
  BY LeftIs
<1>3. PICK T : T = {g \in Slots : g # 0 => k[g] = h[g]}
  OBVIOUS
<1>4. Generations \in T
  BY <1>1, <1>2, <1>3, LogFilesAssumption DEF Down, Slots
<1>5. ASSUME NEW g \in 0..Generations - 1, g + 1 \in T PROVE g \in T
  <2>1. g \in Slots /\ g + 1 # 0 /\ (g # 0 => g \in 1..Generations)
    BY LogFilesAssumption DEF Slots
  <2>2. k[g + 1] = h[g + 1]
    BY <1>3, <1>5, <2>1
  <2>3. h[g] = h[g + 1] \o Bytes(d, c, g) /\ k[g] = k[g + 1] \o Bytes(d, b, g)
    BY <1>1, <1>2 DEF Down
  <2>4. g # 0 => k[g] = h[g]
    BY <2>1, <2>2, <2>3
  <2> QED
    BY <1>3, <2>1, <2>4
<1>6. \A g \in Slots : g \in T
  BY <1>4, <1>5, Downwards
<1>7. 1 \in Slots /\ 0 \in Slots /\ 0 \in 0..Generations - 1 /\ 0 + 1 = 1
  BY LogFilesAssumption DEF Slots
<1>8. k[1] = h[1] /\ h[1] \in Seq(LineSet)
  BY <1>1, <1>3, <1>6, <1>7 DEF Down
<1>9. h[0] = h[1] \o Bytes(d, c, 0) /\ k[0] = k[1] \o Bytes(d, b, 0)
  BY <1>1, <1>2, <1>7 DEF Down
<1>10. Bytes(d, c, 0) \in Seq(LineSet)
  BY <1>7, BytesType
<1>11. PICK x \in Seq(LineSet) : x = Bytes(d, c, 0)
  BY <1>10
<1>12. h[1] \o Append(x, line) = Append(h[1] \o x, line)
  BY <1>8, JoinAppend
<1> QED
  BY <1>1, <1>2, <1>8, <1>9, <1>11, <1>12

(* Only the file itself has lines.                                         *)
LEMMA LeftOnly ==
  ASSUME NEW d \in DirSet, NEW c \in ContentSet,
         \A g \in 1..Generations : Bytes(d, c, g) = << >>
  PROVE  Left(d, c) = Bytes(d, c, 0)
<1>1. PICK h : Down(h, d, c) /\ Left(d, c) = h[0]
  BY LeftIs
<1>2. PICK T : T = {g \in Slots : g # 0 => h[g] = << >>}
  OBVIOUS
<1>3. Generations \in T
  BY <1>1, <1>2, LogFilesAssumption DEF Down, Slots
<1>4. ASSUME NEW g \in 0..Generations - 1, g + 1 \in T PROVE g \in T
  <2>1. g \in Slots /\ g + 1 # 0 /\ (g # 0 => g \in 1..Generations)
    BY LogFilesAssumption DEF Slots
  <2>2. h[g + 1] = << >>
    BY <1>2, <1>4, <2>1
  <2>3. h[g] = h[g + 1] \o Bytes(d, c, g)
    BY <1>1 DEF Down
  <2>4. g # 0 => h[g] = << >> \o << >>
    BY <2>1, <2>2, <2>3
  <2>5. << >> \o << >> = << >>
    OBVIOUS
  <2> QED
    BY <1>2, <2>1, <2>4, <2>5
<1>5. \A g \in Slots : g \in T
  BY <1>3, <1>4, Downwards
<1>6. 1 \in Slots /\ 0 \in Slots /\ 0 \in 0..Generations - 1 /\ 0 + 1 = 1
  BY LogFilesAssumption DEF Slots
<1>7. h[1] = << >>
  BY <1>2, <1>5, <1>6
<1>8. h[0] = h[1] \o Bytes(d, c, 0)
  BY <1>1, <1>6 DEF Down
<1>9. Bytes(d, c, 0) \in Seq(LineSet)
  BY <1>6, BytesType
<1> QED
  BY <1>1, <1>7, <1>8, <1>9, LinesJoin

(* The oldest generation is removed.                                       *)
LEMMA LeftDrop ==
  ASSUME NEW d \in DirSet, NEW e \in DirSet, NEW c \in ContentSet,
         Bytes(e, c, Generations) = << >>,
         \A g \in 0..Generations - 1 : Bytes(e, c, g) = Bytes(d, c, g)
  PROVE  \E w \in Seq(LineSet) : Left(d, c) = w \o Left(e, c)
<1>1. PICK h : Down(h, d, c) /\ Left(d, c) = h[0]
  BY LeftIs
<1>2. PICK k : Down(k, e, c) /\ Left(e, c) = k[0]
  BY LeftIs
<1>3. Generations \in Slots /\ 0 \in Slots
  BY LogFilesAssumption DEF Slots
<1>4. PICK w \in Seq(LineSet) : w = Bytes(d, c, Generations)
  BY <1>3, BytesType
<1>5. PICK T : T = {g \in Slots : h[g] = w \o k[g]}
  OBVIOUS
<1>6. Generations \in T
  <2>1. h[Generations] = w /\ k[Generations] = << >>
    BY <1>1, <1>2, <1>4 DEF Down
  <2>2. w \o << >> = w
    BY LinesJoin
  <2> QED
    BY <1>3, <1>5, <2>1, <2>2
<1>7. ASSUME NEW g \in 0..Generations - 1, g + 1 \in T PROVE g \in T
  <2>1. g \in Slots /\ g + 1 \in Slots
    BY LogFilesAssumption DEF Slots
  <2>2. h[g + 1] = w \o k[g + 1]
    BY <1>5, <1>7
  <2>3. h[g] = h[g + 1] \o Bytes(d, c, g) /\ k[g] = k[g + 1] \o Bytes(d, c, g)
    BY <1>1, <1>2 DEF Down
  <2>4. k[g + 1] \in Seq(LineSet) /\ Bytes(d, c, g) \in Seq(LineSet)
    BY <1>2, <2>1, BytesType DEF Down
  <2>5. PICK p \in Seq(LineSet) : p = k[g + 1]
    BY <2>4
  <2>6. PICK x \in Seq(LineSet) : x = Bytes(d, c, g)
    BY <2>4
  <2>7. w \o (p \o x) = (w \o p) \o x
    BY LinesJoin
  <2>8. h[g] = w \o k[g]
    BY <2>2, <2>3, <2>5, <2>6, <2>7
  <2> QED
    BY <1>5, <2>1, <2>8
<1>8. \A g \in Slots : g \in T
  BY <1>6, <1>7, Downwards
<1>9. h[0] = w \o k[0]
  BY <1>3, <1>5, <1>8
<1> QED
  BY <1>1, <1>2, <1>9

(* Generation i - 1 becomes generation i, of which there was none.         *)
LEMMA LeftShift ==
  ASSUME NEW d \in DirSet, NEW e \in DirSet, NEW c \in ContentSet, NEW i \in 1..Generations,
         Bytes(d, c, i) = << >>, Bytes(e, c, i - 1) = << >>, Bytes(e, c, i) = Bytes(d, c, i - 1),
         \A g \in Slots : g # i /\ g # i - 1 => Bytes(e, c, g) = Bytes(d, c, g)
  PROVE  Left(e, c) = Left(d, c)
<1>1. PICK h : Down(h, d, c) /\ Left(d, c) = h[0]
  BY LeftIs
<1>2. PICK k : Down(k, e, c) /\ Left(e, c) = k[0]
  BY LeftIs
<1>3. /\ Generations \in Slots /\ 0 \in Slots /\ i \in Slots /\ i - 1 \in Slots
      /\ i - 1 \in 0..Generations - 1 /\ i # i - 1 /\ 0 # i
  BY LogFilesAssumption DEF Slots
<1>4. PICK x \in Seq(LineSet) : x = Bytes(d, c, i - 1)
  BY <1>3, BytesType
<1>5. PICK T : T = {g \in Slots : (g # i => k[g] = h[g]) /\ (g = i => k[i] = h[i] \o x)}
  OBVIOUS
<1>6. Generations \in T
  <2>1. h[Generations] = Bytes(d, c, Generations) /\ k[Generations] = Bytes(e, c, Generations)
    BY <1>1, <1>2 DEF Down
  <2>2. CASE Generations = i
    <3>1. h[i] = << >> /\ k[i] = x
      BY <1>4, <2>1, <2>2
    <3>2. k[i] = h[i] \o x
      BY <3>1, LinesJoin
    <3> QED
      BY <1>3, <1>5, <2>2, <3>2
  <2>3. CASE Generations # i
    <3>1. Generations # i - 1
      BY LogFilesAssumption
    <3>2. k[Generations] = h[Generations]
      BY <1>3, <2>1, <2>3, <3>1
    <3> QED
      BY <1>3, <1>5, <2>3, <3>2
  <2> QED
    BY <2>2, <2>3
<1>7. ASSUME NEW g \in 0..Generations - 1, g + 1 \in T PROVE g \in T
  <2>1. g \in Slots /\ g + 1 \in Slots /\ (g + 1 = i <=> g = i - 1) /\ g # g + 1
    BY LogFilesAssumption DEF Slots
  <2>2. h[g] = h[g + 1] \o Bytes(d, c, g) /\ k[g] = k[g + 1] \o Bytes(e, c, g)
    BY <1>1, <1>2 DEF Down
  <2>3. h[g + 1] \in Seq(LineSet)
    BY <1>1, <2>1 DEF Down
  <2>4. CASE g = i
    <3>1. k[g + 1] = h[g + 1]
      BY <1>5, <1>7, <2>1, <2>4
    <3>2. k[i] = h[g + 1] \o x /\ h[i] = h[g + 1] \o << >>
      BY <1>4, <2>2, <2>4, <3>1
    <3>3. k[i] = h[i] \o x
      BY <2>3, <3>2, LinesJoin
    <3> QED
      BY <1>5, <2>1, <2>4, <3>3
  <2>5. CASE g = i - 1
    <3>1. g + 1 = i /\ g # i
      BY <2>1, <2>5
    <3>2. k[i] = h[i] \o x /\ h[i] \in Seq(LineSet)
      BY <1>5, <1>7, <2>3, <3>1
    <3>3. h[g] = h[i] \o x /\ k[g] = k[i] \o << >>
      BY <1>4, <2>2, <2>5, <3>1
    <3>4. k[i] \in Seq(LineSet)
      BY <3>2, LinesJoin
    <3>5. k[g] = h[g]
      BY <3>2, <3>3, <3>4, LinesJoin
    <3> QED
      BY <1>5, <2>1, <3>1, <3>5
  <2>6. CASE g # i /\ g # i - 1
    <3>1. k[g + 1] = h[g + 1] /\ Bytes(e, c, g) = Bytes(d, c, g)
      BY <1>5, <1>7, <2>1, <2>6
    <3> QED
      BY <1>5, <2>1, <2>2, <2>6, <3>1
  <2> QED
    BY <2>4, <2>5, <2>6
<1>8. \A g \in Slots : g \in T
  BY <1>6, <1>7, Downwards
<1> QED
  BY <1>1, <1>2, <1>3, <1>5, <1>8

-----------------------------------------------------------------------------
(* What a sequence ends with.                                              *)
LEMMA EndsAppend ==
  ASSUME NEW q, NEW s, EndsWith(q, s), NEW line \in LineSet
  PROVE  EndsWith(Append(q, line), Append(s, line))
<1>10. q \in Seq(LineSet) /\ s \in Seq(LineSet)
  BY DEF EndsWith
<1>1. PICK a \in Seq(LineSet) : a = Append(q, line)
  BY <1>10, AppendProperties
<1>2. PICK b \in Seq(LineSet) : b = Append(s, line)
  BY <1>10, AppendProperties
<1>3. PICK n \in Nat : n = Len(q)
  BY DEF EndsWith
<1>4. PICK m \in Nat : m = Len(s) /\ m <= n
  BY <1>3 DEF EndsWith
<1>5. Len(a) = n + 1 /\ \A i \in 1..n + 1 : a[i] = IF i <= n THEN q[i] ELSE line
  BY <1>1, <1>3 DEF EndsWith
<1>6. Len(b) = m + 1 /\ \A i \in 1..m + 1 : b[i] = IF i <= m THEN s[i] ELSE line
  BY <1>2, <1>4 DEF EndsWith
<1>7. ASSUME NEW i \in 1..m + 1 PROVE b[i] = a[i + ((n + 1) - (m + 1))]
  <2>4. i + (n - m) \in 1..n + 1 /\ i + (n - m) = i + ((n + 1) - (m + 1))
    BY <1>4
  <2>1. PICK j \in 1..n + 1 : j = i + (n - m) /\ j = i + ((n + 1) - (m + 1))
    BY <2>4
  <2>2. CASE i <= m
    <3>1. j <= n /\ i \in 1..m
      BY <2>1, <2>2
    <3>2. s[i] = q[j]
      BY <1>3, <1>4, <2>1, <3>1 DEF EndsWith
    <3> QED
      BY <1>5, <1>6, <2>1, <2>2, <3>1, <3>2
  <2>3. CASE ~(i <= m)
    <3>1. ~(j <= n)
      BY <2>1, <2>3
    <3> QED
      BY <1>5, <1>6, <2>1, <2>3, <3>1
  <2> QED
    BY <2>2, <2>3
<1>8. Len(b) <= Len(a)
  BY <1>4, <1>5, <1>6
<1>9. EndsWith(a, b)
  BY <1>5, <1>6, <1>7, <1>8 DEF EndsWith
<1> QED
  BY <1>1, <1>2, <1>9

(* What is at the end of w \o s is, without w, at the end too.             *)
LEMMA EndsDrop ==
  ASSUME NEW q, NEW w \in Seq(LineSet), NEW s \in Seq(LineSet), EndsWith(q, w \o s)
  PROVE  EndsWith(q, s)
<1>1. PICK n \in Nat : n = Len(q)
  BY DEF EndsWith
<1>2. PICK m \in Nat : m = Len(s)
  OBVIOUS
<1>3. PICK l \in Nat : l = Len(w)
  OBVIOUS
<1>4. PICK a \in Seq(LineSet) : a = w \o s
  BY ConcatProperties
<1>5. Len(a) = l + m /\ \A i \in 1..m : a[i + l] = s[i]
  BY <1>2, <1>3, <1>4
<1>6. /\ l + m <= n
      /\ \A i \in 1..l + m : a[i] = q[i + (n - (l + m))]
  BY <1>1, <1>4, <1>5 DEF EndsWith
<1>7. ASSUME NEW i \in 1..m PROVE s[i] = q[i + (n - m)]
  <2>1. i + l \in 1..l + m /\ (i + l) + (n - (l + m)) = i + (n - m)
    OBVIOUS
  <2> QED
    BY <1>5, <1>6, <2>1
<1>8. m <= n
  BY <1>6
<1>9. q \in Seq(LineSet)
  BY DEF EndsWith
<1> QED
  BY <1>1, <1>2, <1>7, <1>8, <1>9 DEF EndsWith

(* EndsWith and the IsSuffix of the property.                              *)
LEMMA EndsIsSuffix ==
  ASSUME NEW q, NEW s, EndsWith(q, s)
  PROVE  IsSuffix(s, q)
<1>1. PICK n \in Nat : n = Len(q)
  BY DEF EndsWith
<1>2. PICK m \in Nat : m = Len(s) /\ m <= n
  BY <1>1 DEF EndsWith
<1>3. \A i \in 1..m : s[i] = q[i + (n - m)]
  BY <1>1, <1>2 DEF EndsWith
<1>4. q \in Seq(LineSet) /\ s \in Seq(LineSet)
  BY DEF EndsWith
<1>5. PICK a : a = [i \in 1..n |-> q[(n - i) + 1]]
  OBVIOUS
<1>6. PICK b : b = [i \in 1..m |-> s[(m - i) + 1]]
  OBVIOUS
<1>7. a = Reverse(q) /\ b = Reverse(s)
  BY <1>1, <1>2, <1>5, <1>6 DEF Reverse
<1>8. a \in Seq(LineSet) /\ Len(a) = n
  <2>1. \A i \in 1..n : (n - i) + 1 \in 1..n
    OBVIOUS
  <2>2. \A i \in 1..n : q[(n - i) + 1] \in LineSet
    BY <1>1, <1>4, <2>1
  <2>3. a \in [1..n -> LineSet]
    BY <1>5, <2>2
  <2>4. a \in Seq(LineSet)
    BY <2>3, SeqDef
  <2> QED
    BY <2>3, <2>4, LenProperties
<1>9. b \in Seq(LineSet) /\ Len(b) = m
  <2>1. \A i \in 1..m : (m - i) + 1 \in 1..m
    OBVIOUS
  <2>2. \A i \in 1..m : s[(m - i) + 1] \in LineSet
    BY <1>2, <1>4, <2>1
  <2>3. b \in [1..m -> LineSet]
    BY <1>6, <2>2
  <2>4. b \in Seq(LineSet)
    BY <2>3, SeqDef
  <2> QED
    BY <2>3, <2>4, LenProperties
<1>10. ASSUME NEW i \in 1..m PROVE b[i] = a[i]
  <2>1. PICK j \in 1..m : j = (m - i) + 1 /\ j + (n - m) = (n - i) + 1
    OBVIOUS
  <2>2. b[i] = s[j]
    BY <1>6, <2>1
  <2>3. i \in 1..n
    BY <1>2
  <2>4. a[i] = q[j + (n - m)]
    BY <1>5, <2>1, <2>3
  <2> QED
    BY <1>3, <2>1, <2>2, <2>4
<1>11. IsPrefix(b, a)
  <2>1. SubSeq(a, 1, m) \in Seq(LineSet) /\ Len(SubSeq(a, 1, m)) = m
    BY <1>2, <1>8
  <2>2. \A i \in 1..m : SubSeq(a, 1, m)[i] = a[i]
    BY <1>2, <1>8
  <2>3. b = SubSeq(a, 1, Len(b))
    BY <1>9, <1>10, <2>1, <2>2, SeqEqual
  <2> QED
    BY <1>2, <1>8, <1>9, <2>3 DEF IsPrefix
<1> QED
  BY <1>7, <1>11 DEF IsSuffix

-----------------------------------------------------------------------------
(* The stacks.                                                             *)

(* The frames of checkRotate in r are from s, or as they must be.          *)
Comes(r, s) ==
  \A i \in 1..Len(r) : r[i].op = "checkRotate" =>
    RotateOK(r[i])' \/ \E j \in 1..Len(s) : r[i] = s[j]

(* A head is replaced, or another frame is pushed on it.                   *)
LEMMA Replaced ==
  ASSUME NEW s \in Seq(AnyFrame), s # << >>, NEW g, NEW r, r = <<g>> \o Tail(s)
  PROVE  /\ Len(r) = Len(s) /\ Len(s) \in Nat /\ Len(s) >= 1
         /\ \A i \in 1..Len(r) : r[i] = IF i = 1 THEN g ELSE s[i]
<1>1. PICK S : S = AnyFrame \cup {g}
  OBVIOUS
<1>2. PICK n \in Nat : n = Len(s) /\ n >= 1
  BY HeadFrame
<1>3. PICK q : q = Tail(s)
  OBVIOUS
<1>4. Len(q) = n - 1 /\ \A i \in 1..n - 1 : q[i] = s[i + 1] /\ q[i] \in AnyFrame
  BY <1>2, <1>3
<1>5. q \in Seq(S)
  <2>1. q \in Seq(AnyFrame)
    BY <1>3
  <2>2. \A i \in 1..Len(q) : q[i] \in S
    BY <1>1, <2>1
  <2> QED
    BY <2>1, <2>2
<1>6. <<g>> \in Seq(S) /\ Len(<<g>>) = 1 /\ <<g>>[1] = g
  BY <1>1
<1>7. /\ Len(r) = 1 + (n - 1)
      /\ \A i \in 1..1 + (n - 1) : r[i] = IF i <= 1 THEN <<g>>[i] ELSE q[i - 1]
  BY <1>3, <1>4, <1>5, <1>6, ConcatProperties
<1>8. ASSUME NEW i \in 1..n PROVE r[i] = IF i = 1 THEN g ELSE s[i]
  <2>1. i \in 1..1 + (n - 1) /\ (i <= 1 <=> i = 1)
    OBVIOUS
  <2>2. i # 1 => i - 1 \in 1..n - 1 /\ (i - 1) + 1 = i
    OBVIOUS
  <2> QED
    BY <1>4, <1>6, <1>7, <2>1, <2>2
<1>9. Len(r) = n
  BY <1>2, <1>7
<1> QED
  BY <1>2, <1>8, <1>9

LEMMA Stacked ==
  ASSUME NEW s \in Seq(AnyFrame), s # << >>, NEW f, NEW g, NEW r, r = <<f, g>> \o Tail(s)
  PROVE  /\ Len(r) = Len(s) + 1 /\ Len(s) \in Nat /\ Len(s) >= 1
         /\ \A i \in 1..Len(r) : r[i] = IF i = 1 THEN f ELSE IF i = 2 THEN g ELSE s[i - 1]
<1>1. PICK S : S = AnyFrame \cup {f, g}
  OBVIOUS
<1>2. PICK n \in Nat : n = Len(s) /\ n >= 1
  BY HeadFrame
<1>3. PICK q : q = Tail(s)
  OBVIOUS
<1>4. Len(q) = n - 1 /\ \A i \in 1..n - 1 : q[i] = s[i + 1] /\ q[i] \in AnyFrame
  BY <1>2, <1>3
<1>5. q \in Seq(S)
  <2>1. q \in Seq(AnyFrame)
    BY <1>3
  <2>2. \A i \in 1..Len(q) : q[i] \in S
    BY <1>1, <2>1
  <2>3. Len(q) \in Nat /\ q = [i \in 1..Len(q) |-> q[i]]
    BY <2>1
  <2>4. q \in [1..Len(q) -> S]
    BY <2>2, <2>3
  <2> QED
    BY <2>3, <2>4, SeqDef
<1>6. <<f, g>> \in Seq(S) /\ Len(<<f, g>>) = 2 /\ <<f, g>>[1] = f /\ <<f, g>>[2] = g
  BY <1>1
<1>7. /\ Len(r) = 2 + (n - 1)
      /\ \A i \in 1..2 + (n - 1) : r[i] = IF i <= 2 THEN <<f, g>>[i] ELSE q[i - 2]
  BY <1>3, <1>4, <1>5, <1>6, ConcatProperties
<1>8. ASSUME NEW i \in 1..n + 1 PROVE r[i] = IF i = 1 THEN f ELSE IF i = 2 THEN g ELSE s[i - 1]
  <2>1. i \in 1..2 + (n - 1) /\ (i <= 2 <=> i = 1 \/ i = 2)
    OBVIOUS
  <2>2. ~(i <= 2) => i - 2 \in 1..n - 1 /\ (i - 2) + 1 = i - 1
    OBVIOUS
  <2> QED
    BY <1>4, <1>6, <1>7, <2>1, <2>2
<1>9. Len(r) = n + 1
  BY <1>2, <1>7
<1> QED
  BY <1>2, <1>8, <1>9

LEMMA SwapComes ==
  ASSUME NEW s \in Seq(AnyFrame), s # << >>, NEW g, g.op # "checkRotate" \/ RotateOK(g)'
  PROVE  Comes(<<g>> \o Tail(s), s)
<1>1. PICK r : r = <<g>> \o Tail(s)
  OBVIOUS
<1>2. /\ Len(r) = Len(s)
      /\ \A i \in 1..Len(r) : r[i] = IF i = 1 THEN g ELSE s[i]
  BY <1>1, Replaced
<1>3. Comes(r, s)
  BY <1>2 DEF Comes
<1> QED
  BY <1>1, <1>3

LEMMA PushComes ==
  ASSUME NEW s \in Seq(AnyFrame), s # << >>, NEW f, f.op # "checkRotate" \/ RotateOK(f)',
         NEW g, g.op # "checkRotate" \/ RotateOK(g)'
  PROVE  Comes(<<f, g>> \o Tail(s), s)
<1>1. PICK r : r = <<f, g>> \o Tail(s)
  OBVIOUS
<1>2. /\ Len(r) = Len(s) + 1 /\ Len(s) \in Nat
      /\ \A i \in 1..Len(r) : r[i] = IF i = 1 THEN f ELSE IF i = 2 THEN g ELSE s[i - 1]
  BY <1>1, Stacked
<1>3. ASSUME NEW i \in 1..Len(r), r[i].op = "checkRotate"
      PROVE  RotateOK(r[i])' \/ \E j \in 1..Len(s) : r[i] = s[j]
  <2>1. CASE i = 1
    BY <1>2, <1>3, <2>1
  <2>2. CASE i = 2
    <3>1. r[i] = g
      BY <1>2, <2>2
    <3> QED
      BY <1>3, <3>1
  <2>3. CASE i # 1 /\ i # 2
    <3>1. i - 1 \in 1..Len(s)
      BY <1>2, <2>3
    <3> QED
      BY <1>2, <2>3, <3>1
  <2> QED
    BY <2>1, <2>2, <2>3
<1>4. Comes(r, s)
  BY <1>3 DEF Comes
<1> QED
  BY <1>1, <1>4

LEMMA PopComes ==
  ASSUME NEW s \in Seq(AnyFrame), s # << >>
  PROVE  Comes(Tail(s), s) /\ Comes(<< >>, s)
<1>1. PICK r : r = Tail(s)
  OBVIOUS
<1>2. \A i \in 1..Len(r) : i + 1 \in 1..Len(s) /\ r[i] = s[i + 1]
  BY <1>1
<1>3. Comes(r, s)
  BY <1>2 DEF Comes
<1> QED
  BY <1>1, <1>3 DEF Comes

(* A new stack of one or two frames.                                       *)
LEMMA ShortComes ==
  ASSUME NEW s, NEW f, f.op # "checkRotate", NEW g, g.op # "checkRotate"
  PROVE  Comes(<<f>>, s) /\ Comes(<<f, g>>, s)
<1>1. /\ Len(<<f>>) = 1 /\ <<f>>[1] = f
      /\ Len(<<f, g>>) = 2 /\ <<f, g>>[1] = f /\ <<f, g>>[2] = g
  OBVIOUS
<1>2. (\A i \in 1..1 : i = 1) /\ (\A i \in 1..2 : i = 1 \/ i = 2)
  OBVIOUS
<1> QED
  BY <1>1, <1>2 DEF Comes

(* There is one call of checkRotate at most, and its thread has the mutex. *)
LEMMA OneRotate ==
  ASSUME NEW s \in Seq(AnyFrame), Shape(s), NEW i \in 1..Len(s), NEW j \in 1..Len(s),
         s[i].op = "checkRotate", s[j].op = "checkRotate"
  PROVE  ~(i < j)
<1> SUFFICES ASSUME i < j PROVE FALSE
  OBVIOUS
<1>1. Len(s) \in Nat
  OBVIOUS
<1>2. Fits(s, i)
  BY DEF Shape
<1>3. i + 1 < Len(s) /\ s[i + 1].op = "output" /\ Locked(s[i + 2])
  BY <1>2 DEF Fits
<1>4. s[i + 2].op = "print"
  BY <1>3 DEF Locked
<1>5. i + 2 \in 1..Len(s) /\ (j = i + 1 \/ j = i + 2 \/ j \in (i + 2) + 1..Len(s))
  BY <1>1, <1>3
<1>6. j \in (i + 2) + 1..Len(s) => s[j].op # "checkRotate"
  BY <1>3, <1>5, BelowLocked
<1> QED
  BY <1>3, <1>4, <1>5, <1>6

LEMMA RotateHolds ==
  ASSUME LoggerInv
  PROVE  \A t \in Threads : \A i \in 1..Len(stack[t]) :
           stack[t][i].op = "checkRotate" => mutex = t
BY DEF LoggerInv, Holding, Holds

(* What is left of RotatesOK to show for a step of t.                      *)
LEMMA RotatesKept ==
  ASSUME LoggerInv, RotatesOK, NEW t \in Threads, NEW r, stack' = [stack EXCEPT ![t] = r],
         NEW s, s = stack[t], Comes(r, s),
         \A f \in AnyFrame : f.op = "checkRotate" /\ RotateOK(f) => RotateOK(f)'
  PROVE  RotatesOK'
<1>1. stack \in [Threads -> Seq(AnyFrame)]
  BY DEF LoggerInv
<1>2. stack'[t] = r /\ \A u \in Threads : u # t => stack'[u] = stack[u]
  BY <1>1
<1>3. ASSUME NEW f, f.op = "checkRotate", NEW u \in Threads, NEW j \in 1..Len(stack[u]), f = stack[u][j]
      PROVE  RotateOK(f)'
  <2>1. f \in AnyFrame
    BY <1>1, <1>3
  <2>2. RotateOK(f)
    BY <1>3 DEF RotatesOK
  <2> QED
    BY <1>3, <2>1, <2>2
<1>4. ASSUME NEW f, f.op = "checkRotate", NEW u \in Threads, NEW i \in 1..Len(stack'[u]), f = stack'[u][i]
      PROVE  RotateOK(f)'
  <2>1. CASE u # t
    <3>1. i \in 1..Len(stack[u]) /\ f = stack[u][i]
      BY <1>2, <1>4, <2>1
    <3> QED
      BY <1>3, <1>4, <3>1
  <2>2. CASE u = t
    <3>1. f = r[i] /\ i \in 1..Len(r)
      BY <1>2, <1>4, <2>2
    <3>2. RotateOK(r[i])' \/ \E j \in 1..Len(s) : r[i] = s[j]
      BY <1>4, <3>1 DEF Comes
    <3>3. CASE \E j \in 1..Len(s) : r[i] = s[j]
      <4>1. PICK j \in 1..Len(stack[t]) : f = stack[t][j]
        BY <3>1, <3>3
      <4> QED
        BY <1>3, <1>4, <4>1
    <3> QED
      BY <3>1, <3>2, <3>3
  <2> QED
    BY <2>1, <2>2
<1>5. ASSUME NEW u \in Threads, NEW i \in 1..Len(stack'[u]), stack'[u][i].op = "checkRotate"
      PROVE  RotateOK(stack[u][i])'
  <2>1. PICK f : f = stack'[u][i]
    OBVIOUS
  <2>2. RotateOK(f)'
    BY <1>4, <1>5, <2>1
  <2> QED
    BY <2>1, <2>2
<1> QED
  BY <1>5 DEF RotatesOK

-----------------------------------------------------------------------------
(* What a step does to the files, one by one.                              *)

(* The slots of a name.                                                    *)
LEMMA SlotsAre ==
  /\ 0 \in Slots /\ Generations \in Slots /\ Generations \in Nat /\ Generations > 1
  /\ 1..Generations \subseteq Slots /\ NULL \notin Names /\ NULL \notin Inodes
  /\ \A g \in Slots : g \in Nat /\ g <= Generations /\ (g # 0 => g \in 1..Generations)
  /\ \A g \in 1..Generations : g # 0 /\ g - 1 \in Slots
BY LogFilesAssumption DEF Slots

(* As many values as arguments, at most.                                   *)
LEMMA ImageSize ==
  ASSUME NEW S, IsFiniteSet(S), NEW f, NEW T, T = {f[x] : x \in S}
  PROVE  IsFiniteSet(T) /\ Cardinality(T) <= Cardinality(S)
<1>1. PICK g : g = [x \in S |-> f[x]]
  OBVIOUS
<1>2. g \in Surjection(S, T)
  BY <1>1 DEF Surjection
<1> QED
  BY <1>2, FS_Surjection

(* When a file is made there is one that nobody has.                       *)
LEMMA FreshInode ==
  ASSUME DiskTypes, NEW n \in Names, dir[n][0] = NULL
  PROVE  \E f \in Inodes : f \notin InUse
<1> SUFFICES ASSUME \A f \in Inodes : f \in InUse PROVE FALSE
  OBVIOUS
<1>1. PICK A : A = {logff[p] : p \in Prios}
  OBVIOUS
<1>2. PICK P : P = (Names \X Slots) \ {<<n, 0>>}
  OBVIOUS
<1>3. PICK f : f = [x \in Names \X Slots |-> dir[x[1]][x[2]]]
  OBVIOUS
<1>4. PICK B : B = {f[x] : x \in P}
  OBVIOUS
<1>5. IsFiniteSet(A) /\ Cardinality(A) <= Cardinality(Prios)
  BY <1>1, ImageSize, LogFilesAssumption
<1>6. /\ IsFiniteSet(P)
      /\ Cardinality(P) = Cardinality(Names) * (Generations + 1) - 1
  <2>1. IsFiniteSet(Slots) /\ Cardinality(Slots) = Generations + 1
    <3>1. Generations \in Nat /\ 0 \in Int /\ Generations \in Int /\ ~(0 > Generations)
      BY LogFilesAssumption
    <3>2. IsFiniteSet(0..Generations) /\ Cardinality(0..Generations) = Generations - 0 + 1
      BY <3>1, FS_Interval
    <3> QED
      BY <3>1, <3>2 DEF Slots
  <2>2. /\ IsFiniteSet(Names \X Slots)
        /\ Cardinality(Names \X Slots) = Cardinality(Names) * Cardinality(Slots)
    BY <2>1, LogFilesAssumption, FS_Product
  <2>3. <<n, 0>> \in Names \X Slots
    BY SlotsAre
  <2>4. IsFiniteSet(P) /\ Cardinality(P) = Cardinality(Names \X Slots) - 1
    BY <1>2, <2>2, <2>3, FS_RemoveElement
  <2> QED
    BY <2>1, <2>2, <2>4
<1>7. IsFiniteSet(B) /\ Cardinality(B) <= Cardinality(P)
  BY <1>4, <1>6, ImageSize
<1>8. \A x \in Inodes : x \in A \cup B
  <2> SUFFICES ASSUME NEW x \in Inodes, x \notin A PROVE x \in B
    OBVIOUS
  <2>1. x \in UNION {{dir[m][g] : g \in DOMAIN dir[m]} : m \in Names}
    BY <1>1 DEF InUse
  <2>2. PICK m \in Names : x \in {dir[m][g] : g \in DOMAIN dir[m]}
    BY <2>1
  <2>3. DOMAIN dir[m] = Slots
    BY DEF DiskTypes
  <2>4. PICK g \in Slots : x = dir[m][g]
    BY <2>2, <2>3
  <2>5. x # NULL
    BY SlotsAre
  <2>6. <<m, g>> \in Names \X Slots /\ ~(m = n /\ g = 0)
    BY <2>4, <2>5
  <2>7. <<m, g>> \in P
    BY <1>2, <2>6
  <2>8. f[<<m, g>>] = x
    BY <1>3, <2>4, <2>6
  <2> QED
    BY <1>4, <2>7, <2>8
<1>9. IsFiniteSet(A \cup B) /\ Cardinality(A \cup B) <= Cardinality(A) + Cardinality(B)
  <2>1. IsFiniteSet(A \cap B)
    BY <1>5, FS_Intersection
  <2>2. /\ Cardinality(A \cap B) \in Nat /\ Cardinality(A) \in Nat /\ Cardinality(B) \in Nat
    BY <1>5, <1>7, <2>1, FS_CardinalityType
  <2>3. /\ IsFiniteSet(A \cup B)
        /\ Cardinality(A \cup B) = Cardinality(A) + Cardinality(B) - Cardinality(A \cap B)
    BY <1>5, <1>7, FS_Union
  <2> QED
    BY <2>2, <2>3
<1>10. Cardinality(Inodes) <= Cardinality(A \cup B)
  <2>1. Inodes \in SUBSET (A \cup B)
    BY <1>8
  <2> QED
    BY <1>9, <2>1, FS_Subset
<1>11. PICK N \in Int : N = Cardinality(Names) * (Generations + 1)
  <2>1. Cardinality(Names) \in Nat /\ Generations \in Nat
    BY LogFilesAssumption, FS_CardinalityType
  <2> QED
    BY <2>1
<1>12. Cardinality(Inodes) >= Cardinality(Prios) + N
  BY <1>11, LogFilesAssumption
<1>13. /\ Cardinality(A) \in Nat /\ Cardinality(B) \in Nat /\ Cardinality(Prios) \in Nat
       /\ Cardinality(Inodes) \in Nat /\ Cardinality(A \cup B) \in Nat
  BY <1>5, <1>7, <1>9, LogFilesAssumption, FS_CardinalityType
<1> QED
  BY <1>5, <1>6, <1>7, <1>9, <1>10, <1>11, <1>12, <1>13

(* Nothing happens to the files.                                           *)
LEMMA StillDisk ==
  ASSUME UNCHANGED files
  PROVE  /\ DiskOK => DiskOK'
         /\ \A n, k : Ordered(n, k) => Ordered(n, k)'
         /\ \A n : Alone(n)' <=> Alone(n)
         /\ \A f : RotateOK(f) => RotateOK(f)'
<1>1. /\ logff' = logff /\ logfilename' = logfilename /\ dir' = dir /\ content' = content
      /\ put' = put /\ users' = users
  BY DEF files
<1>2. \A n : OnDisk(n)' = OnDisk(n)
  BY <1>1, OnDiskIsLeft, OnDiskIsLeftNext
<1>3. \A n : Alone(n)' <=> Alone(n)
  BY <1>1 DEF Alone
<1>4. \A n, k : Ordered(n, k) => Ordered(n, k)'
  BY <1>1, <1>2 DEF Ordered
<1>5. \A p : isOpen(p)' <=> isOpen(p)
  BY <1>1 DEF isOpen
<1>6. DiskOK => DiskOK'
  <2>1. DiskTypes => DiskTypes'
    BY <1>1 DEF DiskTypes
  <2>2. Distinct => Distinct'
    BY <1>1 DEF Distinct
  <2>3. Owned => Owned'
    BY <1>1, <1>3, <1>5 DEF Owned
  <2>4. Kept => Kept'
    BY <1>1, <1>2, <1>3 DEF Kept
  <2> QED
    BY <2>1, <2>2, <2>3, <2>4 DEF DiskOK
<1>7. \A f : RotateOK(f) => RotateOK(f)'
  <2>1. \A f, n : Hole(f, n)' = Hole(f, n)
    BY <1>1 DEF Hole
  <2> QED
    BY <1>1, <1>3, <1>4, <1>5, <2>1 DEF RotateOK
<1> QED
  BY <1>3, <1>4, <1>6, <1>7

(* A step that leaves the files and the rotation alone.                    *)
LEMMA StillStep ==
  ASSUME LoggerInv, DiskInv, NEW t \in Threads, NEW r, stack' = [stack EXCEPT ![t] = r],
         NEW s, s = stack[t], Comes(r, s), UNCHANGED files, inrotate' = inrotate
  PROVE  DiskInv'
<1>1. DiskOK' /\ \A f : RotateOK(f) => RotateOK(f)'
  BY StillDisk DEF DiskInv
<1>2. Settled'
  BY StillDisk DEF DiskInv, Settled
<1>3. RotatesOK'
  BY <1>1, RotatesKept DEF DiskInv
<1> QED
  BY <1>1, <1>2, <1>3 DEF DiskInv

(* A file is closed; setLogfile may also have changed its name.            *)
LEMMA CloseDisk ==
  ASSUME FilesOK, DiskOK, NEW p \in Prios, logff' = [logff EXCEPT ![p] = NULL],
         UNCHANGED <<dir, content, put, users>>,
         \/ logfilename' = logfilename
         \/ \E n \in Names : logfilename' = [logfilename EXCEPT ![p] = n]
  PROVE  /\ DiskOK' /\ ~isOpen(p)'
         /\ \A n, k : Ordered(n, k) => Ordered(n, k)'
         /\ \A n : Alone(n)' <=> Alone(n)
         /\ \A q \in Prios : ~isOpen(q) => ~isOpen(q)'
         /\ logfilename' = logfilename =>
              \A f : f.prio \in Prios /\ RotateOK(f) => RotateOK(f)'
<1>1. dir' = dir /\ content' = content /\ put' = put /\ users' = users
  OBVIOUS
<1>2. \A n : OnDisk(n)' = OnDisk(n)
  BY <1>1, OnDiskIsLeft, OnDiskIsLeftNext
<1>3. \A n : Alone(n)' <=> Alone(n)
  BY <1>1 DEF Alone
<1>4. \A n, k : Ordered(n, k) => Ordered(n, k)'
  BY <1>1, <1>2 DEF Ordered
<1>5. /\ logff \in [Prios -> Inodes \cup {NULL}]
      /\ logff'[p] = NULL /\ \A q \in Prios : q # p => logff'[q] = logff[q]
      /\ logff' \in [Prios -> Inodes \cup {NULL}]
  BY DEF DiskOK, DiskTypes
<1>6. \A q \in Prios : q # p => logfilename'[q] = logfilename[q]
  BY DEF FilesOK
<1>7. ~isOpen(p)' /\ \A q \in Prios : ~isOpen(q) => ~isOpen(q)'
  BY <1>5 DEF isOpen
<1>8. DiskTypes'
  BY <1>1, <1>5 DEF DiskOK, DiskTypes
<1>9. Distinct'
  BY <1>1 DEF DiskOK, Distinct
<1>10. Kept'
  BY <1>1, <1>2, <1>3 DEF DiskOK, Kept
<1>11. Owned'
  <2> SUFFICES ASSUME NEW q \in Prios, logff'[q] # NULL
               PROVE  /\ q \in users[logfilename'[q]]
                      /\ \A n \in Names, g \in Slots : dir[n][g] = logff'[q] => logfilename'[q] = n
                      /\ (\A a, b \in users[logfilename'[q]] : a = b) =>
                           logff'[q] = dir[logfilename'[q]][0]
    BY <1>1 DEF Owned, isOpen, Alone
  <2>1. q # p
    BY <1>5
  <2>2. logff'[q] = logff[q] /\ logfilename'[q] = logfilename[q]
    BY <1>5, <1>6, <2>1
  <2>3. isOpen(q)
    BY <2>2 DEF isOpen
  <2> QED
    BY <2>2, <2>3 DEF DiskOK, Owned, Alone
<1>12. ASSUME logfilename' = logfilename
       PROVE  \A f : f.prio \in Prios /\ RotateOK(f) => RotateOK(f)'
  <2>1. \A f, n : Hole(f, n)' = Hole(f, n)
    BY <1>12 DEF Hole
  <2> QED
    BY <1>1, <1>3, <1>4, <1>7, <1>12, <2>1 DEF RotateOK
<1> QED
  BY <1>3, <1>4, <1>7, <1>8, <1>9, <1>10, <1>11, <1>12 DEF DiskOK

(* What fopen gives: f is the file of that name, which there was before or *)
(* is a new one without lines.                                             *)
Opened(p, n, f) ==
  /\ f \in Inodes
  /\ logff' = [logff EXCEPT ![p] = f]
  /\ dir' \in [Names -> DirSet] /\ content' \in ContentSet
  /\ dir'[n][0] = f
  /\ \A m \in Names, g \in Slots : ~(m = n /\ g = 0) => dir'[m][g] = dir[m][g]
  /\ \A m \in Names, g \in Slots : dir[m][g] = f => m = n /\ g = 0
  /\ \A m \in Names, g \in Slots : dir[m][g] # NULL => content'[dir[m][g]] = content[dir[m][g]]
  /\ \A m \in Names, g \in Slots : Bytes(dir'[m], content', g) = Bytes(dir[m], content, g)
  /\ \A q \in Prios : logff[q] = f => logfilename[q] = n

(* Open gives p the file of n, or a new one if there was none.             *)
LEMMA OpenGives ==
  ASSUME DiskOK, NEW p \in Prios, NEW n \in Names, Open(p, n)
  PROVE  \E f : Opened(p, n, f)
<1>1. /\ dir \in [Names -> DirSet] /\ content \in ContentSet
      /\ logff \in [Prios -> Inodes \cup {NULL}]
  BY DEF DiskOK, DiskTypes, DirSet, ContentSet
<1>2. CASE dir[n][0] # NULL
  <2>1. PICK f : f = dir[n][0]
    OBVIOUS
  <2>2. f \in Inodes
    BY <1>1, <1>2, <2>1, SlotsAre DEF DirSet
  <2>3. logff' = [logff EXCEPT ![p] = f] /\ content' = content
    BY <1>2, <2>1 DEF Open
  <2>4. dir' = dir
    <3>1. dir' = [dir EXCEPT ![n][0] = f]
      BY <1>2, <2>1 DEF Open
    <3> QED
      BY <1>1, <2>1, <3>1, SlotsAre DEF DirSet
  <2>5. \A m \in Names, g \in Slots : dir[m][g] = f => m = n /\ g = 0
    BY <1>2, <2>1, SlotsAre DEF DiskOK, Distinct
  <2>6. \A q \in Prios : logff[q] = f => logfilename[q] = n
    BY <1>2, <2>1, SlotsAre DEF DiskOK, Owned, isOpen
  <2>7. \A m \in Names, g \in Slots : Bytes(dir'[m], content', g) = Bytes(dir[m], content, g)
    BY <2>3, <2>4
  <2> QED
    BY <1>1, <2>1, <2>2, <2>3, <2>4, <2>5, <2>6, <2>7 DEF Opened
<1>3. CASE dir[n][0] = NULL
  <2>1. PICK f : f = CHOOSE x \in Inodes \ InUse : TRUE
    OBVIOUS
  <2>2. f \in Inodes /\ f \notin InUse
    <3>1. \E x \in Inodes : x \notin InUse
      BY <1>3, FreshInode DEF DiskOK
    <3> QED
      BY <2>1, <3>1
  <2>3. /\ logff' = [logff EXCEPT ![p] = f] /\ content' = [content EXCEPT ![f] = << >>]
        /\ dir' = [dir EXCEPT ![n][0] = f]
    BY <1>3, <2>1 DEF Open
  <2>4. \A m \in Names, g \in Slots : dir[m][g] # f
    <3> SUFFICES ASSUME NEW m \in Names, NEW g \in Slots PROVE dir[m][g] \in InUse
      BY <2>2
    <3>1. DOMAIN dir[m] = Slots
      BY <1>1 DEF DirSet
    <3> QED
      BY <3>1 DEF InUse
  <2>5. \A q \in Prios : logff[q] # f
    BY <2>2 DEF InUse
  <2>6. /\ dir'[n][0] = f
        /\ \A m \in Names, g \in Slots : ~(m = n /\ g = 0) => dir'[m][g] = dir[m][g]
    BY <1>1, <2>3, SlotsAre DEF DirSet
  <2>7. content' \in ContentSet /\ content'[f] = << >>
    <3>1. << >> \in Seq(LineSet)
      OBVIOUS
    <3> QED
      BY <1>1, <2>2, <2>3, <3>1 DEF ContentSet
  <2>8. dir' \in [Names -> DirSet]
    <3>1. PICK d : d = [dir[n] EXCEPT ![0] = f]
      OBVIOUS
    <3>2. d \in DirSet
      BY <1>1, <2>2, <3>1 DEF DirSet
    <3>3. dir' = [dir EXCEPT ![n] = d]
      BY <1>1, <2>3, <3>1
    <3> QED
      BY <1>1, <3>2, <3>3
  <2>9. ASSUME NEW m \in Names, NEW g \in Slots, dir[m][g] # NULL
        PROVE  content'[dir[m][g]] = content[dir[m][g]]
    <3>1. dir[m][g] \in Inodes /\ dir[m][g] # f
      BY <1>1, <2>4, <2>9 DEF DirSet
    <3> QED
      BY <1>1, <2>3, <3>1 DEF ContentSet
  <2>10. ASSUME NEW m \in Names, NEW g \in Slots
         PROVE  Bytes(dir'[m], content', g) = Bytes(dir[m], content, g)
    <3>1. CASE m = n /\ g = 0
      BY <1>3, <2>2, <2>6, <2>7, <3>1, SlotsAre DEF Bytes
    <3>2. CASE ~(m = n /\ g = 0)
      BY <2>6, <2>9, <3>2 DEF Bytes
    <3> QED
      BY <3>1, <3>2
  <2>11. \A m \in Names, g \in Slots : dir[m][g] = f => m = n /\ g = 0
    BY <2>4
  <2>12. \A q \in Prios : logff[q] = f => logfilename[q] = n
    BY <2>5
  <2>13. \A m \in Names, g \in Slots :
           dir[m][g] # NULL => content'[dir[m][g]] = content[dir[m][g]]
    BY <2>9
  <2>14. \A m \in Names, g \in Slots : Bytes(dir'[m], content', g) = Bytes(dir[m], content, g)
    BY <2>10
  <2> QED
    BY <2>2, <2>3, <2>6, <2>7, <2>8, <2>11, <2>12, <2>13, <2>14 DEF Opened
<1> QED
  BY <1>2, <1>3

(* A file is opened, by setLogfile or after rotation.                      *)
LEMMA OpenDisk ==
  ASSUME FilesOK, DiskOK, NEW p \in Prios, NEW n \in Names, Open(p, n),
         logfilename' = [logfilename EXCEPT ![p] = n]
           \/ (logfilename' = logfilename /\ logfilename[p] = n)
  PROVE  /\ DiskOK'
         /\ \A m \in Names : Alone(m)' => Alone(m)
         /\ \A m \in Names : Ordered(m, Generations) => Ordered(m, Generations)'
         /\ Ordered(n, 0) => Ordered(n, Generations)'
<1>1. PICK f : Opened(p, n, f)
  BY OpenGives
<1>2. put' = put /\ users' = [users EXCEPT ![n] = @ \cup {p}]
  BY DEF Open
<1>3. /\ dir \in [Names -> DirSet] /\ content \in ContentSet
      /\ logff \in [Prios -> Inodes \cup {NULL}] /\ users \in [Names -> SUBSET Prios]
  BY DEF DiskOK, DiskTypes, DirSet, ContentSet
<1>4. users' \in [Names -> SUBSET Prios] /\ \A m \in Names : users[m] \subseteq users'[m]
  BY <1>2, <1>3
<1>5. p \in users'[n]
  BY <1>2, <1>3
<1>6. \A m \in Names : Alone(m)' => Alone(m)
  BY <1>4 DEF Alone
<1>7. logff' \in [Prios -> Inodes \cup {NULL}] /\ logff'[p] = f
      /\ \A q \in Prios : q # p => logff'[q] = logff[q]
  BY <1>1, <1>3 DEF Opened
<1>8. logfilename'[p] = n /\ \A q \in Prios : q # p => logfilename'[q] = logfilename[q]
  BY DEF FilesOK
<1>9. \A m \in Names : OnDisk(m)' = OnDisk(m)
  <2> SUFFICES ASSUME NEW m \in Names PROVE Left(dir'[m], content') = Left(dir[m], content)
    BY OnDiskIsLeft, OnDiskIsLeftNext
  <2>1. \A g \in Slots : Bytes(dir'[m], content', g) = Bytes(dir[m], content, g)
    BY <1>1 DEF Opened
  <2> QED
    BY <2>1, LeftSame
<1>10. f # NULL /\ f \in Inodes
  BY <1>1, SlotsAre DEF Opened
<1>11. DiskTypes'
  BY <1>1, <1>4, <1>7 DEF DiskTypes, Opened, DirSet, ContentSet
<1>12. Distinct'
  <2> SUFFICES ASSUME NEW m \in Names, NEW l \in Names, NEW g \in Slots, NEW h \in Slots,
                      dir'[m][g] = dir'[l][h], dir'[m][g] # NULL
               PROVE  m = l /\ g = h
    BY DEF Distinct
  <2>1. CASE m = n /\ g = 0
    BY <1>1, <2>1 DEF Opened
  <2>2. CASE l = n /\ h = 0
    BY <1>1, <2>2 DEF Opened
  <2>3. CASE ~(m = n /\ g = 0) /\ ~(l = n /\ h = 0)
    BY <1>1, <2>3 DEF Opened, DiskOK, Distinct
  <2> QED
    BY <2>1, <2>2, <2>3
<1>13. Owned'
  <2> SUFFICES ASSUME NEW q \in Prios, logff'[q] # NULL
               PROVE  /\ q \in users'[logfilename'[q]]
                      /\ \A m \in Names, g \in Slots : dir'[m][g] = logff'[q] => logfilename'[q] = m
                      /\ (\A a, b \in users'[logfilename'[q]] : a = b) =>
                           logff'[q] = dir'[logfilename'[q]][0]
    BY DEF Owned, isOpen, Alone
  <2>1. CASE q = p
    BY <1>1, <1>5, <1>7, <1>8, <2>1 DEF Opened
  <2>2. CASE q # p
    <3>1. PICK l : l = logfilename[q] /\ l = logfilename'[q]
      BY <1>8, <2>2
    <3>2. logff'[q] = logff[q] /\ isOpen(q)
      BY <1>7, <2>2 DEF isOpen
    <3>3. l \in Names
      BY <3>1, <3>2 DEF FilesOK
    <3>4. /\ q \in users[l]
          /\ \A m \in Names, g \in Slots : dir[m][g] = logff[q] => l = m
          /\ Alone(l) => logff[q] = dir[l][0]
      BY <3>1, <3>2 DEF DiskOK, Owned
    <3>5. q \in users'[l]
      BY <1>4, <3>3, <3>4
    <3>6. ASSUME NEW m \in Names, NEW g \in Slots, dir'[m][g] = logff[q] PROVE l = m
      <4>1. CASE m = n /\ g = 0
        BY <1>1, <3>1, <3>6, <4>1 DEF Opened
      <4>2. CASE ~(m = n /\ g = 0)
        BY <1>1, <3>4, <3>6, <4>2 DEF Opened
      <4> QED
        BY <4>1, <4>2
    <3>7. ASSUME \A a, b \in users'[l] : a = b PROVE logff[q] = dir'[l][0]
      <4>1. l # n
        BY <1>5, <2>2, <3>5, <3>7
      <4>2. Alone(l)
        BY <1>4, <3>3, <3>7 DEF Alone
      <4> QED
        BY <1>1, <3>3, <3>4, <4>1, <4>2, SlotsAre DEF Opened
    <3> QED
      BY <3>1, <3>2, <3>5, <3>6, <3>7
  <2> QED
    BY <2>1, <2>2
<1>14. Kept'
  <2> SUFFICES ASSUME NEW m \in Names, Alone(m)'
               PROVE  /\ EndsWith(put[m], OnDisk(m))
                      /\ \A g \in 1..Generations : dir'[m][g] # NULL =>
                           Len(content'[dir'[m][g]]) > Maxsize
    BY <1>2, <1>9 DEF Kept
  <2>1. Alone(m)
    BY <1>6
  <2>2. \A g \in 1..Generations : g \in Slots /\ g # 0
    BY SlotsAre
  <2>3. \A g \in 1..Generations : dir'[m][g] = dir[m][g]
    BY <1>1, <2>2 DEF Opened
  <2>4. \A g \in 1..Generations : dir[m][g] # NULL => content'[dir[m][g]] = content[dir[m][g]]
    BY <1>1, <2>2 DEF Opened
  <2> QED
    BY <2>1, <2>3, <2>4 DEF DiskOK, Kept
<1>15. \A m \in Names : \A g \in Slots : dir[m][g] # NULL => dir'[m][g] # NULL
  BY <1>1, <1>10 DEF Opened
<1>16. \A m \in Names : \A g \in 1..Generations : dir'[m][g] = dir[m][g]
  BY <1>1, SlotsAre DEF Opened
<1>17. ASSUME NEW m \in Names, Ordered(m, Generations) PROVE Ordered(m, Generations)'
  <2>1. \A g \in 1..Generations : Younger(g, Generations) = g - 1
    BY SlotsAre DEF Younger
  <2>2. Chain(dir'[m], Generations)
    BY <1>15, <1>16, <1>17, <2>1, SlotsAre DEF Ordered, Chain
  <2>3. Complete(dir[m], Generations) => Complete(dir'[m], Generations)
    BY <1>16 DEF Complete
  <2> QED
    BY <1>2, <1>9, <1>17, <2>2, <2>3 DEF Ordered
<1>18. ASSUME Ordered(n, 0) PROVE Ordered(n, Generations)'
  <2>1. \A g \in 1..Generations : Younger(g, Generations) = g - 1
    BY SlotsAre DEF Younger
  <2>2. ASSUME NEW g \in 1..Generations, dir'[n][g] # NULL
        PROVE  dir'[n][g - 1] # NULL
    <3>1. CASE g = 1
      <4>1. dir'[n][0] # NULL
        BY <1>1, <1>10 DEF Opened
      <4> QED
        BY <3>1, <4>1
    <3>2. CASE g # 1
      <4>1. Younger(g, 0) = g - 1 /\ g - 1 \in Slots /\ ~(g - 1 < 0)
        BY <3>2, SlotsAre DEF Younger
      <4>2. dir[n][g] # NULL
        BY <1>16, <2>2
      <4>3. dir[n][g - 1] # NULL
        BY <1>18, <4>1, <4>2 DEF Ordered, Chain
      <4> QED
        BY <1>15, <4>1, <4>3
    <3> QED
      BY <3>1, <3>2
  <2>3. Chain(dir'[n], Generations)
    BY <2>1, <2>2, SlotsAre DEF Chain
  <2>4. Complete(dir[n], 0) => Complete(dir'[n], Generations)
    BY <1>16, SlotsAre DEF Complete
  <2> QED
    BY <1>2, <1>9, <1>18, <2>3, <2>4 DEF Ordered
<1> QED
  BY <1>6, <1>11, <1>12, <1>13, <1>14, <1>17, <1>18 DEF DiskOK

(* A line is put to an open file.                                          *)
LEMMA PutsDisk ==
  ASSUME FilesOK, DiskOK, NEW p \in Prios, isOpen(p), NEW line \in LineSet, Puts(p, line)
  PROVE  /\ DiskOK'
         /\ \A n \in Names : Alone(n)' <=> Alone(n)
         /\ \A n \in Names : \A k : Alone(n) /\ Ordered(n, k) => Ordered(n, k)'
         /\ \A f : RotateOK(f) => RotateOK(f)'
<1>1. /\ dir' = dir /\ users' = users /\ logff' = logff /\ logfilename' = logfilename
      /\ content' = [content EXCEPT ![logff[p]] = Append(@, line)]
      /\ put' = [put EXCEPT ![logfilename[p]] = Append(@, line)]
  BY DEF Puts
<1>2. /\ dir \in [Names -> DirSet] /\ content \in ContentSet
      /\ logff \in [Prios -> Inodes \cup {NULL}]
  BY DEF DiskOK, DiskTypes, DirSet, ContentSet
<1>3. PICK x \in Inodes : x = logff[p]
  BY <1>2 DEF isOpen
<1>4. PICK l \in Names : l = logfilename[p]
  BY DEF FilesOK
<1>5. put \in [Names -> Seq(LineSet)]
  BY DEF FilesOK
<1>6. content[x] \in Seq(LineSet)
  BY <1>2 DEF ContentSet
<1>7. PICK y \in Seq(LineSet) : y = Append(content[x], line) /\ Len(y) = Len(content[x]) + 1
  BY <1>6, AppendProperties
<1>8. content' = [content EXCEPT ![x] = y]
  BY <1>1, <1>3, <1>7
<1>9. content' \in ContentSet /\ content'[x] = y /\ \A z \in Inodes : z # x => content'[z] = content[z]
  BY <1>2, <1>7, <1>8 DEF ContentSet
<1>10. put'[l] = Append(put[l], line) /\ \A n \in Names : n # l => put'[n] = put[n]
  BY <1>1, <1>4, <1>5
<1>11. \A n : Alone(n)' <=> Alone(n)
  BY <1>1 DEF Alone
<1>12. ASSUME NEW z \in Inodes, Len(content[z]) > Maxsize PROVE Len(content'[z]) > Maxsize
  <2>1. Len(content[x]) \in Nat /\ Maxsize \in Nat
    BY <1>6, LoggerAssumption
  <2> QED
    BY <1>7, <1>9, <1>12, <2>1
<1>13. \A n \in Names, g \in Slots : dir[n][g] = x => n = l
  BY <1>3, <1>4 DEF DiskOK, Owned
<1>14. \A n \in Names : n # l => OnDisk(n)' = OnDisk(n)
  <2> SUFFICES ASSUME NEW n \in Names, n # l PROVE Left(dir[n], content') = Left(dir[n], content)
    BY <1>1, OnDiskIsLeft, OnDiskIsLeftNext
  <2>1. ASSUME NEW g \in Slots PROVE Bytes(dir[n], content', g) = Bytes(dir[n], content, g)
    <3>1. dir[n][g] # NULL => dir[n][g] \in Inodes /\ dir[n][g] # x
      BY <1>2, <1>13 DEF DirSet
    <3> QED
      BY <1>9, <3>1 DEF Bytes
  <2> QED
    BY <2>1, LeftSame
<1>15. ASSUME Alone(l) PROVE OnDisk(l)' = Append(OnDisk(l), line)
  <2>1. dir[l][0] = x
    BY <1>3, <1>4, <1>15 DEF DiskOK, Owned
  <2>2. x # NULL
    BY SlotsAre
  <2>3. Bytes(dir[l], content', 0) = Append(Bytes(dir[l], content, 0), line)
    BY <1>7, <1>9, <2>1, <2>2 DEF Bytes
  <2>4. ASSUME NEW g \in 1..Generations
        PROVE  Bytes(dir[l], content', g) = Bytes(dir[l], content, g)
    <3>1. g \in Slots /\ g # 0 /\ 0 \in Slots
      BY SlotsAre
    <3>2. dir[l][g] # x
      BY <2>1, <2>2, <3>1 DEF DiskOK, Distinct
    <3>3. dir[l][g] # NULL => dir[l][g] \in Inodes
      BY <1>2, <3>1 DEF DirSet
    <3> QED
      BY <1>9, <3>2, <3>3 DEF Bytes
  <2>5. dir[l] \in DirSet
    BY <1>2
  <2>6. Left(dir[l], content') = Append(Left(dir[l], content), line)
    BY <1>2, <1>9, <2>3, <2>4, <2>5, LeftAppend
  <2> QED
    BY <1>1, <2>6, OnDiskIsLeft, OnDiskIsLeftNext
<1>16. ASSUME NEW n \in Names, Alone(n), NEW k, Ordered(n, k) PROVE Ordered(n, k)'
  <2>1. OnDisk(n) = put[n] => OnDisk(n)' = put'[n]
    BY <1>10, <1>14, <1>15, <1>16
  <2> QED
    BY <1>1, <1>16, <2>1 DEF Ordered
<1>17. DiskTypes' /\ Distinct'
  BY <1>1, <1>9 DEF DiskOK, DiskTypes, ContentSet, Distinct
<1>18. Owned'
  BY <1>1, <1>11 DEF DiskOK, Owned, isOpen
<1>19. Kept'
  <2> SUFFICES ASSUME NEW n \in Names, Alone(n)
               PROVE  /\ EndsWith(put'[n], OnDisk(n)')
                      /\ \A g \in 1..Generations : dir[n][g] # NULL =>
                           Len(content'[dir[n][g]]) > Maxsize
    BY <1>1, <1>11 DEF Kept
  <2>1. /\ EndsWith(put[n], OnDisk(n))
        /\ \A g \in 1..Generations : dir[n][g] # NULL => Len(content[dir[n][g]]) > Maxsize
    BY DEF DiskOK, Kept
  <2>2. EndsWith(put'[n], OnDisk(n)')
    <3>1. CASE n = l
      <4>1. EndsWith(Append(put[n], line), Append(OnDisk(n), line))
        BY <2>1, EndsAppend
      <4> QED
        BY <1>10, <1>15, <3>1, <4>1
    <3>2. CASE n # l
      BY <1>10, <1>14, <2>1, <3>2
    <3> QED
      BY <3>1, <3>2
  <2>3. ASSUME NEW g \in 1..Generations, dir[n][g] # NULL
        PROVE  Len(content'[dir[n][g]]) > Maxsize
    <3>1. g \in Slots
      BY SlotsAre
    <3>2. dir[n][g] \in Inodes
      BY <1>2, <2>3, <3>1 DEF DirSet
    <3> QED
      BY <1>12, <2>1, <2>3, <3>2
  <2> QED
    BY <2>2, <2>3
<1>20. \A n \in Names : dir[n][0] # NULL => dir[n][0] \in Inodes
  BY <1>2, SlotsAre DEF DirSet
<1>21. ASSUME NEW f, RotateOK(f) PROVE RotateOK(f)'
  <2>1. \A n : Hole(f, n)' = Hole(f, n)
    BY <1>1 DEF Hole
  <2>2. /\ f.i \in Slots
        /\ f.at \in {"check", "close"} => f.i = Generations
        /\ f.at = "shift" => f.i > 0
        /\ f.at \in {"open", "reset"} => f.i = 0
        /\ f.at \in {"shift", "open"} => ~isOpen(f.prio)'
    BY <1>1, <1>21 DEF RotateOK, isOpen
  <2>3. ASSUME NEW n \in Names, Alone(n)
        PROVE  /\ Ordered(n, Hole(f, n))'
               /\ logfilename[f.prio] = n =>
                    /\ f.prio \in users[n]
                    /\ f.at \in {"close", "shift"} /\ dir[n][0] # NULL =>
                         Len(content'[dir[n][0]]) > Maxsize
    <3>1. /\ Ordered(n, Hole(f, n))
          /\ logfilename[f.prio] = n =>
               /\ f.prio \in users[n]
               /\ f.at \in {"close", "shift"} /\ dir[n][0] # NULL =>
                    Len(content[dir[n][0]]) > Maxsize
      BY <1>21, <2>3 DEF RotateOK
    <3>2. PICK k : k = Hole(f, n) /\ k = Hole(f, n)'
      BY <2>1
    <3>3. Ordered(n, k)'
      BY <1>16, <2>3, <3>1, <3>2
    <3>4. Ordered(n, Hole(f, n))'
      BY <3>2, <3>3
    <3> QED
      BY <1>12, <1>20, <3>1, <3>4
  <2> QED
    BY <1>1, <1>11, <2>2, <2>3 DEF RotateOK
<1> QED
  BY <1>11, <1>16, <1>17, <1>18, <1>19, <1>21 DEF DiskOK

(* With the oldest generation there are all.                               *)
LEMMA FullChain ==
  ASSUME NEW d \in DirSet, Chain(d, Generations), d[Generations] # NULL
  PROVE  Complete(d, Generations)
<1>1. PICK T : T = {g \in Slots : d[g] # NULL}
  OBVIOUS
<1>2. Generations \in T
  BY <1>1, SlotsAre
<1>3. ASSUME NEW g \in 0..Generations - 1, g + 1 \in T PROVE g \in T
  <2>1. g + 1 \in 1..Generations /\ g \in Slots /\ (g + 1) - 1 = g /\ ~(g < 0) /\ g # Generations
    BY SlotsAre DEF Slots
  <2>2. Younger(g + 1, Generations) = g
    BY <2>1 DEF Younger
  <2>3. d[g + 1] # NULL
    BY <1>1, <1>3
  <2>4. d[g] # NULL
    BY <2>1, <2>2, <2>3 DEF Chain
  <2> QED
    BY <1>1, <2>1, <2>4
<1>4. \A g \in Slots : g \in T
  BY <1>2, <1>3, Downwards
<1> QED
  BY <1>1, <1>4, SlotsAre DEF Complete

(* Generation i is removed, and if there was one only when it is the       *)
(* oldest.                                                                 *)
LEMMA LeftRemoved ==
  ASSUME NEW d \in DirSet, NEW e \in DirSet, NEW c \in ContentSet, NEW i \in 1..Generations,
         i < Generations => d[i] = NULL,
         e[i] = NULL, \A g \in Slots : g # i => e[g] = d[g],
         NEW q, EndsWith(q, Left(d, c))
  PROVE  EndsWith(q, Left(e, c)) /\ (d[i] = NULL => Left(e, c) = Left(d, c))
<1>1. CASE d[i] = NULL
  <2>1. \A g \in Slots : Bytes(e, c, g) = Bytes(d, c, g)
    BY <1>1 DEF Bytes
  <2> QED
    BY <2>1, LeftSame
<1>2. CASE d[i] # NULL
  <2>1. i = Generations
    BY <1>2, SlotsAre
  <2>2. Bytes(e, c, Generations) = << >>
    BY <2>1 DEF Bytes
  <2>3. \A g \in 0..Generations - 1 : g \in Slots /\ g # Generations
    BY SlotsAre DEF Slots
  <2>4. \A g \in 0..Generations - 1 : Bytes(e, c, g) = Bytes(d, c, g)
    BY <2>1, <2>3 DEF Bytes
  <2>5. PICK w \in Seq(LineSet) : Left(d, c) = w \o Left(e, c)
    BY <2>2, <2>4, LeftDrop
  <2>6. Left(e, c) \in Seq(LineSet)
    BY LeftType
  <2>7. EndsWith(q, Left(e, c))
    BY <2>5, <2>6, EndsDrop
  <2> QED
    BY <1>2, <2>7
<1> QED
  BY <1>1, <1>2

(* What the generations of another name are.                               *)
LEMMA OtherNames ==
  ASSUME NEW n \in Names, content' = content, put' = put, users' = users,
         \A m \in Names : m # n => dir'[m] = dir[m]
  PROVE  /\ \A m \in Names : Alone(m)' <=> Alone(m)
         /\ \A m \in Names : m # n => OnDisk(m)' = OnDisk(m)
         /\ \A m \in Names : \A k : m # n /\ Ordered(m, k) => Ordered(m, k)'
<1>1. \A m \in Names : Alone(m)' <=> Alone(m)
  BY DEF Alone
<1>2. \A m \in Names : m # n => OnDisk(m)' = OnDisk(m)
  BY OnDiskIsLeft, OnDiskIsLeftNext
<1>3. \A m \in Names : \A k : m # n /\ Ordered(m, k) => Ordered(m, k)'
  BY <1>2 DEF Ordered
<1> QED
  BY <1>1, <1>2, <1>3

(* Generation i is removed before the next takes its place, and then the   *)
(* rename fails.                                                           *)
LEMMA UnlinkDisk ==
  ASSUME FilesOK, DiskOK, NEW n \in Names, NEW i \in 1..Generations, Unlink(n, i),
         Alone(n) => Ordered(n, i)
  PROVE  DiskOK'
<1>1. /\ content' = content /\ put' = put /\ users' = users /\ logff' = logff
      /\ logfilename' = logfilename /\ dir' = [dir EXCEPT ![n][i] = NULL]
  BY DEF Unlink
<1>2. /\ dir \in [Names -> DirSet] /\ content \in ContentSet
  BY DEF DiskOK, DiskTypes, DirSet, ContentSet
<1>3. PICK e : e = [dir[n] EXCEPT ![i] = NULL]
  OBVIOUS
<1>4. i \in Slots /\ i # 0
  BY SlotsAre
<1>5. e \in DirSet /\ e[i] = NULL /\ \A g \in Slots : g # i => e[g] = dir[n][g]
  BY <1>2, <1>3, <1>4 DEF DirSet
<1>6. dir' = [dir EXCEPT ![n] = e]
  BY <1>1, <1>2, <1>3
<1>7. dir' \in [Names -> DirSet] /\ dir'[n] = e /\ \A m \in Names : m # n => dir'[m] = dir[m]
  BY <1>2, <1>5, <1>6
<1>8. \A m \in Names, g \in Slots : dir'[m][g] # NULL => dir'[m][g] = dir[m][g]
  BY <1>5, <1>7
<1>9. DiskTypes'
  BY <1>1, <1>7 DEF DiskOK, DiskTypes, DirSet
<1>10. Distinct'
  BY <1>8 DEF DiskOK, Distinct
<1>11. \A m \in Names : dir'[m][0] = dir[m][0]
  BY <1>4, <1>5, <1>7, SlotsAre
<1>12. Owned'
  <2> SUFFICES ASSUME NEW q \in Prios, isOpen(q)
               PROVE  /\ q \in users[logfilename[q]]
                      /\ \A m \in Names, g \in Slots : dir'[m][g] = logff[q] => logfilename[q] = m
                      /\ Alone(logfilename[q]) => logff[q] = dir'[logfilename[q]][0]
    BY <1>1 DEF Owned, isOpen, Alone
  <2>1. /\ q \in users[logfilename[q]]
        /\ \A m \in Names, g \in Slots : dir[m][g] = logff[q] => logfilename[q] = m
        /\ Alone(logfilename[q]) => logff[q] = dir[logfilename[q]][0]
    BY DEF DiskOK, Owned
  <2>2. logfilename[q] \in Names
    BY DEF FilesOK
  <2> QED
    BY <1>8, <1>11, <2>1, <2>2 DEF isOpen
<1>13. Kept'
  <2> SUFFICES ASSUME NEW m \in Names, Alone(m)
               PROVE  /\ EndsWith(put[m], OnDisk(m)')
                      /\ \A g \in 1..Generations : dir'[m][g] # NULL =>
                           Len(content[dir'[m][g]]) > Maxsize
    BY <1>1, OtherNames, <1>7 DEF Kept
  <2>1. EndsWith(put[m], OnDisk(m)) /\ \A g \in 1..Generations : dir[m][g] # NULL =>
           Len(content[dir[m][g]]) > Maxsize
    BY DEF DiskOK, Kept
  <2>2. \A g \in 1..Generations : dir'[m][g] # NULL => Len(content[dir'[m][g]]) > Maxsize
    BY <1>8, <2>1, SlotsAre
  <2>3. CASE m # n
    <3>1. OnDisk(m)' = OnDisk(m)
      BY <1>1, <1>7, <2>3, OnDiskIsLeft, OnDiskIsLeftNext
    <3> QED
      BY <2>1, <2>2, <3>1
  <2>4. CASE m = n
    <3>1. i < Generations => dir[n][i] = NULL
      BY <2>4 DEF Ordered, Chain
    <3>2. EndsWith(put[n], Left(dir[n], content))
      BY <2>1, <2>4, OnDiskIsLeft
    <3>3. dir[n] \in DirSet
      BY <1>2
    <3>4. EndsWith(put[n], Left(e, content))
      BY <1>2, <1>5, <3>1, <3>2, <3>3, LeftRemoved
    <3>5. OnDisk(m)' = Left(e, content)
      BY <1>1, <1>7, <2>4, OnDiskIsLeftNext
    <3> QED
      BY <2>2, <2>4, <3>4, <3>5
  <2> QED
    BY <2>3, <2>4
<1> QED
  BY <1>9, <1>10, <1>12, <1>13 DEF DiskOK

(* e is d with generation i - 1 renamed to generation i.                   *)
Renamed(d, e, i) ==
  /\ e[i] = d[i - 1] /\ e[i - 1] = NULL
  /\ \A g \in Slots : g # i /\ g # i - 1 => e[g] = d[g]

(* A rename loses the lines that were in slot i, and no others.            *)
LEMMA LeftRenamed ==
  ASSUME NEW d \in DirSet, NEW e \in DirSet, NEW c \in ContentSet, NEW i \in 1..Generations,
         i < Generations => d[i] = NULL, Renamed(d, e, i),
         NEW q, EndsWith(q, Left(d, c))
  PROVE  EndsWith(q, Left(e, c)) /\ (d[i] = NULL => Left(e, c) = Left(d, c))
<1>1. PICK r : r = [d EXCEPT ![i] = NULL]
  OBVIOUS
<1>2. i \in Slots /\ i - 1 \in Slots /\ i # i - 1
  BY SlotsAre
<1>3. r \in DirSet /\ r[i] = NULL /\ \A g \in Slots : g # i => r[g] = d[g]
  BY <1>1, <1>2 DEF DirSet
<1>4. EndsWith(q, Left(r, c)) /\ (d[i] = NULL => Left(r, c) = Left(d, c))
  BY <1>3, LeftRemoved
<1>5. /\ e[i] = r[i - 1] /\ e[i - 1] = NULL
      /\ \A g \in Slots : g # i /\ g # i - 1 => e[g] = r[g]
  BY <1>2, <1>3 DEF Renamed
<1>6. /\ Bytes(r, c, i) = << >> /\ Bytes(e, c, i - 1) = << >>
      /\ Bytes(e, c, i) = Bytes(r, c, i - 1)
      /\ \A g \in Slots : g # i /\ g # i - 1 => Bytes(e, c, g) = Bytes(r, c, g)
  BY <1>3, <1>5 DEF Bytes
<1>7. Left(e, c) = Left(r, c)
  BY <1>3, <1>6, LeftShift
<1> QED
  BY <1>4, <1>7

(* The generations stay in order: what is missing is now one further.      *)
LEMMA ChainRenamed ==
  ASSUME NEW d \in DirSet, NEW e \in DirSet, NEW i \in 1..Generations, Renamed(d, e, i),
         Chain(d, i), i = 1 => d[0] # NULL
  PROVE  Chain(e, i - 1) /\ (Complete(d, i) => Complete(e, i - 1))
<1>1. PICK G \in Nat : G = Generations /\ G > 1 /\ i \in 1..G /\ Slots = 0..G
  BY LogFilesAssumption DEF Slots
<1>2. /\ e[i] = d[i - 1] /\ e[i - 1] = NULL
      /\ \A g \in 0..G : g # i /\ g # i - 1 => e[g] = d[g]
  BY <1>1 DEF Renamed
<1>3. /\ i < G => d[i] = NULL
      /\ \A g \in 1..G : d[g] # NULL => Younger(g, i) < 0 \/ d[Younger(g, i)] # NULL
  BY <1>1 DEF Chain
<1>4. ASSUME NEW g \in 1..G, e[g] # NULL
      PROVE  Younger(g, i - 1) < 0 \/ e[Younger(g, i - 1)] # NULL
  <2>1. CASE g = i
    <3>1. Younger(g, i - 1) = i - 2 /\ d[i - 1] # NULL
      BY <1>2, <1>4, <2>1 DEF Younger
    <3>2. CASE i = 1
      BY <3>1, <3>2
    <3>3. CASE i # 1
      <4>1. i - 1 \in 1..G /\ ~(i - 2 < 0) /\ i - 2 \in 0..G /\ i - 2 # i /\ i - 2 # i - 1
        BY <1>1, <3>3
      <4>2. Younger(i - 1, i) = i - 2
        BY <1>1 DEF Younger
      <4>3. d[i - 2] # NULL
        BY <1>3, <3>1, <4>1, <4>2
      <4> QED
        BY <1>2, <3>1, <4>1, <4>3
    <3> QED
      BY <3>2, <3>3
  <2>2. CASE g = i + 1
    <3>1. g \in 0..G /\ g # i /\ g # i - 1 /\ ~(i - 1 < 0)
      BY <1>1, <2>2
    <3>2. d[g] # NULL
      BY <1>2, <1>4, <3>1
    <3>3. Younger(g, i) = i - 1 /\ Younger(g, i - 1) = i
      BY <1>1, <2>2 DEF Younger
    <3>4. d[i - 1] # NULL
      BY <1>3, <3>1, <3>2, <3>3
    <3> QED
      BY <1>2, <3>3, <3>4
  <2>3. CASE g # i /\ g # i + 1
    <3>1. g # i - 1 /\ g \in 0..G
      BY <1>2, <1>4
    <3>2. d[g] # NULL
      BY <1>2, <1>4, <2>3, <3>1
    <3>3. /\ Younger(g, i) = g - 1 /\ Younger(g, i - 1) = g - 1
          /\ g - 1 \in 0..G /\ g - 1 # i /\ g - 1 # i - 1 /\ ~(g - 1 < 0)
      BY <1>1, <2>3, <3>1 DEF Younger
    <3>4. d[g - 1] # NULL
      BY <1>3, <3>2, <3>3
    <3> QED
      BY <1>2, <3>3, <3>4
  <2> QED
    BY <2>1, <2>2, <2>3
<1>5. Chain(e, i - 1)
  BY <1>1, <1>2, <1>4 DEF Chain
<1>6. ASSUME Complete(d, i) PROVE Complete(e, i - 1)
  <2> SUFFICES ASSUME NEW g \in 1..G, e[g] = NULL PROVE g = i - 1 /\ i - 1 < G
    BY <1>1 DEF Complete
  <2>1. \A j \in 1..G : d[j] = NULL => j = i /\ i < G
    BY <1>1, <1>6 DEF Complete
  <2>2. i - 1 < G
    BY <1>1
  <2>3. CASE g = i
    <3>1. d[i - 1] = NULL
      BY <1>2, <2>3
    <3>2. i # 1 => i - 1 \in 1..G /\ i - 1 # i
      BY <1>1
    <3>3. i = 1 => i - 1 = 0
      OBVIOUS
    <3> QED
      BY <2>1, <3>1, <3>2, <3>3
  <2>4. CASE g # i /\ g # i - 1
    <3>1. g \in 0..G
      OBVIOUS
    <3>2. d[g] = NULL
      BY <1>2, <2>4, <3>1
    <3> QED
      BY <2>1, <2>4, <3>2
  <2> QED
    BY <2>2, <2>3, <2>4
<1> QED
  BY <1>5, <1>6

(* One turn of the loop of checkRotate.                                    *)
LEMMA ShiftDisk ==
  ASSUME FilesOK, DiskOK, NEW n \in Names, NEW i \in 1..Generations, Shift(n, i),
         Alone(n) => Ordered(n, i), i = 1 => dir[n][0] # NULL,
         Alone(n) /\ i = 1 => Len(content[dir[n][0]]) > Maxsize,
         Alone(n) => \A p \in Prios : isOpen(p) => logfilename[p] # n
  PROVE  /\ DiskOK'
         /\ Alone(n) => Ordered(n, i - 1)'
         /\ \A m \in Names : Alone(m)' <=> Alone(m)
         /\ \A m \in Names : \A k : m # n /\ Ordered(m, k) => Ordered(m, k)'
         /\ i # 1 => dir'[n][0] = NULL \/ dir'[n][0] = dir[n][0]
<1>1. /\ content' = content /\ put' = put /\ users' = users /\ logff' = logff
      /\ logfilename' = logfilename
      /\ dir' = [dir EXCEPT ![n][i] = dir[n][i - 1], ![n][i - 1] = NULL]
  BY DEF Shift
<1>2. /\ dir \in [Names -> DirSet] /\ content \in ContentSet
  BY DEF DiskOK, DiskTypes, DirSet, ContentSet
<1>3. PICK e : e = [dir[n] EXCEPT ![i] = dir[n][i - 1], ![i - 1] = NULL]
  OBVIOUS
<1>4. i \in Slots /\ i # 0 /\ i - 1 \in Slots /\ i # i - 1
  BY SlotsAre
<1>5. e \in DirSet /\ Renamed(dir[n], e, i)
  <2>1. dir[n] \in [Slots -> Inodes \cup {NULL}]
    BY <1>2 DEF DirSet
  <2>2. dir[n][i - 1] \in Inodes \cup {NULL}
    BY <1>4, <2>1
  <2>3. e \in [Slots -> Inodes \cup {NULL}]
    BY <1>3, <1>4, <2>1, <2>2
  <2>4. e[i] = dir[n][i - 1] /\ e[i - 1] = NULL
    BY <1>3, <1>4, <2>1
  <2>5. \A g \in Slots : g # i /\ g # i - 1 => e[g] = dir[n][g]
    BY <1>3, <1>4, <2>1
  <2> QED
    BY <2>3, <2>4, <2>5 DEF Renamed, DirSet
<1>6. dir' = [dir EXCEPT ![n] = e]
  BY <1>1, <1>2, <1>3
<1>7. dir' \in [Names -> DirSet] /\ dir'[n] = e /\ \A m \in Names : m # n => dir'[m] = dir[m]
  BY <1>2, <1>5, <1>6
<1>8. \A m \in Names, g \in Slots : dir'[m][g] # NULL =>
        dir'[m][g] = dir[m][IF m = n /\ g = i THEN i - 1 ELSE g]
  <2> SUFFICES ASSUME NEW g \in Slots, e[g] # NULL
               PROVE  e[g] = dir[n][IF g = i THEN i - 1 ELSE g]
    BY <1>7
  <2> QED
    BY <1>5 DEF Renamed
<1>9. DiskTypes'
  BY <1>1, <1>7 DEF DiskOK, DiskTypes, DirSet
<1>10. Distinct'
  <2> SUFFICES ASSUME NEW m \in Names, NEW l \in Names, NEW g \in Slots, NEW h \in Slots,
                      dir'[m][g] = dir'[l][h], dir'[m][g] # NULL
               PROVE  m = l /\ g = h
    BY DEF Distinct
  <2>1. PICK a \in Slots : a = (IF m = n /\ g = i THEN i - 1 ELSE g) /\ dir'[m][g] = dir[m][a]
    BY <1>4, <1>8
  <2>2. PICK b \in Slots : b = (IF l = n /\ h = i THEN i - 1 ELSE h) /\ dir'[l][h] = dir[l][b]
    BY <1>4, <1>8
  <2>6. dir[m][a] = dir[l][b] /\ dir[m][a] # NULL
    BY <2>1, <2>2
  <2>3. m = l /\ a = b
    BY <2>6 DEF DiskOK, Distinct
  <2>4. m = n => g # i - 1
    BY <1>5, <1>7 DEF Renamed
  <2>5. l = n => h # i - 1
    BY <1>5, <1>7 DEF Renamed
  <2> QED
    BY <2>1, <2>2, <2>3, <2>4, <2>5
<1>11. \A m \in Names : Alone(m)' <=> Alone(m)
  BY <1>1 DEF Alone
<1>12. Owned'
  <2> SUFFICES ASSUME NEW q \in Prios, logff'[q] # NULL
               PROVE  /\ q \in users'[logfilename'[q]]
                      /\ \A m \in Names, g \in Slots : dir'[m][g] = logff'[q] => logfilename'[q] = m
                      /\ (\A a, b \in users'[logfilename'[q]] : a = b) =>
                           logff'[q] = dir'[logfilename'[q]][0]
    BY DEF Owned, isOpen, Alone
  <2>5. isOpen(q)
    BY <1>1 DEF isOpen
  <2>1. /\ q \in users[logfilename[q]]
        /\ \A m \in Names, g \in Slots : dir[m][g] = logff[q] => logfilename[q] = m
        /\ Alone(logfilename[q]) => logff[q] = dir[logfilename[q]][0]
    BY <2>5 DEF DiskOK, Owned
  <2>2. logfilename[q] \in Names
    BY <2>5 DEF FilesOK
  <2>3. ASSUME NEW m \in Names, NEW g \in Slots, dir'[m][g] = logff[q] PROVE logfilename[q] = m
    <3>2. dir'[m][g] # NULL
      BY <2>3, <2>5 DEF isOpen
    <3>1. PICK a \in Slots : dir'[m][g] = dir[m][a]
      BY <1>4, <1>8, <3>2
    <3> QED
      BY <2>1, <2>3, <3>1
  <2>4. Alone(logfilename[q]) => logfilename[q] # n
    BY <2>5
  <2> QED
    BY <1>1, <1>7, <2>1, <2>2, <2>3, <2>4 DEF Alone
<1>13. Kept'
  <2> SUFFICES ASSUME NEW m \in Names, Alone(m)
               PROVE  /\ EndsWith(put[m], OnDisk(m)')
                      /\ \A g \in 1..Generations : dir'[m][g] # NULL =>
                           Len(content[dir'[m][g]]) > Maxsize
    BY <1>1, <1>11 DEF Kept
  <2>1. EndsWith(put[m], OnDisk(m)) /\ \A g \in 1..Generations : dir[m][g] # NULL =>
           Len(content[dir[m][g]]) > Maxsize
    BY DEF DiskOK, Kept
  <2>2. CASE m # n
    <3>1. OnDisk(m)' = OnDisk(m)
      BY <1>1, <1>7, <2>2, OnDiskIsLeft, OnDiskIsLeftNext
    <3> QED
      BY <1>7, <2>1, <2>2, <3>1
  <2>3. CASE m = n
    <3>1. i < Generations => dir[n][i] = NULL
      BY <2>3 DEF Ordered, Chain
    <3>2. EndsWith(put[n], Left(dir[n], content))
      BY <2>1, <2>3, OnDiskIsLeft
    <3>3. dir[n] \in DirSet
      BY <1>2
    <3>4. EndsWith(put[n], Left(e, content))
      BY <1>2, <1>5, <3>1, <3>2, <3>3, LeftRenamed
    <3>5. OnDisk(m)' = Left(e, content)
      BY <1>1, <1>7, <2>3, OnDiskIsLeftNext
    <3>6. ASSUME NEW g \in 1..Generations, dir'[n][g] # NULL
          PROVE  Len(content[dir'[n][g]]) > Maxsize
      <4>1. CASE g # i
        <5>1. dir'[n][g] = dir[n][g]
          BY <1>8, <3>6, <4>1, SlotsAre
        <5> QED
          BY <2>1, <2>3, <3>6, <5>1
      <4>2. CASE g = i
        <5>1. dir'[n][g] = dir[n][i - 1]
          BY <1>5, <1>7, <4>2 DEF Renamed
        <5>2. i = 1 \/ i - 1 \in 1..Generations
          BY SlotsAre
        <5>3. i = 1 => i - 1 = 0
          OBVIOUS
        <5> QED
          BY <2>1, <2>3, <3>6, <5>1, <5>2, <5>3
      <4> QED
        BY <4>1, <4>2
    <3> QED
      BY <2>3, <3>4, <3>5, <3>6
  <2> QED
    BY <2>2, <2>3
<1>14. ASSUME NEW m \in Names, NEW k, m # n, Ordered(m, k) PROVE Ordered(m, k)'
  <2>1. OnDisk(m)' = OnDisk(m)
    BY <1>1, <1>7, <1>14, OnDiskIsLeft, OnDiskIsLeftNext
  <2> QED
    BY <1>1, <1>7, <1>14, <2>1 DEF Ordered
<1>15. ASSUME Alone(n) PROVE Ordered(n, i - 1)'
  <2>1. Chain(dir[n], i) /\ (OnDisk(n) = put[n] \/ Complete(dir[n], i))
    BY <1>15 DEF Ordered
  <2>2. dir[n] \in DirSet
    BY <1>2
  <2>3. Chain(e, i - 1) /\ (Complete(dir[n], i) => Complete(e, i - 1))
    BY <1>5, <2>1, <2>2, ChainRenamed
  <2>4. CASE dir[n][i] = NULL
    <3>1. EndsWith(put[n], Left(dir[n], content))
      BY <1>15, OnDiskIsLeft DEF DiskOK, Kept
    <3>2. Left(e, content) = Left(dir[n], content)
      BY <1>2, <1>5, <2>2, <2>4, <3>1, LeftRenamed
    <3>3. OnDisk(n)' = OnDisk(n)
      BY <1>1, <1>7, <3>2, OnDiskIsLeft, OnDiskIsLeftNext
    <3> QED
      BY <1>1, <1>7, <2>1, <2>3, <3>3 DEF Ordered
  <2>5. CASE dir[n][i] # NULL
    <3>1. i = Generations
      BY <2>1, <2>5, SlotsAre DEF Chain
    <3>2. Complete(dir[n], i)
      BY <2>1, <2>2, <2>5, <3>1, FullChain
    <3> QED
      BY <1>7, <2>3, <3>2 DEF Ordered
  <2> QED
    BY <2>4, <2>5
<1>16. ASSUME i # 1 PROVE dir'[n][0] = NULL \/ dir'[n][0] = dir[n][0]
  <2>1. 0 \in Slots /\ 0 # i
    BY SlotsAre
  <2> QED
    BY <1>8, <2>1
<1> QED
  BY <1>9, <1>10, <1>11, <1>12, <1>13, <1>14, <1>15, <1>16 DEF DiskOK

-----------------------------------------------------------------------------
(* The steps.                                                              *)

(* A frame that goes on belongs to the same function.                      *)
LEMMA OpStays ==
  ASSUME NEW f \in AnyFrame, NEW at, NEW x
  PROVE  /\ [f EXCEPT !.at = at].op = f.op
         /\ [f EXCEPT !.node = x].op = f.op
         /\ [f EXCEPT !.at = at, !.node = x].op = f.op
         /\ [f EXCEPT !.lines = x].op = f.op
         /\ [f EXCEPT !.todo = x, !.at = at].op = f.op
<1>1. f = [y \in DOMAIN f |-> f[y]] /\ "op" \in DOMAIN f
  BY DEF AnyFrame, PrintFrames, OutputFrames, RotateFrames, CallFrames
<1>2. PICK D : D = DOMAIN f
  OBVIOUS
<1>3. f \in [D -> {f[y] : y \in D}]
  BY <1>1, <1>2
<1> QED
  BY <1>1, <1>2, <1>3

(* Steps that leave the files and the rotation alone.                      *)
Still == UNCHANGED <<files, inrotate>>

LEMMA StillGoes ==
  ASSUME LoggerInv, DiskInv, NEW t \in Threads, stack[t] # << >>, NEW g, g.op # "checkRotate",
         stack' = [stack EXCEPT ![t] = <<g>> \o Tail(@)], Still
  PROVE  DiskInv'
<1>1. PICK s : s = stack[t]
  OBVIOUS
<1>2. s \in Seq(AnyFrame) /\ s # << >>
  BY <1>1 DEF LoggerInv
<1>3. PICK r : r = <<g>> \o Tail(s)
  OBVIOUS
<1>4. stack' = [stack EXCEPT ![t] = r]
  BY <1>1, <1>3
<1>5. Comes(r, s)
  BY <1>2, <1>3, SwapComes
<1> QED
  BY <1>1, <1>4, <1>5, StillStep DEF Still

LEMMA StillEnters ==
  ASSUME LoggerInv, DiskInv, NEW t \in Threads, stack[t] # << >>, NEW f, f.op # "checkRotate",
         NEW g, g.op # "checkRotate",
         stack' = [stack EXCEPT ![t] = <<f, g>> \o Tail(@)], Still
  PROVE  DiskInv'
<1>1. PICK s : s = stack[t]
  OBVIOUS
<1>2. s \in Seq(AnyFrame) /\ s # << >>
  BY <1>1 DEF LoggerInv
<1>3. PICK r : r = <<f, g>> \o Tail(s)
  OBVIOUS
<1>4. stack' = [stack EXCEPT ![t] = r]
  BY <1>1, <1>3
<1>5. Comes(r, s)
  BY <1>2, <1>3, PushComes
<1> QED
  BY <1>1, <1>4, <1>5, StillStep DEF Still

LEMMA StillReturns ==
  ASSUME LoggerInv, DiskInv, NEW t \in Threads, stack[t] # << >>, Returns(t), Still
  PROVE  DiskInv'
<1>1. PICK s : s = stack[t]
  OBVIOUS
<1>2. s \in Seq(AnyFrame) /\ s # << >>
  BY <1>1 DEF LoggerInv
<1>3. PICK r : r = Tail(s)
  OBVIOUS
<1>4. stack' = [stack EXCEPT ![t] = r]
  BY <1>1, <1>3 DEF Returns
<1>5. Comes(r, s)
  BY <1>2, <1>3, PopComes
<1> QED
  BY <1>1, <1>4, <1>5, StillStep DEF Still

LEMMA StillThrows ==
  ASSUME LoggerInv, DiskInv, NEW t \in Threads, stack[t] # << >>, Throws(t), Still
  PROVE  DiskInv'
<1>1. PICK s : s = stack[t]
  OBVIOUS
<1>2. s \in Seq(AnyFrame) /\ s # << >>
  BY <1>1 DEF LoggerInv
<1>3. PICK r : r = << >>
  OBVIOUS
<1>4. stack' = [stack EXCEPT ![t] = r]
  BY <1>3 DEF Throws
<1>5. Comes(r, s)
  BY <1>2, <1>3, PopComes
<1> QED
  BY <1>1, <1>4, <1>5, StillStep DEF Still

LEMMA TopFrame ==
  ASSUME LoggerInv, NEW t \in Threads, stack[t] # << >>
  PROVE  Top(t) \in AnyFrame /\ Top(t) = stack[t][1] /\ stack[t] \in Seq(AnyFrame)
<1>1. stack[t] \in Seq(AnyFrame)
  BY DEF LoggerInv
<1> QED
  BY <1>1, HeadFrame DEF Top

(* A call begins.                                                          *)
LEMMA CallDisk ==
  ASSUME LoggerInv, DiskInv, NEW t \in Threads, CallAny(t)
  PROVE  DiskInv'
<1>1. PICK c \in Offers[t] :
        \/ c.op = "print" /\ print(t, c.prio, c.level, c.place, c.lines)
        \/ c.op = "setFilter" /\ setFilter(t, c.place, c.level)
        \/ c.op = "deleteFilter" /\ deleteFilter(t, c.place)
        \/ c.op = "terminate" /\ CallTerminate(t)
        \/ c.op \in LockingOps /\ Locking(t, c)
  BY DEF CallAny
<1>2. c \in AnyCall
  BY LoggerAssumption
<1>3. Call(t) => Still
  BY DEF Call, Still
<1>4. PICK s : s = stack[t]
  OBVIOUS
<1>5. CASE print(t, c.prio, c.level, c.place, c.lines)
  <2>1. PICK f : f = PrintFrame(c.prio, c.level, printed + 1, c.lines)
    OBVIOUS
  <2>2. f.op = "print"
    BY <2>1 DEF PrintFrame
  <2>3. stack' = [stack EXCEPT ![t] = <<f>>] /\ Still
    BY <1>3, <1>5, <2>1 DEF print, Begins
  <2>4. Comes(<<f>>, s)
    BY <2>2, ShortComes
  <2> QED
    BY <1>4, <2>3, <2>4, StillStep DEF Still
<1>6. CASE setFilter(t, c.place, c.level) \/ deleteFilter(t, c.place)
  <2>1. Call(t) /\ stack' = stack
    BY <1>6 DEF setFilter, deleteFilter
  <2>2. stack \in [Threads -> Seq(AnyFrame)]
    BY DEF LoggerInv
  <2>3. stack' = [stack EXCEPT ![t] = s]
    BY <1>4, <2>1, <2>2
  <2>4. Comes(s, s)
    BY DEF Comes
  <2> QED
    BY <1>3, <1>4, <2>1, <2>3, <2>4, StillStep DEF Still
<1>7. CASE CallTerminate(t)
  <2>1. PICK f : f = PrintFrame(INFO, 0, 0, 1)
    OBVIOUS
  <2>2. PICK g : g = [op |-> "terminate", at |-> "close", todo |-> Prios]
    OBVIOUS
  <2>3. f.op = "print" /\ g.op = "terminate"
    BY <2>1, <2>2 DEF PrintFrame
  <2>4. stack' = [stack EXCEPT ![t] = <<f, g>>] /\ Still
    BY <1>3, <1>7, <2>1, <2>2 DEF CallTerminate, Begins
  <2>5. Comes(<<f, g>>, s)
    BY <2>3, ShortComes
  <2> QED
    BY <1>4, <2>4, <2>5, StillStep DEF Still
<1>8. CASE c.op \in LockingOps /\ Locking(t, c)
  <2>1. PICK f : f = [x \in DOMAIN c \cup {"at"} |-> IF x = "at" THEN "lock" ELSE c[x]]
    OBVIOUS
  <2>2. Cold(f)
    BY <1>2, <1>8, <2>1, CallFrame
  <2>3. stack' = [stack EXCEPT ![t] = <<f>>] /\ Still
    BY <1>3, <1>8, <2>1 DEF Locking, Begins
  <2>4. Comes(<<f>>, s)
    BY <2>2, ShortComes DEF Cold
  <2> QED
    BY <1>4, <2>3, <2>4, StillStep DEF Still
<1> QED
  BY <1>1, <1>5, <1>6, <1>7, <1>8

(* One step that leaves the files alone, without the mutex.                *)
LEMMA OneStepDisk ==
  ASSUME LoggerInv, DiskInv, NEW t \in Threads,
         \/ setLogRotate(t) \/ addLogHandler(t) \/ deleteLogHandler(t) \/ TerminateFree(t)
         \/ Return(t) \/ PrintUnlock(t)
  PROVE  DiskInv'
<1>1. stack[t] # << >> /\ Returns(t) /\ Still
  BY DEF setLogRotate, addLogHandler, deleteLogHandler, TerminateFree, Return, PrintUnlock,
         Locks, At, Idle, Still
<1> QED
  BY <1>1, StillReturns

LEMMA AnnounceDisk ==
  ASSUME LoggerInv, NEW t \in Threads, stack[t] # << >>, Top(t).op # "checkRotate",
         Announces(t, "return", Top(t).prio)
  PROVE  \E r : stack' = [stack EXCEPT ![t] = r] /\ Comes(r, stack[t])
<1>1. PICK s \in Seq(AnyFrame) : s = stack[t] /\ s # << >>
  BY TopFrame
<1>2. PICK g : g = [Top(t) EXCEPT !.at = "return"]
  OBVIOUS
<1>3. g.op # "checkRotate"
  BY <1>2, TopFrame, OpStays
<1>4. CASE Goes(t, "return")
  BY <1>1, <1>2, <1>3, <1>4, SwapComes DEF Goes
<1>5. CASE Enters(t, "return", PrintFrame(Top(t).prio, 0, 0, 1))
  <2>1. PICK f : f = PrintFrame(Top(t).prio, 0, 0, 1)
    OBVIOUS
  <2>2. f.op # "checkRotate"
    BY <2>1 DEF PrintFrame
  <2> QED
    BY <1>1, <1>2, <1>3, <1>5, <2>1, <2>2, PushComes DEF Enters
<1> QED
  BY <1>4, <1>5 DEF Announces

LEMMA SetLogLevelDisk ==
  ASSUME LoggerInv, DiskInv, NEW t \in Threads, setLogLevel(t)
  PROVE  DiskInv'
<1>1. /\ stack[t] # << >> /\ Top(t).op = "setLogLevel" /\ Still
      /\ Announces(t, "return", Top(t).prio)
  BY DEF setLogLevel, Locks, At, Top, Still
<1>2. PICK r : stack' = [stack EXCEPT ![t] = r] /\ Comes(r, stack[t])
  BY <1>1, AnnounceDisk
<1>3. PICK s : s = stack[t]
  OBVIOUS
<1> QED
  BY <1>1, <1>2, <1>3, StillStep DEF Still

LEMMA PrintDisk ==
  ASSUME LoggerInv, DiskInv, NEW t \in Threads,
         PrintLock(t) \/ PrintDeadlock(t) \/ PrintNext(t)
  PROVE  DiskInv'
<1>1. stack[t] # << >> /\ Top(t).op = "print"
  BY DEF PrintLock, PrintDeadlock, PrintNext, Locks, At, Top
<1>2. Top(t) \in AnyFrame
  BY <1>1, TopFrame
<1>3. CASE PrintLock(t)
  <2>1. PICK f : f = OutputFrame(Top(t).prio, Top(t).level, <<Top(t).msg, 1>>)
    OBVIOUS
  <2>2. PICK g : g = [Top(t) EXCEPT !.at = "locked"]
    OBVIOUS
  <2>3. f.op = "output" /\ g.op = "print"
    BY <1>1, <1>2, <2>1, <2>2, OpStays DEF OutputFrame
  <2>4. stack' = [stack EXCEPT ![t] = <<f, g>> \o Tail(@)] /\ Still
    BY <1>3, <2>1, <2>2 DEF PrintLock, Enters, Still
  <2> QED
    BY <1>1, <2>3, <2>4, StillEnters
<1>4. CASE PrintDeadlock(t)
  BY <1>1, <1>4, StillThrows DEF PrintDeadlock, Still
<1>5. CASE PrintNext(t)
  <2>1. PICK f : f = OutputFrame(Top(t).prio, Top(t).level, <<Top(t).msg, 2>>)
    OBVIOUS
  <2>2. PICK g : g = [Top(t) EXCEPT !.lines = @ - 1]
    OBVIOUS
  <2>3. f.op = "output" /\ g.op = "print"
    BY <1>1, <1>2, <2>1, <2>2, OpStays DEF OutputFrame
  <2>4. stack' = [stack EXCEPT ![t] = <<f, g>> \o Tail(@)] /\ Still
    BY <1>5, <2>1, <2>2 DEF PrintNext, Still
  <2> QED
    BY <1>1, <2>3, <2>4, StillEnters
<1> QED
  BY <1>3, <1>4, <1>5

LEMMA GoesDisk ==
  ASSUME LoggerInv, DiskInv, NEW t \in Threads, stack[t] # << >>, Top(t).op = "output",
         NEW at, Goes(t, at), Still
  PROVE  DiskInv'
<1>1. Top(t) \in AnyFrame
  BY TopFrame
<1>2. PICK g : g = [Top(t) EXCEPT !.at = at]
  OBVIOUS
<1>3. g.op = "output"
  BY <1>1, <1>2, OpStays
<1>4. stack' = [stack EXCEPT ![t] = <<g>> \o Tail(@)]
  BY <1>2 DEF Goes
<1> QED
  BY <1>3, <1>4, StillGoes

LEMMA ToHandlersDisk ==
  ASSUME LoggerInv, DiskInv, NEW t \in Threads, stack[t] # << >>, Top(t).op = "output",
         ToHandlers(t), Still
  PROVE  DiskInv'
<1>1. Top(t) \in AnyFrame
  BY TopFrame
<1>2. CASE Returns(t)
  BY <1>2, StillReturns
<1>3. CASE stack' = [stack EXCEPT ![t] =
             <<[Top(t) EXCEPT !.at = "handlers", !.node = Head(handlers)]>> \o Tail(@)]
  <2>1. PICK g : g = [Top(t) EXCEPT !.at = "handlers", !.node = Head(handlers)]
    OBVIOUS
  <2>2. g.op = "output"
    BY <1>1, <2>1, OpStays
  <2>3. stack' = [stack EXCEPT ![t] = <<g>> \o Tail(@)]
    BY <1>3, <2>1
  <2> QED
    BY <2>2, <2>3, StillGoes
<1> QED
  BY <1>2, <1>3 DEF ToHandlers

LEMMA OutputDisk ==
  ASSUME LoggerInv, DiskInv, NEW t \in Threads,
         OutputOwn(t) \/ OutputDebug(t) \/ OutputFirst(t)
  PROVE  DiskInv'
<1>1. stack[t] # << >> /\ Top(t).op = "output" /\ Still
  BY DEF OutputOwn, OutputDebug, OutputFirst, At, Top, Still, Unlogged
<1>2. (\E at : Goes(t, at)) \/ ToHandlers(t)
  BY DEF OutputOwn, OutputDebug, OutputFirst
<1> QED
  BY <1>1, <1>2, GoesDisk, ToHandlersDisk

LEMMA OutputHandlersDisk ==
  ASSUME LoggerInv, DiskInv, NEW t \in Threads, OutputHandlers(t)
  PROVE  DiskInv'
<1>1. stack[t] # << >> /\ Top(t).op = "output" /\ Still
  BY DEF OutputHandlers, At, Top, Still
<1>2. Top(t) \in AnyFrame
  BY <1>1, TopFrame
<1>3. CASE Returns(t)
  BY <1>1, <1>3, StillReturns
<1>4. CASE stack' = [stack EXCEPT ![t] = <<[Top(t) EXCEPT !.node = NodeAfter(@)]>> \o Tail(@)]
  <2>1. PICK g : g = [Top(t) EXCEPT !.node = NodeAfter(@)]
    OBVIOUS
  <2>2. g.op = "output"
    BY <1>1, <1>2, <2>1, OpStays
  <2>3. stack' = [stack EXCEPT ![t] = <<g>> \o Tail(@)]
    BY <1>4, <2>1
  <2> QED
    BY <1>1, <2>2, <2>3, StillGoes
<1>5. CASE Throws(t)
  BY <1>1, <1>5, StillThrows
<1>6. CASE Enters(t, "handlers", PrintFrame(DEBUG, 0, 0, 1))
  <2>1. PICK f : f = PrintFrame(DEBUG, 0, 0, 1)
    OBVIOUS
  <2>2. PICK g : g = [Top(t) EXCEPT !.at = "handlers"]
    OBVIOUS
  <2>3. f.op = "print" /\ g.op = "output"
    BY <1>1, <1>2, <2>1, <2>2, OpStays DEF PrintFrame
  <2>4. stack' = [stack EXCEPT ![t] = <<f, g>> \o Tail(@)]
    BY <1>6, <2>1, <2>2 DEF Enters
  <2> QED
    BY <1>1, <2>3, <2>4, StillEnters
<1> QED
  BY <1>3, <1>4, <1>5, <1>6 DEF OutputHandlers, Fails

(* The thread with the mutex is the only one that is inside checkRotate.   *)
LEMMA RotatesAlone ==
  ASSUME LoggerInv, NEW t \in Threads, mutex \in {NULL, t}, NEW r,
         stack' = [stack EXCEPT ![t] = r],
         \A i \in 1..Len(r) : r[i].op = "checkRotate" => RotateOK(r[i])'
  PROVE  RotatesOK'
<1>1. stack \in [Threads -> Seq(AnyFrame)]
  BY DEF LoggerInv
<1>2. stack'[t] = r /\ \A u \in Threads : u # t => stack'[u] = stack[u]
  BY <1>1
<1>3. \A u \in Threads : u # t => u # mutex
  BY LoggerAssumption
<1>4. ASSUME NEW u \in Threads, NEW i \in 1..Len(stack'[u]), stack'[u][i].op = "checkRotate"
      PROVE  RotateOK(stack[u][i])'
  <2>1. u = t
    <3>1. u # t => i \in 1..Len(stack[u]) /\ stack[u][i].op = "checkRotate"
      BY <1>2, <1>4
    <3>2. u # t => mutex = u
      BY <3>1, RotateHolds
    <3> QED
      BY <1>3, <3>2
  <2>2. PICK f : f = stack'[u][i]
    OBVIOUS
  <2>3. f = r[i] /\ i \in 1..Len(r) /\ f.op = "checkRotate"
    BY <1>2, <1>4, <2>1, <2>2
  <2>4. RotateOK(f)'
    BY <2>3
  <2> QED
    BY <2>2, <2>4
<1> QED
  BY <1>4 DEF RotatesOK

LEMMA RotatesNone ==
  ASSUME LoggerInv, NEW t \in Threads, mutex = NULL, NEW r, stack' = [stack EXCEPT ![t] = r],
         NEW s, s = stack[t], Comes(r, s)
  PROVE  RotatesOK'
<1>1. \A j \in 1..Len(s) : s[j].op # "checkRotate"
  BY RotateHolds, LoggerAssumption
<1>2. \A i \in 1..Len(r) : r[i].op = "checkRotate" => RotateOK(r[i])'
  BY <1>1 DEF Comes
<1> QED
  BY <1>2, RotatesAlone

(* setLogfile closes the file, then opens the other one or throws.         *)
LEMMA SetLogfileDisk ==
  ASSUME LoggerInv, DiskInv, NEW t \in Threads, setLogfile(t)
  PROVE  DiskInv'
<1>1. PICK f : f = Top(t)
  OBVIOUS
<1>2. stack[t] # << >> /\ f.op = "setLogfile" /\ mutex = NULL /\ inrotate' = inrotate
  BY <1>1 DEF setLogfile, Locks, At, Top
<1>3. f \in AnyFrame
  BY <1>1, <1>2, TopFrame
<1>4. f.prio \in Prios /\ f.name \in Names \cup {NULL}
  BY <1>2, <1>3, ColdGoes
<1>5. PICK p \in Prios : p = f.prio
  BY <1>4
<1>6. FilesOK /\ DiskOK
  BY DEF LoggerInv, StateOK, DiskInv
<1>7. PICK s \in Seq(AnyFrame) : s = stack[t] /\ s # << >>
  BY <1>2, TopFrame
<1>8. CASE /\ f.name # NULL
           /\ Open(f.prio, f.name)
           /\ logfilename' = [logfilename EXCEPT ![f.prio] = f.name]
           /\ Announces(t, "return", f.prio)
  <2>1. PICK n \in Names : n = f.name
    BY <1>4, <1>8
  <2>2. Open(p, n) /\ logfilename' = [logfilename EXCEPT ![p] = n]
    BY <1>5, <1>8, <2>1
  <2>3. /\ DiskOK'
        /\ \A m \in Names : Alone(m)' => Alone(m)
        /\ \A m \in Names : Ordered(m, Generations) => Ordered(m, Generations)'
    BY <1>6, <2>2, OpenDisk
  <2>4. Settled'
    BY <1>2, <2>3 DEF DiskInv, Settled
  <2>5. PICK r : stack' = [stack EXCEPT ![t] = r] /\ Comes(r, stack[t])
    BY <1>1, <1>2, <1>8, AnnounceDisk
  <2>6. RotatesOK'
    BY <1>2, <1>7, <2>5, RotatesNone
  <2> QED
    BY <1>2, <2>3, <2>4, <2>6 DEF DiskInv
<1>9. CASE /\ UNCHANGED <<dir, content, put, users>>
           /\ logff' = [logff EXCEPT ![f.prio] = NULL]
           /\ \/ logfilename' = logfilename
              \/ f.name # NULL /\ logfilename' = [logfilename EXCEPT ![f.prio] = f.name]
           /\ Throws(t) \/ Returns(t)
  <2>1. /\ logff' = [logff EXCEPT ![p] = NULL]
        /\ \/ logfilename' = logfilename
           \/ \E n \in Names : logfilename' = [logfilename EXCEPT ![p] = n]
    BY <1>4, <1>5, <1>9
  <2>2. /\ DiskOK'
        /\ \A n, k : Ordered(n, k) => Ordered(n, k)'
        /\ \A n : Alone(n)' <=> Alone(n)
    BY <1>6, <1>9, <2>1, CloseDisk
  <2>3. Settled'
    BY <1>2, <2>2 DEF DiskInv, Settled
  <2>4. PICK r : stack' = [stack EXCEPT ![t] = r] /\ Comes(r, s)
    <3>1. Comes(Tail(s), s) /\ Comes(<< >>, s)
      BY <1>7, PopComes
    <3> QED
      BY <1>7, <1>9, <3>1 DEF Throws, Returns
  <2>5. RotatesOK'
    BY <1>2, <1>7, <2>4, RotatesNone
  <2> QED
    BY <1>2, <2>2, <2>3, <2>5 DEF DiskInv
<1> QED
  BY <1>1, <1>8, <1>9 DEF setLogfile, Fails, Close

(* terminate closes a file, perhaps in the middle of a rotation.           *)
LEMMA TerminateCloseDisk ==
  ASSUME LoggerInv, DiskInv, NEW t \in Threads, TerminateClose(t)
  PROVE  DiskInv'
<1>1. PICK p : p = Min(Top(t).todo)
  OBVIOUS
<1>2. PICK rest : rest = Top(t).todo \ {p}
  OBVIOUS
<1>3. PICK at : at = IF rest = {} THEN "lock" ELSE "close"
  OBVIOUS
<1>4. PICK g : g = [Top(t) EXCEPT !.todo = rest, !.at = at]
  OBVIOUS
<1>5. /\ stack[t] # << >> /\ Top(t).op = "terminate"
      /\ stack' = [stack EXCEPT ![t] = <<g>> \o Tail(@)] /\ inrotate' = inrotate
      /\ logff' = [logff EXCEPT ![p] = NULL]
      /\ UNCHANGED <<logfilename, dir, content, put, users>>
  BY <1>1, <1>2, <1>3, <1>4 DEF TerminateClose, At, Top, Close
<1>6. g.op # "checkRotate"
  BY <1>4, <1>5, TopFrame, OpStays
<1>7. CASE p \notin Prios
  <2>1. logff' = logff
    BY <1>5, <1>7 DEF DiskInv, DiskOK, DiskTypes
  <2>2. Still
    BY <1>5, <2>1 DEF Still, files
  <2> QED
    BY <1>5, <1>6, <2>2, StillGoes
<1>8. CASE p \in Prios
  <2>1. PICK s \in Seq(AnyFrame) : s = stack[t] /\ s # << >>
    BY <1>5, TopFrame
  <2>2. PICK r : r = <<g>> \o Tail(s)
    OBVIOUS
  <2>3. stack' = [stack EXCEPT ![t] = r] /\ Comes(r, s)
    BY <1>5, <1>6, <2>1, <2>2, SwapComes
  <2>4. FilesOK /\ DiskOK
    BY DEF LoggerInv, StateOK, DiskInv
  <2>5. /\ DiskOK'
        /\ \A n, k : Ordered(n, k) => Ordered(n, k)'
        /\ \A n : Alone(n)' <=> Alone(n)
        /\ \A f : f.prio \in Prios /\ RotateOK(f) => RotateOK(f)'
    BY <1>5, <1>8, <2>4, CloseDisk
  <2>6. Settled'
    BY <1>5, <2>5 DEF DiskInv, Settled
  <2>7. \A f \in AnyFrame : f.op = "checkRotate" /\ RotateOK(f) => RotateOK(f)'
    <3>1. \A f \in AnyFrame : f.op = "checkRotate" => f.prio \in Prios
      BY RotateIs DEF RotateFrames
    <3> QED
      BY <2>5, <3>1
  <2>8. RotatesOK'
    BY <2>1, <2>3, <2>7, RotatesKept DEF DiskInv
  <2> QED
    BY <1>5, <2>5, <2>6, <2>8 DEF DiskInv
<1> QED
  BY <1>7, <1>8

(* A line is put to the file of p; then checkRotate may be called.         *)
LEMMA OutputPutsDisk ==
  ASSUME LoggerInv, DiskInv, NEW t \in Threads, NEW at, NEW p \in Prios, NEW then,
         OutputPuts(t, at, p, then)
  PROVE  DiskInv'
<1>1. /\ stack[t] # << >> /\ Top(t).op = "output" /\ inrotate' = inrotate
  BY DEF OutputPuts, At, Top
<1>2. CASE UNCHANGED files /\ Throws(t)
  BY <1>1, <1>2, StillThrows DEF Still
<1>3. CASE /\ isOpen(p)
           /\ Puts(p, Top(t).line)
           /\ IF inrotate \/ generations = 1 THEN Goes(t, then)
              ELSE Enters(t, then, RotateFrame(p))
  <2>1. Top(t) \in AnyFrame
    BY <1>1, TopFrame
  <2>2. PICK line \in LineSet : line = Top(t).line
    BY <1>1, <2>1, OutputIs DEF OutputFrames
  <2>3. PICK s \in Seq(AnyFrame) : s = stack[t] /\ s # << >>
    BY <1>1, TopFrame
  <2>4. PICK g : g = [Top(t) EXCEPT !.at = then]
    OBVIOUS
  <2>5. g.op # "checkRotate"
    BY <1>1, <2>1, <2>4, OpStays
  <2>6. FilesOK /\ DiskOK
    BY DEF LoggerInv, StateOK, DiskInv
  <2>7. /\ DiskOK'
        /\ \A n \in Names : Alone(n)' <=> Alone(n)
        /\ \A n \in Names : \A k : Alone(n) /\ Ordered(n, k) => Ordered(n, k)'
        /\ \A f : RotateOK(f) => RotateOK(f)'
    BY <1>3, <2>2, <2>6, PutsDisk
  <2>8. Settled'
    BY <1>1, <2>7 DEF DiskInv, Settled
  <2>9. PICK r : stack' = [stack EXCEPT ![t] = r] /\ Comes(r, s)
    <3>1. CASE Goes(t, then)
      <4>1. PICK r : r = <<g>> \o Tail(s)
        OBVIOUS
      <4>2. stack' = [stack EXCEPT ![t] = r]
        BY <2>3, <2>4, <3>1, <4>1 DEF Goes
      <4>3. Comes(r, s)
        BY <2>3, <2>5, <4>1, SwapComes
      <4> QED
        BY <4>2, <4>3
    <3>2. CASE ~inrotate /\ Enters(t, then, RotateFrame(p))
      <4>1. PICK f : f = RotateFrame(p)
        OBVIOUS
      <4>2. f.at = "check" /\ f.i = Generations /\ f.prio = p
        BY <4>1 DEF RotateFrame
      <4>3. \A n : Hole(f, n)' = Generations
        BY <4>2 DEF Hole
      <4>4. ASSUME NEW n \in Names, Alone(n)' PROVE Ordered(n, Hole(f, n))'
        <5>1. Alone(n) /\ Ordered(n, Generations)
          BY <2>7, <3>2, <4>4 DEF DiskInv, Settled
        <5>2. PICK k : k = Generations /\ k = Hole(f, n)'
          BY <4>3
        <5>3. Ordered(n, k)'
          BY <2>7, <5>1, <5>2
        <5> QED
          BY <5>2, <5>3
      <4>5. logfilename' = logfilename /\ users' = users
        BY <1>3 DEF Puts
      <4>6. p \in users[logfilename[p]]
        BY <1>3, <2>6 DEF DiskOK, Owned
      <4>7. RotateOK(f)'
        BY <4>2, <4>4, <4>5, <4>6, SlotsAre DEF RotateOK
      <4>8. PICK r : r = <<f, g>> \o Tail(s)
        OBVIOUS
      <4>9. stack' = [stack EXCEPT ![t] = r]
        BY <2>3, <2>4, <3>2, <4>1, <4>8 DEF Enters
      <4>10. Comes(r, s)
        BY <2>3, <2>5, <4>7, <4>8, PushComes
      <4> QED
        BY <4>9, <4>10
    <3> QED
      BY <1>3, <3>1, <3>2
  <2>10. RotatesOK'
    BY <2>3, <2>7, <2>9, RotatesKept DEF DiskInv
  <2> QED
    BY <1>1, <2>7, <2>8, <2>10 DEF DiskInv
<1> QED
  BY <1>2, <1>3 DEF OutputPuts, Fails

-----------------------------------------------------------------------------
(* The steps of checkRotate.                                               *)

(* checkRotate is on the stack once: at its head.                          *)
LEMMA RotateBelow ==
  ASSUME LoggerInv, NEW t \in Threads, NEW s, s = stack[t], s # << >>, s[1].op = "checkRotate"
  PROVE  \A i \in 1..Len(s) : i # 1 => s[i].op # "checkRotate"
<1>1. s \in Seq(AnyFrame) /\ Len(s) \in Nat /\ Len(s) > 2 /\ Shape(s)
  BY RotateHas
<1>2. 1 \in 1..Len(s) /\ \A i \in 1..Len(s) : i # 1 => 1 < i
  BY <1>1
<1> QED
  BY <1>1, <1>2, OneRotate

(* What is left to show when the head goes on, or calls another function.  *)
LEMMA HeadGoes ==
  ASSUME LoggerInv, NEW t \in Threads, NEW s, s = stack[t], s # << >>, s[1].op = "checkRotate",
         NEW g, RotateOK(g)', NEW r, stack' = [stack EXCEPT ![t] = r],
         \/ r = <<g>> \o Tail(s)
         \/ \E f : f.op # "checkRotate" /\ r = <<f, g>> \o Tail(s)
  PROVE  RotatesOK'
<1>1. s \in Seq(AnyFrame) /\ mutex = t
  BY RotateHas
<1>2. \A i \in 1..Len(s) : i # 1 => s[i].op # "checkRotate"
  BY RotateBelow
<1>3. ASSUME NEW i \in 1..Len(r), r[i].op = "checkRotate" PROVE r[i] = g
  <2>1. CASE r = <<g>> \o Tail(s)
    <3>1. Len(r) = Len(s) /\ r[i] = IF i = 1 THEN g ELSE s[i]
      BY <1>1, <2>1, Replaced
    <3> QED
      BY <1>2, <1>3, <3>1
  <2>2. CASE \E f : f.op # "checkRotate" /\ r = <<f, g>> \o Tail(s)
    <3>1. PICK f : f.op # "checkRotate" /\ r = <<f, g>> \o Tail(s)
      BY <2>2
    <3>2. /\ Len(r) = Len(s) + 1 /\ Len(s) \in Nat
          /\ r[i] = IF i = 1 THEN f ELSE IF i = 2 THEN g ELSE s[i - 1]
      BY <1>1, <3>1, Stacked
    <3>3. i # 1 /\ i # 2 => i - 1 \in 1..Len(s) /\ i - 1 # 1
      BY <3>2
    <3> QED
      BY <1>2, <1>3, <3>1, <3>2, <3>3
  <2> QED
    BY <2>1, <2>2
<1>4. \A i \in 1..Len(r) : r[i].op = "checkRotate" => RotateOK(r[i])'
  <2>1. ASSUME NEW i \in 1..Len(r), r[i].op = "checkRotate" PROVE RotateOK(r[i])'
    <3>1. PICK f : f = r[i]
      OBVIOUS
    <3>2. f = g
      BY <1>3, <2>1, <3>1
    <3>3. RotateOK(f)'
      BY <3>2
    <3> QED
      BY <3>1, <3>3
  <2> QED
    BY <2>1
<1> QED
  BY <1>1, <1>4, RotatesAlone

(* The frame of checkRotate, and the frame it becomes.                     *)
LEMMA RotateFrameIs ==
  ASSUME LoggerInv, RotatesOK, NEW t \in Threads, At(t, "checkRotate", "check")
           \/ At(t, "checkRotate", "close") \/ At(t, "checkRotate", "shift")
           \/ At(t, "checkRotate", "open") \/ At(t, "checkRotate", "reset")
  PROVE  \E s, f : /\ s = stack[t] /\ s # << >> /\ s[1] = f /\ f = Top(t)
                   /\ f.op = "checkRotate" /\ f \in AnyFrame
                   /\ RotateOK(f) /\ f.prio \in Prios /\ logfilename[f.prio] \in Names
                   /\ f.at # "check" => inrotate
<1>1. PICK s : s = stack[t]
  OBVIOUS
<1>2. PICK f : f = Top(t)
  OBVIOUS
<1>3. s # << >> /\ f.op = "checkRotate"
  BY <1>1, <1>2 DEF At, Top
<1>4. s[1] = f /\ f \in AnyFrame
  BY <1>1, <1>2, <1>3, TopFrame
<1>5. /\ f.prio \in Prios /\ logfilename[f.prio] \in Names /\ (f.at # "check" => inrotate)
      /\ Len(s) \in Nat /\ Len(s) > 2
  BY <1>1, <1>3, <1>4, RotateHas
<1>6. 1 \in 1..Len(stack[t]) /\ stack[t][1].op = "checkRotate" /\ stack[t][1] = f
  BY <1>1, <1>3, <1>4, <1>5
<1>7. RotateOK(f)
  BY <1>6 DEF RotatesOK
<1> QED
  BY <1>1, <1>2, <1>3, <1>4, <1>5, <1>7

LEMMA RotateFields ==
  ASSUME NEW f \in AnyFrame, f.op = "checkRotate", NEW at, NEW i
  PROVE  /\ [f EXCEPT !.at = at].at = at /\ [f EXCEPT !.at = at].i = f.i
         /\ [f EXCEPT !.at = at].prio = f.prio
         /\ [f EXCEPT !.at = at, !.i = i].at = at /\ [f EXCEPT !.at = at, !.i = i].i = i
         /\ [f EXCEPT !.at = at, !.i = i].prio = f.prio
<1>1. f \in RotateFrames
  BY RotateIs
<1> QED
  BY <1>1 DEF RotateFrames

(* Too long: rotation begins, and what it needs is so.                     *)
LEMMA RotateCheckDisk ==
  ASSUME LoggerInv, DiskInv, NEW t \in Threads, RotateCheck(t)
  PROVE  DiskInv'
<1>1. PICK s, f : /\ s = stack[t] /\ s # << >> /\ s[1] = f /\ f = Top(t)
                  /\ f.op = "checkRotate" /\ f \in AnyFrame
                  /\ RotateOK(f) /\ f.prio \in Prios /\ logfilename[f.prio] \in Names
  BY RotateFrameIs DEF RotateCheck, DiskInv
<1>2. UNCHANGED files /\ f.at = "check" /\ stack[t] # << >>
  BY <1>1 DEF RotateCheck, At, Top
<1>3. CASE Returns(t) /\ inrotate' = inrotate
  BY <1>2, <1>3, StillReturns DEF Still
<1>4. CASE Throws(t) /\ inrotate' = inrotate
  BY <1>2, <1>4, StillThrows DEF Still
<1>5. CASE /\ isOpen(f.prio) /\ size(f.prio) > Maxsize /\ inrotate' = TRUE
           /\ Enters(t, "close", OutputFrame(f.prio, 0, Note))
  <2>1. PICK g : g = [f EXCEPT !.at = "close"]
    OBVIOUS
  <2>2. g.at = "close" /\ g.i = f.i /\ g.prio = f.prio
    BY <1>1, <2>1, RotateFields
  <2>3. f.i = Generations /\ \A n : Hole(f, n) = Generations /\ Hole(g, n) = Generations
    BY <1>1, <1>2, <2>2 DEF RotateOK, Hole
  <2>4. ASSUME NEW n \in Names, Alone(n)
        PROVE  /\ Ordered(n, Hole(g, n))
               /\ logfilename[g.prio] = n =>
                    /\ g.prio \in users[n]
                    /\ dir[n][0] # NULL => Len(content[dir[n][0]]) > Maxsize
    <3>1. /\ Ordered(n, Hole(f, n))
          /\ logfilename[f.prio] = n => f.prio \in users[n]
      BY <1>1, <2>4 DEF RotateOK
    <3>2. Ordered(n, Hole(g, n))
      BY <2>3, <3>1
    <3>3. logfilename[f.prio] = n => logff[f.prio] = dir[n][0]
      BY <1>1, <1>5, <2>4 DEF DiskInv, DiskOK, Owned
    <3>4. logfilename[f.prio] = n => Len(content[dir[n][0]]) > Maxsize
      BY <1>5, <3>3 DEF size
    <3> QED
      BY <2>2, <3>1, <3>2, <3>4
  <2>5. RotateOK(g)
    BY <2>2, <2>3, <2>4, SlotsAre DEF RotateOK
  <2>6. RotateOK(g)'
    BY <1>2, <2>5, StillDisk
  <2>7. PICK o : o = OutputFrame(f.prio, 0, Note)
    OBVIOUS
  <2>8. o.op # "checkRotate"
    BY <2>7 DEF OutputFrame
  <2>9. PICK r : r = <<o, g>> \o Tail(s)
    OBVIOUS
  <2>10. stack' = [stack EXCEPT ![t] = r]
    BY <1>1, <1>5, <2>1, <2>7, <2>9 DEF Enters
  <2>11. RotatesOK'
    BY <1>1, <2>6, <2>8, <2>9, <2>10, HeadGoes
  <2>12. DiskOK'
    BY <1>2, StillDisk DEF DiskInv
  <2> QED
    BY <1>5, <2>11, <2>12 DEF DiskInv, Settled
<1> QED
  BY <1>1, <1>3, <1>4, <1>5 DEF RotateCheck

(* The file is closed before the renames.                                  *)
LEMMA RotateCloseDisk ==
  ASSUME LoggerInv, DiskInv, NEW t \in Threads, RotateClose(t)
  PROVE  DiskInv'
<1>1. PICK s, f : /\ s = stack[t] /\ s # << >> /\ s[1] = f /\ f = Top(t)
                  /\ f.op = "checkRotate" /\ f \in AnyFrame
                  /\ RotateOK(f) /\ f.prio \in Prios /\ logfilename[f.prio] \in Names
                  /\ f.at # "check" => inrotate
  BY RotateFrameIs DEF RotateClose, DiskInv
<1>2. /\ f.at = "close" /\ inrotate /\ inrotate' = inrotate
      /\ logff' = [logff EXCEPT ![f.prio] = NULL]
      /\ UNCHANGED <<logfilename, dir, content, put, users>>
  BY <1>1 DEF RotateClose, At, Top, Close, Unlogged
<1>3. FilesOK /\ DiskOK
  BY DEF LoggerInv, StateOK, DiskInv
<1>4. PICK p \in Prios : p = f.prio
  BY <1>1
<1>5. /\ DiskOK' /\ ~isOpen(p)'
      /\ \A n, k : Ordered(n, k) => Ordered(n, k)'
      /\ \A n : Alone(n)' <=> Alone(n)
  BY <1>2, <1>3, <1>4, CloseDisk
<1>6. PICK g : g = [f EXCEPT !.at = "shift"]
  OBVIOUS
<1>7. g.at = "shift" /\ g.i = f.i /\ g.prio = p
  BY <1>1, <1>4, <1>6, RotateFields
<1>8. f.i = Generations
  BY <1>1, <1>2 DEF RotateOK
<1>9. \A n : Hole(f, n) = Generations /\ Hole(g, n)' = Generations
  BY <1>2, <1>7, <1>8 DEF Hole
<1>10. ASSUME NEW n \in Names, Alone(n)'
       PROVE  /\ Ordered(n, Hole(g, n))'
              /\ logfilename'[p] = n =>
                   /\ p \in users'[n]
                   /\ dir'[n][0] # NULL => Len(content'[dir'[n][0]]) > Maxsize
  <2>1. Alone(n)
    BY <1>5, <1>10
  <2>2. /\ Ordered(n, Hole(f, n))
        /\ logfilename[p] = n =>
             /\ p \in users[n]
             /\ dir[n][0] # NULL => Len(content[dir[n][0]]) > Maxsize
    BY <1>1, <1>2, <1>4, <2>1 DEF RotateOK
  <2>3. PICK k : k = Hole(g, n)' /\ k = Hole(f, n)
    BY <1>9
  <2>4. Ordered(n, k)'
    BY <1>5, <2>2, <2>3
  <2>5. Ordered(n, Hole(g, n))'
    BY <2>3, <2>4
  <2> QED
    BY <1>2, <2>2, <2>5
<1>11. RotateOK(g)'
  BY <1>5, <1>7, <1>8, <1>10, SlotsAre DEF RotateOK
<1>12. PICK r : r = <<g>> \o Tail(s)
  OBVIOUS
<1>13. stack' = [stack EXCEPT ![t] = r]
  BY <1>1, <1>6, <1>12 DEF RotateClose, Goes
<1>14. RotatesOK'
  BY <1>1, <1>11, <1>12, <1>13, HeadGoes
<1> QED
  BY <1>2, <1>5, <1>14 DEF DiskInv, Settled

(* One turn of the loop, or a failure in it.                               *)
LEMMA RotateShiftDisk ==
  ASSUME LoggerInv, DiskInv, NEW t \in Threads, RotateShift(t)
  PROVE  DiskInv'
<1>1. PICK s, f : /\ s = stack[t] /\ s # << >> /\ s[1] = f /\ f = Top(t)
                  /\ f.op = "checkRotate" /\ f \in AnyFrame
                  /\ RotateOK(f) /\ f.prio \in Prios /\ logfilename[f.prio] \in Names
                  /\ f.at # "check" => inrotate
  BY RotateFrameIs DEF RotateShift, DiskInv
<1>2. PICK p \in Prios : p = f.prio
  BY <1>1
<1>3. PICK n \in Names : n = logfilename[p]
  BY <1>1, <1>2
<1>4. PICK i : i = f.i
  OBVIOUS
<1>5. f.at = "shift" /\ inrotate /\ inrotate' = inrotate /\ stack[t] # << >>
  BY <1>1 DEF RotateShift, At, Top
<1>6. FilesOK /\ DiskOK
  BY DEF LoggerInv, StateOK, DiskInv
<1>7. i \in 1..Generations /\ ~isOpen(p)
  <2>1. i \in Slots /\ i > 0 /\ ~isOpen(p)
    BY <1>1, <1>2, <1>4, <1>5 DEF RotateOK
  <2> QED
    BY <2>1, SlotsAre
<1>8. i \in Nat /\ i - 1 \in Slots /\ i >= 1 /\ i # i - 1 /\ (i > 1 <=> i # 1)
  BY <1>7, SlotsAre
<1>9. Hole(f, n) = i /\ \A m \in Names : m # n => Hole(f, m) = Generations
  BY <1>2, <1>3, <1>4, <1>5 DEF Hole
<1>10. /\ Alone(n) => /\ Ordered(n, i) /\ p \in users[n]
                      /\ dir[n][0] # NULL => Len(content[dir[n][0]]) > Maxsize
       /\ \A m \in Names : m # n /\ Alone(m) => Ordered(m, Generations)
  <2>1. \A m \in Names : Alone(m) =>
          /\ Ordered(m, Hole(f, m))
          /\ logfilename[f.prio] = m =>
               /\ f.prio \in users[m]
               /\ dir[m][0] # NULL => Len(content[dir[m][0]]) > Maxsize
    BY <1>1, <1>5 DEF RotateOK
  <2> QED
    BY <1>2, <1>3, <1>9, <2>1
<1>11. CASE UNCHANGED files /\ Throws(t)
  BY <1>5, <1>11, StillThrows DEF Still
<1>12. CASE i > 1 /\ Throws(t) /\ Unlink(n, i)
  <2>1. DiskOK'
    BY <1>6, <1>7, <1>10, <1>12, UnlinkDisk
  <2>2. stack' = [stack EXCEPT ![t] = << >>]
    BY <1>12 DEF Throws
  <2>3. mutex = t
    BY <1>1, RotateHas
  <2>4. \A j \in 1..Len(<< >>) : << >>[j].op = "checkRotate" => RotateOK(<< >>[j])'
    OBVIOUS
  <2>5. RotatesOK'
    BY <2>2, <2>3, <2>4, RotatesAlone
  <2> QED
    BY <1>5, <2>1, <2>5 DEF DiskInv, Settled
<1>13. CASE /\ i > 1 \/ dir[n][0] # NULL
            /\ Shift(n, i)
            /\ stack' = [stack EXCEPT ![t] =
                 <<[f EXCEPT !.at = IF i > 1 THEN "shift" ELSE "open", !.i = @ - 1]>> \o Tail(@)]
  <2>1. ASSUME Alone(n), NEW q \in Prios, isOpen(q) PROVE logfilename[q] # n
    <3>1. p \in users[n]
      BY <1>10, <2>1
    <3>2. q \in users[logfilename[q]]
      BY <1>6, <2>1 DEF DiskOK, Owned
    <3>3. logfilename[q] = n => q = p
      BY <2>1, <3>1, <3>2 DEF Alone
    <3> QED
      BY <1>7, <2>1, <3>3
  <2>2. i = 1 => dir[n][0] # NULL
    BY <1>8, <1>13
  <2>3. /\ DiskOK'
        /\ Alone(n) => Ordered(n, i - 1)'
        /\ \A m \in Names : Alone(m)' <=> Alone(m)
        /\ \A m \in Names : \A k : m # n /\ Ordered(m, k) => Ordered(m, k)'
        /\ i # 1 => dir'[n][0] = NULL \/ dir'[n][0] = dir[n][0]
    BY <1>6, <1>7, <1>10, <1>13, <2>1, <2>2, ShiftDisk
  <2>4. PICK at : at = IF i > 1 THEN "shift" ELSE "open"
    OBVIOUS
  <2>5. PICK j : j = i - 1
    OBVIOUS
  <2>6. PICK g : g = [f EXCEPT !.at = at, !.i = j]
    OBVIOUS
  <2>7. g.at = at /\ g.i = j /\ g.prio = p
    BY <1>1, <1>2, <2>6, RotateFields
  <2>8. j \in Slots /\ (at = "shift" => j > 0 /\ i # 1) /\ (at = "open" => j = 0)
        /\ at \in {"shift", "open"}
    BY <1>8, <2>4, <2>5
  <2>9. /\ logfilename' = logfilename /\ logff' = logff /\ users' = users /\ content' = content
    BY <1>13 DEF Shift
  <2>10. \A m \in Names : Hole(g, m)' = IF m = n THEN j ELSE Generations
    BY <1>3, <2>7, <2>8, <2>9 DEF Hole
  <2>11. ASSUME NEW m \in Names, Alone(m)' PROVE Ordered(m, Hole(g, m))'
    <3>1. Alone(m)
      BY <2>3, <2>11
    <3>2. PICK k : k = Hole(g, m)'
      OBVIOUS
    <3>3. CASE m = n
      <4>1. k = j
        BY <2>10, <3>2, <3>3
      <4>2. Ordered(n, j)'
        BY <2>3, <2>5, <3>1, <3>3
      <4>3. Ordered(m, k)'
        BY <3>3, <4>1, <4>2
      <4> QED
        BY <3>2, <4>3
    <3>4. CASE m # n
      <4>1. k = Generations
        BY <2>10, <3>2, <3>4
      <4>2. Ordered(m, k)'
        BY <1>10, <2>3, <3>1, <3>4, <4>1
      <4> QED
        BY <3>2, <4>2
    <3> QED
      BY <3>3, <3>4
  <2>12. ASSUME NEW m \in Names, Alone(m)', logfilename'[p] = m
         PROVE  /\ p \in users'[m]
                /\ at = "shift" /\ dir'[m][0] # NULL => Len(content'[dir'[m][0]]) > Maxsize
    <3>1. m = n /\ Alone(n)
      BY <1>3, <2>3, <2>9, <2>12
    <3>2. at = "shift" => dir'[n][0] = NULL \/ dir'[n][0] = dir[n][0]
      BY <2>3, <2>8
    <3> QED
      BY <1>10, <2>9, <3>1, <3>2
  <2>13. ~isOpen(p)'
    BY <1>7, <2>9 DEF isOpen
  <2>14. RotateOK(g)'
    BY <2>7, <2>8, <2>11, <2>12, <2>13 DEF RotateOK
  <2>15. PICK r : r = <<g>> \o Tail(s)
    OBVIOUS
  <2>16. stack' = [stack EXCEPT ![t] = r]
    BY <1>1, <1>4, <1>13, <2>4, <2>5, <2>6, <2>15
  <2>17. RotatesOK'
    BY <1>1, <2>14, <2>15, <2>16, HeadGoes
  <2> QED
    BY <1>5, <2>3, <2>17 DEF DiskInv, Settled
<1> QED
  BY <1>1, <1>2, <1>3, <1>4, <1>11, <1>12, <1>13 DEF RotateShift, Fails

(* A new file is opened; all slots are filled in order again.              *)
LEMMA RotateOpenDisk ==
  ASSUME LoggerInv, DiskInv, NEW t \in Threads, RotateOpen(t)
  PROVE  DiskInv'
<1>1. PICK s, f : /\ s = stack[t] /\ s # << >> /\ s[1] = f /\ f = Top(t)
                  /\ f.op = "checkRotate" /\ f \in AnyFrame
                  /\ RotateOK(f) /\ f.prio \in Prios /\ logfilename[f.prio] \in Names
                  /\ f.at # "check" => inrotate
  BY RotateFrameIs DEF RotateOpen, DiskInv
<1>2. PICK p \in Prios : p = f.prio
  BY <1>1
<1>3. PICK n \in Names : n = logfilename[p]
  BY <1>1, <1>2
<1>4. f.at = "open" /\ inrotate /\ inrotate' = inrotate /\ stack[t] # << >>
  BY <1>1 DEF RotateOpen, At, Top
<1>5. FilesOK /\ DiskOK
  BY DEF LoggerInv, StateOK, DiskInv
<1>6. f.i = 0
  BY <1>1, <1>4 DEF RotateOK
<1>7. Hole(f, n) = 0 /\ \A m \in Names : m # n => Hole(f, m) = Generations
  BY <1>2, <1>3, <1>4, <1>6 DEF Hole
<1>8. /\ Alone(n) => Ordered(n, 0) /\ p \in users[n]
      /\ \A m \in Names : m # n /\ Alone(m) => Ordered(m, Generations)
  BY <1>1, <1>2, <1>3, <1>7 DEF RotateOK
<1>9. CASE UNCHANGED files /\ Throws(t)
  BY <1>4, <1>9, StillThrows DEF Still
<1>10. CASE /\ Open(p, n) /\ UNCHANGED logfilename
            /\ Enters(t, "reset", OutputFrame(p, 0, Note))
  <2>1. /\ DiskOK'
        /\ \A m \in Names : Alone(m)' => Alone(m)
        /\ \A m \in Names : Ordered(m, Generations) => Ordered(m, Generations)'
        /\ Ordered(n, 0) => Ordered(n, Generations)'
    BY <1>3, <1>5, <1>10, OpenDisk
  <2>2. PICK g : g = [f EXCEPT !.at = "reset"]
    OBVIOUS
  <2>3. g.at = "reset" /\ g.i = 0 /\ g.prio = p
    BY <1>1, <1>2, <1>6, <2>2, RotateFields
  <2>4. \A m \in Names : Hole(g, m)' = Generations
    BY <2>3 DEF Hole
  <2>5. ASSUME NEW m \in Names, Alone(m)' PROVE Ordered(m, Hole(g, m))'
    <3>1. Alone(m)
      BY <2>1, <2>5
    <3>2. Ordered(m, Generations)'
      BY <1>8, <2>1, <3>1
    <3>3. PICK k : k = Hole(g, m)' /\ k = Generations
      BY <2>4
    <3>4. Ordered(m, k)'
      BY <3>2, <3>3
    <3> QED
      BY <3>3, <3>4
  <2>6. users \in [Names -> SUBSET Prios] /\ users' = [users EXCEPT ![n] = @ \cup {p}]
    BY <1>5, <1>10 DEF DiskOK, DiskTypes, Open
  <2>7. p \in users'[n] /\ logfilename'[p] = n
    BY <1>3, <1>10, <2>6
  <2>8. RotateOK(g)'
    BY <2>3, <2>5, <2>7, SlotsAre DEF RotateOK
  <2>9. PICK o : o = OutputFrame(p, 0, Note)
    OBVIOUS
  <2>10. o.op # "checkRotate"
    BY <2>9 DEF OutputFrame
  <2>11. PICK r : r = <<o, g>> \o Tail(s)
    OBVIOUS
  <2>12. stack' = [stack EXCEPT ![t] = r]
    BY <1>1, <1>10, <2>2, <2>9, <2>11 DEF Enters
  <2>13. RotatesOK'
    BY <1>1, <2>8, <2>10, <2>11, <2>12, HeadGoes
  <2> QED
    BY <1>4, <2>1, <2>13 DEF DiskInv, Settled
<1> QED
  BY <1>1, <1>2, <1>3, <1>9, <1>10 DEF RotateOpen, Fails

(* The rotation is over.                                                   *)
LEMMA RotateResetDisk ==
  ASSUME LoggerInv, DiskInv, NEW t \in Threads, RotateReset(t)
  PROVE  DiskInv'
<1>1. PICK s, f : /\ s = stack[t] /\ s # << >> /\ s[1] = f /\ f = Top(t)
                  /\ f.op = "checkRotate" /\ f \in AnyFrame
                  /\ RotateOK(f) /\ f.prio \in Prios /\ logfilename[f.prio] \in Names
                  /\ f.at # "check" => inrotate
  BY RotateFrameIs DEF RotateReset, DiskInv
<1>2. f.at = "reset" /\ inrotate' = FALSE /\ UNCHANGED files /\ Returns(t)
  BY <1>1 DEF RotateReset, At, Top
<1>3. /\ DiskOK'
      /\ \A n, k : Ordered(n, k) => Ordered(n, k)'
      /\ \A n : Alone(n)' <=> Alone(n)
      /\ \A g : RotateOK(g) => RotateOK(g)'
  BY <1>2, StillDisk DEF DiskInv
<1>4. \A n \in Names : Hole(f, n) = Generations
  BY <1>2 DEF Hole
<1>5. ASSUME NEW n \in Names, Alone(n)' PROVE Ordered(n, Generations)'
  <2>1. Ordered(n, Generations)
    BY <1>1, <1>3, <1>4, <1>5 DEF RotateOK
  <2> QED
    BY <1>3, <2>1
<1>6. Settled'
  BY <1>5 DEF Settled
<1>7. s \in Seq(AnyFrame)
  BY <1>1, RotateHas
<1>8. PICK r : r = Tail(s)
  OBVIOUS
<1>9. stack' = [stack EXCEPT ![t] = r] /\ Comes(r, s)
  BY <1>1, <1>2, <1>7, <1>8, PopComes DEF Returns
<1>10. RotatesOK'
  BY <1>1, <1>3, <1>9, RotatesKept DEF DiskInv
<1> QED
  BY <1>2, <1>3, <1>6, <1>10 DEF DiskInv

-----------------------------------------------------------------------------
(* The beginning.                                                          *)

(* There is a file for every name.                                         *)
LEMMA FileForEach ==
  \E f \in [Names -> Inodes] : \A a, b \in Names : f[a] = f[b] => a = b
<1>1. PICK n \in Nat : n = Cardinality(Names) /\ ExistsBijection(1..n, Names)
  BY LogFilesAssumption, FS_CardinalityType
<1>2. PICK m \in Nat : m = Cardinality(Inodes) /\ ExistsBijection(1..m, Inodes)
  BY LogFilesAssumption, FS_CardinalityType
<1>3. n <= m
  <2>1. PICK k \in Nat : k = Cardinality(Prios)
    BY LogFilesAssumption, FS_CardinalityType
  <2>2. m >= k + n * (Generations + 1) /\ Generations \in Nat
    BY <1>1, <1>2, <2>1, LogFilesAssumption
  <2>3. n * (Generations + 1) = n * Generations + n
    BY <2>2
  <2>4. n * Generations \in Nat
    BY <2>2
  <2> QED
    BY <2>2, <2>3, <2>4
<1>4. PICK M \in [1..n -> Names] : \A a \in Names : \E i \in 1..n : M[i] = a
  BY <1>1 DEF ExistsBijection, Bijection, Surjection
<1>5. PICK h \in [1..m -> Inodes] : \A i, j \in 1..m : h[i] = h[j] => i = j
  BY <1>2 DEF ExistsBijection, Bijection, Injection, IsInjective
<1>6. PICK g : g = [a \in Names |-> CHOOSE i \in 1..n : M[i] = a]
  OBVIOUS
<1>7. \A a \in Names : g[a] \in 1..n /\ M[g[a]] = a
  BY <1>4, <1>6
<1>8. \A i \in 1..n : i \in 1..m
  BY <1>3
<1>9. PICK f : f = [a \in Names |-> h[g[a]]]
  OBVIOUS
<1>10. f \in [Names -> Inodes] /\ \A a, b \in Names : f[a] = f[b] => a = b
  BY <1>5, <1>7, <1>8, <1>9
<1> QED
  BY <1>10

(* The files at the beginning: what is put is in the file of the name.     *)
LEMMA InitFiles ==
  ASSUME Init
  PROVE  \E I \in [Names -> Inodes], q \in [Names -> Seq(LineSet)] :
           /\ \A a, b \in Names : I[a] = I[b] => a = b
           /\ logff = [p \in Prios |-> IF logfilename[p] # NULL THEN I[logfilename[p]] ELSE NULL]
           /\ users = [n \in Names |-> {p \in Prios : logfilename[p] = n}]
           /\ dir = [n \in Names |-> [g \in Slots |->
                       IF g = 0 /\ users[n] # {} THEN I[n] ELSE NULL]]
           /\ put = q
           /\ content \in ContentSet
           /\ \A n \in Names : content[I[n]] = q[n] /\ (users[n] = {} => q[n] = << >>)
<1> DEFINE opened == {p \in Prios : logfilename[p] # NULL}
           notes(n) == IF logfilename[DEBUG] = n THEN Cardinality(opened)
                       ELSE Cardinality({p \in opened : logfilename[p] = n})
           started(n) == [i \in 1..notes(n) |-> Note]
           inode == CHOOSE f \in [Names -> Inodes] : \A a, b \in Names : f[a] = f[b] => a = b
<1>1. /\ logff = [p \in Prios |-> IF p \in opened THEN inode[logfilename[p]] ELSE NULL]
      /\ users = [n \in Names |-> {p \in Prios : logfilename[p] = n}]
      /\ dir = [n \in Names |-> [g \in 0..Generations |->
                  IF g = 0 /\ users[n] # {} THEN inode[n] ELSE NULL]]
      /\ put = [n \in Names |-> started(n)]
      /\ content = [f \in Inodes |->
                      IF \E n \in Names : inode[n] = f
                      THEN started(CHOOSE n \in Names : inode[n] = f) ELSE <<>>]
  BY DEF Init
<1>2. inode \in [Names -> Inodes] /\ \A a, b \in Names : inode[a] = inode[b] => a = b
  BY FileForEach
<1>3. \A n : notes(n) \in Nat
  <2>1. IsFiniteSet(opened)
    BY LogFilesAssumption, FS_Subset
  <2>2. ASSUME NEW n
        PROVE  IsFiniteSet({p \in opened : logfilename[p] = n})
    BY <2>1, FS_Subset
  <2> HIDE DEF opened
  <2> QED
    BY <2>1, <2>2, FS_CardinalityType
<1>4. \A n \in Names : users[n] = {} => notes(n) = 0
  <2> SUFFICES ASSUME NEW n \in Names, users[n] = {} PROVE notes(n) = 0
    OBVIOUS
  <2>1. \A p \in Prios : logfilename[p] # n
    BY <1>1
  <2>2. {p \in opened : logfilename[p] = n} = {} /\ logfilename[DEBUG] # n
    BY <2>1, LoggerAssumption
  <2> QED
    BY <2>2, FS_EmptySet
<1> HIDE DEF inode, notes
<1>5. \A n : started(n) \in Seq(LineSet)
  <2>1. Note \in LineSet
    BY DEF Note, LineSet
  <2> QED
    BY <1>3, <2>1
<1>6. \A n \in Names : users[n] = {} => started(n) = << >>
  <2> SUFFICES ASSUME NEW n \in Names, users[n] = {} PROVE started(n) = << >>
    OBVIOUS
  <2>1. PICK z : z = started(n)
    OBVIOUS
  <2>2. Len(z) = 0
    BY <1>4, <2>1
  <2>3. z \in Seq(LineSet)
    BY <1>5, <2>1
  <2>4. z = << >>
    BY <2>2, <2>3
  <2> QED
    BY <2>1, <2>4
<1> HIDE DEF started
<1>7. PICK I \in [Names -> Inodes] : I = inode
  BY <1>2
<1>8. PICK q \in [Names -> Seq(LineSet)] : q = [n \in Names |-> started(n)]
  BY <1>5
<1>9. \A n \in Names : q[n] = started(n)
  BY <1>8
<1>10. content \in ContentSet
  <2>1. PICK h : h = [f \in Inodes |-> CHOOSE n \in Names : inode[n] = f]
    OBVIOUS
  <2>2. content = [f \in Inodes |-> IF \E n \in Names : inode[n] = f THEN started(h[f]) ELSE <<>>]
    BY <1>1, <2>1
  <2>3. \A f \in Inodes : content[f] \in Seq(LineSet)
    BY <1>5, <2>2
  <2> QED
    BY <2>2, <2>3 DEF ContentSet
<1>11. ASSUME NEW n \in Names PROVE content[I[n]] = q[n]
  <2>1. PICK f \in Inodes : f = I[n]
    BY <1>7
  <2>2. (CHOOSE m \in Names : inode[m] = f) = n
    BY <1>2, <1>7, <2>1
  <2>3. content[f] = started(n)
    BY <1>1, <1>7, <2>1, <2>2
  <2> QED
    BY <1>9, <2>1, <2>3
<1>12. /\ \A a, b \in Names : I[a] = I[b] => a = b
       /\ logff = [p \in Prios |-> IF logfilename[p] # NULL THEN I[logfilename[p]] ELSE NULL]
       /\ dir = [n \in Names |-> [g \in Slots |->
                   IF g = 0 /\ users[n] # {} THEN I[n] ELSE NULL]]
       /\ put = q
  BY <1>1, <1>2, <1>7, <1>8 DEF Slots
<1>13. \A n \in Names : content[I[n]] = q[n] /\ (users[n] = {} => q[n] = << >>)
  BY <1>6, <1>9, <1>11
<1>14. users = [n \in Names |-> {p \in Prios : logfilename[p] = n}]
  BY <1>1
<1> QED
  BY <1>10, <1>12, <1>13, <1>14, Zenon

LEMMA EndsWithItself ==
  ASSUME NEW q \in Seq(LineSet)
  PROVE  EndsWith(q, q)
BY DEF EndsWith

LEMMA InitDisk ==
  ASSUME Init
  PROVE  DiskInv
<1>1. PICK I \in [Names -> Inodes], q \in [Names -> Seq(LineSet)] :
        /\ \A a, b \in Names : I[a] = I[b] => a = b
        /\ logff = [p \in Prios |-> IF logfilename[p] # NULL THEN I[logfilename[p]] ELSE NULL]
        /\ users = [n \in Names |-> {p \in Prios : logfilename[p] = n}]
        /\ dir = [n \in Names |-> [g \in Slots |->
                    IF g = 0 /\ users[n] # {} THEN I[n] ELSE NULL]]
        /\ put = q
        /\ content \in ContentSet
        /\ \A n \in Names : content[I[n]] = q[n] /\ (users[n] = {} => q[n] = << >>)
  BY InitFiles
<1>2. logfilename \in [Prios -> Names \cup {NULL}]
  BY InitInv DEF LoggerInv, StateOK, FilesOK
<1>3. \A n \in Names, g \in Slots : dir[n][g] = IF g = 0 /\ users[n] # {} THEN I[n] ELSE NULL
  BY <1>1
<1>4. \A n \in Names : dir[n] \in DirSet /\ I[n] \in Inodes /\ I[n] # NULL
  BY <1>1, SlotsAre DEF DirSet
<1>5. DiskTypes
  <2>1. dir \in [Names -> DirSet]
    BY <1>1, <1>4
  <2>2. logff \in [Prios -> Inodes \cup {NULL}]
    BY <1>1, <1>2
  <2>3. users \in [Names -> SUBSET Prios]
    BY <1>1
  <2> QED
    BY <1>1, <2>1, <2>2, <2>3 DEF DiskTypes, DirSet, ContentSet
<1>6. Distinct
  <2> SUFFICES ASSUME NEW n \in Names, NEW m \in Names, NEW g \in Slots, NEW h \in Slots,
                      dir[n][g] = dir[m][h], dir[n][g] # NULL
               PROVE  n = m /\ g = h
    BY DEF Distinct
  <2>1. g = 0 /\ dir[n][g] = I[n] /\ h = 0 /\ dir[m][h] = I[m]
    BY <1>3
  <2> QED
    BY <1>1, <2>1
<1>7. Owned
  <2> SUFFICES ASSUME NEW p \in Prios, logff[p] # NULL
               PROVE  /\ p \in users[logfilename[p]]
                      /\ \A n \in Names, g \in Slots : dir[n][g] = logff[p] => logfilename[p] = n
                      /\ logff[p] = dir[logfilename[p]][0]
    BY DEF Owned, isOpen
  <2>1. PICK a \in Names : a = logfilename[p] /\ logff[p] = I[a]
    BY <1>1, <1>2
  <2>2. p \in users[a]
    BY <1>1, <2>1
  <2>3. dir[a][0] = I[a]
    BY <1>3, <2>2, SlotsAre
  <2>4. ASSUME NEW n \in Names, NEW g \in Slots, dir[n][g] = logff[p] PROVE a = n
    <3>1. dir[n][g] = I[n]
      BY <1>3, <1>4, <2>1, <2>4
    <3> QED
      BY <1>1, <2>1, <2>4, <3>1
  <2> QED
    BY <2>1, <2>2, <2>3, <2>4
<1>8. ASSUME NEW n \in Names
      PROVE  OnDisk(n) = put[n] /\ \A g \in 1..Generations : dir[n][g] = NULL
  <2>1. PICK d \in DirSet : d = dir[n]
    BY <1>4
  <2>2. PICK c \in ContentSet : c = content
    BY <1>1
  <2>3. \A g \in 1..Generations : g \in Slots /\ g # 0
    BY SlotsAre
  <2>4. \A g \in 1..Generations : d[g] = NULL
    BY <1>3, <2>1, <2>3
  <2>5. \A g \in 1..Generations : Bytes(d, c, g) = << >>
    BY <2>4 DEF Bytes
  <2>6. Bytes(d, c, 0) = q[n]
    <3>1. d[0] = IF users[n] # {} THEN I[n] ELSE NULL
      BY <1>3, <2>1, SlotsAre
    <3> QED
      BY <1>1, <1>4, <2>2, <3>1 DEF Bytes
  <2>7. Left(d, c) = q[n]
    BY <2>5, <2>6, LeftOnly
  <2>8. OnDisk(n) = Left(d, c)
    BY <2>1, <2>2, OnDiskIsLeft
  <2> QED
    BY <1>1, <2>1, <2>4, <2>7, <2>8
<1>9. Kept
  <2>1. \A n \in Names : put[n] \in Seq(LineSet)
    BY <1>1
  <2>2. \A n \in Names : EndsWith(put[n], OnDisk(n))
    BY <1>8, <2>1, EndsWithItself
  <2> QED
    BY <1>8, <2>2 DEF Kept
<1>10. \A n \in Names : Ordered(n, Generations)
  BY <1>8, SlotsAre DEF Ordered, Chain
<1>11. inrotate = FALSE /\ stack = [t \in Threads |-> << >>]
  BY DEF Init
<1>12. RotatesOK
  BY <1>11 DEF RotatesOK
<1> QED
  BY <1>5, <1>6, <1>7, <1>9, <1>10, <1>11, <1>12 DEF DiskInv, DiskOK, Settled

-----------------------------------------------------------------------------
(* Every step keeps DiskInv.                                               *)
LEMMA StepKeepsDisk ==
  ASSUME LoggerInv, DiskInv, NEW t \in Threads, Step(t)
  PROVE  DiskInv'
<1>1. CASE setLogfile(t)
  BY <1>1, SetLogfileDisk
<1>2. CASE setLogLevel(t)
  BY <1>2, SetLogLevelDisk
<1>3. CASE setLogRotate(t) \/ addLogHandler(t) \/ deleteLogHandler(t) \/ TerminateFree(t)
           \/ Return(t) \/ PrintUnlock(t)
  BY <1>3, OneStepDisk
<1>4. CASE TerminateClose(t)
  BY <1>4, TerminateCloseDisk
<1>5. CASE PrintLock(t) \/ PrintDeadlock(t) \/ PrintNext(t)
  BY <1>5, PrintDisk
<1>6. CASE OutputOwn(t) \/ OutputDebug(t) \/ OutputFirst(t)
  BY <1>6, OutputDisk
<1>7. CASE OutputWrite(t)
  <2>1. stack[t] # << >> /\ Top(t).op = "output"
    BY <1>7 DEF OutputWrite, OutputPuts, At, Top
  <2>2. Top(t) \in OutputFrames
    BY <2>1, TopFrame, OutputIs
  <2>3. PICK p \in Prios : p = Top(t).prio
    BY <2>2 DEF OutputFrames
  <2>4. OutputPuts(t, "write", p, "debug")
    BY <1>7, <2>3 DEF OutputWrite
  <2> QED
    BY <2>4, OutputPutsDisk
<1>8. CASE OutputWriteDebug(t)
  <2>1. DEBUG \in Prios
    BY LoggerAssumption
  <2> QED
    BY <1>8, <2>1, OutputPutsDisk DEF OutputWriteDebug
<1>9. CASE OutputHandlers(t)
  BY <1>9, OutputHandlersDisk
<1>10. CASE RotateCheck(t)
  BY <1>10, RotateCheckDisk
<1>11. CASE RotateClose(t)
  BY <1>11, RotateCloseDisk
<1>12. CASE RotateShift(t)
  BY <1>12, RotateShiftDisk
<1>13. CASE RotateOpen(t)
  BY <1>13, RotateOpenDisk
<1>14. CASE RotateReset(t)
  BY <1>14, RotateResetDisk
<1> QED
  BY <1>1, <1>2, <1>3, <1>4, <1>5, <1>6, <1>7, <1>8, <1>9, <1>10, <1>11, <1>12, <1>13, <1>14
  DEF Step

LEMMA StutterKeepsDisk ==
  ASSUME LoggerInv, DiskInv, UNCHANGED vars
  PROVE  DiskInv'
<1>1. UNCHANGED files /\ inrotate' = inrotate /\ stack' = stack
  BY DEF vars
<1>2. /\ DiskOK'
      /\ \A n, k : Ordered(n, k) => Ordered(n, k)'
      /\ \A n : Alone(n)' <=> Alone(n)
      /\ \A f : RotateOK(f) => RotateOK(f)'
  BY <1>1, StillDisk DEF DiskInv
<1>3. Settled'
  BY <1>1, <1>2 DEF DiskInv, Settled
<1>4. ASSUME NEW u \in Threads, NEW i \in 1..Len(stack'[u]), stack'[u][i].op = "checkRotate"
      PROVE  RotateOK(stack[u][i])'
  <2>1. PICK f : f = stack'[u][i]
    OBVIOUS
  <2>2. f = stack[u][i] /\ i \in 1..Len(stack[u]) /\ f.op = "checkRotate"
    BY <1>1, <1>4, <2>1
  <2>3. RotateOK(f)
    BY <2>2 DEF DiskInv, RotatesOK
  <2>4. RotateOK(f)'
    BY <1>2, <2>3
  <2> QED
    BY <2>1, <2>4
<1>5. RotatesOK'
  BY <1>4 DEF RotatesOK
<1> QED
  BY <1>1, <1>2, <1>3, <1>5 DEF DiskInv

(* The files, and who has opened which, are as DiskInv says.               *)
THEOREM DiskInvariant == Spec => []DiskInv
<1>1. Init => DiskInv
  BY InitDisk
<1>2. LoggerInv /\ DiskInv /\ [Next]_vars => DiskInv'
  <2>1. ASSUME LoggerInv, DiskInv, Next
        PROVE  DiskInv'
    <3>1. PICK t \in Threads : CallAny(t) \/ Step(t)
      BY <2>1 DEF Next
    <3> QED
      BY <2>1, <3>1, CallDisk, StepKeepsDisk
  <2> QED
    BY <2>1, StutterKeepsDisk
<1> QED
  BY <1>1, <1>2, LoggerInvariant, PTL DEF Spec

(* As long as a name belongs to one priority, its file and the generations *)
(* on disk are the last part of what was written to it, wherever a rotation*)
(* fails half way; and lines are given up only when all generations exist  *)
(* and are full.                                                           *)
THEOREM RotationLosesOldestHolds == Spec => []RotationLosesOldest
<1>1. DiskInv => RotationLosesOldest
  <2> SUFFICES ASSUME DiskInv, NEW n \in Names, Cardinality(users[n]) <= 1
               PROVE  /\ IsSuffix(OnDisk(n), put[n])
                      /\ OnDisk(n) # put[n] /\ ~inrotate =>
                           \A g \in 1..Generations :
                             dir[n][g] # NULL /\ Len(content[dir[n][g]]) > Maxsize
    BY DEF RotationLosesOldest
  <2>1. Alone(n)
    <3>1. PICK S : S = users[n]
      OBVIOUS
    <3>2. IsFiniteSet(S)
      BY <3>1, LogFilesAssumption, FS_Subset DEF DiskInv, DiskOK, DiskTypes
    <3>3. Cardinality(S) = 0 \/ Cardinality(S) = 1
      BY <3>1, <3>2, FS_CardinalityType
    <3>4. S = {} \/ \E x : S = {x}
      BY <3>2, <3>3, FS_EmptySet, FS_Singleton
    <3> QED
      BY <3>1, <3>4 DEF Alone
  <2>2. /\ EndsWith(put[n], OnDisk(n))
        /\ \A g \in 1..Generations : dir[n][g] # NULL => Len(content[dir[n][g]]) > Maxsize
    BY <2>1 DEF DiskInv, DiskOK, Kept
  <2>3. IsSuffix(OnDisk(n), put[n])
    BY <2>2, EndsIsSuffix
  <2>4. ASSUME OnDisk(n) # put[n], ~inrotate
        PROVE  \A g \in 1..Generations : dir[n][g] # NULL
    <3>1. Complete(dir[n], Generations)
      BY <2>1, <2>4 DEF DiskInv, Settled, Ordered
    <3>2. ~(Generations < Generations)
      BY SlotsAre
    <3> QED
      BY <3>1, <3>2 DEF Complete
  <2> QED
    BY <2>2, <2>3, <2>4
<1> QED
  BY <1>1, DiskInvariant, PTL

=============================================================================
