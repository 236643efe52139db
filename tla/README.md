# A TLA+ model of pplib 7

pplib is a C++ library: threads and synchronisation, containers and strings,
files, sockets, databases, audio, graphics. This directory models the parts of
it whose correctness depends on the order in which several actors, or several
calls, do things. Line numbers are those of the sources named with them.

## Inventory

| part | state | operations | who it meets | what is hard | what makes it correct |
|---|---|---|---|---|---|
| `Thread` (`core/Threads.cpp`) | `flags` (stop, suspend), `IsRunning`, `IsSuspended`, `deleteMe`, `runcount`, the mutex and its condition variable | `threadStart`, `threadStop`, `threadSignalStop`, `threadSuspend`, `threadResume`, `threadDeleteOnExit`, `~Thread`; on the thread itself `threadShouldStop`, `threadWaitSuspended`, `threadSleep`, the end of `ThreadProc` | the OS thread that executes it, its owner, any other thread | fields written without the mutex in `threadStart`; a run that has been created and not begun; the tail of `ThreadProc` after `IsRunning` is 0; signals after an unlock | one run at a time; a stop that returned means no run; a waiter can be woken; one deletion |
| `Mutex` (`core/Mutex.cpp`) | an error-checking mutex, a condition variable | `lock`, `unlock`, `wait`, `signal` | all of the above | a second `lock` of the holder throws | covered by its users |
| `ThreadPool` (`core/ThreadPool.cpp`) | `threads`, the pool mutex | `addThread`, `removeThread`, `destroyThread`, `clear`, `destroyAllThreads`, `signalStopThreads`, `stopThreads`, `startThreads`, `running` | the threads of the pool, which may remove and delete themselves | two levels of locks; scans of many objects; deletion under a lock; exceptions under a lock | no pointer to a deleted thread; stopThreads joins; no deadlock with a thread that leaves |
| Database transactions (`database/Database.cpp`, `MySQL.cpp`, `PostgreSQL.cpp`, `Sqlite3.cpp`) | `conn`, `transactiondepth` on the client; transaction and savepoints on the server | `startTransaction`, `endTransaction`, `cancelTransaction`, `cancelTransactionComplete`, `exec`, `reconnect`, `selectDB` | a database server and the connection to it | failing statements, lost connections and answers, three dialects, savepoint names used again | brackets nest; all or nothing |
| `TCPSocket` as a server (`internet/TCPSocket.cpp`) | the descriptor, `islisten`, `stoplisten` | `bind`, `listen`, `stopListen`, `signalStopListen`, `disconnect`, `shutdown`, the callback `receiveConnect` | the server thread and the threads that stop it | polling on two flags, several stoppers, exceptions out of the loop, fields read without the mutex | the descriptor outlives the server; a stop that returned means no more connections; every stop returns |
| `SocketMessage` (`internet/SocketMessage.cpp`) | payload, type, size, version, what the peer supports | `write`, `waitForMessage`, `setPayload`, `getPayload` | a peer, a timeout, a thread that wants to stop | a timeout inside a frame; fields set before the frame is accepted | what is received is what was sent, in order, or an error |
| `MemoryHeap`, `MemoryGroup` (`core/`) | blocks with free chains; counters | `malloc`, `free`, `reserve`, `cleanup`, `clear` | one thread | long sequences of calls, cleanup in the middle | no element handed out twice; counters agree with the chains |
| `Logger` (`core/Logger.cpp`) | mutex, levels, filters, files, handlers, rotation | `print`, `setLogfile`, `addLogHandler`, `checkRotate`, ... | every thread that logs, the handlers | the mutex on every path; rotation inside output | no path leaves the mutex locked; generations are kept in order |
| `Array` (`types/Array.cpp`) | rows of pointers to strings, number of elements | `set`, `insert`, `add`, `erase`, `pop`, `shift`, `reserve`, `sort`, `makeUnique`, ... | one thread | index arithmetic, rows without a string, who owns which string | it is a list |
| `AssocArray` (`types/AssocArray.cpp`) | a tree of maps, a key counter in each | `set`, `append`, `erase`, `add`, copying, export and import | one thread | numbering of new keys, paths through values that are no arrays | it is a tree of keys |
| `String` (`types/String.cpp`) | buffer, its size, number of characters | `set`, `append`, `prepend`, `trim`, `cut`, `find`, `replace`, `repeat`, ... | one thread, memory that is refused | two lengths for one text, buffers that move, capacities from earlier calls | it is a text, and the zero is behind it |
| `MemFile` (`core/MemFile.cpp`), `FileObject::copyFrom` | buffer, size, position | open, close, seek, read, write | one thread | boundaries, reopening, a buffer shared with the base class | it is a file |
| `ID3Tag` (`audio/ID3Tag.cpp`, `Mp3.cpp`) | frames, the audio file, a temporary file | `load`, `save` | the file system, a process that ends | tags that grow, failed operations between copy, remove and rename, files left behind | the sound survives; the tags are the old or the new ones |
| the rest | - | conversion, parsers, file and socket wrappers, codecs, drawing, checksums | - | data, not control | unit tests |

The hazards, at their lines, are in `PROJECT.json`.

## Modules

    Thread            the methods of a Thread object and the OS threads
      ThreadControl   owners and helpers calling them            MCThread
        ThreadProofs  theorems
      ThreadPool      the pool, its manager, its threads         MCThreadPool
        ThreadPoolProofs  theorems
    NestedTransaction what the transaction methods promise (abstract)
      SqlTransaction  the three classes and a server             MCSqlTransaction
        SqlTransactionProofs  theorems
    SocketMessage     messages between two ends of a connection  MCSocketMessage
      SocketMessageProofs  theorems
    TcpListener       a server and the threads that stop it
      TcpListenerProofs  theorems
    LogFiles          log files, their generations, the directory
      Logger          the methods of a Logger and its threads    MCLogger
        LoggerProofs  theorems
    ElementPool       what the heap is for (abstract)
      MemoryHeap      its blocks and free chains                 MCMemoryHeap
        MemoryHeapProofs  theorems
    MemoryGroup       its list of blocks
    ByteFile          what a MemFile is (abstract)
      MemFile         its buffer and position
    StringList        what an Array is (abstract)
      Array           its rows and strings
    Objects           a MemoryGroup, a MemFile and an Array      MCMemoryHeap
      ObjectProofs    theorems
    KeyTree           what an AssocArray is (abstract)
      AssocArray      its maps and counters                      MCMemoryHeap
    Text              what a String is (abstract)
      String          its buffer                                 MCMemoryHeap
    TaggedFile        an audio file with tags (abstract)
      ID3Tag          the file operations of load and save       MCMemoryHeap

The objects that belong to one thread are checked by one run: `subject` in
`MCMemoryHeap` says which of them a behaviour is about, and the others rest.

Operators that begin with the comment "A mistake:" are not part of any
specification. Each is a plausible slip in the operator below it; putting it in
that operator's place makes TLC report the property named for it in
`PROJECT.json`, which shows that the property depends on that code.

### Thread and ThreadControl

A critical section under `threadmutex` that does not block is one step. What
the code does outside of the mutex is a step of its own: the two assignments of
`threadStart` (560-561), `pthread_create`, the signal of `threadResume` after
its unlock, the question for `deleteMe` in the tail of `ThreadProc`.
`lockedBy[t]` is only ever set by `threadSignalStop`, which on a suspended
thread returns with the mutex held (541-545); whoever else needs the mutex then
waits, and the holder itself gets `DeadlockException`, modelled as a call that
does nothing.

`wpc[w]`/`wobj[w]` say what an OS thread is doing and for which object. A run
of `run()` is a loop that asks `threadShouldStop`, may wait suspended, may
sleep and may return. The condition variable wakes one waiter, and timeouts and
spurious wake-ups may come at any time.

`ThreadControl` adds one owner per object, whose calls come one after the
other, and helpers that suspend, resume and signal at any time. What the
application may not do, and the model therefore leaves out: helpers do not call
an object that is being deleted, and `threadDeleteOnExit` is called before the
first start. `Handshake` says that the owner, after `threadStart`, waits until
`threadRunCount` has advanced; the example in `docs/examples` waits five
seconds. Without it, `stop_before_the_run_begins` shows what goes wrong.

### ThreadPool

One manager starts, stops and destroys; other threads add, remove, suspend and
resume, at any time: `addThread` takes a thread in whatever state it is and
whatever the manager is doing, as it does in the code (77-85). What the
application may not do is add a thread that `destroyThread` is deleting, and one
that deletes itself is added before its first start or from its own `run()`, as
nobody else can know that it is still there; only the manager starts threads.
`late` remembers the threads that joined the pool running after
`signalStopThreads`. None of the pool's methods has told these to stop, so
`stopThreads` may wait for them for ever, and one that is added between the
`stopThreads` and the lock of `destroyAllThreads` (142, 143) and then removes
itself waits for the mutex of the caller that waits for it. `NoRemovalDeadlock`
and `StopThreadsReturns` name these threads as their exception; see also the
section on what the code does against its documentation. A loop under the pool mutex is one step per visited thread, so the
threads run in between. `Removers` end with `removeThread(this)`, the case the
note at `stopThreads` is about; `SelfDeleters` delete themselves too. When an
exception leaves a method, the pool mutex stays locked (there is no guard
object): the manager's state `aborted`.

### SqlTransaction implements NestedTransaction

`NestedTransaction` is what the notes in `Database.cpp` (1132-1202) promise:
brackets that nest, the inner ones undone alone, the outermost one stored as a
whole or not at all. `SqlTransaction` has the client's `transactiondepth`, the
connection, and a server that answers BEGIN, SAVEPOINT, RELEASE, ROLLBACK TO,
COMMIT and ROLLBACK in the way each of the three databases does (external, as
the code relies on it). A statement may fail; a connection may be lost before
it, or after the server has carried it out. The refinement maps each level to
the rows between its savepoint and the next; it is checked as a PROPERTY, and
once more method by method (`MethodsKeepPromises`), since a cancel that behaves
like an end would still be a step of the abstract specification.

The application handles exceptions: after one inside a transaction it only
cancels or reconnects until that succeeded. MySQL, whose class reconnects by
itself, keeps the promises only while its connection is not lost, so
`sql_nesting` loses PostgreSQL's only and `mysql_reconnects_inside` loses
MySQL's.

`exec` may also throw behind a statement that was carried out: the logger behind
`logQuery` may throw (MySQL.cpp 630, PostgreSQL.cpp 538, Sqlite3.cpp 404), and in
MySQL an error left over from `mysql_store_result` does (638). `ThrowsAfter` says of
which statements that is in an instance. After BEGIN, RELEASE and ROLLBACK TO the
client then counts another depth than the server has: a BEGIN that threw leaves a
transaction open the client does not know of, a RELEASE that threw a bracket whose
savepoint is gone. No property survives BEGIN and RELEASE, so they are premises
and not in the instance; a ROLLBACK TO is only repeated, and is left out with
them to keep the premise simple.

A drop of the transaction by the server stores nothing (`Drop`). The one step that
is neither a step of the nested brackets nor a drop is `CommitUnanswered`: an
outermost `endTransaction` throws although its COMMIT was carried out, against
the note at 1168-1170. Both properties name it, for `endTransaction` only.

### TcpListener

The server thread binds and listens again and again; stoppers call
`stopListen`, `signalStopListen` and `disconnect` (`shutdown` and the
destructor do the same). Every access to `islisten` and `stoplisten` is a step,
those `disconnect` makes without the mutex included. `receiveConnect` may ask
for a stop and may throw. The application calls `listen` only when no call that
ends it is under way, and `disconnect` not in the instant in which `listen` is
about to set `islisten`; both are rules the code does not enforce.

### SocketMessage

Two ends of a connection. At each, one thread calls `waitForMessage` and may
answer with the object it received into, which has kept whether the other side
unpacks compressed payloads; further threads write with objects of their own.
Bytes are grouped into words that stand for what was written there; a checksum
holds for the words it was computed of and no others. `Send` is one turn of the
loop in `TCPSocket::write` and takes some or all of the header or the payload,
so two writers of one socket can mix their frames. `readLoop` takes one word;
`Abort` is its timeout or stop, which throws away what was read, so that the
next `waitForMessage` begins anywhere. `disturbed` records that one of the two
has happened: the frame format has no way back into step, and the properties
about progress hold only until then. `DeliveredAsSent` holds always.

### MemoryHeap implements ElementPool

`ElementPool` hands elements out and takes them back. `MemoryHeap` has what the
code has for that: the doubly linked list of blocks with the pointer to its
first one, the free chain of each block (a sequence, since only its head is
ever touched) and the counters that are kept next to them. A loop over the list
is one step for each block, `bl` being where it is, so that a pointer that
`cleanup` or `clear` follows to a deleted block is seen; nobody else uses the
heap meanwhile, and a call begins only when the one before has returned.
`CleanupDelete` is the body of the loop of `cleanup` (435-453) in the case in
which the block goes: both neighbours, the first pointer and the counter.
`FreeTake` goes on with `cleanup` in the same call when `freeCount` exceeds its
limit (413). The system may refuse memory at any time (`OutOfMemory`, and
`init` without a block). The application gives back what it has, an address the
heap does not know, or one in a buffer or at its end (395) at which no element begins,
which ends in `HeapCorrupted` (399-402); `init` comes first, as its documentation demands (241).
While `clear` runs, the pool is empty already: its elements lose their validity
with the call.

### Logger

`stack[t]` is the call stack of a thread: `print` calls `output`, which calls
the handlers and `checkRotate`, which prints into the file it has just opened.
What another thread can come between is a step of its own: the closing of files
by `terminate` before it locks the mutex, each line of a block, each handler,
each rename of a rotation. Files are sequences of lines with an identity, as a
renamed file goes on existing for those who have it open; `put` remembers what
was written to a name, which is what the generations on disk are compared
with. File operations and handlers may throw. Where that leaves the mutex
locked, `kept` says so: the calls after it need not return. `Offers` gives each
thread the calls it may make, out of all there are (`AnyCall`); a call that does
nothing but take the mutex, change a member and give it back is in `LockingOps`. A
look-up in the filter tables and a change of them is one step each: `setFilter`
changes them without the mutex (660-708), and what another thread's look-up finds in
the middle of that is left undefined by C++ and left out here. A
node of the handler list takes an address nobody uses; the list never has more
than one node for each member of `Nodes`, which bounds it.

### MemoryGroup, Array, AssocArray, String, MemFile

A call is one step and the object is one thread's, so what is checked is that
any sequence of calls does to the members what an abstract specification says of
the object. In an abstract specification `Next` is what comments, documentation
and tests of the repository promise of each call. What the code does against
that, or beyond what C++ defines, is a step with a name of its own, at the lines
where it happens, in `Divergence` (in `KeyTree`: a condition). A property then
reads: every step is one of `Next` or one of `Divergence`. The refinement shows
that there are no others, and each of the named ones is needed. Where a divergence
would excuse more than the call it belongs to, `Calls` in the module of the code says of
each call which it may be.

- `MemoryGroup` keeps the doubly linked list and its two counters.
  `GroupKeepsBooks` relates them to the blocks the application has, and says which
  calls may lose a block. `clear` and the destructor are documented to release
  every block (`Releases`), and `clear` calls the method `free` with the address of a
  header (124), which throws: of a group that has a block they release none
  (`ReleasesNothing`), and the exception out of the destructor ends the process.
- `Array` has rows, the strings they point to and the text of each, so that a
  string owned twice, lost, or deleted and still pointed to, is seen
  (`ArrayOwnsStrings`). `StringList` is the list, `makeUnique` and a copy 1:1 as
  documented; what becomes of them in the code is `makeUniqueEmpties`,
  `copyTrimmed`, `addTrimmed` and `copySelfEmpties`.
- `AssocArray` has its maps as functions and `maxint` as an unsigned number of
  `Word` values; `KeyTree` is a set of paths, in which a new key is larger than all
  there are. It is not after a negative key, which makes the counter fall
  behind (`Disordered`), nor after the largest one (`Exhausted`).
- `String` has the bytes up to the terminator, the capacity and where the
  pointer points; `Text` has a text and whether the C string is the same.
  Every call that allocates may be refused memory. `last` and `returned` keep
  a call and its result until the application goes on, so that the
  refinement compares results too. Calls that read the C string of a text that has
  a zero in it end there (`endsAtZero`).
- `MemFile` has both buffers, `MemBase`, sizes and the position as an unsigned
  number. `copyFrom` is the method of `FileObject` whose buffer member `MemFile`
  uses as its file. In `ByteFile` a seek leads to the place that was asked for,
  or, as a divergence, misses it (`seekMisses`); a call that throws changes nothing.

### ID3Tag implements TaggedFile

Each file operation of `save` is a step, may throw, and the process may end
between any two. A file is a sequence of cells: headers, frames, zeros, bytes of
sound. `saveMP3` writes into the room before the sound or copies into a
temporary file, removes the old one and renames; `saveAiff` and `saveWave` write
into the chunk if the tag fits, or copy chunk by chunk. `TaggedFile` says at each
moment where the sound is and which tags are with it, and names the exceptions:
the last byte of an MP3 file, a temporary file that was left behind, an MP3 file
under its temporary name when saving begins again.

## Runs

| run | bounds | shows |
|---|---|---|
| `thread_life` | 1 object, 3 OS threads, 2 helpers, 2 runs | the safety properties, that `threadStop` returns and that `threadResume` wakes |
| `stop_of_a_suspended_thread` | the same | violation: `threadSignalStop` keeps the mutex |
| `stop_before_the_run_begins` | the same, no handshake | violation: `threadStop` misses a run that has not begun |
| `thread_pool` | 2 threads, one of which removes and deletes itself, 2 OS threads, 2 runs | no dangling pointer; no deadlock with, and an end of `stopThreads` for, threads that were not added running; `stopThreads` joins |
| `pool_destroyed_early` | the same, 1 run, no handshake | violation: `destroyAllThreads` against a thread that leaves |
| `sql_nesting` | 3 rows, depth 3, 3 savepoints, 3 dialects, 4 kinds of statements that may throw though carried out | refinement of nested transactions |
| `mysql_reconnects_inside` | 2 rows, depth 2 | violation: half a transaction stored |
| `listener_stops` | 3 stoppers | the server keeps its socket, stops mean stopped, stops return |
| `listener_throws` | 1 stopper | violation: a stop that never returns |
| `messages` | 3 messages, 3 threads, payloads of 0 to 2 words, headers of 2 words | what is returned is what was sent, in its order; without a disturbance nothing is refused and everything arrives |
| `memory_heap` | one object in each behaviour, see below | the heap: a pool of elements, the list keeps every block, counters agree, cleanup keeps one empty block, every call returns; the group keeps its books and what it does not release is named; every `String` of an array has one owner; `Array`, `AssocArray`, `String`, `MemFile` and `ID3Tag` implement their abstract specifications, but for the divergences named there |
| `logger` | 2 threads with 2 calls each, 2 priorities, 2 names, 2 generations of 1 line, 1 fault | what output uses is not taken from it; rotation loses only what is oldest; blocks stay together; calls return unless the mutex was left locked |

`memory_heap` has 383,000 distinct states and takes about three and a half
minutes on two cores, `logger` 724,000 and two and a half; the others take less.

Why the bounds are enough. Two runs of one object let the tail of the first
overlap the second, and a third OS thread is there so that creating one fails
only sometimes; objects do not share state, so one object is enough outside of
a pool. In a pool the pairs that matter are a thread that stays and one that
leaves. Depth three is the first at which an inner bracket has both an outer
and an inner neighbour, and three savepoints suffice for a name that is set
again over one that was left behind. With two stoppers one withdraws the
other's flag; the third arrives in between. Three messages let a frame follow,
precede and mix with another; a header of two words is the shortest that has
both parts `waitForMessage` reads separately, and a payload of two the shortest
that compression makes smaller. Three blocks are the fewest of which one can be
unlinked between two others; blocks of one and of two elements tell a full
block, an empty one and one in between apart; the limit of `cleanup`, 1000 in
the code, is 2 so that it is passed often.

For the other objects of that run: an `Array` of 3 elements and 6 rows, with
`Slack` 2 for the 10 rows `set` adds, has rows behind its end after every
shrinking call. An `AssocArray` of 3 elements and words of 8 values, so that
keys end at 3, counts up to the largest key and beyond, and a negative key makes
the counter wrap. A `String` of 3 characters has one between
two that are trimmed; `Chunk` 4 for 128, `Slack` 2 for 16 and a wide character of
2 bytes make texts of 2 and of 3 characters need different buffers, and
one character for each kind the code tells apart (a zero, a letter of each case,
a blank, a backslash, one that has no conversion) is enough. A `MemFile` has
pages of 2 bytes for 8192 and positions of 4 bits, `copyFrom` sources fit its
scratch buffer of 4. The four audio files of `ID3Tag` are an MP3 file with room
behind its tag and one with two ID3v1 tags, an AIFF and a WAVE file with chunks
on both sides of the tag's and an odd last one; tags of up to two frames, two
saves and two faults: a fault, and another in the call that meets what the first
one left. In the logger a file of one line rotates at every second line, and two
generations are the first number at which one is renamed and one removed; the
three setups are the file of one priority being that of the other, another
one, and the only one.

Deadlock is not checked: every system here may stop (all threads ended, nothing
to call). That calls which were entered come to an end is stated by the
liveness properties instead.

## Fairness

Every OS thread is scheduled, so a call that was entered takes its next step
and a created thread starts. `run()` asks `threadShouldStop` in every turn, as
the note at `threadStop` (503-505) demands; `threadSleep` is given a timeout;
`select` has one (1425) and `receiveConnect` returns or throws. The network
delivers what was sent, and readers call `waitForMessage` again and again. Calls
that the application may or may not make are not fair. A thread that removes
itself from a pool competes for the mutex with a manager that polls with `MSleep(1)`
between two scans; there the lock is strongly fair: a thread that finds it free
again and again gets it. `MemoryHeap` runs on its caller's thread: a call that
was entered goes on. A thread in a method of `Logger` is scheduled, and a
handler returns or throws; the mutex is held for a bounded time and only weakly
fair, which is enough as no thread calls for ever.

## Proofs

Each module of proofs belongs to one component and is laid out alike: an
inductive invariant as a conjunction of named parts, a lemma for the initial
states, one for each action or group of actions, the theorem that the invariant
holds, and the properties as its consequences. The invariants were checked by TLC on
the instances of the runs before they were proved. The assumptions about
constants are those TLC evaluates in each run; where a theorem needs more, it
says so in its statement, and this section says why.

| module | proved | hypotheses |
|---|---|---|
| `ThreadProofs` | `OneRun`, `StopJoins`, `WaiterIsMarked`, `StopStaysRequested`, `DeletedOnce` | `Handshake` |
| `ThreadPoolProofs` | `PoolPointsToLive`, `NoRunOnDeleted`, `NoRemovalDeadlock`, `StopThreadsJoins` | `Handshake` |
| `SqlTransactionProofs` | `LevelsAreOnServer`, `ImplementsNesting`, `MethodsKeepPromises` | `Premises` |
| `TcpListenerProofs` | `ListenKeepsSocket`, `StopMeansStopped` | - |
| `SocketMessageProofs` | `DeliveredAsSent`, `PackedOnlyIfAnnounced`, `InStep` | - |
| `MemoryHeapProofs` | `NoDanglingPointer`, `NoBlockLost`, `HeapKeepsBooks`, `GrowsOnlyWhenFull`, `KeepsReserve`, `ImplementsPool` | - |
| `LoggerProofs` | `OutputUndisturbed`, `BlocksStayTogether`, `RotationLosesOldest` | - |
| `ObjectProofs` | `GroupKeepsBooks` of `MemoryGroup`, `ImplementsByteFile` of `MemFile`, `ArrayOwnsStrings` and `ImplementsList` of `Array` | - |

**Thread**, for any number of objects, OS threads, owners and helpers and any
bound on runs. `OneRun` alone is not inductive: that `threadStart` finds
`IsRunning` unset does not say that no thread is on its way into a run. The
inductive invariant `ControlInv` adds what the owner knows: a thread that has
not begun is one its owner waits for, with the run count unchanged
(`CreatedIsAwaited`); when the owner is idle or in `threadStart` no thread is
active (`OwnerKnows`); an object with `deleteMe` was handed over before its
only run (`SelfDeletes`, `FirstRunBegins`, `HandedDeletes`); a dead object was
given up (`DeadIsGivenUp`). `WaiterIsMarked` (a waiter is marked as suspended) is a
part of `ControlInv` and is listed by no run. The hypothesis `Handshake` cannot be
dropped: `stop_before_the_run_begins` is the counterexample.

**ThreadPool**, for any threads, callers, removers and self-deleters. `PoolInv` says
who holds the pool mutex at each step of the manager and how the iterator and
the visited thread lie in the set (`LockInv`); that threads are created in
`startThreads` only, at most once each (`CreatedInv`), and only for an object
nobody runs (`FreshInv`); that `IsRunning` and `runcount` tell of every run (`RunInv`);
that an object which deletes itself has left the pool for good when its run is
over (`SelfDeleteInv`); and the heart of it, `JoinedInv`: what `running()` has
established about the threads already visited stays true until the method that
asked is done with them, also while `destroyAllThreads` goes on to delete them.
Of the threads in `late`, which were added running, it knows
nothing. `NoRemovalDeadlock` follows: nobody else in the set can be waiting for
the mutex the destroyer holds. As above `Handshake` is a hypothesis, and
`pool_destroyed_early` the counterexample without it.

**SqlTransaction**, for any depth, rows, number of savepoints and choice of
dialects. `SqlInv` relates the depth counter to the server's list of savepoints:
of each name the client may use, the latest savepoint exists, the latest ones
lie in the order of their depths, and each has at least the rows of the one before
(`SessionOK`); and it says what the client can know of the session when a
statement failed or the connection went (`ClientOK`). Savepoints that were left
behind under a name used again are the reason for speaking of latest ones. Every
step then maps to a step of `NestedTransaction` or to a stutter, method by method.
`Premises` says that the MySQL connection is not lost, as
`mysql_reconnects_inside` shows that the promises fail when it is inside a transaction, and that
`exec` does not throw behind a BEGIN, RELEASE or ROLLBACK TO that was carried
out (see above). PostgreSQL's connection may be lost, before and after a statement
is carried out, and the other statements may throw afterwards.

**TcpListener**, for any set of stoppers. The inductive invariant relates the
place of the server in `listen` to `islisten`: an accepting server has it set and
its socket bound, and a stopper that has passed the wait of `stopListen` in
`disconnect` has found the server ended.

**SocketMessage**, for any threads, messages, sizes and headers; that there are two
ends, each with a reader, is `MessageAssumption`. `MessageInv` follows each word: what a
thread has still to write is the rest of one frame of its own (`TodoInv`), what is on
the wire or has been read came from a frame that has begun at the other end
(`WireInv`), and first words come in the order in which their frames began, behind
everything that was delivered (`OrderInv`). Nothing is assumed about `disturbed`:
mixed and cut frames are among the states, and what saves `DeliveredAsSent` from
them is that a header is accepted only if its checksum holds for words of one
frame, and a payload likewise. `InStep` is about the ends that are not disturbed and
has an invariant of its own, `StepInv`: the words a reader has of a frame are its first
ones (`PartOfFrame`), each word on the wire is followed by the next of its frame or,
after the last, by the first of another (`Joins`), and at most one thread is in the
middle of a frame, whose next word then follows the last that was sent
(`Continues`). Each call of `send` or `recv` touches one such place.

**MemoryHeap** implements `ElementPool`, for any number of blocks, any sizes and
growth and any limit of `cleanup`, under `HeapAssumption`: the increase is at least 1, as
the code needs (309). That the list reaches every block (`NoBlockLost`) speaks
of the list as a whole and cannot be followed through one step; `HeapInv`
instead says of each block that its neighbours point back to it (`Linked`) and
that numbers can be given to the blocks that grow along the list (`Ranked`). A
set of blocks that contains the first one and all successors of its members is
then everything: of the blocks outside, the one with the least number would
have its predecessor inside (`AllReached`). `CapacityAgrees`, a part of
`HeapKeepsBooks`, is kept as a partition of what is owned when a block comes or
goes, and a block may go because its chain and what is in use of it are all of
its elements. For
`KeepsReserve` and `GrowsOnlyWhenFull` a second invariant, `Walked`, says what
the loop has found in the blocks behind it.

**Logger**, for any threads, priorities, file names, handlers, calls and faults and
for blocks of any number of lines. The difficulty is the call stack: `output`
prints from inside `checkRotate`, which `output` has called, so an invariant has to
hold for stacks of any depth. `LoggerInv` does that with a condition on neighbours: `Fits`
says from which place of which function a frame may have been called. With it,
each step is a stack whose first frame is replaced, pushed or popped (`Swapped`,
`Pushed`, `Popped`), and frames further down keep their neighbours. `Holding` says that
whoever is inside `output` or `checkRotate` has the mutex, so only one stack has
to be known any better: `Work` says of its frames that what the code has looked at
is still so, namely that the node of the handler list it stands on is in the list, the
file it writes to is open, and the file that is being rotated has a name.
`terminate` closes files before it locks the mutex; `OutputUndisturbed` has it as its
exception, and so has `Work`. For `BlocksStayTogether` (`Together` for each file) the
holder of the mutex remembers more, `OwnOK` and `DebugOK`: as long as a print has lines to
go, the last lines of each file it writes to are its own, from the first one
on (`Follows`), or else the file stays as it is: its level is filtered, or it is
shut and nobody on this stack is rotating it.

`RotationLosesOldest` compares a file and its generations, end to end, with all
that was written to the name, and needs an invariant about the files of its own,
`DiskInv`. In the loop of `checkRotate` one place in the row of generations is
empty and moves from the last to the first; `Chain` says that the others are filled
from the file on, with that place skipped, and `RotateOK` says for the frame on the
stack where it is (`Hole`). A file can then lose lines only by the removal of the
last generation, and when there is one the row is complete (`Complete`), as it stays
until the rotation is over. That the generations are full is `Kept`, and the file
itself is when the loop comes to it, for it has been closed since its size was
asked. That nobody else writes to it meanwhile needs to be said of every file that is
open: it has no name but the one it was opened with (`Owned`, `Distinct`), and the
priority that has it is the only one of that name (`Alone`, which follows from the
premise of the property). A rotation that fails leaves the row with an empty
place, and `inrotate` set, so that no other begins: the lines are still the last
ones that were written. `Left` follows the lines of a row place by place, from the
last down, which takes the place of an induction over the row. `LogFilesAssumption`
gives the model a file for each priority and each generation of a name, which is what
can be in use at once: the operating system has no such limit.

**MemoryGroup**, for any blocks and sizes (`GroupAssumption`). The list is compared with a
sequence, `order`, of which `clear` has passed some blocks already: neighbours in the
one are neighbours in the other (`Books` in `GroupInv`), so that linking a block at
the end and unlinking one in the middle change two links and one place. The size
the group keeps is the number the sequence counts up to (`taken`). That counting
another sequence, one block longer or shorter, gives as much more or less is
shown by contradiction: among the places where it does not there would be a first
one (`LeastElement`). That only `clear` and the destructor lose blocks follows call by
call from what each of them does to `live` and `order`.

**MemFile** implements `ByteFile`, for any contents, sizes and positions. `FileOK` is the
inductive invariant: while the file is open for writing the buffer is as long as
`buffersize` says and not shorter than the file; opened for reading, the memory is there
whole; and while it is closed the scratch buffer of `copyFrom` may be in the
buffer's place. Each call is then shown to do what `ByteFile` has of it on the bytes up to `mysize`, or
one of the divergences that `Calls` allows this call, in the states `ByteFile`
lists and no others. `MemFileAssumption` says what 64-bit systems see to: no memory is as
large as half of what a word can count, so neither is what is written or asked for
at once, and offsets are signed words. A position may still be any word, and `seek` gets there.

**Array** implements `StringList`, for any texts, lengths, rows and other arrays. `ArrayInv` is what
`ArrayOwnsStrings` says of the rows, with their types and number: no two rows
have the same `String`, only rows of elements have one, it exists, and every one that
exists is in a row (`Owns`). What the application sees of such an array (`Seen`) is the
list. A part of a call, such as one `set`, one `new` or one erased row, then owns
what it has and changes the list as `StringList` says; a loop over these parts is a
function on the numbers up to the length of what it reads, and what it has done after
`n` turns is shown by contradiction, from the first turn after which it has not
(`LeastElement`). `sort` is any arrangement of the values that ascends, as a multiset gives
them back, and that two of these which ascend are the same list need not be shown: the array
and the list take the same one. The calls that do something else than is documented, or
leave what C++ defines, do so in the states `StringList` lists, each only what
`Calls` allows it. `ArrayAssumption` asks for one address more
than an array of `MaxLen` elements with one empty can have in use; the operating system
is not modelled as refusing one. The other arrays are lists of texts and empty rows, as an
`Array` is.

Only model-checked:

- All liveness properties (`CallsReturn`, `AllArrive` and their like), since fairness and `ENABLED` are
  out of the prover's reach.
- The refinement of `KeyTree` by `AssocArray`, whose tree of trees is a recursive operator, and
  those of `Text` and `TaggedFile`: what they compare is computed by folds and
  recursive operators over sequences (search and replace, the chunks of a file), each of
  which would need lemmas of its own.
- The five runs that end in a violation are counterexamples of an instance, which is what they are for.

## What the code does against its documentation

The five findings of `PROJECT.json` have a run each. Modelling showed more. Nearly
all of this is an exception that a property names, and would not hold without:

- `ThreadPool::addThread` (77-85) takes running threads at any time, as line 48 says.
  One added between the `stopThreads` and the lock of `destroyAllThreads` (142, 143)
  that removes itself deadlocks with it, against the note at 234; one added while
  `stopThreads` waits was never told to stop (`late`).
- `endTransaction` may throw with everything stored, when the answer to COMMIT is lost
  or `exec` throws behind it; `Database.cpp` 1168-1170 says that nothing was
  carried out then (`CommitUnanswered`).
- `MemoryGroup::clear` and the destructor never free a block; 59-63, 102-103 and
  114-116 promise all (`ReleasesNothing`).
- `Array::makeUnique` erases everything, as nothing enters the set it compares
  with; the comment at 1228 and `tests/src/core/array.cpp` (646-655) expect the first
  of each value (`makeUniqueEmpties`). A copy ends with the last element that has a
  string (185-192), where 108 promises one 1:1 (`copyTrimmed`, `addTrimmed`), and an
  array copied to itself is empty (187). `pop` returns the element behind the last one
  (872; 859-864 promise the last). An assignment to an element without a string
  changes the empty string all arrays share (595-605). Rows that have moved are read
  by an `insert` before the end (341-347) and by an array added to itself (204-208); an
  array inserted far beyond the end is written behind the rows (385-387); a search reads
  elements without a string (1255, 1265).
- `AssocArray`: after a negative key the counter may wrap, and `[]` then
  overwrites an element (`Disordered`). After the key 2^63-1 the counter goes on,
  and each `[]` overwrites the element of that key (`Exhausted`; 343-353).
- `MemFile`: a seek to before the start arrives at the start, or, from the end,
  behind everything (`seekMisses`; 337-354). A seek from the start or the end to a
  place inside the file throws; it changes nothing. `truncate` moves the position with the end
  (286; FileObject.cpp 992 says it stays). `fgets` does not return a line that ends
  with the file (405-407), `fgetc` returns a byte behind it (471-472).
  `close` keeps `buffersize` (300), so that what is written after the next open may
  go anywhere. `FileObject::copyFrom` puts the bytes at the start of the file
  too (382-383; 329-367 promise the position, `copyOverStart`).
- `String`: calls that read the C string end at a zero in the text (`endsAtZero`;
  string.h 579, String.cpp 1228 and 1839 speak of all of it).
  `set(const char*, size)` does not look for the end of the C string: `string.h`
  (397-399) says a size that is too large is ignored; `append` does look, unless
  the String is empty (`zeroTaken`, `Undefined`). `shl` and `shr` are limited to
  the length (1994 against 1987-1988, `shiftLimited`), and `shr` leaves only what it
  fills with, since it appends the text and then cuts it off (2021 against
  2006-2007, `shiftedIsLost`). An empty needle is not found in an empty text (1683
  against 1678-1679), `get(-size())` is outside (798 against 787-793). `append` of a
  String to itself reads freed memory when the buffer moves (511). `reserve` on an
  empty String, and a conversion that fails, leave a buffer without a zero. `mid` with a
  length near 2^64 wraps (1198). `stripSlashes`, of which nothing is written, takes
  an escaped backslash out too.
- `ID3Tag`: each copy of an MP3 file drops or takes a byte at its end
  (`Mp3.cpp` 154; `tests/src/audio/id3tag.cpp` expects 95921 bytes at 494 and 95920 at 507); a WAVE
  file with an odd last chunk that is not padded is not read again once its
  tags are removed; what an older temporary file leaves behind the new one
  brings old tags back (1713); `saveMP3` called again after a rename that failed
  destroys the only copy (1030).
- `Logger::setLogfile` without a name returns with the mutex locked (244), and a
  handler that logs gets an exception that leaves it locked (608); `terminate` closes
  files another thread may be writing to (172).

## Plan

1. Proofs: the refinements of `Text` by `String`, with its folds as functions on numbers
   as in `Array`, and of `KeyTree` by `AssocArray`, whose tree needs another form first.
2. `WideString` against `Text`, `ByteArray`.
3. Connected sockets: `TCPSocket::connect` with its timeout, `write` and `read` apart
   from messages.

## Not modelled

The lines the map covers are a small part of the repository, since most of it
is data: `resource/res.h` alone, generated bytes, is a quarter of all lines, and the
drawing primitives, image and audio codecs, tables and assembler kernels are more
than another quarter. What they compute is a function of their input without a
state that calls share, and a bounded instance of them would show less than
the unit tests.

- `WideString` repeats `String` method by method for `wchar_t`; `ByteArray`,
  `DateTime`, `Variant` and `Pointer` are values each of whose calls is an assignment.
- Numbers and other encodings of `String`, formatted text and comparisons
  depend on the C library.
- Parsers and codecs (`Json`, `ConfigParser`, `WikiParser`, compression, image and
  audio formats, MP3 frames) have no state beyond one call.
- File, socket, TLS, HTTP and resolver classes wrap a library whose state
  machine is not this code's; of `File` and `TCPSocket` the parts are modelled that
  `ID3Tag`, `Logger`, the listener and `SocketMessage` use.
- `DBPool` is declared and not implemented.
- The Windows branches are left out everywhere, and so are thread priorities,
  syslog and the console.
