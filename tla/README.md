# ScSDK: specifications in TLA+

ScSDK is a C++ SDK of four libraries: ScUtils (threads, locks, containers, strings,
logging, JSON, the application object), ScNetwork (addresses and a WebSocket server on
top of HP-Socket), QtUtils (configuration, plugins, notifications and maps for Qt
programs) and QtFrameless (windows without a frame). This directory has a module for
every part whose state can be got wrong by an order of calls, messages or threads, and
for the pure functions with an answer that can be checked. The tests of the repository
(`src/tests`) are demonstration programs without assertions; the claims checked here
come from assertions (`SC_ASSERT`, which release builds leave out), comments, names,
and from what callers rely on.

Sections: 1 inventory, 2 modules, 3 runs, 4 fairness, 5 what the code does otherwise
than it says, 6 proofs, 7 what is not modelled.

## 1. Inventory

Paths are relative to `src/src/<library>`.

### ScUtils

| component | state | operations | what is hard |
|---|---|---|---|
| **thread pool** `src/thread/scthreadpool.cpp` | limit, reserved and active counts, all threads, waiting and expired threads, pages of queued tasks by priority, one mutex | `start`, `tryStart`, `setMaxThreadCount`, `reserveThread`, `releaseThread`, `clear`, `waitForDone`; `run` of a worker | workers that time out while they are being woken, joins with the mutex held, a `reset()` that gives the mutex up half way |
| **read-write lock** `src/thread/screadwritelock.cpp` | one tagged atomic pointer; contended, a block with counts, a mutex and two conditions | `lockForRead`, `lockForWrite`, the try functions with timeouts, `unlock`; the recursive variants; lockers | a CAS against blocks that are given back and used again; timeouts that swallow a notification; writers before readers |
| **free list** `buffer/scfreelist.h` | top and serial in a word, successors, four arrays made on demand | `next`, `release` | ABA, the wrap of the serial, two threads that make the same array |
| **detachable task** `thread/scdetachabletask.h` | state, thread, value, a mutex and a condition | `start`, `stop`, `wait`, `value`, the thread's `executed` | calls that overlap; the task held alive by its own thread |
| **atomic types** `thread/scatomic.h` | a cell | loads, stores, conditional and adding operations by memory order, `ref`, `deref` | an order that promises less than its name |
| **global statics** `utils/scglobalstatic.h` | a guard and an object | first use, destruction at exit | the first use by two threads, a use during the exit |
| **application** `src/system/scapplication_*.cpp` | a condition (Linux); a window and a queue of messages (Windows) | `exec`, `quit`, signals, the console's handler | a `quit` before `exec`, a handler in a thread of its own |
| **loggers** `src/io/sclogger*.cpp` | a factory, a map of loggers, a default logger, settings of builders | `build`, `logger`, `defaultLogger`, setters | looks without the mutex; settings that come too late |
| **strings** `src/text/` | small, medium and shared large texts; lists that share elements | copies, edits, searches, comparison | copy on write by a count that is read without a lock; wrap of offsets |
| **two-way map** `container/scbihash.h` | two hash maps | `insert`, removals, `unite` | the maps falling apart |
| **JSON** `src/serialization/` | containers that share a tree of cJSON | edits, values, parse errors | sharing, sizes remembered, types of values |
| numbers, bytes | | arithmetic that notices overflow, order of bytes, digits | edges of the range |

### ScNetwork

| component | state | operations | what is hard |
|---|---|---|---|
| **WebSocket server** `src/socket/` | a context per connection | callbacks of HP-Socket: accept, headers, upgrade, close | the order of the questions that decide a handshake; ids used again |
| **helpers** `src/utils/` | | SHA-1, Base64, the test of UTF-8, texts of addresses | padding, borders of ranges |
| **host address** `src/kernel/` | a shared private object | constructors, setters, conversions of IPv4 and IPv6 | copies that share |

### QtUtils

| component | state | operations | what is hard |
|---|---|---|---|
| **configuration** `src/config/` | entries with a cached value and a save point, categories, a database, its file | `get`, `set`, save points, transactions, mass saves, set-up of the file | cache and row; failures and restarts between statements |
| **notifications** `src/utils/qnotifymanager.cpp` | three lists of recent messages | messages from several threads | a list shortened under a mutex and appended to without |
| **plugins** `src/plugins/` | containers by type and by name | register, load, tell | two registries and a signal |
| **QBiHash, QStringHash** `include/qtutils/utils/` | two maps each | insert, remove, take | the other half of a pair |

### QtFrameless

| component | state | operations | what is hard |
|---|---|---|---|
| **manager and helper** `src/utils/qframelessmanager.cpp`, `qframelesshelper*.cpp` | data by window and by native id; window procedures | attach, detach, change of id | native ids that change and are used again |
| **mouse on Windows** `src/utils/qframelesshelper_win.cpp` | what was hit last, a flag, what Qt believes | answers to WM_NCHITTEST, filtered and posted messages | messages that cross |
| **mouse on Linux** `src/utils/qframelesshelper_unix.cpp` | pressed, in the title bar | event filter, moves given to the window manager | a release that never comes |
| **look** `src/utils/qframelessstyle.cpp`, `src/elements/`, `src/widgets/` | styles, border, margins, heights, buttons | setters, window states, painting | a style changed while the window is maximized; a title bar that moves to another window |
| **system menu** `qframelesshelper_win.cpp` | items, a default, the command posted | show, choose, post | the window changes while the menu is up |
| **Windows** `qframelessutils_win.cpp`, `qsystemversion_win.cpp`, `qsysapiloader.cpp` | symbols remembered | version, DPI, metrics, client rectangle | functions that only some versions have |

### Interaction

* Clients → pool → workers → `ScRunnable::run`. Nothing else in the repository calls the pool.
* Clients → lock → free list. A block that a lock gives back can be another lock's the next
  moment, while a third thread still holds its address. Lockers → lock.
* Builders, `logger()` and `defaultLogger()` share the factory; the formatter that one of
  them sets up is the one that the others use.
* An entry of the configuration writes through its category and main configuration to the
  database, whose file the private object makes and opens at every start.
* HP-Socket → callbacks → contexts; the handshake uses SHA-1, Base64 and the search for a
  token, which uses `ScStringAlgorithms`.
* Qt and Windows → event filters and window procedures → `QFramelessManager` → helpers; styles →
  containers and title bars → buttons, by signals.

## 2. Modules

| module | models |
|---|---|
| `ScThreadPool` | pool, workers, clients: an action per critical section |
| `ScThreadPoolUnlock` | extends it: what a stray unlock does while `tryToStartMoreThreads` holds the mutex |
| `ReadWriteLock` | abstract: what a read-write lock promises |
| `ScReadWriteLock` | the lock that is not recursive: an action per atomic operation and per critical section of a block |
| `ScRecursiveReadWriteLock` | the recursive lock |
| `ScLocker` | `ScReadLocker` and `ScWriteLocker` |
| `IdPool`, `ScFreeList` | abstract: ids taken and given back; the lock-free list that does it |
| `ScDetachableTask` | the task, its thread, its clients |
| `ScAtomic`, `ScGlobalStatic`, `ScApplication` | the parts of these names |
| `ScLoggerFactory`, `ScLogger` | who makes which logger when; what a message becomes |
| `ScStringData`, `ScStringList`, `ScStringAlgorithms`, `ScBiHash` | strings, lists of strings, functions on strings and numbers, the two-way maps |
| `ScJson`, `ScJsonValue` | containers that share; values, nodes and errors |
| `ScHostAddress`, `ScWebSocketServer`, `ScWebSocketUtils` | ScNetwork |
| `QConfiguration`, `QConfigurationFile`, `QNotifyManager`, `QPluginManager`, `QStringHash` | QtUtils (`QBiHash` is an instance of `ScBiHash`) |
| `QFramelessWindows`, `QFramelessMouse`, `QFramelessDrag`, `QFramelessStyle`, `QSystemButton`, `QStandardTitleBar`, `QSystemMenu`, `QFramelessUtils`, `QSysApiLoader` | QtFrameless |
| `MCThreads`, `MCScUtils`, `MCObjects` | compositions for TLC of parts that share no state: a behaviour picks one, `part` |
| `MCData` | those parts of `MCObjects` that keep data or pass messages and events on |
| `..._proofs` | theorems, section 6 (those about `ScDetachableTask` and `ScFreeList` are in these modules, those about the recursive lock in `MCScUtils_proofs`) |

`PROJECT.json` gives for every definition the lines it stands for ("map").

### Conventions

A variable has the name of the field it stands for; where a field is a local of a thread,
it is a function of the threads. An action is what a thread does between two points at
which others can see it: a section under a mutex, an atomic operation, a callback, one
event or message. Time is not counted: a finite timeout may have elapsed whenever the code
looks. A condition variable is the set of the threads asleep in it; a spurious wake-up is
an action. What lies outside the repository (Qt, Windows, HP-Socket, cJSON, SQLite,
spdlog, `std::atomic`, the user) is modelled by what the code relies on and marked
external in "map".

Operators named `...Fault` stand before the definition they vary and are used by no
specification. Each is a plausible mistake in it: a dropped guard, a count one too small, a
missing reset. `PROJECT.json` ("mutants") names for every property the faults that break it,
so that a reader can tell what the property is able to see.

### ScThreadPool

`queue` is a sequence of pages, each with its priority and entries; `allThreads`,
`waitingThreads`, `expiredThreads`, `activeThreadNum`, `reservedThreadNum` and
`maxThreadCount` are the fields of these names. A worker's `pc` says where in
`ScThreadPoolThread::run` it is; `task` is the runnable it has. A section of code between
two releases of the pool's mutex is one action: `TakeOrRest` (405-435) is all a worker
does from the end of a task to its next one, its wait or its exit; `WakeUp` is the return
of `wait_for`, and what follows. `WaitForDone`, `WaitAndReset`, `Reset`, `VisitThread`,
`JoinThread` and `AfterReset` are the steps of `waitForDone`, because `reset()` releases the
mutex and does not take it again. Unlocked reads are steps of their own.

The `unique_lock` of `waitForDone` still believes in that mutex and unlocks it once more,
which is undefined when another thread has it by then. `ScThreadPool` keeps the outcome in
which nobody has it, and calls that return after their `reset()`. The other outcomes are in
`ScThreadPoolUnlock`: an iteration of `tryToStartMoreThreads` falls into two steps,
`HandOut` and `PopHandedOut`, a stray unlock takes the mutex from it in between
(`StrayUnlock`), and a call that has time left goes round again without the mutex, swaps the
containers one by one (`SwapAgain`, `ForgetAgain`) and unlocks again. Its run shows what comes of it.

### The locks and the free list

`d_ptr` has the four shapes of the tagged pointer: null, n readers, one writer, a block.
`pc`, `lock`, `mode`, `timeout`, `d` and `val` are a thread's place in the lock functions,
its arguments and locals. The functions for reading and for writing are one set of actions
with the mode as a parameter wherever their code is the same. The free list is the set of
blocks `next()` may return: that is what `IdPool` promises, and `ScFreeList` keeps. In the
recursive lock the block stays for life, so that a call is one critical section up to its
sleep. `ReadWriteLock` sees of both who holds which lock; `ImplementsReadWriteLock` maps
`readers` and `writers` to the sets `Holders`, or to the threads with a hold of depth
above 0.

In `ScFreeList`, `_next` is the pair that the code packs in a word, `element` the field `next`
of every element; `lag` counts the releases that fall between the load and the CAS of one
`next()`: the serial tells `SerialCount` of them apart, and the bound `MaxLag` says how many
there may be. `IdPool` sees only `owned`.

### ScDetachableTask

`pc` follows a client through `start`, `stop` and `wait`, `run` the thread of each run
through `executed()`; a value is the number of the run it comes from. `Drop` and `End` let
go of the references, the last of which destroys the object; `terminated` stands for
`std::terminate`. With `Careful = TRUE` the clients follow `MayStart`, `MayCall` and
`MayDrop`: they do not overlap `start()` with another call (`m_taskTh` has no guard), start
again only after a `wait()` has joined the last run, and drop the last reference after a
join or a `stop()` that detached. With `Careful = FALSE` they call as they like.

### Other parts of ScUtils

* `ScAtomic`: a cell is the sequence of its stores. A load may find any store not older than
  the newest its thread knows; a read-modify-write takes the newest. `seen` is whose part of
  ordinary memory a thread sees, `due` whose it should see by the names of the functions
  used: `PublishedIsSeen` says that the memory orders passed below those names suffice.
* `ScGlobalStatic`: with a static that the compiler guards, or with a mutex and `guard`. The
  object is absent, half made, whole or gone.
* `ScLoggerFactory`: every look without the mutex is a step that finds the old or the new
  pointer; a name in the map is found, missed, or found before its logger is assigned.
  `ScLogger`: what the settings `d` make of a message, of which only the name of its level
  is kept; the formatter is made once and shared.
* `ScApplication`: `linux` picks the system. `found` is a `quit()` that was seen by the
  condition; `queue` the messages of the window; `handler` the console's threads.
* `ScStringData`: a large buffer belongs to all threads, one access to it is one action; a
  string belongs to one thread at a time. `Others` and `LoadRefs` are the reads of its count.
* `ScStringList`, `ScJson`, `ScHostAddress`: holders with a pointer into a table of nodes with
  counts, and next to them what each holder's own calls gave it. `undefined` says that C++ does not
  say what a call on a list has done: an insertion behind the end of a vector, a range of the vector it
  is inserted into, a constructor that reads a pointer nobody set. `uncounted` says that a JSON document was copied,
  which is not counted: both holders then show the tree until one of them lets go of it.
* `ScBiHash`: an insertion overwrites in each of the two maps what was there, and leaves the
  old partner in the other one; `replaced` says that this has happened since the last `clear()`.
* Pure functions (`ScStringAlgorithms`, `ScJsonValue`, `ScWebSocketUtils`,
  `QFramelessUtils`) are operators, each with a reference definition it is compared with. A
  position or size is a number modulo `SizeCount`, so that `npos` and its wrap are there.
  The digest of `ScWebSocketUtils` is a small machine, one turn of a loop a step, on pairs of 16 bits.

### QtUtils

* `QConfiguration`: `entry` has the cached value, the flag and the save point of each entry;
  `store` is the table as this program sees it, `committed` as the next one would;
  `Restart` ends and starts the program. A statement may fail. `TransactionKeepsRow` and
  `CacheAgreesWithStore` are its properties. `unsaved` are entries whose statement failed.
* `QConfigurationFile`: start by start, statement by statement: which directory, which tables.
  `unversioned` are the files whose version table could not be made.
* `QNotifyManager`: the append is a read and a write of the list without the mutex.
* `QPluginManager`: `emitted` are the signals, `answers` what `loadPlugin` said.
* `QBiHash` is `ScBiHash` with removals that look the other half up after it has gone
  (`QRemoveKey`, `QRemoveValue`). `QStringHash`: `latest` is what the calls gave; `doubtful` are
  words whose spelling a removal left wrong, see section 5.

### QtFrameless

* `QFramelessWindows`: `nid` is a window's native id, `windowMap` and `dataMap` the manager's
  maps, `procedure` what Windows calls for a native window. `WinIdChange` may reuse an id.
* `QFramelessMouse`: `posted` is the queue of posted messages, `hover` what Qt believes. Which pixels are
  the client rectangle, the title bar and the buttons are constants; the run's points are chosen so
  that a window has all its parts, and a point off the frame.
* `QFramelessDrag`: `input` is what the window system sends, `posted` what the program posts;
  Qt hands out the posted first. `moving` says that the window manager has the drag.
* `QFramelessStyle`: `Followers` are those that a change of style reaches; `Setup`, the setters
  and `WindowStateChange` do what the container does on each.
* `QSystemButton`: `shown` is what was painted last; `dirty` and `unseen` say what is due or
  was missed; `checks` the timer and the event of `emulateLeaveEvent()`.
* `QStandardTitleBar`: `connects` are the connections between buttons and windows, `place` the
  window that the bar is in and `window` the one it acts on.
* `QSystemMenu`: `posted` are commands; `stretched` that a window of fixed size was maximized.
* `QFramelessUtils`: `windows.api` are the functions that a version of Windows has.

## 3. Runs

| run | instance | what it shows |
|---|---|---|
| `threads` | two parts; THREADSN states | below |
| `pool_assert_dropped` | violation | the assertion of line 439 fails |
| `pool_negative_priority` | violation | a page is freed while it is in the queue |
| `pool_unlock` | violation; 3 workers, 3 tasks, one client in a timed or untimed `waitForDone` | a task is taken off the page that `tryToStartMoreThreads` is working on |
| `rwlock` | 1 lock, 3 threads, 3 blocks, all timeouts; 233,737 states up to symmetry | exclusion, exact counts, no lost wake-up, writers before readers, refinement |
| `rwlock_live` | 1 lock, 3 threads, 1 block; 343,579 states | a free lock is taken |
| `freelist_wrap` | violation; 4 ids, the code's 128 serials, one `next()` that 128 releases overtake | an id handed out twice |
| `task_restart` | violation; 1 client | `start` after a finished run ends the process |
| `handshake` | violation; 1 connection | a handshake with a Host and a key is refused, one without is accepted |
| `loggers_async` | violation; 1 logger | its messages reach no callback |
| `scutils` | nine parts; SCUTILSN states up to symmetry | below |
| `objects` | twenty-two parts; OBJECTSN states | below |

`threads` composes the parts whose liveness is checked. The pool, which `MCThreads` extends: 2 workers, 2 tasks and two
clients that call `waitForDone()` at any time, limits {0, 1}, pages of 2. `reset()` is reached only when
all is done, the accounts hold and no task is lost, doubled or stranded while dropped threads end
(`ThreadAccounting`, `QueueSound`, `NoStrandedTask`), at most one thread above the limit is set to work
(`ConcurrencyBound`), every accepted task is run or cleared (`EveryTaskSettles`).
The task: 2 careful clients, 2 runs; no crash, no lost wake-up, no wrong result, and a `stop()` is final.
`CallsReturn` is that `waitForDone()` returns, and `wait()`.

`scutils` composes parts that need threads: a recursive lock (3 threads, depth 2),
strings (2 threads, 2 strings, small up to 1, medium up to 2, large up to 4 letters, 4
buffers), loggers (2 threads, a name and the default), the two-way map (3 keys, 3 values),
the free list (3 threads, arrays of 1 and 2 ids, a serial of 3 values, `MaxLag` 2), an atomic
integer (3 threads, 2 stores, and a reference that each thread may drop), two read and two write lockers, a global static (3
threads), and the pool without `waitForDone()` (3 workers, 3 tasks, priorities {0, 1}, limits {0, 1, 2}, at most one
reserved, pages of 2). Symmetric are the threads of the strings, the strings, and the workers.
Its properties are named for what several parts promise: `StructuresAgree` for the map and
the free list, `OneOfEach` for loggers and statics, `PublishedAndHeld` for atomics and
lockers; `PoolSound`, which is the first three properties of the pool in `threads`, and `ConcurrencyBound` are of the
pool, the others of one part each.

`objects` composes the parts that one thread uses or that are small: twelve state machines
with variables of their own (configuration, messages, windows, mouse, drag, style, JSON,
string lists, addresses, server, SHA-1, functions) and ten "services" that share the
variables `x1` to `x11` (levels of loggers, application, plugins, QBiHash, QStringHash,
symbols, file of the configuration, system button, title bar, menu). `trial` is a kind of
function and its arguments, chosen one after the other, some 22,000 trials; `MatchesReference` compares
each with its reference. `StoresAgree`, `MessagesArrive`, `LookFollowsStyle` and `CopiesAreTheirOwn` each
say one thing of several parts, and are defined part by part in `MCObjects`. The instances of what keeps or passes on
data, from the configuration to the file below it, are in `MCData`; those of the windows' looks, of the server and of
the functions in `MCObjects`.

Why the bounds are enough. In the pool the interesting events are a full page, a second
page, a wait that is notified and one that times out, an expired worker that is started
again, and a limit below the number of running threads; three workers and three tasks,
with pages of two entries, meet all of them (the code's 256 entries only make them rarer). Two of each are a task that
is queued while another runs and a worker dropped while another is started, for two calls of `waitForDone()`.
For the lock three threads are a holder, a thread that inflates and one whose block is
stale; that blocks move between locks is covered by the theorems. For the free list, two
arrays are a race to make one with and without ids of another on the stack, and three
threads a stalled one and two that turn the stack over (one holds an id, the bound `MaxHeld`); serial and lag are small but in the
relation in which the serial does its work. For the task, two clients are one that stops
or runs out of time and one that waits without a limit, and two runs show what one
leaves to the next. Two windows and a dialog inside one of them, with four ids, show an id
used again by another window while the first lives on; QtFrameless's look needs one widget and the
global style. An entry of the configuration and another of its category show a
transaction of one while the other is written, and an invalid default. Texts of up to four letters of an alphabet
of two or three reach every branch of the searches, the skip table included; base64 and
UTF-8 have the borders of their ranges among their bytes. Every action fires in the passing runs.

Deadlock is checked in `threads` and the two runs of the lock. It is not in `scutils` and `objects`, where parts that end do end: a
function has one trial, SHA-1 its digest, an application its exit, a list of strings an undefined call, and a program that has
exited asks for no global static. `Done` in `ScDetachableTask` is the end of a task.

## 4. Fairness

Pool: a worker that can take the mutex takes it eventually: strong fairness, since
`std::mutex` is taken and released by others in between. A running task ends. Nothing is
promised of the expiry timeout: `WakeUp` by timeout is not fair, so that no property rests
on a worker that expires. The clients' calls are not fair either.

Lock: a thread inside a lock function or inside `unlock` goes on (weak fairness), and a
holder unlocks some time; a timeout need not elapse, and no call need be made.

Task: threads go on; a thread that wants the mutex gets it if it is free again and again
(strong fairness); a time limit passes however often the sleeper wakes up spuriously,
because `wait_for` with a predicate waits until a point in time. Nothing is assumed of the
end of `run()` or of the clients' calls.

`threads` asks for both: since `part` never changes, fairness of a step of the pool and fairness of a step of the task
are one formula (`InReset`, `InTask`), which says of each part what its own module's formula says. The runs `scutils` and
`objects` state no fairness and check safety, and the two refinements.

## 5. What the code does otherwise than it says

Seven disagreements have a run whose counterexample shows them ("findings"):

* `pool_assert_dropped`: `SC_ASSERT(manager->queue.empty())` (scthreadpool.cpp:439) fails: `reset()`
  drops the threads and leaves the mutex (206) before it wakes them; another client's `start()`
  finds no threads, starts one and queues the next task, and a dropped thread wakes up.
* `pool_negative_priority`: `tryToStartMoreThreads()` keeps the page at the front while `tryStart()` may
  put the task back in a new page of priority 0, which a page of negative priority does not precede;
  it then erases the new page and deletes the old one, which stays in the queue (269).
* `pool_unlock`: `reset()` unlocks the mutex of a `unique_lock` that is still in use (206); the destructor of that
  lock (326, 335), `wait_for` of a second round (318) and a second `reset()` unlock it again, whoever holds it. When
  `tryToStartMoreThreads()` does, a worker may take the task that is being handed out, and
  `SC_ASSERT(!isFinished())` (scthreadpool_p.h:49) fails for the page.
* `freelist_wrap`: the serial number is there so that a stalled `next()` fails its CAS; it has
  7 bits, and after 128 releases the CAS succeeds and an id is given out twice.
* `task_restart`: `start()` refuses a task that runs and accepts one that has finished; the thread
  of the last run is still joinable, and the assignment to `m_taskTh` ends the process.
* `handshake`: `isHeaderValueEmpty()` is true of a header that has a value (scwebsocketserver_hp.cpp:257-263), and 178 and
  208 refuse on true: a handshake with a Host gets "Missing Host header.", one that has neither Host nor key gets 101.
* `loggers_async`: `setAsyncEnabled(true)` is offered for logging (scloggerfactorybuilder.h:43-47), but an asynchronous
  logger gets the thread pool of spdlog (sclogger_p.cpp:53), which nobody has made: every message is dropped.

The others below were met while reading and modelling. The models keep to what the code does,
and where a property would be about the damage it leaves the damaged case out by a
variable that says so (`doubtful`, `unsaved`, `unversioned`, `unseen`, `undefined`, `uncounted`, `replaced`).

**Threads.** A timed `waitForDone` that still has time goes on to a second round and a second `reset()` without the
mutex (scthreadpool.cpp:206): threads that were started meanwhile are dropped, and tasks can be left in the queue with no worker.
A negative time, such as the destructor's -1, has elapsed at once (195). A page with 256 pushes is full, however many were taken. A finished
task that is stopped keeps its thread joinable; `start` and `stop` race for `m_taskTh`
(scdetachabletask.h:88). A free list that is exhausted hands out an id past its arrays
(scfreelist.h:82). In a recursive lock, a writer that asks for reading, or the reverse, waits
for itself (screadwritelock.cpp:387).

**Application and statics.** `wait()` on Linux has no predicate: a `quit()` before `exec()` is lost,
a spurious wake-up ends it (scapplication_linux.cpp:53). Windows has no `quit()`. The pointer to the
application is never reset. Between the destruction of a guarded static and the store of
`Destroyed`, callers get the destroyed object (scglobalstatic.h:51).

**Logging.** The default type and level in the comments (Daily, Trace) are not the code's
(uninitialised, Info). A second `setLevelPattern` leaves views of freed strings. A name's logger is null between its
insertion and its assignment; `build()` followed by `buildDefault()` dereferences null;
loggers outlive the factory's data after the clear-up.

**Strings and numbers.** `ScString::remove` copies the wrong range of a shared large string
(scstring.cpp:95-101). `compare()` has its sides swapped. An empty needle starts no string but
the empty one. A `ScStringList` that shares its elements is given an empty vector before a text is put in at a position behind its end
(scstringlist.cpp:86-87, 105-108, 122), appends a range of the vector that grows (45), and its constructor from one string reads a
pointer nobody has set (scstringlist.h:21). The 64-bit
`mul_overflow` drops the answer of the generic one. The move assignment of
`ScExplicitlySharedPointer` returns nothing.

**Maps.** `insert()` and `unite()` of `ScBiHash` and `QBiHash` do not replace a pair as the comments say (scbihash.h:103, 105-109, 140-145;
qbihash.h:56): the old partner stays in the other map; `key()` returns a value type. `QBiHash` looks the other half up after removing it (72),
so that its two maps part at the first removal. `QStringHash::value()` has its test for case inverted (line
70), and its case-sensitive `take` removes another word's lower-case entry (line 80).

**JSON.** The byte order mark is compared as a signed char, and never skipped (scjson_p.cpp:31-35). A copy of a value assigns its text to a
member that was not constructed (scjsonvalue.cpp:101-129). Null and invalid values reach `SC_UNREACHABLE` (scjson_p.cpp:309, 331). Any two
strings, arrays or objects are equal. Strings end at a NUL. Assignments of containers
do not let go of the old tree; a document's copy constructor does not count (scjsondocument.cpp:23-27).
`ScJsonObject::valueAt` is always empty; `ScJsonDocument::isEmpty` is inverted; a parse that was given up in the middle reports
`NoError`; keys are looked up without regard to case. `replaceArrayItem` leaks at index = size.

**ScNetwork.** The accept value of a handshake is never filled (scwebsocketserver_hp.cpp:214); `close()` does nothing. `parse()` of an address always
fails; `setAddress(Any)` loses its protocol; an unknown protocol is kept in an unsigned char.

**Configuration.** A row is found by category and name, not by the main configuration. Going back without a
save point sets Null. `get()` before `init` hides what is stored. `reset()` of an entry that was not
read yet, and whose default is invalid, takes the default for no change and leaves the row (qconfigentry.cpp:72). A mass save that is rolled back
leaves the caches. The candidate ":memory:" opens a file of that name, and the dialog that asks
for a directory is never reached; `initTables` drops all tables when `version` is missing.
`QConfigMapper` tests for null the wrong way round (qconfigmapper_p.cpp:62) and maps nothing.

**Plugins and symbols.** Two plugins of one name both load, a plugin whose `init()` fails stays
loaded (qtplugin.h:15-16 and 84-85 say otherwise), and a name leads to the last that was loaded; the version test takes `minVer % 10000` for the patch.
`QSysApiLoader` drops the directory from its keys and remembers failures.

**Messages.** Three threads that notify at the same time can leave more recent messages than the limit: a thread takes off
what it measured before it had the mutex, and the next may find the list short just then (qnotifymanager.cpp:26-35).

**Windows.** `SetProcessDPIAware` is fetched and never called (qframelessutils_win.cpp:956). Windows 2000, the first
of the list, is recognised only on a later version. `GetDpiAwarenessContextForProcess` is asked for in
place of `GetThreadDpiAwarenessContext` and called though null on some versions
(qframelessutils_win.cpp:769). `isFullScreen` compares the bottom with itself (416-432), and `WM_NCCALCSIZE` asks it of the rectangle
before the change (424). On Windows 11 a maximized
window is inset twice (852-860). Getter and setter of DWM attributes return the opposite (262-295).
`shouldAppsUseDarkMode` is always false from 1809 to 1903. The item that the menu of a
window of fixed size starts with, on Windows 11, is disabled. The test in `property()`
(qframelesshelper.cpp:355) is inverted, so that the `kSysMenu...` and `kDont...` properties do nothing.

**Frameless windows.** `windowProcHooked` stays true after a native id has changed.
`instance(w)` may find the helper of a child. The cursor of a drag and its filters are left
behind (173-186). A custom title bar and a change of window state dereference null
(qwidgetscontainer.cpp:274). A border changed while the window is maximized sets margins (qwidgetscontainer.cpp:199, 203,
214; 286). The title bar hears
nothing when an ancestor moves to another window; its buttons keep the old window and its look. A
title of another alignment may run under the buttons or the icon. A button pressed with
another mouse button, or while disabled, is not painted again. The Leave that `emulateLeaveEvent()` posts
may arrive after the pointer has come back, and leaves the button dark (qstandardtitlebar.cpp:292-317).

## 6. Proofs

`tlapm` proves the following for every value of the constants that the assumption named
admits. TLC has checked the inductive invariants on the instances above.

**`ScThreadPool_proofs`**, for any workers, tasks, clients, limits and pages. `IInv` says of which
container a worker is in at each `pc` (`ThreadsOK`: the containers match the workers' places, hold
nobody twice, and a worker that was dropped is in none), where every pending task is (`PlacedOK`),
and that what a `waitForDone()` is owed was settled by the time it gets past its wait
(`OwedOK`). It is inductive if no priority is negative (`NonNegative`), and gives `TypeCorrect`,
and `ResetsWhenDone`. `TasksOK`, on top of it, says that a task is queued once or in the
hands of one busy worker, and gives `Sound`: the queue's order must be part of it, since `tryStart()`
puts a task where the order says. `UInv` is inductive if every `waitForDone()` has used up
its time when `reset()` returns (`Untimed`): then busy workers are in the pool (`BusyInPool`), and
`Accounting`, `NoTaskStranded` and, for limits that are not negative, `Bounded` follow by counting. Both
assumptions are needed: section 5 has what the code does without them.

**`ScReadWriteLock_proofs`** (`LockAssumption`: what is not a thread, a lock or a block is none).
`TypeCorrect`, `Exclusive`, `Counted`, `CountsAreExact`, `FreeClean`, `Waiting`, `WakeUps`,
`WritersHoldBackReaders` and `Refinement` for any
sets of locks, threads and blocks. Exclusion is not inductive: a reader that has loaded the word
and stalls may find a block that another lock uses by then. `IInv` adds the shapes of
pointers (`PointersOK`), what a thread's locals are at each place in the functions (`LocalOK`), that
two locks never have the same block (`BlocksApart`), that the word or the block counts the
holders (`HoldsCounted`), that a block's `waitingReaders` and `waitingWriters` count the
threads registered there (`BlockWaitersCounted`), where sleepers are (`SleepersWait`), and that
a block in the free list has zero counts and no sleepers (`FreeBlockClean`). One lemma per action;
`LockBlockIInv` serves the actions that go on under a block's mutex. `HoldersStep` says that
a step that is not a taking or a giving back leaves `Holders` alone. `NoLostWakeUp` is inductive
together with `WaitersMayWait`: only a call that may wait is asleep, so that a writer whose
time is up gets to the notification in `FailWrite`.

**`ScFreeList`** (its second half; `FreeListAssumption`, and `NoWrap`: fewer releases than the serial has values
fall into one `next()`; `freelist_wrap` shows an id given out twice without it). `TypeCorrect`, `Unique`,
`FreeIdsAreStacked` and `Refinement`, for any threads, ids, arrays and serials. That no id has two
owners is not inductive. `IInv` says that there is a list of the free ids from the bottom of the stack
to its top, in which each is linked to the one below (`StackOK`); that the
difference of serials tells how many releases a thread in `next()` is behind, and that one
that is not behind has either the successor of the top or an id that is taken (`TakeOK`), for which its CAS fails
until a release, which makes it behind; that who gives an id back has it and has linked it (`ReturnOK`); and that
whoever asks for an id finds one, since the threads have room for fewer than there are (`HeldOK`; `Enough` counts
them). The stack that the property speaks of is a recursive function; `StackIsList` shows by a
least counterexample that it is the list.

**`ScDetachableTask`** (its second half; `TaskAssumption`, and for the theorems `Careful`). `TypeCorrect`, `Survives`
(never `std::terminate`), `ValueIsNew`, `NoLostWakeUp`, `StoppedForGood`. `IInv` says who has the mutex, and
what is true of the thread, the state and the value during a start (`StartOK`), a run (`RunsOK`),
a sleep (`SleepOK`), after a detach (`DetachOK`) and after the destruction (`GoneOK`). `MCThreads` has the last four of
these theorems again, of its own specification, where the clients are careful and TLC checks the assumption.

**`MCObjects_proofs`**, for the composition of the other parts. `PartStep` and `ServiceStep` say that a step of one part is a
stutter of the others; each part has an invariant of its own, and what is proved of `PartSpec` is every
invariant of the run `objects` but `MatchesReference`. The assumptions, all checked by TLC on the run, are the subsets and
types of the constants, that what stands for none is no value, and of Strings that there are finitely many spellings.
`MapsAlwaysAgree` and
`HookAlwaysForwards`, for any windows and ids: after any history of attachments and changes of native ids the two maps name the
same data, and the procedure that a window's is forwarded to is the one it had. `WindowsInv` adds that living windows have ids of
their own (`OwnIds`), and which windows have a procedure (`HasProcedure`) and are set up (`SetUp`).
`Handshakes` (`HandshakeIsSound`), for any number of connections: a WebSocket was asked for with GET, version 13 and the tokens; of the Host
and the key it says nothing, see section 5. It is inductive with the types; `OneConnection` reduces a
callback to its connection, since contexts of different connections are different.
`LooksFollowStyles` (`LookFollowsStyle`), for any containers, styles, windows, buttons and sizes: `StyleInv` says of each container what its
border, its margins and its bar are in each state (`Bordered`, `Barred`), also while they are not asked for; `ButtonInv` that
the look shown last is that of the state unless it is `dirty` or was missed; `BarInv` and `MenuInv` are the
properties with types; that a label has room is arithmetic (`LabelsFitAlways`).
`StoresAlwaysAgree` (`StoresAgree`) is what is cached of the configuration (below) and what is kept of words, plugins, symbols and the file's row: `Led` and `Sure` say
what a word leads to and when it has one spelling, and an insertion needs that `Removed` leaves no other
(`WordRemoved`); `Listed` and `Newest` say which containers the ids of a type are, and which one a name has. The property speaks of
plugins by their type, and by their name if no other has it; words and files that the code damaged (section 5) are `doubtful` and
`unversioned`.
`TypesAreKept` (`TypesOK`) collects the types from these invariants.

**`MCData_proofs`**, for most parts of `MCData` (`DataAssumption`); the theorems are in `MCObjects_proofs`.
`EntriesAgree` (`CacheAgreesWithStore`) and `RowsAreKept` (`TransactionKeepsRow`), for any
entries, categories, mains, values and defaults: that the cache agrees is not inductive. `ConfigInv` adds that a
transaction whose save point is clean was begun with a configuration and has its value cached, and that what was cached without a
configuration is remembered as unsaved (`EntryAgrees`). `SetOne` says what `set()` makes of one entry, and serves `reset()`,
`setValues()` and `release()`.
`RecentIsOrdered`, for any number of threads: a thread's copy of the list is ordered and older than what it
appends, however stale it is. That the list is not too long when all are through (a part of `MessagesArrive`) is proved for
two threads that notify (`TwoNotifiers`), and does not hold of three (section 5): `BoundedInv` says how much a thread that
cuts will leave, and that the other will cut what this one leaves too many. The other parts of
`MessagesAlwaysArrive` are `LevelInv`, which says what the settings are after any order of the builder's
calls, and `AppInv`, where every message in the window's queue and every thread of the console has its reason. The loggers are the synchronous ones (section 5).
`CopiesStayTheirOwn` (`CopiesAreTheirOwn`), for any holders, nodes and values: that each shows its own is not inductive. A node
must count at least its users, so that a node which is changed in place has only one: `ListInv` says so with equality, and `TreeInv`
without, since assignments leak (section 5); both until `undefined` or `uncounted`. The users are the holders that point to a node;
`CountBy` and `TreeCounts` say what a change of one pointer does to their number. An address counts its users when it detaches
(`SoleElement`).
`DragsEnd` (`NoStuckDrag`), for any number of filters and any length of the queues: `DragInv` says that after a press that is
remembered a release is on its way or the button is down, and the same of a move that the window manager does. What the filters make of an event is a recursive
function; `FiltersKeep` shows, by an induction over sets of numbers (`Induction`), that a set of views that each filter
keeps is kept by all of them.
`PointerFollowed` (`HoverFollows`), for any client rectangle, frame, title bar and buttons, and any length of the queue: with messages on their
way nothing of it holds. `MouseInv` says what the posted messages can be while the pointer rests over the client area, the frame or a
button (`OverClient`, `OverFrame`, `OverButton`), that Qt is somewhere only if something will take it away (`MouseTracked`), and
of a pointer that has gone that the last word among the posted messages is that it left (`WillLeave`): a `WM_MOUSELEAVE` that
is not held back with no movement behind it, or a `WM_NCMOUSELEAVE` that will make up for one that is. `Shifted` and its kin say
where a message is after others were taken or posted.

**`MCScUtils_proofs`**, for the composition, in which a behaviour picks a part (`PartAssumption`: finite sets
of threads, strings and stores, and room in the counters for what the threads can do). `PartStep` says that a step of one
part is a stutter of the others, and each has an invariant of its own. `LockTypes`, `CountedAtAnyDepth`,
`WakeUpsKept` and `LockIsReadWriteLock`, of the recursive lock, for any threads and depth (`RecursiveAssumption`): the invariant is `CountsOK`, `QueuesOK` (who is
asleep where), `Apart` (no reader beside a writer) and `NoLostWakeUp`. `LoggersAndStatics`
(`OneOfEach`, until the end of the program destroys the object): `DataInv` and `NamesInv` say who is inside which section and what a look without the mutex
may have found, `StaticInv` what each thread's place in `innerFunction` implies. `AtomicsAndLockers`
(`PublishedAndHeld`): what is due to a thread is in what it sees, for each store and each thread (`SeenInv`); for counting,
the value is the cardinality of the set of the references that the threads have (`Tokens`), who has dropped its
own has published all it saw, and so the last one sees all (`CountInv`); `LockerInv` counts the lockers by their tags.
`StringsAreSeparate` (`SharingIsInvisible`): a thread in a call has its string to itself (`WorkOK`), is alone with
the buffer when it writes and with a copy that it makes, and a buffer counts its users and the threads that make it (`Counts`).
That a step of one thread leaves the strings and calls of the others alone is one lemma for all actions (`OnlyHere`); that
`NewBuffer` exists takes counting (`FreeBuffer`). `MapsAndStacks` (`StructuresAgree`) and `ListIsPool` (`ImplementsIdPool`), both under `FewReleases`, that is,
`NoWrap` for this list: `MapInv` is inductive, and says nothing of a map once something was `replaced` in it; the theorems of `ScFreeList` hold
of the list in the composition.

Only model-checked: liveness (`EveryTaskSettles`, `CallsReturn`, `FreeLockIsTaken`), which rests on fairness; and the pure functions (`MatchesReference`), since what a recursive
definition computes needs induction over data.

## 7. Not modelled

* **Code without state of its own**: detection of compilers and processors, import and export macros,
  wrappers of `malloc`, type traits, constants of Windows. They decide which lines are compiled.
* **What outside code does**: window procedures of Windows, DWM, the registry, painting, SQLite,
  HP-Socket, cJSON's parser, spdlog's sinks. The models take from them what this code uses.
  The callbacks of HP-Socket for messages are empty in this repository.
* **Theme and wallpaper**: the timers that would notice a change are never started.
* **Dead code**: `QConfigMapper` (its test is inverted), `scanPlugins` (never called).
* **The pool's destructor** while tasks run, tasks that throw, and more readers than the count in a
  lock's word can hold: the code gives no promise for them.
* **Memory orders** other than in `ScAtomic`: the lock, list and task are modelled as if all their
  atomic operations had one order. They use acquire and release on one word, or a mutex.
* **`ScString`**: `assign`, `insert` and `replace` of ranges, and the conversions between
  encodings; `ScUrl` is a header without code.
* **Translations, helpers and examples of QtUtils**: a call to Qt each.
* **`src/tests`, `src/examples` and vendored code**.
