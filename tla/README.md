# srey: specifications of the concurrent core

srey is an asynchronous service framework in C with a Lua layer. A program is a
set of *tasks*; a task receives messages and handles them one at a time. Worker
threads run the tasks, event threads run the sockets, and both may run a task.
This directory holds TLA+ modules for the part of srey where threads meet, the
TLC configurations that check them on small instances, and TLAPS proofs of some
of their invariants for every instance. File names below are relative to
`src/lib/`.

1. Inventory of the system
2. Modules and their correspondence to the code
3. Runs, bounds and results
4. Fairness
5. Proofs
6. What is only model-checked, and what is not modelled
7. Plan

## 1. Inventory

### Components

| Component | Code | State it keeps | Operations |
| --- | --- | --- | --- |
| Task scheduler | `srey/loader.c`, `srey/task.c`, `srey/spub.h` | per task: message queue, `global` (somebody is in charge), `evbind` (bound event thread), priority; per worker: run queue, weight, waiter; `stop` | post a message, activate, run a quota and release, steal, sleep, emit window with inline run, rebind, stop and join |
| Sleep handshake | `thread/waiter.h` | `state` (awake, sleep, linger, waking), `epoch` | prepare, cancel, commit, commit_until; state_get, mark_waking, wake, wake_held |
| Task lifecycle | `srey/task.c`, `srey/loader.c` | task table, name table, per task `ref`, `closing`, `registered`; loader `closing`, `nfreeing` | new, register, close, grab, incref, ungrab, deferred free, closing broadcast and wait |
| Queues | `containers/fsqu.h` over `containers/mpq.h` (or `bbq.h`) | ring cells with sequence numbers, `enq`, `deq`; spill queue, `novf`, spin lock | trypush, push, push_batch, pop, pop_sc and batches, empty, size |
| Command channel | `event/cmds.c`, `event/uev.c`, `event/evpub.c` | per event thread: command queue, pipe, `wake_pending`, deferred callbacks, `stop` | send a command, defer a callback, drain, stop, ev_free |
| Distributed read-write lock | `thread/rwlock_distr.c` | `write_flag`, slots (`in_use`, `active`), fall-back lock, per-thread slot and depth | register, unregister, rdlock, runlock, wrlock, wrunlock |
| Listeners | `event/usock.c`, `event/cmds.c`, `event/uev.c` | one object per listener with a socket per event thread, its count, quarantine | listen, accept, hand a connection to another thread, back off, unlisten, ev_free |
| Sockets and the event loop | `event/uev.c`, `event/usock.c`, `event/evssl.c`; Windows: `iocp.c`, `overlap.c` | sockets by descriptor, send queue, flags, quarantine of closed ones | connect, send, receive, flush, close and delayed close, TLS |
| Coroutines | `coro/coro.c`, `srey/coro_task.c`, `srey/coro_utils.c` | waiters by session, time-outs, fork queue, serial locks | wait, wake, wake_all, expire, fork, fork_wait, serial enter, leave and free |
| Connection pool | `srey/db_pool.c` | slots (idle, busy, cooling), waiters, `closed`, `free_pending` | get, put, reap, fill, free |
| Channel | `utils/chan.c` | buffer or one hand-over cell, waiting counts, `closed` | send, recv, close |
| Timing wheel | `utils/tw.c` | five levels of slots, `jiffies`, request queue | add, insert, cascade, run, sleep |
| Log | `utils/log.c` | queue, `_round`, `_drained`, waiter | commit, drain, flush on a crash |
| Other containers and utilities | `containers/`, `utils/`, `base/`, `thread/` | sequential | |
| Protocols, serialisation, cryptography | `protocol/`, `serial/`, `crypt/` | parser state per connection | pack, unpack |
| Upper layers | `advance/`, `src/lualib`, `src/srey` | router, harbor, console, Lua states | |

`PROJECT.json` lists the same parts with a status for each and the reason where
a part is not modelled.

### How they interact

    timer wheel, other threads --post-->  task queue --activate--> run queue of a worker
    event thread: socket --> parser --emit window--> task queue, or inline run
    task handler --ev_send, ev_close, ...--> command queue of the socket's event thread
    task bound to an event thread --activate--> deferred callbacks of that thread
    everybody --grab, post by handle--> task table (read lock); register, last ungrab (write lock)

* The **scheduler** puts messages in one `fsqu` per task and tasks in one `fsqu`
  per worker. It sleeps with the **waiter**. It hands bound tasks to an event
  thread with `ev_defer_exec`, which goes through the **command channel**.
* The **lifecycle** uses the **distributed lock** around the tables and the
  waiter at shutdown. A queued run owns a reference of its task.
* The order at the end is: close the tasks and wait for the tables to empty
  (`_loader_task_closing`), stop and join the workers, then `ev_free`.

### The behaviours that are hard

* Lost wake-ups. Three handshakes of the same form (change the work, then read
  the other side's state; change the state, then look at the work) at three
  levels: message queue and `global`, run queue and waiter, command queue and
  `wake_pending`. Each sits above a queue in which an element may be claimed and
  not yet visible to a pop.
* Order. A message may be queued, run inline, or queued in a spill layer; one
  sender's messages must stay in order through all of it.
* Nested execution. The coroutines of a task and the callbacks of a connection
  run on one thread, but on top of each other: what a function read before it
  resumed a coroutine, or called back, may be old when it goes on. Locks, pools
  and connections are closed and freed from inside such a call.
* A timer moves through five levels of slots while its thread computes how long
  it may sleep; an error of one at a boundary shows once in 256 milliseconds, or
  once in 50 days.
* A task is freed by whoever drops the last reference, while others still look
  it up by handle; a task may be registered while the whole loader closes.
* Shutdown: every thread that is joined may be asleep, about to sleep, or
  writing to another thread that is being stopped.
* Counters that wrap and rings that are full.

### What makes each component correct

| Component | Properties |
| --- | --- |
| Scheduler | one thread runs a task at a time; a task marked as being in charge really is in one place; no message waits without somebody who will look; no task waits in a run queue while every worker sleeps; one sender's messages are handled in order, once; every message is handled; workers end |
| Lifecycle | no access to a freed task; `ref` counts the references; the tables agree; STARTUP is first; every task of a closing loader is closed and freed; the shutdown neither ends early nor hangs |
| Queues | the ring is a queue of cells claimed in order and published later; *empty* and *full* are never said wrongly; the spill layer keeps each producer's order |
| Command channel | at most one byte in the pipe; no command stays in the queue unseen; each is run, or left to `ev_free`, once; a sender's commands are run in its order; `ev_free` ends |
| Lock | a writer excludes everybody; two threads never share a slot; writers and readers get in |
| Listeners, connections | a listener lives exactly as long as something leads to it; the user hears of the end of a connection once and after every other callback; a connection always waits for an event that will come |
| Coroutines | every waiter stands in one list and is resumed by one event; wake_all resumes those that waited when it was called; fork_wait counts its children; a command lock has one owner, hands over to a waiter, and is freed once, by the last that needs it |
| Pool | a connection has one holder; no waiter is left when nothing can wake it; the pool is freed once and leaves no connection open |
| Channel | a send that fails was not received, one that succeeds was, or still is queued; nobody sleeps beside work |
| Timing wheel | a timer runs in its millisecond; the thread sleeps past none |

## 2. Modules

Every model takes one action per shared access of the code (an atomic operation,
a critical section, a system call). What a thread does to its private variables
in between is part of the action before or after it. The memory is sequentially
consistent: the code asks for full order in each handshake it relies on, and the
comments there say so. In the modules of one thread (CoroSerial, CoroSess,
DbPool, TcpSock) one action is what runs between two points where other code can
come in: a resume, a yield, a callback.

Some definitions are followed by a variant of the same name with a suffix
(`Activate` and `Activate_always`). A variant is the definition with a plausible
mistake in it. It is not part of the specification; putting it in the place of
the original makes a property fail, which shows that the property depends on
that line of the code.

### TaskSched (refines Mailbox)

`TaskSched` is the scheduler with its workers, the event threads as far as they
run or emit to tasks, posters (threads that only post), and the main thread that
stops the workers.

| TLA+ | Code |
| --- | --- |
| `qumsg[t]` cells `[by, n, ready]`, `global`, `evbind` | `task_ctx.qumsg`, `.global`, `.evbind` |
| `taskq[w]`, `wstate`, `moved` | `worker_ctx.qutasks`, `waiter_ctx.state`; `moved` says whether `epoch` has changed since the sleeper read it |
| `deferq[n]` | the event thread's deferred callbacks (`ev_defer_exec`); the way there is in CmdPipe |
| `win[n]`, `nwin[n]` | the open emit windows and `_emit_win[0]` |
| `PostClaim`, `PostPublish`, `Activate`, `AlreadyActive` | `_task_message_post`, `_task_message_active` |
| `ScheduleNet`, `ScheduleWorker`, `TaskqPublish`, `MarkWaking`, `WakeEpoch`, `FutexWake` | `_loader_task_schedule`, `_loader_worker_wakeup`, `waiter_wake` |
| `RunSize`, `RunPop`, `Dispatch`, `Release`, `ReleaseCheck` | `_loader_task_run`, `_loader_task_release` |
| `TakeFrom` and the look at the other queues, `PrepareSeen` .. `Commit` | `_loader_task_get`, `_loader_worker_sleep`, `_loader_worker_loop` |
| `EmitBegin` .. `EmitEnd` | `_task_emit_begin`, `_task_emit`, `_task_emit_end`, `_loader_task_try_run` |
| `Rebind` | `task_bind_net` |
| `LoaderStop`, `WakeupAll` | `loader_free` |

Abstractions. The worker picked by `_loader_pick_worker` is any worker (the code
uses load samples), so the results hold for every policy. The spin before the
sleep, the stall monitor and the statistics are left out; a retry after an
in-flight cell is a step that changes nothing. Handlers post through the plain
path; event threads open windows, nested up to `MaxNest`, and inline runs come
only from the outermost one, as `task.c:570` requires. `epoch` is reduced to
"changed or not" within one sleep, which excludes 2^32 wakes in one
prepare-commit window. References are in TaskLife. `stop` is set only when no
task is left to run, which is what TaskLife's shutdown guarantees.

`Mailbox` is what the scheduler promises: a queue of messages per task, a thread
that takes the task when it has none, handles messages in order and leaves. The
refinement maps the runner of a task to the thread that has it as `cur` and
leaves out run queues, wakes and event threads.

### Mpq (refines ClaimQueue) and Fsqu

`Mpq` is the ring of `containers/mpq.h`: a producer loads `enq`, compares the
sequence number of the cell, claims by CAS, writes, publishes; consumers
likewise, alone (`pop_sc`, `pop_sc_batch`) or in competition (`pop`). Counters
are modulo `Word`, and `Start` puts them just below the wrap. `ClaimQueue` is
the abstract queue: claim a place, publish it, take the first cell if it is
published. All other modules use queues of this kind (a cell with `ready`), so
what they assume of their queues is what Mpq is shown to give.

`Fsqu` puts a spill queue behind such a ring. One producer's elements stay in
order; elements of different producers may be reordered by the spill, as the
code accepts. The ring refuses a push when it is full, and, as a real mpq may,
while a consumer is inside a pop.

### CmdPipe

The command queue of one event thread with its senders: `_send_cmd` (push, CAS
on `wake_pending`, write, again after EINTR), `_uev_cmd_run` (read the byte,
clear the flag, pop batches until empty), the deferred callbacks with their two
passes per round, and `ev_free` (CMD_STOP, join, the drain of what is left). The
model waits for edges, as a build with `TRIGGER_ET` does (`uev.c:191`); the
default is level-triggered (`os.h:149`). The two agree: `TriggersAgreeCorrect`
proves that a wait begins with a byte in the pipe exactly if its write has not
been reported. A wait may always time out. The watcher itself may send and
defer, and a callback may defer itself again (`Again`).

### TaskLife

Life and death of tasks: `New`, `Register` and its posts under the write lock,
`Close`, `Grab`, `PostTo` (under the read lock), `Ungrab` with the second look
in `Unmap`, the free at once or deferred to the event thread's round, and the
main thread's broadcast and wait. Scheduling is reduced to what matters here: a
scheduled run holds a reference (`runq`) and handles one message or more. A run
may close its task, make and register another one, or post. The inline run uses
the reference of its window and is not repeated here. `mem` records whether the
object exists, which the code has no variable for. Named tasks have an element
of `Names`; two tasks of the same name exclude each other at the registration.

Following the contract of `task.h`, nobody closes a task that another thread is
still registering.

### RwLockDistr

`rwlock_distr.c` for one lock: a thread that has a slot raises its `active` flag
and then looks at `write_flag`; a writer takes the fall-back lock, raises
`write_flag` and waits for one slot after the other. Threads register and
unregister at any time they hold nothing; those that get no slot use the
fall-back lock. The two stores of unregister (`rwlock_distr.c:86-87`) are one
step: the thread holds nothing, so `active` is 0 before the first of them, and
the slot is free with the second.

### CoroSerial and CoroSess

The coroutines of one task share a thread. Resuming one runs it at once, on top
of whoever resumes it, until it yields or ends. Both modules have a stack of
contexts, `run`, with the dispatcher `Main` at its bottom; only its top acts. A
loop that resumes coroutines from its body (the free of a lock, wake_all,
expire) is cut at each resume, with what it has still to do in `drain`, `all` or
`due`.

`CoroSerial` is the command lock of a connection: `coro_serial_enter`, `_leave`,
`_free` and the four callers in `coro_utils.c` (a command, connect, quit, the
ping of the pool), which may suspend inside, nest, fail and discard the lock. A
call made inside a lock looks at the slot again (`coro_utils.c:303-308`), which
another quit or connect may have changed meanwhile. With the same lock it nests,
with a closed one it is refused, with an empty slot it does without a lock. With
another lock in the slot it is a stranger to that lock like any other call;
`Spawn`, which starts a coroutine on top of any context, gives every order of
its steps and those of the call it was made in.

| TLA+ | Code |
| --- | --- |
| `slot`, `mem` | the connection's `coro_serial_ctx *`; whether what a pointer names exists |
| `current`, `ref`, `waiters`, `closed`, `draining` | the fields of `coro_serial_ctx` |
| `Take`, `Nest`, `Queue`, `Refuse`; `Spawn` | the four ways through `coro_serial_enter`; a start, or a call inside a lock that finds another |
| `LeaveInner`, `Release`, `HandOver` | the three ways through `coro_serial_leave` |
| `Close`, `Discard`, `DrainNext`, `DrainEnd` | `coro_serial_free`, its loop cut at each resume |
| `Discards`, `DiscardOther`, `MainQuit`, `Fail` | `_serial_discard`, `_serial_quit`, `_serial_ping` |

`CoroSess` is the rest of the scheduler: wait with a tag and with or without a
time limit, wake, wake_all, expire, keep and unkeep, fork, fork_wait, and the
dispatch in `coro_task.c` that calls them. The reuse of finished coroutines is
left out; the model keeps a coroutine in reserve for each start that the code
would make (`Spare`). Since a due time is a choice (`Expire` takes any set of
those with a limit), the heap of due times is a set.

### DbPool

The pool of `db_pool.c` on the same stack: `db_pool_get` with its loop (take an
idle connection, else open one, else wait), `_checkout` with the ping and the
reconnection, `db_pool_put` with the reset, the maintenance coroutine (`_reap`,
`_fill_min`), `db_pool_free`. Each call to the server may suspend the coroutine
or not, succeed or fail; the rest of the pool's users run meanwhile. Times (how
long a connection was idle, its age, the cool-down) are free choices. `link`
says what state a connection is in, `con` who has it in hand. The check of
`closed` at the head of the loop of `db_pool_get` cannot fire there (each way
back to the head has looked before), so the model has no step for it.

### Chan

The channel of `chan.c`: the buffered form (a ring under one mutex) and the
unbuffered one (one sender and one receiver at a time behind two more mutexes,
the value handed over in one cell). Threads sleep on two condition variables and
may wake without a signal. `sent`, `failed`, `got` are the history that
`SendsAreTrue` speaks of.

### TimeWheel

The timing wheel of `tw.c` with the thread that adds timers, the thread of the
wheel and `tw_free`. A timer is added with any of `Timeouts` after what the
clock shows; the wheel sorts it into one of five levels (`GetSlot`, cut off by
`Clamp`), moves it down at the boundaries (`Cascaded`), runs it in its slot
(`Run`). `NextDelta` computes the sleep, and `Sleepy` to `Awake` are the
handshake with `waiter.h`. The clock is an action; the history `owed` keeps the
millisecond in which a timer of the wheel has to run: its own, the end of the
last level if that is earlier, or the one the wheel is in if it came late.
`TVR_SIZE` and `TVN_SIZE`, 2^8 and 2^6 in the code, are constants. Masks and
shifts are written as remainders and quotients, which is the same for powers of
two. The order of the timers in one slot and what the callbacks do are left out.

### Listener

`ev_listen` and `ev_unlisten` from any thread, the accept loop with its
callback, the connection handed to another event thread by a command, the pause
after a failed accept, the commands that register and remove a socket, the
quarantine, and `ev_free`. `ref` counts what the code counts; `mem` says whether
the object exists. The quarantine lasts `QTN_MS` in the code. What the code
expects of that time is that every event thread finishes the round it is in and
the commands that were queued; this is how it is modelled (`busy`, `ahead`), so
the result holds as long as the expectation does. Some builds spread accepted
connections over the event threads by a hash, others keep them where they were
accepted, and some pollers must be armed again after each event; here an accept
may do either and the socket may be disarmed or not, a superset of every build.

### TcpSock

One connection on its thread: connect, the read and write events, the send that
is made at once when its batch is full, the flush at the end of the round, the
close that waits for the outermost callback, the delayed close, the quarantine,
the reuse of the object (`skid`). `stack` holds the functions under way: a
callback sends or closes, that calls back, and each level goes on with what it
finds. The epoll build, level-triggered and without TLS.

### MC modules and proof modules

Each `MC` module gives the constants their values and defines the symmetry sets.
`MCCoro`, `MCHandoff` and `MCSock` hold several small systems each: a variable
`which` chooses in the initial state the one that runs, the others stay as they
were, so that a run covers each of them alone and no product of them is built.
Each takes its parts from a module that puts them side by side: `Coro` (the
serials, and the sessions over the same stack of contexts), `Handoff` and `Sock`.
`MCMpq` takes the ring from `Ring`, which gives `Mpq` variables of its own.
`TaskSchedProofs`, `TaskLifeProofs`, `DbPoolProofs` and `CmdPipeProofs` hold the
theorems of the modules they are named after, `CoroProofs` those of `CoroSess` and
of `CoroSerial`, `HandoffProofs` those of the channel, of `Fsqu` and of the timing
wheel, `SockProofs` those of `Listener` and of `TcpSock`, `AtomicsProofs` those of
the distributed lock and of the ring.

## 3. Runs, bounds and results

All runs finish without an error. Deadlock is checked where the system is meant
to go on until its end, which has a stuttering step of its own. It is not
checked in `coro`, `pool`, `handoff` and `sockets`: their systems stop when the
bound on operations is used up, when the last answer does not come, when a
channel is left with a sleeper on purpose, or when nothing is left to be timed.
What must not be forgotten there is stated as an invariant of the state at rest.

| Run | Configuration | Distinct states | Checks |
| --- | --- | --- | --- |
| `sched_workers` | 1 task, 2 workers (weights 0 and -1), 2 posters, one message each | 520 000 | `OneRunner`, `GlobalHeld`, `NoLostWakeup`, refinement of Mailbox |
| `sched_net` | 1 task, 1 worker, 1 event thread with windows nested twice and 2 messages, 1 poster, handlers that post | 946 000 | `InOrderOnce`, `NoLostMessage` |
| `sched_live` | 1 task, 2 workers, 1 event thread, a poster and handlers | 69 000 | `EventuallyHandled`, `WorkersJoin` |
| `mpq` | ring of 2, counters modulo 16 from 14, 2 producers with 2 elements, 1 or 2 consumers, 1 observer | 1 080 000 | refinement of ClaimQueue, `AnswersTrue` |
| `handoff` | `Fsqu`: ring of 1, 2 producers with 2 elements, batches of 2, 1 or 2 consumers, 1 observer. `Chan`: 2 senders with 3 sends, 2 receivers, capacity 0 or 2. `TimeWheel`: levels of 4 and 2 slots, 2 timers of 3, 10 or 63 ms, clock from 14 to 80 | 2 280 000 | `InOrder`, `EmptySound`; `SendsAreTrue`, `NobodyForgotten`; `OnTime` |
| `cmd` | 2 senders with 2 and 1 commands, batches of 2, CMD_STOP | 1 030 000 | `WakeSound`, `OnePlace`, `SenderOrder`, `Settles` |
| `life_safe` | 2 tasks that may be named, 1 worker, 1 event thread | 2 830 000 | `NoUseAfterFree`, `RefsCounted`, `NamesAgree`, `StartupFirst`, `GoneBeforeStop` |
| `life_live` | 2 tasks, 1 event thread that runs them | 97 000 | `Settles` |
| `rwlock` | 4 threads, 2 slots, nested reads, 2 writes | 69 000 | `Exclusive`, `EveryoneGetsIn` |
| `coro` | `CoroSerial`: 3 coroutines, 2 locks, 4 operations each, nesting 2. `CoroSess`: 4 coroutines, 2 sessions, 7 operations | 1 260 000 | `NoUseAfterFree`, `NoLeak`, `OneQueue`; `Registered`, `ForkCounted`, `OnlyOldWaiters` |
| `pool` | 3 borrowers, 2 connections, 1 to keep open, the maintenance coroutine | 2 110 000 | `OneHolder`, `NoUseAfterFree`, `NothingLeft`, `NoneStranded` |
| `sockets` | `Listener`: 2 event threads, 1 other, 1 listener, 2 connections. `TcpSock`: 2 lives, queue of 3, batch of 2, 2 commands | 96 000 | `AliveWhileReached`; `OneFarewell`, `NotStranded` |

Each module's `TypeOK` is written out for the reader; twelve of them are proved
(section 5).

Why the bounds are enough to be of interest:

* Scheduler: the handshakes are between a runner, a poster and a sleeper; two
  workers add stealing and a second runner, two posters the race for `global`
  and for the wake. A second message arrives after the release, or during the
  run. `MsgBatch` is 2, so a round can take part of the queue. With a weight of
  -1 a run leaves messages behind and re-queues the task.
* `Mpq`: a ring of two turns over and is full with the elements given; the
  counters wrap in every run. A thread must not be overtaken by a whole turn of
  the 32-bit counters between two of its steps (the ABA case, which the code
  accepts too); `Word` is large enough that no behaviour of the instance is one.
* `Fsqu`: with a ring of one, every second element goes to the spill layer, and
  both directions of the switch happen with each producer.
* `Chan`: two threads on each side make a second one wait for the first; the
  close comes at any point.
* `TimeWheel`: with levels of 4, 2, 2, 2 and 2 slots the last level ends after
  64 ms, so that a time-out of 63 ms, counted from 14, crosses the boundary of
  every level, and one that is entered late is cut off; 10 ms lies in the third.
  Timers are added within 1 ms of the start (`AddWithin`), the threads are 2 ms
  late at most (`MaxLag`) and the clock stops after 66 ms (`Horizon`). The
  theorem below needs none of these bounds.
* `CmdPipe`: two senders and the stop command; a batch can hold part of the
  queue with CMD_STOP in its middle.
* `TaskLife`: two tasks, since everything that can go wrong is between one task
  and its references, the loader's closing, and another task that is registered
  late or wants the same name. `MaxUse` bounds the grabs from outside.
* `RwLockDistr`: two threads with slots, two that must wait for one or use the
  fall-back lock, in any assignment.
* `CoroSerial`: an owner, one in the queue and a third that comes while the lock
  is being freed; a second lock, since a slot that was emptied is filled again
  while the old lock is still in use. `MaxUse` ends each coroutine's story after
  four steps.
* `CoroSess`: the interesting cases (a woken coroutine that waits again on the
  same session while the loop that woke it goes on) need two waiters, one that
  wakes and one that is started; seven operations reach them.
* `DbPool`: three borrowers for two connections leave one that waits; one
  connection is kept open, so that the maintenance both reaps and refills.
* `Listener` and `TcpSock`: an event thread and another one are what an accept,
  an unlisten and a hand-over need; the second life of a connection's object
  meets events and commands of the first.

Symmetry is used for interchangeable posters, producers and tasks in runs that
check no liveness.

No disagreement between the code and its documents or comments was met; the
comments on the handshakes are accurate where they were modelled.

## 4. Fairness

Safety runs use the plain specification. The liveness runs assume:

* **Scheduler** (`FairSpec`): weak fairness of each thread's own steps
  (`Progress`: the operating system runs every thread that can run) and strong
  fairness of `DeferTake`: an event thread drains its deferred callbacks once in
  every round of its loop (`uev.c:514`), so a new socket event cannot keep them
  waiting. Posters and event threads may post or stop posting at any time;
  nothing is assumed of them.
* **CmdPipe**: weak fairness of the watcher, of the senders' wakes and of
  `ev_free`; strong fairness of the write, i.e. a write is not interrupted by a
  signal for ever. Senders end once `ev_free` has begun: the workers are joined
  before (`loader.c:594-602`), the event threads end with it. `Settles` asks
  that again and again everything sent is run or freed, and that `ev_free` ends
  once it has begun.
* **TaskLife**: strong fairness of the steps that need the read-write lock
  (RwLockDistr shows that both sides get in), of runs, and of the round that
  frees deferred tasks; a thread that has grabbed a task lets it go. The warning
  time-out of the shutdown wait has no fairness, so the shutdown must be woken,
  not just time out and look again. Two outside threads could alternately grab a
  task whose count is zero and keep it in the table for ever; `MaxUse` excludes
  that, as the code does in practice.
* **RwLockDistr**: weak fairness of every step between the call of an operation
  and its return; strong fairness of the outermost unlock, i.e. nobody holds a
  read lock for ever. Writers may write `MaxWrite` times, so readers get in once
  the writers pause; a stream of writers without a pause is not fair to readers
  in the code either.

## 5. Proofs

The constants are arbitrary in the proofs: any number of tasks, threads, slots,
coroutines, locks, borrowers, listeners, connections, commands and timers. The assumptions
are the named `ASSUME`s of the modules, which TLC evaluates for the instances
above.

| Theorem | Statement | Module |
| --- | --- | --- |
| `TypeCorrect` | `Spec => []TypeOK` of TaskSched | `TaskSchedProofs` |
| `Ownership` | `Spec => [](TypeInv /\ OwnInv)`, the inductive invariant | `TaskSchedProofs` |
| `OneRunnerCorrect` | at most one thread runs a task | `TaskSchedProofs` |
| `GlobalHeldCorrect` | a task with `global = 1` is in somebody's hands | `TaskSchedProofs` |
| `NoLostMessageCorrect` | a message behind a cleared `global` has a thread that will look | `TaskSchedProofs` |
| `NoLostWakeupCorrect` | a sleeping worker with a task, or at the shutdown, has a waker | `TaskSchedProofs` |
| `InOrderOnceCorrect` | every message is handled once, in its sender's order | `TaskSchedProofs` |
| `MailboxImplemented` | `Spec => M!Spec`: TaskSched implements Mailbox | `TaskSchedProofs` |
| `RwTypesCorrect` | `Spec => []TypeOK` of RwLockDistr | `AtomicsProofs` |
| `ExclusiveCorrect` | a writer excludes readers and writers | `AtomicsProofs` |
| `SlotsApartCorrect` | registered threads have different slots | `AtomicsProofs` |
| `RingTypesCorrect`, `RingAlways` | `R!TypeOK`, R being Mpq, and its inductive invariant | `AtomicsProofs` |
| `AnswersTrueCorrect` | *empty* and *full* are true when they are said | `AtomicsProofs` |
| `ImplementsClaimQueueCorrect` | `R!Spec => R!Q!Spec`: Mpq implements ClaimQueue | `AtomicsProofs` |
| `ChanTypesCorrect` | `Spec => []TypeOK` of Chan | `HandoffProofs` |
| `SendsAreTrueCorrect` | what a send returns is what became of its value; each sender's order | `HandoffProofs` |
| `NobodyForgottenCorrect` | no wake-up of a channel is lost | `HandoffProofs` |
| `FsquTypesCorrect` | `F!Spec => []F!TypeOK`, F being Fsqu | `HandoffProofs` |
| `InOrderCorrect` | each producer's elements leave in its order, none lost, none twice | `HandoffProofs` |
| `EmptySoundCorrect` | a queue reported empty has given out what was pushed before the look | `HandoffProofs` |
| `SerialTypesCorrect` | `Spec => []TypeOK` of CoroSerial | `CoroProofs` |
| `OneOwnerCorrect` | the coroutine inside a lock is the one the lock names, at its depth | `CoroProofs` |
| `NoUseAfterFreeCorrect` | nobody who will touch a lock finds it freed | `CoroProofs` |
| `NoLeakCorrect` | a closed lock has somebody who will free it | `CoroProofs` |
| `OneQueueCorrect` | a waiting coroutine is in one queue, and a wake is on its way | `CoroProofs` |
| `ClosedForGoodCorrect` | nobody gets a closed lock | `CoroProofs` |
| `SessTypesCorrect` | `S!Spec => []S!TypeOK`, S being CoroSess | `CoroProofs` |
| `RegisteredCorrect` | a waiting coroutine is in one list, and no entry stays without a reason | `CoroProofs` |
| `ForkCountedCorrect` | fork_wait counts its children, and lasts as long as there are any | `CoroProofs` |
| `OnlyOldWaitersCorrect` | a wake_all wakes only those who waited before it | `CoroProofs` |
| `TriggersAgreeCorrect` | a wait by edges and one by levels return the same | `CmdPipeProofs` |
| `WakeSoundCorrect` | one wake byte at most, and a queued command never without one | `CmdPipeProofs` |
| `TypesCorrect` | `Spec => []TypeOK` of CmdPipe | `CmdPipeProofs` |
| `OnePlaceCorrect` | a sender's commands are numbered without a gap, each in one place | `CmdPipeProofs` |
| `SenderOrderCorrect` | the next command to run has no earlier one of its sender left | `CmdPipeProofs` |
| `TypeCorrect`, `InvariantHolds` | `TypeOK` of TaskLife and its inductive invariant | `TaskLifeProofs` |
| `NoUseAfterFreeCorrect` | no thread finds the memory of a task it works on gone | `TaskLifeProofs` |
| `RefsCountedCorrect` | the count of a task in the table is the references held | `TaskLifeProofs` |
| `NamesAgreeCorrect` | the two tables agree, a name stands for one task | `TaskLifeProofs` |
| `StartupFirstCorrect` | the startup is a task's first message | `TaskLifeProofs` |
| `GoneBeforeStopCorrect` | the threads stop after every registered task was freed | `TaskLifeProofs` |
| `PoolTypesCorrect` | `Spec => []TypeOK` of DbPool | `DbPoolProofs` |
| `OneHolderCorrect` | a connection is in one pair of hands or idle; `busy` counts hands | `DbPoolProofs` |
| `NoUseAfterFreeCorrect` | nobody inside the pool finds it freed | `DbPoolProofs` |
| `NothingLeftCorrect` | a freed pool leaves no connection and no memory | `DbPoolProofs` |
| `NoneStrandedCorrect` | while somebody waits, a connection is on its way | `DbPoolProofs` |
| `ConnTypesCorrect`, `InvariantHolds` | `TypeOK` of TcpSock and its inductive invariant | `SockProofs` |
| `OneFarewellCorrect` | one close callback, the last, and nothing of an earlier life | `SockProofs` |
| `NotStrandedCorrect` | a connection in use waits for an event that will come | `SockProofs` |
| `ListenerTypesCorrect`, `LisAlways` | `L!TypeOK`, L being Listener, and its inductive invariant | `SockProofs` |
| `AliveWhileReachedCorrect` | a listener lives exactly as long as something leads to it | `SockProofs` |
| `OnTimeCorrect` | a timer runs in its millisecond, and none is slept past | `HandoffProofs` |

**Scheduler.** `TypeOK` is not inductive: an action that uses a thread's `tgt`,
`wk` or `cur` needs to know that it is a task or a worker at that program
counter. `TypeInv` adds this. `OneRunner` is not inductive either: a second
runner could come from a second entry of the task in a run queue. `OwnInv`
counts every place a task can be in: being run by a thread, being scheduled by a
thread that won the CAS, a cell of a run queue, a place in a deferred queue. It
says that a task is in exactly one of them while its `global` is 1 and in none
while it is 0. Most actions leave all places alone (the `Quiet` lemmas); the
others move the task from one place to the next (`OwnScheduleNet`,
`OwnScheduleWorker`, `OwnTake`, `OwnDeferTake`, `OwnInline`) or enter and leave
(`OwnActivate`, `OwnRelease`).

`NoLostMessage` needs `TypeInv` and `InWindow` (what an event thread publishes
under a window is for the window's own task). The step lemmas show that each
action is `Covered` for every task: if the task then has messages and a cleared
flag, either it needed somebody before and everybody who was going to look still
is, or the step itself brought one. A claim brings the producer, a release
brings the releaser, and a window keeps its promise from the first message it
counts to its end, also below others.

`NoLostWakeup` needs `Shown`: a worker past showing its state, whose epoch has
not moved, still shows *sleep*, or shows *waking* to a thread that has yet to
move the epoch. So a producer that finds another state than *sleep* may leave:
the one that took it is still to come. The second look closes the other side,
the queue filled or the stop set before the state was shown. Most actions are
`Quiet`: they wake nobody, fill no queue and send nobody to sleep.

The order of the messages and the refinement share `MailInv`: `TypeInv`,
`OwnInv`, `NoBatch` (a thread without a task has no batch), `Emptied` and
`Ordered`. `Ordered` splits what `InOrderOnce` says of the concatenation of batch
and queue into its parts: each of the two rises sender by sender, the batch comes
before the queue, both hold only numbers after the last handled one and up to the
last sent one, and every such number is in one of them. With it the head of a batch
is always the next message of its sender (`NextHandled`), the `Handle` of the
mailbox. The inline path is the one place where a message skips the queue; `Emptied`
makes it safe: an event thread that found the queue of its target empty has nothing of its
own in it when it runs the message itself, since only it could have put something
there. For the refinement the runner of a task is the thread whose `cur` is the
task (`RunnerOf`), well defined by `OneRunner`. `Effects` sorts the steps of TaskSched by
what they do to the messages and the runners; most do nothing (`Silent`).

**Lock.** `IInv` is `TypeOK`, `SlotsApart`, `SlotHeld` (a thread's slot is
marked in use, and its flag is up while the thread reads or has yet to look at
`write_flag`), `PlaceOK` (what a thread's place says of its slot and its depth),
`WriterOK` (a thread in a write operation holds the fall-back lock, alone, and
`write_flag` is up while it scans and writes) and `Passed` (no reader is inside
on a slot that the writer has passed in its scan; the slot's flag may rise
again, but its thread will see `write_flag`). `Passed` is the core of the
argument; `Exclusive` follows when the scan is complete.

**Channel.** `NobodyForgotten` speaks of the state at rest, and is not inductive.
`Waits` says of every state how many are awake for what there is to do: with a
capacity, while a receiver sleeps the queue holds no more values than there are
receivers woken and senders about to signal, and while a sender sleeps no more
places are free than senders woken and receivers about to signal. A spurious wake
only adds to the awake, a thread that goes back to sleep found nothing to do, and
`w_waiting`, `r_waiting` are the counts of those asleep and woken. Without a
capacity at most one thread is inside on each side (`r_mu`, `w_mu`), and whoever
sleeps there has the other side awake as soon as it could go on. `Fates` follows
the values: the value of a send under way is new (`Fresh`, and `Numbered` bounds
those before it), the sender inside holds `w_mu` until its value is taken or
withdrawn (`Offer`), a failed one was never queued nor received (`Apart`), a
successful one is queued until it is received (`Kept`), and the queue and what
was received rise sender by sender (`InSequence`).

**Command lock of a connection.** None of the properties is inductive. `IInv`
joins them and adds `Bottom` (the stack of contexts ends in the dispatcher, so
that a yield leaves somebody to run), what ties a coroutine's place to its lock
(a queued one is suspended and names the lock it waits for), that a draining
free holds exactly the waiters it took from the queue, and that only one context
is in the free of a given lock. The delicate step is `Release` and its sisters:
the memory goes when the lock is closed, has no owner and is not being drained,
and for each of the three who might come last the invariant says that the other
two are gone.

**Sessions and forks.** `SessInv` follows the lists a waiter can be in: the
queue of its session, or what a wake_all has taken from there and not yet woken.
`Standing` says that every list holds waiters only and none of them twice
(`Lists`), that no two lists share one (`Apart`), and that every waiter is in one
(`Placed`); `Registered` is this and `Entries`, which says why an entry without
waiters is still there. A step does one of five things to the lists: nothing
(`Undisturbed`), a waiter comes to a session or leaves it, a wake_all calls one or
takes over a whole queue (`Comes`, `Leaves`, `Called`, `Gathered`); `ListStep` sorts
the steps, `StandingStep` needs no more than the kind. What keeps the loops of
several wake_alls apart is the stack: `Stack` and `Loops` say that who is in a
wake_all is on the stack and runs, so that it cannot be woken, end or begin
another one. `OnlyOldWaiters` needs `Ages`: who is left in the list of a wake_all
began to wait before it was called, since one that waits again goes into the
queue, which the loop has left behind. `Counts` says where the record of a child
is: in `fork_pending` once for each start that is still due, or in the child that
runs; that fork_wait does not end early is its second half, `st = "fork"` exactly
while the count is not zero.

**Command channel.** `WakeSound` has two halves that pull against each other:
few enough bytes and still enough. `OneWake` says that the flag stands for one
byte, which is in the hands of one thread that won the CAS and has still to
write it, or in the pipe, or just read and the flag about to be cleared;
`FlagIsBacked` and `FlagIsUp` say that the flag is up in exactly these cases. A
command in the queue is then safe: its sender has still to try the flag, or the
flag was up when it did, and the byte is before the event thread's next look at
the queue.

`CmdInv` is about the commands themselves. `Sorted` says that the queue, the
batch and the deferred list each rise sender by sender; `Stages` compares them:
what was taken is before what is queued, what was deferred or is over is before
both, and a deferred command is overtaken only by commands that are run at once.
`Numbered` says that no number up to the last one sent is missing, `Leftovers`
that `ev_free` frees commands only when every thread has been joined and nothing
is in a batch or deferred. From the order follows that a command has one place,
since two places would give it two numbers, and that the one to run is the least
that is not over. The callback that defers itself again (`Again`) is no command
and has no number; it stands in the deferred list once at most, wherever the
commands around it go.

**Lifecycle.** `RefsCounted` says that a number is the size of a set of holders,
and most steps add one on both sides. It is not inductive alone. `Ungrab` reads
zero, and looks again under the lock: that nothing has come in between needs
`Locks` and `Mapped` (who is in the critical section, and what each place of a
thread knows of the table). A run that was queued holds a reference for as long
as `global` is up, which needs that the task is in a single queue (`OnePlace`);
a task that is not made yet must have none (`Fresh`). `Memory` ties the object's
life to the table, the deferred list and the one thread that frees it. The
shutdown needs `OneClosing` and `Counted`: `nfreeing` is the number of tasks that
left the table and whose free is deferred or under way, so that an empty table
and a zero mean that all are gone; `GoneBeforeStop` is the last case.
`NamesAgree` and `StartupFirst` lean on the same table.

**Pool.** The stack of coroutines is where a proof could go wrong: a borrower
that goes on after a wait may go on only if it is not already on the stack
(`Stack`, `Where`, `Roles`). `Standing` says of every place of a borrower which
connection it has and in what state (`Hands`, `Linked`), `Queues` what the idle
list and the waiters' queue hold, `Counted` that `busy` is the number in hand.
`NothingLeft` and `NoUseAfterFree` come from `Freed`, which is an equivalence:
the memory is gone when, and only when, the free was asked for, no connection is
in hand, nobody waits and the maintenance is not inside. `NoneStranded` comes
from `Looks`: as long as the queue is not empty either a connection is in hand,
whose return wakes somebody, or somebody who was just woken is about to take one.

**Connection.** What is under way is one of a few forms: nothing, an accept or
connect callback, `_usk_on_rw_cb` with or without a receive callback, and on top
of each of these at most one send, since a send below a send callback only
queues (`Stacks`). `Fits` ties them to the flags: `incb` is up exactly while the
top is a callback, `sending` while it is a send, and what stands below a
connection that has ended has nothing left to do. `Sound` says what each place
of the object means; its two clauses that matter most are `Closing` (a
connection in error that no callback is going to close is registered for both
events) and `Queue` (what is queued is left to the write event, to the end of
the round or to the send under way). They are not inductive without `Waits` (a
connection in use is registered for its event) and `Basic`: a close is put off
only inside a callback, whose return makes it. Each operator that leaves the
connection in one of several states has a lemma that says what it keeps
(`Keeps`, `SameLife`), so that a step is the composition of two or three of
them. Nothing of an earlier life comes through because an object goes back to
the pool only when no event is fetched (`Fetched`).

**Listener.** That nothing leads to a listener that is gone is one half
(`Reached`); that one that nothing leads to is gone is the other, and needs the
count to be exact. `Counted` says what it is the sum of: the commands in the
queues that hold a reference (`Counting`), the connections that are just being
added, the sockets nobody was told to remove yet, and the ev_unlisten that has
still to send its own reference back. Each step moves one from a term to another
or drops one together with `ref`; `Balance` adds them up. A reference stands for
a socket: `Held` says that a watcher whose socket is open or in the poller, or
that has a connection in hand for it, is among the unsent or has CMD_UNLSN in its
queue, so that the socket goes before the reference. With the count at zero the
listener is in one quarantine (`Quarantined`), and whoever might still read it is
what the quarantine waits for (`Grace`): those that had fetched its event or were
in its accept, and the commands that were queued, since none that names it can
be sent any more. `OneCaller` and `Marked` say that an id finds a listener only
while nobody is removing it. The end rests on `Outside`, `Stopping`, `Emptied`
and `Alone`: a watcher exits outside of any function, after ev_free has begun,
and what is left in its queue is freed, not run.

**Ring.** Words are compared by `Ofs`, the distance from a turn of the ring before
`Start`; the assumption that the pushes of a run are less than half a turn of the
counters makes it a number that only grows (the code needs as much of any one
delayed thread: its signed difference cannot tell more). `InTurn` is
the last turn, one position for each slot. In it a slot is *claimed* (its sequence
number is the position itself), *published* (one more) or *given back* (a capacity
more), and `Cycle` says where each of them may stand: nothing before `Gone` is
still claimed, nothing from `Gone` on is given back, what is published has its
data. `Counters` orders the counts and ties `Pushed` to the number of claims.
`Writers` says that a claim is of one producer, `Pushers` that one about to claim
has seen the slot free in this turn, so that its compare-and-swap cannot succeed
a turn late. On the other side `Poppers` and `Holders` say that a published cell is
in the hands of one consumer at most until it is given back, whether it took the
position (several consumers), will move `deq` later (one) or holds a batch whose
slots it gives back one by one before `deq` moves. `GoneCopied`, `FreshCopied`,
`HeldCopied` and `ReadCopied` follow what was copied out: a slot is not used again
before the copy.

The refinement needs no choice: `CellsMeant` and `TakenMeant` say what is in the
two sequences of `ClaimQueue` position by position, and `CellStays`, `OutStays` and
`OutNew` that a step changes them only at the position it works on. A claim is then
`Append`, a publication one cell made ready, and a take moves the oldest cells, which
are all published, from one sequence to the other. `pop_sc_batch` takes at the
moment it stops reading: it has all it wanted, or the next cell is not published.
`AnswersTrue` is a matter of stale copies: who says *empty* compares an older `deq`
with the present `enq`; who says *full* has found in the slot of an older `enq` a
number that is smaller still, which can only be if that `enq` is the present one
(`SeqLater`).

**Queue with a spill layer.** `InOrder` is not inductive: an element may be
appended to the ring only if none of its producer's is in the spill queue, and
the spill queue may be drained only if none of what is left in the ring is an
elder of what is drained. `Straight` says the first: a producer that goes to the
ring saw `novf = 0` and has placed nothing elsewhere since. `Bare` says the
second: a consumer about to drain found the ring empty under the lock, and what
came to the ring since is of producers that have nothing in the spill queue, for
nobody can spill while the lock is held. Both rest on `SpillCounted`, what the
counter is while somebody is between raising or lowering it and the queue it
counts, and on `OneInside`, that this is the holder of the lock. `InOrder` itself
is taken apart into `Within`, `Rising`, `RingFirst` and `Whole`, each disturbed by
few steps. For `EmptySound` the look at the ring is what matters: `Marked` says
that after it the ring holds only what is later than the mark, since producers go
on with higher numbers and nothing comes back from the spill queue; so that when
`novf` is found zero, and with it the spill queue empty, all that was marked is out.
The one place where a drain takes many elements at once needs the greatest of a
set of numbers; that it exists is proved from the well-founded order of finite
sets (`LeastOf`, `GreatestOf`).

**Timing wheel.** The core is what a slot means. A slot that is in use begins at
a multiple `Unit(k) * q` of its level's unit, which is at or after `jiffies` and
less than a whole turn ahead (`Fits`), and its timers are owed within it.
`GetSlot` establishes this for a timer that comes in and for one that moves
down; a tick that passes no boundary keeps it; and at a boundary the slot that
begins there is the one that `_tw_cascade` empties. The first level then holds
exactly the timers of the next `TVR_SIZE` milliseconds, `_tw_next_delta` cannot
step over one of them, and what is in the other levels is owed after the next
boundary. `SleepOK` and `WakeOK` are the handshake: while the thread sleeps, or
is about to, a cell that is ready has a thread that will look at the state it
shows, or a wake under way.

## 6. Limits

Only model-checked, on the instances above: every property not in the table of
theorems. Every safety invariant that a run checks is in it. Liveness and the
fairness it needs, and ENABLED, cannot be handled by the prover, so that
`EventuallyHandled`, `WorkersJoin`, `Settles` and `EveryoneGetsIn` stay with TLC.
Every other property of the runs, action properties and refinements included, is
proved. The theorems about the ring hold for runs with fewer pushes than half a
turn of its counters (2^31 in the code), from any first value of the counters. No
module that holds a theorem uses a recursive operator.

Not modelled, and why:

* Weak memory. The models are sequentially consistent; acquire, release and
  relaxed accesses that are not part of a handshake are taken as if they were
  stronger.
* The other back-ends: `bbq` and the spin-lock variant for the queues, mutex and
  condition variable for the waiter, kqueue, IOCP, evport, pollset and /dev/poll
  for the event loop. They stand behind the same interfaces; a bbq model would
  be a second `Mpq`, the others differ in how they call the system.
* UDP sockets and TLS. A UDP socket has no connection whose end could be told
  twice and shares the close with `TcpSock`. TLS adds the states of a library
  that is not part of the repository.
* The log thread: one consumer over a queue of the kind of `Fsqu`, and the
  `linger` state of the waiter, which only it uses.
* minicoro: switching of stacks, written in assembly; the modules use it as
  resume and yield.
* Memory of coroutines, the stall monitor, load samples and statistics of the
  workers, the spin before a sleep: they decide how soon, not what.
* Protocols, serialisation, cryptography, containers and utilities: sequential
  code over bytes, used by one thread at a time. There is no interleaving to
  explore, and tests on bytes say more than a model that would have to repeat
  them.
* The helpers of `coro_utils.c` for single protocols, the router, the harbor,
  the console and the Lua layer: sequences of calls of what is modelled.
* Vendored code (yyjson, minicoro, Lua).

These parts are the larger share of the repository by lines; the modelled ones
are where its threads, coroutines and callbacks meet.

## 7. Plan

Done: the scheduler, its abstract mailbox and the proofs of its ownership, its
wake-ups and of the refinement between the two; the queues; the command channel
with the proofs of its wake-up and of its order; the lifecycle with its proofs;
the distributed lock and the ring with their proofs, the refinement of `ClaimQueue`
included; the coroutine scheduler with the proofs of the
command lock and of the sessions; the pool with its proofs; the channel and the queue with a spill layer with their
proofs; the timing wheel and its proof; the listeners and the connections with their proofs.

What is left, in this order:

1. The log thread with the linger state, over the queue of `Fsqu`.
2. The composition of CoroSess and DbPool: the pool's wait and wake are the
   session's, here written out once more.
