------------------------------ MODULE TaskLife -------------------------------
(***************************************************************************)
(* The life of a task (lib/srey/task.c, loader.c): its reference count,    *)
(* the table it is registered in, closing it, freeing it, and the shutdown *)
(* that waits for every task to be gone.                                   *)
(*                                                                         *)
(* Which thread runs a task is TaskSched's subject: here a scheduled task  *)
(* is a count in runq, and any runner takes it.  The table's reader-writer *)
(* lock is RwLockDistr's: here it is a set of readers and a writer.        *)
(***************************************************************************)
EXTENDS Integers, Sequences, FiniteSets

CONSTANTS
  Tasks,           \* the task_ctx objects that may be created
  Names,           \* the names a task may be given
  Workers, Nets,   \* threads that run tasks
  Others,          \* other threads: timer wheel, monitor
  Main,            \* the thread that starts services and calls loader_free
  MaxUse,          \* bound: grabs and posts from outside
  None

Runners == Workers \cup Nets
Users == Nets \cup Others
Threads == Runners \cup Others \cup {Main}

ASSUME TaskLifeAssumption ==
  /\ None \notin Tasks \cup Threads \cup Names
  /\ Main \notin Runners \cup Others /\ Workers \cap Users = {}
  /\ IsFiniteSet(Threads)
  /\ MaxUse \in Nat

VARIABLES
  map, names,      \* maptasks; mapnames: the tasks whose name is in it
  rd, wr,          \* lckmaptasks: readers, writer or None
  mem, name,       \* task -> "none", "live" or "freed"; its name, or None
  ref, closing, registered, global,  \* task -> its fields
  qumsg,           \* task -> its messages
  runq,            \* task -> times it is in a run queue
  nfreeing,        \* tasks unmapped and not freed yet
  lclosing,        \* loader->closing
  deferred,        \* net thread -> tasks it frees after this round
  pc,              \* thread -> where it is
  inh,             \* thread -> the task it is running, or None
  cur,             \* thread -> the task it works on, or None
  back,            \* thread -> where it goes after an activation
  todo,            \* tasks the closing broadcast has still to visit
  moved,           \* closing_waiter was woken since Main prepared to wait
  uses            \* grabs and posts from outside so far

vars == <<map, names, rd, wr, mem, name, ref, closing, registered, global, qumsg, runq, nfreeing,
          lclosing, deferred, pc, inh, cur, back, todo, moved, uses>>
object == <<mem, name>>
table == <<map, names>>
lock == <<rd, wr>>
queueing == <<global, qumsg, runq>>
shutdown == <<lclosing, todo, moved>>
frames == <<inh, cur, back>>

\* Where a thread is, and where it goes after an activation.
PCs == {"idle", "activate", "incref", "enqueue", "ungrab", "unmap", "free", "uncount", "tell",
        "begin", "run", "recheck", "register", "start", "late", "check", "registered",
        "held", "posted",
        "scan", "prepare", "size", "count", "commit", "asleep", "done"}
Backs == {"idle", "ungrab", "run", "late", "check", "registered", "posted", "scan"}

Goto(x, l) == pc' = [pc EXCEPT ![x] = l]
Home(x) == IF inh[x] = None THEN "idle" ELSE "run"

Init ==
  /\ map = {} /\ names = {}
  /\ rd = {} /\ wr = None
  /\ mem = [t \in Tasks |-> "none"] /\ name = [t \in Tasks |-> None]
  /\ ref = [t \in Tasks |-> 0]
  /\ closing = [t \in Tasks |-> FALSE] /\ registered = [t \in Tasks |-> FALSE]
  /\ global = [t \in Tasks |-> 0] /\ runq = [t \in Tasks |-> 0]
  /\ qumsg = [t \in Tasks |-> <<>>]
  /\ nfreeing = 0 /\ lclosing = FALSE
  /\ deferred = [n \in Nets |-> {}]
  /\ pc = [x \in Threads |-> "idle"]
  /\ inh = [x \in Threads |-> None]
  /\ cur = [x \in Threads |-> None]
  /\ back = [x \in Threads |-> "idle"]
  /\ todo = {} /\ moved = FALSE /\ uses = 0

-----------------------------------------------------------------------------
(* _task_message_post: push, take global, hold a reference, queue the task *)

Post(x, t, m, next) ==
  /\ qumsg' = [qumsg EXCEPT ![t] = Append(@, m)]
  /\ cur' = [cur EXCEPT ![x] = t]
  /\ back' = [back EXCEPT ![x] = next]
  /\ Goto(x, "activate")
  /\ UNCHANGED <<global, runq>>

Activate(x) ==
  /\ pc[x] = "activate"
  /\ global' = [global EXCEPT ![cur[x]] = 1]
  /\ Goto(x, IF global[cur[x]] = 0 THEN "incref" ELSE back[x])
  /\ UNCHANGED <<table, lock, object, ref, closing, registered, qumsg, runq, nfreeing, shutdown,
                 deferred, frames, uses>>

Incref(x) ==
  /\ pc[x] = "incref"
  /\ ref' = [ref EXCEPT ![cur[x]] = @ + 1]
  /\ Goto(x, "enqueue")
  /\ UNCHANGED <<table, lock, object, closing, registered, queueing, nfreeing, shutdown,
                 deferred, frames, uses>>

Enqueue(x) ==
  /\ pc[x] = "enqueue"
  /\ runq' = [runq EXCEPT ![cur[x]] = @ + 1]
  /\ Goto(x, back[x])
  /\ UNCHANGED <<table, lock, object, ref, closing, registered, global, qumsg, nfreeing, shutdown,
                 deferred, frames, uses>>

Schedule(x) == Activate(x) \/ Incref(x) \/ Enqueue(x)

-----------------------------------------------------------------------------
(* task_ungrab, _task_free_deferred *)

Ungrab(x) ==
  /\ pc[x] = "ungrab"
  /\ ref' = [ref EXCEPT ![cur[x]] = @ - 1]
  /\ Goto(x, IF ref[cur[x]] = 1 THEN "unmap" ELSE Home(x))
  /\ UNCHANGED <<table, lock, object, closing, registered, queueing, nfreeing, shutdown,
                 deferred, frames, uses>>

\* Mutant: the count is not looked at again under the lock.
Unmap_trusting(x) ==
  /\ pc[x] = "unmap" /\ rd = {} /\ wr = None
  /\ IF cur[x] \in map
     THEN /\ map' = map \ {cur[x]} /\ names' = names \ {cur[x]}
          /\ nfreeing' = nfreeing + 1
          /\ IF x \in Nets
             THEN deferred' = [deferred EXCEPT ![x] = @ \cup {cur[x]}] /\ Goto(x, Home(x))
             ELSE UNCHANGED deferred /\ Goto(x, "free")
     ELSE UNCHANGED <<table, nfreeing, deferred>> /\ Goto(x, Home(x))
  /\ UNCHANGED <<lock, object, ref, closing, registered, queueing, shutdown, frames, uses>>

\* Mutant: the name stays behind.
Unmap_keepsName(x) ==
  /\ pc[x] = "unmap" /\ rd = {} /\ wr = None
  /\ IF cur[x] \in map /\ ref[cur[x]] = 0
     THEN /\ map' = map \ {cur[x]} /\ names' = names
          /\ nfreeing' = nfreeing + 1
          /\ IF x \in Nets
             THEN deferred' = [deferred EXCEPT ![x] = @ \cup {cur[x]}] /\ Goto(x, Home(x))
             ELSE UNCHANGED deferred /\ Goto(x, "free")
     ELSE UNCHANGED <<table, nfreeing, deferred>> /\ Goto(x, Home(x))
  /\ UNCHANGED <<lock, object, ref, closing, registered, queueing, shutdown, frames, uses>>

\* Mutant: only frees put off to the end of a round are counted.
Unmap_netOnly(x) ==
  /\ pc[x] = "unmap" /\ rd = {} /\ wr = None
  /\ IF cur[x] \in map /\ ref[cur[x]] = 0
     THEN /\ map' = map \ {cur[x]} /\ names' = names \ {cur[x]}
          /\ nfreeing' = IF x \in Nets THEN nfreeing + 1 ELSE nfreeing
          /\ IF x \in Nets
             THEN deferred' = [deferred EXCEPT ![x] = @ \cup {cur[x]}] /\ Goto(x, Home(x))
             ELSE UNCHANGED deferred /\ Goto(x, "free")
     ELSE UNCHANGED <<table, nfreeing, deferred>> /\ Goto(x, Home(x))
  /\ UNCHANGED <<lock, object, ref, closing, registered, queueing, shutdown, frames, uses>>

\* Under the write lock: another thread may have found the task and taken it in
\* between, or have unmapped it already.  A net thread puts the free off.
Unmap(x) ==
  /\ pc[x] = "unmap" /\ rd = {} /\ wr = None
  /\ IF cur[x] \in map /\ ref[cur[x]] = 0
     THEN /\ map' = map \ {cur[x]} /\ names' = names \ {cur[x]}
          /\ nfreeing' = nfreeing + 1
          /\ IF x \in Nets
             THEN deferred' = [deferred EXCEPT ![x] = @ \cup {cur[x]}] /\ Goto(x, Home(x))
             ELSE UNCHANGED deferred /\ Goto(x, "free")
     ELSE UNCHANGED <<table, nfreeing, deferred>> /\ Goto(x, Home(x))
  /\ UNCHANGED <<lock, object, ref, closing, registered, queueing, shutdown, frames, uses>>

DeferredFree(x) ==
  /\ x \in Nets /\ pc[x] = "idle" /\ deferred[x] # {}
  /\ \E t \in deferred[x] :
       /\ deferred' = [deferred EXCEPT ![x] = @ \ {t}]
       /\ cur' = [cur EXCEPT ![x] = t]
  /\ Goto(x, "free")
  /\ UNCHANGED <<table, lock, object, ref, closing, registered, queueing, nfreeing, shutdown,
                 inh, back, uses>>

Free(x) ==
  /\ pc[x] = "free"
  /\ mem' = [mem EXCEPT ![cur[x]] = "freed"]
  /\ qumsg' = [qumsg EXCEPT ![cur[x]] = <<>>]
  /\ Goto(x, "uncount")
  /\ UNCHANGED <<table, lock, name, ref, closing, registered, global, runq, nfreeing, shutdown,
                 deferred, frames, uses>>

Uncount(x) ==
  /\ pc[x] = "uncount"
  /\ nfreeing' = nfreeing - 1
  /\ Goto(x, IF nfreeing = 1 THEN "tell" ELSE Home(x))
  /\ UNCHANGED <<table, lock, object, ref, closing, registered, queueing, shutdown, deferred, frames, uses>>

\* The last one wakes the shutdown, if there is one.
Tell(x) ==
  /\ pc[x] = "tell"
  /\ moved' = (moved \/ lclosing)
  /\ pc' = [pc EXCEPT ![x] = Home(x),
                      ![Main] = IF lclosing /\ @ = "asleep" THEN "prepare" ELSE @]
  /\ UNCHANGED <<table, lock, object, ref, closing, registered, queueing, nfreeing, lclosing, todo,
                 deferred, frames, uses>>

Drop(x) == Ungrab(x) \/ Unmap(x) \/ DeferredFree(x) \/ Free(x) \/ Uncount(x) \/ Tell(x)

-----------------------------------------------------------------------------
(* Running a task: _loader_task_run, the handlers, _loader_task_release *)

Take(x, t) ==
  /\ x \in Runners /\ pc[x] = "idle" /\ runq[t] > 0
  /\ runq' = [runq EXCEPT ![t] = @ - 1]
  /\ inh' = [inh EXCEPT ![x] = t]
  /\ cur' = [cur EXCEPT ![x] = t]
  /\ Goto(x, "begin")
  /\ UNCHANGED <<table, lock, object, ref, closing, registered, global, qumsg, nfreeing, shutdown,
                 deferred, back, uses>>

\* CLOSING gives back the reference the task was created with.
Handle(x) ==
  /\ pc[x] \in {"begin", "run"} /\ qumsg[inh[x]] # <<>>
  /\ qumsg' = [qumsg EXCEPT ![inh[x]] = Tail(@)]
  /\ cur' = [cur EXCEPT ![x] = inh[x]]
  /\ Goto(x, IF Head(qumsg[inh[x]]) = "closing" THEN "ungrab" ELSE "run")
  /\ UNCHANGED <<table, lock, object, ref, closing, registered, global, runq, nfreeing, shutdown,
                 deferred, inh, back, uses>>

\* At the end of a round, which takes one message at least and may leave some:
\* global 1 -> 0, then look.
Release(x) ==
  /\ pc[x] = "run" \/ (pc[x] = "begin" /\ qumsg[inh[x]] = <<>>)
  /\ global' = [global EXCEPT ![inh[x]] = 0]
  /\ cur' = [cur EXCEPT ![x] = inh[x]]
  /\ back' = [back EXCEPT ![x] = "ungrab"]
  /\ inh' = [inh EXCEPT ![x] = None]
  /\ Goto(x, "recheck")
  /\ UNCHANGED <<table, lock, object, ref, closing, registered, qumsg, runq, nfreeing, shutdown,
                 deferred, uses>>

Recheck(x) ==
  /\ pc[x] = "recheck"
  /\ Goto(x, IF qumsg[cur[x]] = <<>> THEN "ungrab" ELSE "activate")
  /\ UNCHANGED <<table, lock, object, ref, closing, registered, queueing, nfreeing, shutdown,
                 deferred, frames, uses>>

Run(x) == (\E t \in Tasks : Take(x, t)) \/ Handle(x) \/ Release(x) \/ Recheck(x)

-----------------------------------------------------------------------------
(* task_close, of the task being run or of one that was grabbed *)

\* Mutant: closing is not tested, every call posts.
Close_always(x, t, next) ==
  /\ closing' = [closing EXCEPT ![t] = TRUE]
  /\ IF ~registered[t]
     THEN Goto(x, next) /\ UNCHANGED <<queueing, cur, back>>
     ELSE Post(x, t, "closing", next)

\* Only the first call posts, and only for a registered task.
Close(x, t, next) ==
  /\ closing' = [closing EXCEPT ![t] = TRUE]
  /\ IF closing[t] \/ ~registered[t]
     THEN Goto(x, next) /\ UNCHANGED <<queueing, cur, back>>
     ELSE Post(x, t, "closing", next)

CloseSelf(x) ==
  /\ pc[x] = "run"
  /\ Close(x, inh[x], "run")
  /\ UNCHANGED <<table, lock, object, ref, registered, nfreeing, shutdown, deferred, inh, uses>>

-----------------------------------------------------------------------------
(* task_new and task_register, from a handler or from Main *)

\* It may be closed before it is registered (closed).
New(x, t, n, closed) ==
  /\ pc[x] = "run" \/ (x = Main /\ pc[x] = "idle")
  /\ mem[t] = "none"
  /\ mem' = [mem EXCEPT ![t] = "live"]
  /\ name' = [name EXCEPT ![t] = n]
  /\ ref' = [ref EXCEPT ![t] = 1]
  /\ closing' = [closing EXCEPT ![t] = closed]
  /\ cur' = [cur EXCEPT ![x] = t]
  /\ Goto(x, "register")
  /\ UNCHANGED <<table, lock, registered, queueing, nfreeing, shutdown, deferred, inh, back, uses>>

Repeated(t) == name[t] # None /\ \E u \in names : name[u] = name[t]

\* A repeated name is refused, and the caller frees its task.
RegisterFails(x) ==
  /\ pc[x] = "register" /\ rd = {} /\ wr = None /\ Repeated(cur[x])
  /\ mem' = [mem EXCEPT ![cur[x]] = "freed"]
  /\ Goto(x, Home(x))
  /\ UNCHANGED <<table, lock, name, ref, closing, registered, queueing, nfreeing, shutdown, deferred,
                 frames, uses>>

\* Mutant: the lock is let go once the task is in the table.
Register_unlocked(x) ==
  /\ pc[x] = "register" /\ rd = {} /\ wr = None /\ ~Repeated(cur[x])
  /\ map' = map \cup {cur[x]}
  /\ names' = IF name[cur[x]] = None THEN names ELSE names \cup {cur[x]}
  /\ registered' = [registered EXCEPT ![cur[x]] = TRUE]
  /\ Goto(x, "start")
  /\ UNCHANGED <<lock, object, ref, closing, queueing, nfreeing, shutdown, deferred, frames, uses>>

\* Under the write lock up to RegisterEnd.
Register(x) ==
  /\ pc[x] = "register" /\ rd = {} /\ wr = None /\ ~Repeated(cur[x])
  /\ wr' = x
  /\ map' = map \cup {cur[x]}
  /\ names' = IF name[cur[x]] = None THEN names ELSE names \cup {cur[x]}
  /\ registered' = [registered EXCEPT ![cur[x]] = TRUE]
  /\ Goto(x, "start")
  /\ UNCHANGED <<rd, object, ref, closing, queueing, nfreeing, shutdown, deferred, frames, uses>>

\* Whether the task was closed already is read before STARTUP is posted, as its
\* handler may close it.
PostStartup(x) ==
  /\ pc[x] = "start"
  /\ Post(x, cur[x], "startup", IF closing[cur[x]] THEN "late" ELSE "check")
  /\ UNCHANGED <<table, lock, object, ref, closing, registered, nfreeing, shutdown, deferred, inh, uses>>

LateClose(x) ==
  /\ pc[x] = "late"
  /\ Post(x, cur[x], "closing", "registered")
  /\ UNCHANGED <<table, lock, object, ref, closing, registered, nfreeing, shutdown, deferred, inh, uses>>

\* The closing broadcast is over: this task closes by itself.
RegisterCheck(x) ==
  /\ pc[x] = "check"
  /\ IF lclosing THEN Close(x, cur[x], "registered")
     ELSE Goto(x, "registered") /\ UNCHANGED <<closing, queueing, cur, back>>
  /\ UNCHANGED <<table, lock, object, ref, registered, nfreeing, shutdown, deferred, inh, uses>>

RegisterEnd(x) ==
  /\ pc[x] = "registered"
  /\ wr' = None
  /\ Goto(x, Home(x))
  /\ UNCHANGED <<table, rd, object, ref, closing, registered, queueing, nfreeing, shutdown,
                 deferred, frames, uses>>

Registering(x) == RegisterFails(x) \/ Register(x) \/ PostStartup(x) \/ LateClose(x)
                  \/ RegisterCheck(x) \/ RegisterEnd(x)

-----------------------------------------------------------------------------
(* Other users: task_grab ... task_ungrab, and _task_post_to *)

Grab(x, t) ==
  /\ x \in Users /\ pc[x] = "idle" /\ wr = None /\ t \in map /\ uses < MaxUse
  /\ uses' = uses + 1
  /\ ref' = [ref EXCEPT ![t] = @ + 1]
  /\ cur' = [cur EXCEPT ![x] = t]
  /\ Goto(x, "held")
  /\ UNCHANGED <<table, lock, object, closing, registered, queueing, nfreeing, shutdown, deferred,
                 inh, back>>

Emit(x) ==
  /\ pc[x] = "held"
  /\ Post(x, cur[x], "user", "ungrab")
  /\ UNCHANGED <<table, lock, object, ref, closing, registered, nfreeing, shutdown, deferred, inh, uses>>

CloseHeld(x) ==
  /\ pc[x] = "held"
  /\ Close(x, cur[x], "ungrab")
  /\ UNCHANGED <<table, lock, object, ref, registered, nfreeing, shutdown, deferred, inh, uses>>

LetGo(x) ==
  /\ pc[x] = "held"
  /\ Goto(x, "ungrab")
  /\ UNCHANGED <<table, lock, object, ref, closing, registered, queueing, nfreeing, shutdown,
                 deferred, frames, uses>>

\* A post without a reference, under the read lock.
PostTo(x, t) ==
  /\ x \in Users /\ pc[x] = "idle" /\ wr = None /\ t \in map /\ uses < MaxUse
  /\ rd' = rd \cup {x}
  /\ uses' = uses + 1
  /\ Post(x, t, "user", "posted")
  /\ UNCHANGED <<table, wr, object, ref, closing, registered, nfreeing, shutdown, deferred, inh>>

PostEnd(x) ==
  /\ pc[x] = "posted"
  /\ rd' = rd \ {x}
  /\ Goto(x, "idle")
  /\ UNCHANGED <<table, wr, object, ref, closing, registered, queueing, nfreeing, shutdown,
                 deferred, frames, uses>>

-----------------------------------------------------------------------------
(* _loader_task_closing *)

Shutdown ==
  /\ pc[Main] = "idle" /\ wr = None
  /\ rd' = rd \cup {Main}
  /\ lclosing' = TRUE
  /\ todo' = map
  /\ Goto(Main, "scan")
  /\ UNCHANGED <<table, wr, object, ref, closing, registered, queueing, nfreeing, moved, deferred,
                 frames, uses>>

Broadcast(t) ==
  /\ pc[Main] = "scan" /\ t \in todo
  /\ todo' = todo \ {t}
  /\ closing' = [closing EXCEPT ![t] = TRUE]
  /\ IF closing[t] THEN UNCHANGED <<pc, queueing, cur, back>>
     ELSE Post(Main, t, "closing", "scan")
  /\ UNCHANGED <<table, lock, object, ref, registered, nfreeing, lclosing, moved, deferred, inh, uses>>

BroadcastEnd ==
  /\ pc[Main] = "scan" /\ todo = {}
  /\ rd' = rd \ {Main}
  /\ Goto(Main, "prepare")
  /\ UNCHANGED <<table, wr, object, ref, closing, registered, queueing, nfreeing, shutdown,
                 deferred, frames, uses>>

Prepare ==
  /\ pc[Main] = "prepare"
  /\ moved' = FALSE
  /\ Goto(Main, "size")
  /\ UNCHANGED <<table, lock, object, ref, closing, registered, queueing, nfreeing, lclosing, todo,
                 deferred, frames, uses>>

\* First the table, then the count.
LookTable ==
  /\ pc[Main] = "size" /\ wr = None
  /\ Goto(Main, IF map = {} THEN "count" ELSE "commit")
  /\ UNCHANGED <<table, lock, object, ref, closing, registered, queueing, nfreeing, shutdown,
                 deferred, frames, uses>>

LookCount ==
  /\ pc[Main] = "count"
  /\ Goto(Main, IF nfreeing = 0 THEN "done" ELSE "commit")
  /\ UNCHANGED <<table, lock, object, ref, closing, registered, queueing, nfreeing, shutdown,
                 deferred, frames, uses>>

\* Mutant: a wake that came after the preparation is forgotten.
Commit_forgets ==
  /\ pc[Main] = "commit"
  /\ Goto(Main, "asleep")
  /\ UNCHANGED <<table, lock, object, ref, closing, registered, queueing, nfreeing, shutdown,
                 deferred, frames, uses>>

\* Not slept if woken since prepared.
Commit ==
  /\ pc[Main] = "commit"
  /\ Goto(Main, IF moved THEN "prepare" ELSE "asleep")
  /\ UNCHANGED <<table, lock, object, ref, closing, registered, queueing, nfreeing, shutdown,
                 deferred, frames, uses>>

\* The warning period is over: tasks that still live are logged, and it looks again.
TimedOut ==
  /\ pc[Main] = "asleep"
  /\ Goto(Main, "prepare")
  /\ UNCHANGED <<table, lock, object, ref, closing, registered, queueing, nfreeing, shutdown,
                 deferred, frames, uses>>

Closing == \/ \E t \in Tasks : Broadcast(t)
           \/ BroadcastEnd \/ Prepare \/ LookTable \/ LookCount \/ Commit

-----------------------------------------------------------------------------
\* Main has seen every task gone and goes on to stop the threads.
Over == pc[Main] = "done" /\ UNCHANGED vars

Work(x) == Schedule(x) \/ Drop(x) \/ Registering(x) \/ PostEnd(x)

Next ==
  \/ \E x \in Threads : Work(x)
  \/ \E x \in Runners : Run(x) \/ CloseSelf(x)
  \/ \E x \in Runners \cup {Main}, t \in Tasks, n \in Names \cup {None}, b \in BOOLEAN :
       New(x, t, n, b)
  \/ \E x \in Users : \/ \E t \in Tasks : Grab(x, t) \/ PostTo(x, t)
                      \/ Emit(x) \/ CloseHeld(x) \/ LetGo(x)
  \/ Shutdown \/ Closing \/ TimedOut
  \/ Over

Spec == Init /\ [][Next]_vars

\* Every thread runs, and gets a lock that is free again and again; a handler
\* comes to its end; a grabbed task is let go; a net thread drains what it has
\* deferred in every round of its loop (uev.c:514).
Fairness ==
  /\ \A x \in Threads : SF_vars(Work(x))
  /\ \A x \in Runners : SF_vars(Run(x))
  /\ \A x \in Users : WF_vars(LetGo(x))
  /\ \A x \in Nets : SF_vars(DeferredFree(x))
  /\ SF_vars(Closing)

FairSpec == Spec /\ Fairness

-----------------------------------------------------------------------------
\* Every variable stays in its type.
TypeOK ==
  /\ map \subseteq Tasks /\ names \subseteq Tasks
  /\ rd \subseteq Threads /\ wr \in Threads \cup {None}
  /\ mem \in [Tasks -> {"none", "live", "freed"}] /\ name \in [Tasks -> Names \cup {None}]
  /\ ref \in [Tasks -> Nat] /\ runq \in [Tasks -> {0, 1}]
  /\ closing \in [Tasks -> BOOLEAN] /\ registered \in [Tasks -> BOOLEAN]
  /\ global \in [Tasks -> {0, 1}]
  /\ qumsg \in [Tasks -> Seq({"startup", "closing", "user"})]
  /\ nfreeing \in Nat /\ lclosing \in BOOLEAN /\ moved \in BOOLEAN
  /\ deferred \in [Nets -> SUBSET Tasks]
  /\ pc \in [Threads -> PCs]
  /\ inh \in [Threads -> Tasks \cup {None}] /\ cur \in [Threads -> Tasks \cup {None}]
  /\ back \in [Threads -> Backs]
  /\ todo \subseteq Tasks /\ uses \in 0 .. MaxUse

\* Where a thread works on cur[x] and may read or write its fields.
Touching == {"activate", "incref", "enqueue", "ungrab", "recheck", "register", "start", "late",
             "check", "held", "free"}

\* No thread touches a task that has been freed, or frees it twice.
NoUseAfterFree ==
  \A x \in Threads :
    /\ pc[x] \in Touching /\ cur[x] # None => mem[cur[x]] = "live"
    /\ inh[x] # None => mem[inh[x]] = "live"

\* The steps of an activation.
Activating == {"activate", "incref", "enqueue"}

\* Threads that hold a reference of t: to run it, grabbed or to give back after a
\* release, or counted for the run queue.  A poster under the lock holds none until
\* it has counted that one.
Running(t) == {x \in Threads : inh[x] = t}
Holding(t) == {x \in Threads : /\ cur[x] = t /\ inh[x] = None
                               /\ \/ pc[x] \in {"held", "recheck", "ungrab"}
                                  \/ pc[x] \in Activating /\ back[x] = "ungrab"}
Enqueuing(t) == {x \in Threads : cur[x] = t /\ pc[x] = "enqueue"}

Held(t) == Cardinality(Running(t)) + Cardinality(Holding(t)) + Cardinality(Enqueuing(t))

\* The reference a task is created with is still there: no CLOSING was handled.
Created(t) == ~closing[t] \/ ~registered[t]
              \/ (\E i \in DOMAIN qumsg[t] : qumsg[t][i] = "closing")
              \/ (\E x \in Threads : /\ cur[x] = t
                                     /\ \/ pc[x] = "ungrab" /\ inh[x] = t
                                        \/ pc[x] \in {"start", "late"}
                                        \/ pc[x] \in Activating /\ back[x] = "late")

\* The count of a task in the table is exactly the references held: none leaks
\* (the shutdown would wait for ever), none is given back twice.
RefsCounted ==
  \A t \in map : ref[t] = Held(t) + runq[t] + (IF Created(t) THEN 1 ELSE 0)

\* The two tables agree, and a name stands for one task.
NamesAgree ==
  /\ names = {t \in map : name[t] # None}
  /\ \A t, u \in names : name[t] = name[u] => t = u

\* STARTUP is the first message a task handles, even if it was closed before it
\* was registered or the shutdown finds it in between (task.c:239-248).
StartupFirst ==
  \A t \in Tasks : \A i \in DOMAIN qumsg[t] : qumsg[t][i] = "startup" => i = 1

\* The shutdown goes on to stop the threads only when every registered task has
\* been freed: the table can be empty while a free is still going on (task.c:304-334).
GoneBeforeStop ==
  pc[Main] = "done" => \A t \in Tasks : registered[t] => mem[t] = "freed"

\* A registered task that is closed, or that meets the shutdown, is freed, and the
\* shutdown ends without the help of its warning timeout.
Settles ==
  /\ \A t \in Tasks : registered[t] /\ (closing[t] \/ lclosing) ~> mem[t] = "freed"
  /\ lclosing ~> pc[Main] = "done"
=============================================================================
