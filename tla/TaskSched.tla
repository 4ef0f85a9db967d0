----------------------------- MODULE TaskSched -----------------------------
(***************************************************************************)
(* The srey task scheduler (lib/srey/loader.c, the emit window of          *)
(* lib/srey/task.c and the futex sleep handshake of lib/thread/waiter.h).  *)
(*                                                                         *)
(* A task owns a message queue and a flag `global`.  Whoever moves the     *)
(* flag from 0 to 1 must hand the task to a runner: a worker's task queue, *)
(* or the deferred-execution queue of the net thread the task is bound to. *)
(* The runner dispatches a quota of messages, clears the flag, and looks   *)
(* at the queue again.  Workers that find no task sleep on a futex word.   *)
(*                                                                         *)
(* Every thread (worker, net thread, poster, the main thread at shutdown)  *)
(* is a program counter over the shared accesses of the code, one action   *)
(* per access.  A queue cell is claimed by one step of the producer and    *)
(* published by a later one, which is what the lock-free rings below it    *)
(* let a consumer observe (module Mpq).                                    *)
(***************************************************************************)
EXTENDS Integers, Sequences

CONSTANTS
  Tasks,      \* the task_ctx objects
  Workers,    \* worker threads
  Nets,       \* event (net) threads
  Posters,    \* threads that only post: time wheel, acceptor, main program
  Main,       \* the thread that runs loader_free
  None,       \* "no task / no worker / not bound"
  Weight,     \* worker_ctx.weight of each worker
  Priority,   \* task_ctx.priority of each task
  MsgBatch,   \* TASK_MSG_BATCH
  MaxPosts,   \* bound: posts of each thread to one task
  MaxNest     \* bound: depth of nested emit windows

Threads == Workers \cup Nets \cup Posters \cup {Main}

ASSUME SchedAssumption ==
  /\ Workers # {}
  /\ Workers \cap Nets = {} /\ Workers \cap Posters = {} /\ Nets \cap Posters = {}
  /\ Main \notin Workers \cup Nets \cup Posters
  /\ None \notin Tasks \cup Threads
  /\ Weight \in [Workers -> -1 .. 3]
  /\ Priority \in [Tasks -> Nat]
  /\ MsgBatch \in Nat \ {0}
  /\ MaxPosts \in [Threads -> Nat]
  /\ MaxNest \in Nat \ {0}

VARIABLES
  qumsg,    \* task -> its message queue: cells [by, n, ready]
  global,   \* task -> 0, or 1 while some thread or run queue is in charge of it
  evbind,   \* task -> the net thread it is bound to, or None
  taskq,    \* worker -> its run queue: cells [task, by, ready]
  deferq,   \* net thread -> tasks waiting in its deferred-execution queue
  wstate,   \* worker -> waiter state
  moved,    \* worker -> has its epoch moved since waiter_prepare read it
  stop,     \* loader->stop
  unwoken,  \* workers the shutdown loop has not looked at yet
  pc,       \* thread -> where it is
  cur,      \* thread -> the task it is running, or None
  tgt,      \* thread -> the task it is posting to or scheduling, or None
  wk,       \* thread -> the worker it picked, or None
  left,     \* thread -> messages its current round may still take
  batch,    \* thread -> messages popped and not dispatched yet
  win,      \* net thread -> stack of open emit windows (their target tasks)
  nwin,     \* net thread -> _emit_win[0]: messages queued under the windows
  sent,     \* thread -> task -> messages posted so far (history)
  last      \* task -> thread -> number of the last message dispatched (history)

queues  == <<qumsg, global, evbind, taskq, deferq>>
waiters == <<wstate, moved>>
ending  == <<stop, unwoken>>
round   == <<cur, left, batch>>
windows == <<win, nwin>>
history == <<sent, last>>
vars == <<queues, waiters, ending, pc, tgt, wk, round, windows, history>>

\* Program counters: where a thread stands between two shared accesses.
PCs == {"idle", "size", "run", "hand", "relchk",               \* running a task
        "pub", "cas", "sched", "tpub", "wst", "wake", "fwake", \* posting
        "win", "try", "push", "epub",                          \* emit window
        "steal", "retry",                                      \* looking for a task
        "prep", "show", "recheck", "cancel", "commit", "blocked", "woke", "exit"}

Goto(th, l) == pc' = [pc EXCEPT ![th] = l]

\* Where a nested call returns to: the handler it was made from, the open emit
\* window, or the thread's own loop.
ReturnPoint(th) ==
  IF cur[th] # None THEN "hand"
  ELSE IF th \in Nets /\ win[th] # <<>> THEN "win" ELSE "idle"

Return(th) == Goto(th, ReturnPoint(th))

\* A single consumer that asks for want cells gets exactly the first k: all of
\* them published, and either that is enough or the next one is not there yet.
Gets(q, k, want) ==
  /\ k <= want /\ k <= Len(q)
  /\ \A i \in 1 .. k : q[i].ready
  /\ k < want /\ k < Len(q) => ~q[k + 1].ready

Drop(q, k) == SubSeq(q, k + 1, Len(q))

\* Publishing the one cell thread th has claimed in q.
Publish(q, th) ==
  [i \in DOMAIN q |-> IF q[i].by = th THEN [q[i] EXCEPT !.ready = TRUE] ELSE q[i]]

\* _loader_msg_quota: messages one round may take out of lens.
MsgQuota(weight, prio, lens) ==
  LET base == IF weight < 0 THEN 1 ELSE lens \div <<1, 2, 4, 8>>[weight + 1]
      n    == base + (base * prio) \div 8
      capped == IF n > lens THEN lens ELSE n
  IN  IF capped = 0 THEN 1 ELSE capped

-----------------------------------------------------------------------------
Init ==
  /\ qumsg = [t \in Tasks |-> <<>>]
  /\ global = [t \in Tasks |-> 0]
  /\ evbind \in [Tasks -> Nets \cup {None}]
  /\ taskq = [w \in Workers |-> <<>>]
  /\ deferq = [n \in Nets |-> <<>>]
  /\ wstate = [w \in Workers |-> "awake"]
  /\ moved = [w \in Workers |-> FALSE]
  /\ stop = FALSE
  /\ unwoken = {}
  /\ pc = [th \in Threads |-> "idle"]
  /\ cur = [th \in Threads |-> None]
  /\ tgt = [th \in Threads |-> None]
  /\ wk = [th \in Threads |-> None]
  /\ left = [th \in Threads |-> 0]
  /\ batch = [th \in Threads |-> <<>>]
  /\ win = [n \in Nets |-> <<>>]
  /\ nwin = [n \in Nets |-> 0]
  /\ sent = [th \in Threads |-> [t \in Tasks |-> 0]]
  /\ last = [t \in Tasks |-> [th \in Threads |-> 0]]

-----------------------------------------------------------------------------
(* Posting: _task_message_post, _task_message_active, _loader_worker_wakeup *)

\* The producer claims the next cell of t's queue; its data is not visible yet.
ClaimMessage(th, t) ==
  /\ sent[th][t] < MaxPosts[th]
  /\ sent' = [sent EXCEPT ![th][t] = @ + 1]
  /\ qumsg' = [qumsg EXCEPT
                 ![t] = Append(@, [by |-> th, n |-> sent[th][t] + 1, ready |-> FALSE])]

\* Posting starts from the thread's own loop or from inside a handler.
PostClaim(th, t) ==
  /\ \/ pc[th] = "idle" /\ th \in Posters /\ ~stop
     \/ pc[th] = "hand"
  /\ ClaimMessage(th, t)
  /\ tgt' = [tgt EXCEPT ![th] = t]
  /\ Goto(th, "pub")
  /\ UNCHANGED <<global, evbind, taskq, deferq, waiters, ending, wk, round, windows, last>>

PostPublish(th) ==
  /\ pc[th] = "pub"
  /\ qumsg' = [qumsg EXCEPT ![tgt[th]] = Publish(@, th)]
  /\ Goto(th, "cas")
  /\ UNCHANGED <<global, evbind, taskq, deferq, waiters, ending, tgt, wk, round, windows, history>>

\* Mutant: every producer schedules, whatever the flag was.
Activate_always(th) ==
  /\ pc[th] = "cas"
  /\ global' = [global EXCEPT ![tgt[th]] = 1]
  /\ Goto(th, "sched")
  /\ UNCHANGED <<qumsg, evbind, taskq, deferq, waiters, ending, tgt, wk, round, windows, history>>

\* Only the thread that moves global from 0 to 1 schedules the task.
Activate(th) ==
  /\ pc[th] = "cas" /\ global[tgt[th]] = 0
  /\ global' = [global EXCEPT ![tgt[th]] = 1]
  /\ Goto(th, "sched")
  /\ UNCHANGED <<qumsg, evbind, taskq, deferq, waiters, ending, tgt, wk, round, windows, history>>

AlreadyActive(th) ==
  /\ pc[th] = "cas" /\ global[tgt[th]] = 1
  /\ tgt' = [tgt EXCEPT ![th] = None]
  /\ Return(th)
  /\ UNCHANGED <<queues, waiters, ending, wk, round, windows, history>>

\* A bound task goes to its net thread's deferred-execution queue.
ScheduleNet(th) ==
  /\ pc[th] = "sched"
  /\ evbind[tgt[th]] # None
  /\ deferq' = [deferq EXCEPT ![evbind[tgt[th]]] = Append(@, tgt[th])]
  /\ tgt' = [tgt EXCEPT ![th] = None]
  /\ Return(th)
  /\ UNCHANGED <<qumsg, global, evbind, taskq, waiters, ending, wk, round, windows, history>>

\* An unbound task goes to a worker.  The choice reads hints that may be stale
\* (spinning, waiter_state_hint), so any worker may be picked.
ScheduleWorker(th, w) ==
  /\ pc[th] = "sched"
  /\ evbind[tgt[th]] = None
  /\ taskq' = [taskq EXCEPT ![w] = Append(@, [task |-> tgt[th], by |-> th, ready |-> FALSE])]
  /\ wk' = [wk EXCEPT ![th] = w]
  /\ Goto(th, "tpub")
  /\ UNCHANGED <<qumsg, global, evbind, deferq, waiters, ending, tgt, round, windows, history>>

TaskqPublish(th) ==
  /\ pc[th] = "tpub"
  /\ taskq' = [taskq EXCEPT ![wk[th]] = Publish(@, th)]
  /\ tgt' = [tgt EXCEPT ![th] = None]
  /\ Goto(th, "wst")
  /\ UNCHANGED <<qumsg, global, evbind, deferq, waiters, ending, wk, round, windows, history>>

\* waiter_state_get, then waiter_mark_waking: SLEEP -> WAKING picks one waker.
MarkWaking(th) ==
  /\ pc[th] = "wst" /\ wstate[wk[th]] = "sleep"
  /\ wstate' = [wstate EXCEPT ![wk[th]] = "waking"]
  /\ Goto(th, "wake")
  /\ UNCHANGED <<queues, moved, ending, tgt, wk, round, windows, history>>

\* It is awake, or another thread is already waking it.
NoWakeNeeded(th) ==
  /\ pc[th] = "wst" /\ wstate[wk[th]] # "sleep"
  /\ wk' = [wk EXCEPT ![th] = None]
  /\ Return(th)
  /\ UNCHANGED <<queues, waiters, ending, tgt, round, windows, history>>

\* waiter_wake: first the epoch, then the futex call.
WakeEpoch(th) ==
  /\ pc[th] = "wake"
  /\ moved' = [moved EXCEPT ![wk[th]] = TRUE]
  /\ Goto(th, "fwake")
  /\ UNCHANGED <<queues, wstate, ending, tgt, wk, round, windows, history>>

FutexWake(th) ==
  /\ pc[th] = "fwake"
  /\ pc' = [pc EXCEPT ![th] = ReturnPoint(th),
                      ![wk[th]] = IF @ = "blocked" THEN "woke" ELSE @]
  /\ wk' = [wk EXCEPT ![th] = None]
  /\ UNCHANGED <<queues, waiters, ending, tgt, round, windows, history>>

Post(th) ==
  \/ \E t \in Tasks : PostClaim(th, t)
  \/ PostPublish(th)
  \/ Activate(th)
  \/ AlreadyActive(th)
  \/ ScheduleNet(th)
  \/ \E w \in Workers : ScheduleWorker(th, w)
  \/ TaskqPublish(th)
  \/ MarkWaking(th)
  \/ NoWakeNeeded(th)
  \/ WakeEpoch(th)
  \/ FutexWake(th)

-----------------------------------------------------------------------------
(* Running a task: _loader_task_run, _loader_dispatch_one, _loader_task_release *)

\* msgq_size and the quota.  A net thread uses weight 0.
RunSize(th) ==
  /\ pc[th] = "size"
  /\ left' = [left EXCEPT
                ![th] = MsgQuota(IF th \in Workers THEN Weight[th] ELSE 0,
                                 Priority[cur[th]], Len(qumsg[cur[th]]))]
  /\ Goto(th, "run")
  /\ UNCHANGED <<queues, waiters, ending, cur, batch, tgt, wk, windows, history>>

Running(th) == pc[th] \in {"run", "hand"}

\* Messages asked for in one batch.
Want(th) == IF left[th] < MsgBatch THEN left[th] ELSE MsgBatch

\* msgq_pop_sc_batch.  An empty result ends the round; a worker first retries a
\* bounded number of times, which changes nothing.
RunPop(th) ==
  /\ Running(th) /\ batch[th] = <<>> /\ left[th] > 0
  /\ \E k \in 0 .. MsgBatch :
       /\ Gets(qumsg[cur[th]], k, Want(th))
       /\ batch' = [batch EXCEPT ![th] = SubSeq(qumsg[cur[th]], 1, k)]
       /\ left' = [left EXCEPT ![th] = IF k = 0 THEN 0 ELSE @ - k]
       /\ qumsg' = [qumsg EXCEPT ![cur[th]] = Drop(@, k)]
  /\ Goto(th, "run")
  /\ UNCHANGED <<global, evbind, taskq, deferq, waiters, ending, cur, tgt, wk, windows, history>>

\* The handler of the next message of the batch starts.
Dispatch(th) ==
  /\ Running(th) /\ batch[th] # <<>>
  /\ last' = [last EXCEPT ![cur[th]][Head(batch[th]).by] = Head(batch[th]).n]
  /\ batch' = [batch EXCEPT ![th] = Tail(@)]
  /\ Goto(th, "hand")
  /\ UNCHANGED <<queues, waiters, ending, cur, left, tgt, wk, windows, sent>>

\* Mutant: the round ends without clearing the flag.
Release_keeps(th) ==
  /\ Running(th) /\ batch[th] = <<>> /\ left[th] = 0
  /\ tgt' = [tgt EXCEPT ![th] = cur[th]]
  /\ cur' = [cur EXCEPT ![th] = None]
  /\ Goto(th, "relchk")
  /\ UNCHANGED <<queues, waiters, ending, left, batch, wk, windows, history>>

\* Hand the task back: global 1 -> 0.
Release(th) ==
  /\ Running(th) /\ batch[th] = <<>> /\ left[th] = 0
  /\ global' = [global EXCEPT ![cur[th]] = 0]
  /\ tgt' = [tgt EXCEPT ![th] = cur[th]]
  /\ cur' = [cur EXCEPT ![th] = None]
  /\ Goto(th, "relchk")
  /\ UNCHANGED <<qumsg, evbind, taskq, deferq, waiters, ending, left, batch, wk, windows, history>>

\* Then look at the queue again, and compete for global if it is not empty.
ReleaseCheck(th) ==
  /\ pc[th] = "relchk" /\ qumsg[tgt[th]] # <<>>
  /\ Goto(th, "cas")
  /\ UNCHANGED <<queues, waiters, ending, tgt, wk, round, windows, history>>

ReleaseDone(th) ==
  /\ pc[th] = "relchk" /\ qumsg[tgt[th]] = <<>>
  /\ tgt' = [tgt EXCEPT ![th] = None]
  /\ Return(th)
  /\ UNCHANGED <<queues, waiters, ending, wk, round, windows, history>>

RunTask(th) ==
  \/ RunSize(th) \/ RunPop(th) \/ Dispatch(th)
  \/ Release(th) \/ ReleaseCheck(th) \/ ReleaseDone(th)

-----------------------------------------------------------------------------
(* The worker loop: _loader_worker_loop, _loader_task_get, _loader_worker_sleep *)

CanTake(q) == q # <<>> /\ Head(q).ready

TakeFrom(w, v) ==
  /\ CanTake(taskq[v])
  /\ cur' = [cur EXCEPT ![w] = Head(taskq[v]).task]
  /\ taskq' = [taskq EXCEPT ![v] = Tail(@)]
  /\ Goto(w, "size")
  /\ UNCHANGED <<qumsg, global, evbind, deferq, waiters, ending, left, batch, tgt, wk, windows, history>>

TakeOwn(w) == pc[w] = "idle" /\ ~stop /\ TakeFrom(w, w)

\* Its own queue gives nothing: empty, or its first cell is claimed and not yet
\* published (inflight).
OwnFails(w) ==
  /\ pc[w] = "idle" /\ ~stop /\ ~CanTake(taskq[w])
  /\ Goto(w, IF taskq[w] = <<>> THEN "steal" ELSE "retry")
  /\ UNCHANGED <<queues, waiters, ending, round, tgt, wk, windows, history>>

\* Then the worker steals, from any other: the sizes that pick the victim are
\* approximate.
Steal(w, v) == pc[w] \in {"steal", "retry"} /\ v # w /\ TakeFrom(w, v)

\* Nothing stolen: spin, then go to sleep.
NoTask(w) ==
  /\ pc[w] = "steal"
  /\ Goto(w, "prep")
  /\ UNCHANGED <<queues, waiters, ending, round, tgt, wk, windows, history>>

\* Something is in flight, or the spin saw a task: look again instead.
LookAgain(w) ==
  /\ \/ pc[w] = "retry"
     \/ /\ pc[w] = "steal"
        /\ \E v \in Workers : taskq[v] # <<>> /\ (v = w \/ ~Head(taskq[v]).ready)
  /\ Goto(w, "idle")
  /\ UNCHANGED <<queues, waiters, ending, round, tgt, wk, windows, history>>

\* waiter_prepare: the epoch is read first, the state is shown after it.
PrepareSeen(w) ==
  /\ pc[w] = "prep"
  /\ moved' = [moved EXCEPT ![w] = FALSE]
  /\ Goto(w, "show")
  /\ UNCHANGED <<queues, wstate, ending, round, tgt, wk, windows, history>>

PrepareShow(w) ==
  /\ pc[w] = "show"
  /\ wstate' = [wstate EXCEPT ![w] = "sleep"]
  /\ Goto(w, "recheck")
  /\ UNCHANGED <<queues, moved, ending, round, tgt, wk, windows, history>>

\* Mutant: no second look, straight to futex_wait.
SleepRecheck_never(w) ==
  /\ pc[w] = "recheck"
  /\ Goto(w, "commit")
  /\ UNCHANGED <<queues, waiters, ending, round, tgt, wk, windows, history>>

\* Mutant: the second look forgets the stop flag.
SleepRecheck_noStop(w) ==
  /\ pc[w] = "recheck"
  /\ Goto(w, IF taskq[w] # <<>> THEN "cancel" ELSE "commit")
  /\ UNCHANGED <<queues, waiters, ending, round, tgt, wk, windows, history>>

\* The second look at the queue and the stop flag, then cancel or commit.
SleepRecheck(w) ==
  /\ pc[w] = "recheck"
  /\ Goto(w, IF taskq[w] # <<>> \/ stop THEN "cancel" ELSE "commit")
  /\ UNCHANGED <<queues, waiters, ending, round, tgt, wk, windows, history>>

\* waiter_cancel, or what waiter_commit does after the futex call.
Awaken(w) ==
  /\ pc[w] \in {"cancel", "woke"}
  /\ wstate' = [wstate EXCEPT ![w] = "awake"]
  /\ Goto(w, "idle")
  /\ UNCHANGED <<queues, moved, ending, round, tgt, wk, windows, history>>

\* waiter_commit: futex_wait blocks only while the epoch still equals seen.
Commit(w) ==
  /\ pc[w] = "commit"
  /\ Goto(w, IF moved[w] THEN "woke" ELSE "blocked")
  /\ UNCHANGED <<queues, waiters, ending, round, tgt, wk, windows, history>>

SpuriousWake(w) ==
  /\ pc[w] = "blocked"
  /\ Goto(w, "woke")
  /\ UNCHANGED <<queues, waiters, ending, round, tgt, wk, windows, history>>

WorkerExit(w) ==
  /\ pc[w] = "idle" /\ stop
  /\ Goto(w, "exit")
  /\ UNCHANGED <<queues, waiters, ending, round, tgt, wk, windows, history>>

WorkerLoop(w) ==
  \/ TakeOwn(w)
  \/ \E v \in Workers : Steal(w, v)
  \/ OwnFails(w) \/ NoTask(w) \/ LookAgain(w)
  \/ PrepareSeen(w) \/ PrepareShow(w) \/ SleepRecheck(w) \/ Commit(w)
  \/ Awaken(w)
  \/ WorkerExit(w)

-----------------------------------------------------------------------------
(* Net threads: _loader_evtask_run, _task_emit_begin / _task_emit / _task_emit_end,
   _loader_task_try_run, task_bind_net *)

\* The deferred-execution drain runs the next bound task.
DeferTake(n) ==
  /\ pc[n] = "idle" /\ deferq[n] # <<>>
  /\ cur' = [cur EXCEPT ![n] = Head(deferq[n])]
  /\ deferq' = [deferq EXCEPT ![n] = Tail(@)]
  /\ Goto(n, "size")
  /\ UNCHANGED <<qumsg, global, evbind, taskq, waiters, ending, left, batch, tgt, wk, windows, history>>

\* Mutant: a nested window resets the count of the outer one.
EmitBegin_resets(n, t) ==
  /\ pc[n] \in {"idle", "win"} /\ ~stop
  /\ Len(win[n]) < MaxNest
  /\ win' = [win EXCEPT ![n] = Append(@, t)]
  /\ nwin' = [nwin EXCEPT ![n] = 0]
  /\ Goto(n, "win")
  /\ UNCHANGED <<queues, waiters, ending, round, tgt, wk, history>>

\* A protocol callback opens an emit window on t; windows nest (MaxNest deep),
\* only the outermost one resets the count of queued messages.
EmitBegin(n, t) ==
  /\ pc[n] \in {"idle", "win"} /\ ~stop
  /\ Len(win[n]) < MaxNest
  /\ win' = [win EXCEPT ![n] = Append(@, t)]
  /\ nwin' = [nwin EXCEPT ![n] = IF win[n] = <<>> THEN 0 ELSE @]
  /\ Goto(n, "win")
  /\ UNCHANGED <<queues, waiters, ending, round, tgt, wk, history>>

Target(n) == win[n][Len(win[n])]

\* Mutant: the inline path does not ask whether the queue is empty.
EmitTryInline_overtake(n) ==
  /\ pc[n] = "win" /\ Len(win[n]) = 1
  /\ sent[n][Target(n)] < MaxPosts[n]
  /\ evbind[Target(n)] = n
  /\ tgt' = [tgt EXCEPT ![n] = Target(n)]
  /\ Goto(n, "try")
  /\ UNCHANGED <<queues, waiters, ending, round, wk, windows, history>>

\* An unsliced RECV in the outermost window of a task bound to this very thread,
\* whose queue is empty, may be dispatched at once.
EmitTryInline(n) ==
  /\ pc[n] = "win" /\ Len(win[n]) = 1
  /\ sent[n][Target(n)] < MaxPosts[n]
  /\ evbind[Target(n)] = n
  /\ qumsg[Target(n)] = <<>>
  /\ tgt' = [tgt EXCEPT ![n] = Target(n)]
  /\ Goto(n, "try")
  /\ UNCHANGED <<queues, waiters, ending, round, wk, windows, history>>

\* _loader_task_try_run won global: the message runs without being queued.
EmitInline(n) ==
  /\ pc[n] = "try" /\ global[tgt[n]] = 0
  /\ global' = [global EXCEPT ![tgt[n]] = 1]
  /\ sent' = [sent EXCEPT ![n][tgt[n]] = @ + 1]
  /\ cur' = [cur EXCEPT ![n] = tgt[n]]
  /\ batch' = [batch EXCEPT ![n] = <<[by |-> n, n |-> sent[n][tgt[n]] + 1, ready |-> TRUE]>>]
  /\ left' = [left EXCEPT ![n] = 0]
  /\ tgt' = [tgt EXCEPT ![n] = None]
  /\ Goto(n, "run")
  /\ UNCHANGED <<qumsg, evbind, taskq, deferq, waiters, ending, wk, windows, last>>

\* _loader_task_try_run lost global.
EmitLost(n) ==
  /\ pc[n] = "try" /\ global[tgt[n]] = 1
  /\ tgt' = [tgt EXCEPT ![n] = None]
  /\ Goto(n, "push")
  /\ UNCHANGED <<queues, waiters, ending, wk, round, windows, history>>

\* Every other message, and one that lost global, is queued without activation.
EmitClaim(n) ==
  /\ pc[n] \in {"win", "push"}
  /\ ClaimMessage(n, Target(n))
  /\ tgt' = [tgt EXCEPT ![n] = Target(n)]
  /\ Goto(n, "epub")
  /\ UNCHANGED <<global, evbind, taskq, deferq, waiters, ending, wk, round, windows, last>>

EmitPublish(n) ==
  /\ pc[n] = "epub"
  /\ qumsg' = [qumsg EXCEPT ![tgt[n]] = Publish(@, n)]
  /\ nwin' = [nwin EXCEPT ![n] = @ + 1]
  /\ tgt' = [tgt EXCEPT ![n] = None]
  /\ Goto(n, "win")
  /\ UNCHANGED <<global, evbind, taskq, deferq, waiters, ending, wk, round, win, history>>

\* Closing a window activates its target once if anything was queued.
EmitEnd(n) ==
  /\ pc[n] = "win" /\ nwin[n] > 0
  /\ win' = [win EXCEPT ![n] = SubSeq(@, 1, Len(@) - 1)]
  /\ tgt' = [tgt EXCEPT ![n] = Target(n)]
  /\ Goto(n, "cas")
  /\ UNCHANGED <<queues, waiters, ending, wk, round, nwin, history>>

EmitEndEmpty(n) ==
  /\ pc[n] = "win" /\ nwin[n] = 0
  /\ win' = [win EXCEPT ![n] = SubSeq(@, 1, Len(@) - 1)]
  /\ Goto(n, IF Len(win[n]) = 1 THEN "idle" ELSE "win")
  /\ UNCHANGED <<queues, waiters, ending, tgt, wk, round, nwin, history>>

\* task_bind_net: any thread, at any time.
Rebind(t, b) ==
  /\ ~stop
  /\ evbind' = [evbind EXCEPT ![t] = b]
  /\ UNCHANGED <<qumsg, global, taskq, deferq, waiters, ending, pc, tgt, wk, round, windows, history>>

\* What a net thread must do once begun, and what it may do.
NetLoop(n) == DeferTake(n) \/ EmitInline(n) \/ EmitLost(n)
              \/ (pc[n] = "push" /\ EmitClaim(n)) \/ EmitPublish(n)
              \/ EmitEnd(n) \/ EmitEndEmpty(n)
NetMay(n) == \/ \E t \in Tasks : EmitBegin(n, t)
             \/ EmitTryInline(n)
             \/ pc[n] = "win" /\ EmitClaim(n)

-----------------------------------------------------------------------------
(* Shutdown: loader_free after _loader_task_closing has seen the task map empty. *)

\* No task is left, so nobody is posting to one, running one or scheduling one.
NoTasksLeft ==
  /\ \A t \in Tasks : global[t] = 0 /\ qumsg[t] = <<>>
  /\ \A th \in Nets \cup Posters : pc[th] = "idle"
  /\ \A w \in Workers : pc[w] \in {"idle", "steal", "retry", "prep", "show", "recheck", "cancel",
                                 "commit", "blocked", "woke"}

LoaderStop ==
  /\ ~stop /\ NoTasksLeft
  /\ stop' = TRUE
  /\ unwoken' = Workers
  /\ UNCHANGED <<queues, waiters, pc, round, tgt, wk, windows, history>>

\* _loader_worker_wakeup_all looks at one worker and wakes it unless it is awake.
WakeupAll(w) ==
  /\ pc[Main] = "idle" /\ w \in unwoken /\ wstate[w] # "awake"
  /\ unwoken' = unwoken \ {w}
  /\ wk' = [wk EXCEPT ![Main] = w]
  /\ Goto(Main, "wake")
  /\ UNCHANGED <<queues, waiters, stop, round, tgt, windows, history>>

WakeupSkip(w) ==
  /\ pc[Main] = "idle" /\ w \in unwoken /\ wstate[w] = "awake"
  /\ unwoken' = unwoken \ {w}
  /\ UNCHANGED <<queues, waiters, stop, pc, wk, round, tgt, windows, history>>

\* thread_join returns for every worker.
Joined ==
  /\ stop /\ unwoken = {} /\ pc[Main] = "idle"
  /\ \A w \in Workers : pc[w] = "exit"
  /\ UNCHANGED vars

-----------------------------------------------------------------------------
Next ==
  \/ \E th \in Threads : Post(th) \/ RunTask(th)
  \/ \E w \in Workers : WorkerLoop(w) \/ SpuriousWake(w)
  \/ \E n \in Nets : NetLoop(n) \/ NetMay(n)
  \/ \E t \in Tasks, b \in Nets \cup {None} : Rebind(t, b)
  \/ LoaderStop
  \/ \E w \in Workers : WakeupAll(w) \/ WakeupSkip(w)
  \/ Joined

\* What a thread does on its own once it has begun: everything except starting
\* a post, a window or an emit, rebinding, and a spurious wake-up.
Progress(th) ==
  \/ PostPublish(th) \/ Activate(th) \/ AlreadyActive(th) \/ ScheduleNet(th)
  \/ \E w \in Workers : ScheduleWorker(th, w)
  \/ TaskqPublish(th) \/ MarkWaking(th) \/ NoWakeNeeded(th) \/ WakeEpoch(th) \/ FutexWake(th)
  \/ RunTask(th)
  \/ th \in Workers /\ WorkerLoop(th)
  \/ th \in Nets /\ NetLoop(th)
  \/ th = Main /\ \E w \in Workers : WakeupAll(w) \/ WakeupSkip(w)

Spec == Init /\ [][Next]_vars

\* Threads are scheduled by the operating system; and however many events a net
\* thread handles, every round of its loop ends by draining deferq (uev.c:514).
FairSpec ==
  /\ Spec
  /\ \A th \in Threads : WF_vars(Progress(th))
  /\ \A n \in Nets : SF_vars(DeferTake(n))

-----------------------------------------------------------------------------
MsgCell  == [by : Threads, n : Nat, ready : BOOLEAN]
TaskCell == [task : Tasks, by : Threads, ready : BOOLEAN]

\* Every variable stays in its type.
TypeOK ==
  /\ qumsg \in [Tasks -> Seq(MsgCell)]
  /\ global \in [Tasks -> {0, 1}]
  /\ evbind \in [Tasks -> Nets \cup {None}]
  /\ taskq \in [Workers -> Seq(TaskCell)]
  /\ deferq \in [Nets -> Seq(Tasks)]
  /\ wstate \in [Workers -> {"awake", "sleep", "waking"}]
  /\ moved \in [Workers -> BOOLEAN]
  /\ stop \in BOOLEAN
  /\ unwoken \in SUBSET Workers
  /\ pc \in [Threads -> PCs]
  /\ cur \in [Threads -> Tasks \cup {None}]
  /\ tgt \in [Threads -> Tasks \cup {None}]
  /\ wk \in [Threads -> Workers \cup {None}]
  /\ left \in [Threads -> Nat]
  /\ batch \in [Threads -> Seq(MsgCell)]
  /\ win \in [Nets -> Seq(Tasks)]
  /\ nwin \in [Nets -> Nat]
  /\ sent \in [Threads -> [Tasks -> Nat]]
  /\ last \in [Tasks -> [Threads -> Nat]]

\* A thread that has won global for t and has not yet handed t to a run queue.
Scheduling(th, t) == pc[th] = "sched" /\ tgt[th] = t

InTaskq(w, i, t) == i \in DOMAIN taskq[w] /\ taskq[w][i].task = t
InDeferq(n, i, t) == i \in DOMAIN deferq[n] /\ deferq[n][i] = t

\* qumsg is a single-consumer queue and task state is unlocked: no two threads
\* may run one task (loader.c:287), whichever of the worker, net-thread and
\* inline paths they came by.
OneRunner ==
  \A t1, t2 \in Threads : cur[t1] # None /\ cur[t1] = cur[t2] => t1 = t2

\* global = 1 means that some thread or some run queue is in charge of the task:
\* without that the task would never run again (loader.c:159-165, 239-244).
GlobalHeld ==
  \A t \in Tasks : global[t] = 1 =>
    \/ \E th \in Threads : cur[th] = t \/ Scheduling(th, t)
    \/ \E w \in Workers : \E i \in DOMAIN taskq[w] : taskq[w][i].task = t
    \/ \E n \in Nets : \E i \in DOMAIN deferq[n] : deferq[n][i] = t

\* A thread that is going to look at t's flag or queue again.
WillActivate(th, t) ==
  \/ pc[th] \in {"pub", "cas", "relchk"} /\ tgt[th] = t
  \/ pc[th] = "epub" /\ tgt[th] = t
  \/ th \in Nets /\ nwin[th] > 0 /\ \E i \in DOMAIN win[th] : win[th][i] = t

\* No message is stranded: a task with messages and global = 0 has a thread on
\* its way to activate it (the "push then CAS" / "CAS then empty" handshake of
\* loader.c:236-244, and the one activation per emit window of task.c:578-588).
NoLostMessage ==
  \A t \in Tasks :
    qumsg[t] # <<>> /\ global[t] = 0 => \E th \in Threads : WillActivate(th, t)

\* A worker past its second look that will not be turned back by the epoch.
Asleep(w) == pc[w] \in {"commit", "blocked"} /\ ~moved[w]

WillWake(th, w) == pc[th] \in {"tpub", "wst", "wake"} /\ wk[th] = w

\* No wake-up is lost: a sleeping worker with a task in its queue, or one that
\* shutdown must end, has a thread on its way to wake it (waiter.h:14-19).
NoLostWakeup ==
  \A w \in Workers : Asleep(w) =>
    /\ taskq[w] # <<>> => \E th \in Threads : WillWake(th, w)
    /\ stop => w \in unwoken \/ \E th \in Threads : WillWake(th, w)

RunnerOf(t) == IF \E th \in Threads : cur[th] = t
               THEN CHOOSE th \in Threads : cur[th] = t ELSE None

\* The messages to t that were posted and not handled: popped, then queued.
Unhandled(t) == (IF RunnerOf(t) = None THEN <<>> ELSE batch[RunnerOf(t)]) \o qumsg[t]

\* Each message is handled once and in its sender's order: what is left of a
\* sender's messages to t is exactly the run of numbers after the last one
\* handled (the per-connection order task.c:567 and loader.c:324 rely on, also
\* when an inline dispatch overtakes the queue).
InOrderOnce ==
  \A t \in Tasks, from \in Threads :
    LET q    == Unhandled(t)
        mine == {i \in DOMAIN q : q[i].by = from}
    IN  /\ {q[i].n : i \in mine} = last[t][from] + 1 .. sent[from][t]
        /\ \A i, j \in mine : i < j => q[i].n < q[j].n

-----------------------------------------------------------------------------
(* The scheduler implements Mailbox: the runner of a task is the thread that
   has it as cur. *)

M == INSTANCE Mailbox WITH runner <- [t \in Tasks |-> RunnerOf(t)]

ImplementsMailbox == M!Spec

\* Every message posted is handled in the end, however the posts, the run
\* queues and the sleeping workers interleave (needs FairSpec).
EventuallyHandled ==
  \A t \in Tasks, from \in Threads : \A k \in 1 .. MaxPosts[from] :
    (sent[from][t] >= k) ~> (last[t][from] >= k)

\* Once stop is set every worker thread ends, so thread_join returns
\* (loader.c:591-597).
WorkersJoin == stop ~> (\A w \in Workers : pc[w] = "exit")
=============================================================================
