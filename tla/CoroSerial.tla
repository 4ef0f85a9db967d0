------------------------------ MODULE CoroSerial ------------------------------
(***************************************************************************)
(* The command lock of a connection (coro_serial_* in lib/coro/coro.c) and *)
(* the calls that use it (_serial_* in lib/srey/coro_utils.c).             *)
(*                                                                         *)
(* The coroutines of one task run on one thread.  Resuming a coroutine     *)
(* runs it at once, on top of the one that resumes it, until it yields or  *)
(* ends: run is the stack of contexts, Main (the dispatcher) at its        *)
(* bottom, and only its top executes.  A coroutine inside the lock may     *)
(* yield for the answer it waits for.                                      *)
(*                                                                         *)
(* A connection has a slot for its lock.  connect fills an empty slot;     *)
(* quit, or a connect that fails, frees the lock and empties the slot,     *)
(* while others hold the lock, wait for it, or keep the pointer they read. *)
(***************************************************************************)
EXTENDS Naturals, Sequences, SequencesExt

CONSTANTS
  Coros,     \* coroutines
  Main,      \* the dispatcher of the task
  Serials,   \* locks that may be created
  MaxUse,    \* bound: starts, calls and waits of each coroutine
  MaxDepth,  \* bound: nesting of one coroutine in the lock
  Nil

ASSUME SerialAssumption ==
  /\ Main \notin Coros /\ Nil \notin Coros \cup Serials /\ Nil # Main
  /\ MaxUse \in Nat /\ MaxDepth \in Nat \ {0}

Contexts == Coros \cup {Main}

\* "connect" stands for a connect that made the lock; one that found it there is
\* a command.
Calls == {"command", "connect", "quit"}

VARIABLES
  run,                       \* the stack of contexts
  slot,                      \* the connection's lock
  mem,                       \* lock -> "new", "live" or "freed"
  current, ref, waiters,     \* lock -> its owner, depth and queue
  closed, draining,          \* lock -> its flags
  call, at,                  \* coroutine -> the call it makes, how far it is
  held, depth,               \* coroutine -> its lock, its depth in it
  drain,                     \* context -> the free it is in: its lock, who is still to wake
  uses                       \* coroutine -> its starts, calls and waits (bound)

vars == <<run, slot, mem, current, ref, waiters, closed, draining, call, at, held,
          depth, drain, uses>>
lock == <<current, ref, depth>>
flags == <<closed, draining>>

Top == Last(run)
Resume(c) == run' = Append(run, c)
Yield == run' = Front(run)

\* The call returns: its locals are gone.
Return(c) ==
  /\ at' = [at EXCEPT ![c] = "out"]
  /\ held' = [held EXCEPT ![c] = Nil]
  /\ call' = [call EXCEPT ![c] = "command"]

NoDrain == [on |-> Nil, list |-> <<>>]
InDrain(x) == drain[x].on # Nil
Runs(x) == Top = x /\ ~InDrain(x)

Init ==
  /\ run = <<Main>> /\ slot = Nil
  /\ mem = [s \in Serials |-> "new"]
  /\ current = [s \in Serials |-> Nil] /\ ref = [s \in Serials |-> 0]
  /\ waiters = [s \in Serials |-> <<>>]
  /\ closed = [s \in Serials |-> FALSE] /\ draining = [s \in Serials |-> FALSE]
  /\ call = [c \in Coros |-> "command"] /\ at = [c \in Coros |-> "out"]
  /\ held = [c \in Coros |-> Nil]
  /\ depth = [c \in Coros |-> 0]
  /\ drain = [x \in Contexts |-> NoDrain]
  /\ uses = [c \in Coros |-> 0]

-----------------------------------------------------------------------------
(* The dispatcher, and coroutines that wake each other *)

\* A coroutine is started on top of the context that runs.  This is also how a call
\* goes on that is made inside a lock when the slot has another lock by then: it is
\* a stranger to that lock, whoever makes it, and the caller is under it.
Spawn(x, c) ==
  /\ Runs(x) /\ at[c] = "out" /\ ~Contains(run, c) /\ uses[c] < MaxUse
  /\ Resume(c)
  /\ uses' = [uses EXCEPT ![c] = @ + 1]
  /\ UNCHANGED <<slot, mem, lock, flags, waiters, call, at, held, drain>>

\* The answer a coroutine waits for inside the lock, or its timeout.
Answer(x, c) ==
  /\ Runs(x) /\ at[c] = "in" /\ ~Contains(run, c)
  /\ Resume(c)
  /\ UNCHANGED <<slot, mem, lock, flags, waiters, call, at, held, drain, uses>>

\* A coroutine ends, or waits for something that is not this connection.
Finish(c) ==
  /\ Runs(c) /\ at[c] = "out"
  /\ Yield
  /\ UNCHANGED <<slot, mem, lock, flags, waiters, call, at, held, drain, uses>>

-----------------------------------------------------------------------------
(* enter *)

\* The call c begins, and the lock it finds in the slot: it keeps that pointer to
\* the end, whatever becomes of the slot.
Begin(c, o, s) ==
  /\ Runs(c) /\ at[c] = "out" /\ uses[c] < MaxUse
  /\ call' = [call EXCEPT ![c] = o]
  /\ held' = [held EXCEPT ![c] = s]
  /\ uses' = [uses EXCEPT ![c] = @ + 1]

Refuse(c, o) ==
  /\ slot # Nil /\ Begin(c, o, slot)
  /\ closed[slot]
  /\ at' = [at EXCEPT ![c] = "failed"]
  /\ UNCHANGED <<run, slot, mem, lock, flags, waiters, drain>>

Take(c, o) ==
  /\ slot # Nil /\ Begin(c, o, slot)
  /\ ~closed[slot] /\ current[slot] = Nil
  /\ current' = [current EXCEPT ![slot] = c]
  /\ ref' = [ref EXCEPT ![slot] = @ + 1]
  /\ depth' = [depth EXCEPT ![c] = 1]
  /\ at' = [at EXCEPT ![c] = "in"]
  /\ UNCHANGED <<run, slot, mem, flags, waiters, drain>>

Queue(c, o) ==
  /\ slot # Nil /\ Begin(c, o, slot)
  /\ ~closed[slot] /\ current[slot] # Nil
  /\ waiters' = [waiters EXCEPT ![slot] = Append(@, c)]
  /\ at' = [at EXCEPT ![c] = "queued"]
  /\ Yield
  /\ UNCHANGED <<slot, mem, lock, flags, drain>>

\* connect finds the slot empty: a new lock, which is its own at once.
Create(c, s) ==
  /\ slot = Nil /\ mem[s] = "new" /\ Begin(c, "connect", s)
  /\ slot' = s
  /\ mem' = [mem EXCEPT ![s] = "live"]
  /\ current' = [current EXCEPT ![s] = c]
  /\ ref' = [ref EXCEPT ![s] = 1]
  /\ depth' = [depth EXCEPT ![c] = 1]
  /\ at' = [at EXCEPT ![c] = "in"]
  /\ UNCHANGED <<run, flags, waiters, drain>>

\* A call made inside the lock the slot still has: the next level.  quit may be
\* called from within a command; a connect makes commands of its own, and is still
\* a connect after them.  With an empty slot the call does without a lock; with a
\* closed one it is refused, and with another one it is a stranger's (Spawn).
Nest(c, o) ==
  /\ Runs(c) /\ at[c] = "in" /\ uses[c] < MaxUse /\ depth[c] < MaxDepth
  /\ call[c] = "command" \/ (call[c] = "connect" /\ o = "command")
  /\ slot = held[c] /\ ~closed[held[c]]
  /\ call' = [call EXCEPT ![c] = IF @ = "connect" THEN @ ELSE o]
  /\ ref' = [ref EXCEPT ![held[c]] = @ + 1]
  /\ depth' = [depth EXCEPT ![c] = @ + 1]
  /\ uses' = [uses EXCEPT ![c] = @ + 1]
  /\ UNCHANGED <<run, slot, mem, current, flags, waiters, at, held, drain>>

\* The body waits for an answer.
Suspend(c) ==
  /\ Runs(c) /\ at[c] = "in" /\ uses[c] < MaxUse
  /\ Yield
  /\ uses' = [uses EXCEPT ![c] = @ + 1]
  /\ UNCHANGED <<slot, mem, lock, flags, waiters, call, at, held, drain>>

-----------------------------------------------------------------------------
(* leave *)

\* Mutant: a lock closed meanwhile is left to whoever closed it.
Release_forgets(c) ==
  LET s == held[c] IN
  /\ Runs(c) /\ at[c] = "in" /\ call[c] # "quit"
  /\ depth[c] = 1 /\ waiters[s] = <<>>
  /\ current' = [current EXCEPT ![s] = Nil]
  /\ ref' = [ref EXCEPT ![s] = @ - 1]
  /\ depth' = [depth EXCEPT ![c] = 0]
  /\ Return(c)
  /\ UNCHANGED <<run, slot, mem, flags, waiters, drain, uses>>

\* Mutant: the memory is freed while the free that woke the waiters goes on.
Release_frees(c) ==
  LET s == held[c] IN
  /\ Runs(c) /\ at[c] = "in" /\ call[c] # "quit"
  /\ depth[c] = 1 /\ waiters[s] = <<>>
  /\ current' = [current EXCEPT ![s] = Nil]
  /\ ref' = [ref EXCEPT ![s] = @ - 1]
  /\ depth' = [depth EXCEPT ![c] = 0]
  /\ mem' = IF closed[s] THEN [mem EXCEPT ![s] = "freed"] ELSE mem
  /\ Return(c)
  /\ UNCHANGED <<run, slot, flags, waiters, drain, uses>>

LeaveInner(c) ==
  /\ Runs(c) /\ at[c] = "in" /\ call[c] # "quit"
  /\ depth[c] > 1
  /\ ref' = [ref EXCEPT ![held[c]] = @ - 1]
  /\ depth' = [depth EXCEPT ![c] = @ - 1]
  /\ UNCHANGED <<run, slot, mem, current, flags, waiters, call, at, held, drain, uses>>

\* Mutant: the queue is left to the next one that leaves.
Release_alone(c) ==
  LET s == held[c] IN
  /\ Runs(c) /\ at[c] = "in" /\ call[c] # "quit"
  /\ depth[c] = 1
  /\ current' = [current EXCEPT ![s] = Nil]
  /\ ref' = [ref EXCEPT ![s] = @ - 1]
  /\ depth' = [depth EXCEPT ![c] = 0]
  /\ mem' = IF closed[s] /\ ~draining[s] THEN [mem EXCEPT ![s] = "freed"] ELSE mem
  /\ Return(c)
  /\ UNCHANGED <<run, slot, flags, waiters, drain, uses>>

\* Nobody waits: the lock is free, and so is its memory if it was closed meanwhile
\* and the call that closed it has finished.
Release(c) ==
  LET s == held[c] IN
  /\ Runs(c) /\ at[c] = "in" /\ call[c] # "quit"
  /\ depth[c] = 1 /\ waiters[s] = <<>>
  /\ current' = [current EXCEPT ![s] = Nil]
  /\ ref' = [ref EXCEPT ![s] = @ - 1]
  /\ depth' = [depth EXCEPT ![c] = 0]
  /\ mem' = IF closed[s] /\ ~draining[s] THEN [mem EXCEPT ![s] = "freed"] ELSE mem
  /\ Return(c)
  /\ UNCHANGED <<run, slot, flags, waiters, drain, uses>>

\* The lock goes to the first waiter, which runs at once; after it yields the one
\* that left goes on without touching the lock.
HandOver(c) ==
  LET s == held[c]
      w == Head(waiters[s])
  IN
  /\ Runs(c) /\ at[c] = "in" /\ call[c] # "quit"
  /\ depth[c] = 1 /\ waiters[s] # <<>>
  /\ waiters' = [waiters EXCEPT ![s] = Tail(@)]
  /\ current' = [current EXCEPT ![s] = w]
  /\ ref' = [ref EXCEPT ![s] = 1]
  /\ depth' = [depth EXCEPT ![c] = 0, ![w] = 1]
  /\ at' = [at EXCEPT ![c] = "out", ![w] = "in"]
  /\ held' = [held EXCEPT ![c] = Nil]
  /\ call' = [call EXCEPT ![c] = "command"]
  /\ Resume(w)
  /\ UNCHANGED <<slot, mem, flags, drain, uses>>

-----------------------------------------------------------------------------
(* discard: free the lock, empty the slot if it is still this lock's *)

\* Who may free a lock: a quit that holds it, a quit that was refused or woken
\* because it is being closed, a connect that made it and then failed.
Discards(c) ==
  \/ at[c] = "in" /\ call[c] = "quit"
  \/ at[c] = "in" /\ call[c] = "connect" /\ depth[c] = 1
  \/ at[c] = "failed" /\ call[c] = "quit"

\* What is left of the call: to leave, or nothing.
Discarded(c) ==
  IF at[c] = "failed" THEN Return(c)
  ELSE call' = [call EXCEPT ![c] = "command"] /\ UNCHANGED <<at, held>>

\* The slot has another lock by now.
DiscardOther(c) ==
  /\ Runs(c) /\ Discards(c) /\ held[c] # slot
  /\ Discarded(c)
  /\ UNCHANGED <<run, slot, mem, lock, flags, waiters, drain, uses>>

\* The free is somebody else's: only the slot is emptied.
DiscardClosed(c) ==
  /\ Runs(c) /\ Discards(c) /\ held[c] = slot /\ closed[slot]
  /\ slot' = Nil
  /\ Discarded(c)
  /\ UNCHANGED <<run, mem, lock, flags, waiters, drain, uses>>

\* The free begins: from here on nobody gets the lock, and the waiters fail.
Close(x, s) ==
  /\ closed' = [closed EXCEPT ![s] = TRUE]
  /\ draining' = [draining EXCEPT ![s] = TRUE]
  /\ drain' = [drain EXCEPT ![x] = [on |-> s, list |-> waiters[s]]]
  /\ waiters' = [waiters EXCEPT ![s] = <<>>]
  /\ UNCHANGED <<run, slot, mem, lock, call, at, held, uses>>

Discard(c) ==
  /\ Runs(c) /\ Discards(c) /\ held[c] = slot /\ ~closed[slot]
  /\ Close(c, slot)

\* quit outside a coroutine, in the destructor of the task's data.
MainQuit ==
  /\ Runs(Main) /\ slot # Nil
  /\ \/ ~closed[slot] /\ Close(Main, slot)
     \/ closed[slot] /\ slot' = Nil
        /\ UNCHANGED <<run, mem, lock, flags, waiters, call, at, held, drain, uses>>

\* Each waiter runs at once, and sees that it was not given the lock.
DrainNext(x) ==
  LET w == Head(drain[x].list) IN
  /\ Top = x /\ InDrain(x) /\ drain[x].list # <<>>
  /\ drain' = [drain EXCEPT ![x].list = Tail(@)]
  /\ at' = [at EXCEPT ![w] = "failed"]
  /\ Resume(w)
  /\ UNCHANGED <<slot, mem, lock, flags, waiters, call, held, uses>>

\* All are awake.  A lock still held is freed by its owner when it leaves; the slot
\* is emptied unless another lock has taken it.
DrainEnd(x) ==
  LET s == drain[x].on IN
  /\ Top = x /\ InDrain(x) /\ drain[x].list = <<>>
  /\ drain' = [drain EXCEPT ![x] = NoDrain]
  /\ draining' = [draining EXCEPT ![s] = FALSE]
  /\ mem' = IF current[s] = Nil THEN [mem EXCEPT ![s] = "freed"] ELSE mem
  /\ slot' = IF slot = s THEN Nil ELSE slot
  /\ IF x \in Coros THEN Discarded(x) ELSE UNCHANGED <<at, held, call>>
  /\ UNCHANGED <<run, lock, closed, waiters, uses>>

\* A command that did not get the lock returns.
Fail(c) ==
  /\ Runs(c) /\ at[c] = "failed" /\ call[c] # "quit"
  /\ Return(c)
  /\ UNCHANGED <<run, slot, mem, lock, flags, waiters, drain, uses>>

-----------------------------------------------------------------------------
Enter(c) ==
  \/ \E o \in {"command", "quit"} : Refuse(c, o) \/ Take(c, o) \/ Queue(c, o) \/ Nest(c, o)
  \/ \E s \in Serials : Create(c, s)
Leave(c) == LeaveInner(c) \/ Release(c) \/ HandOver(c)
Free(c) == DiscardOther(c) \/ DiscardClosed(c) \/ Discard(c)
Drain(x) == DrainNext(x) \/ DrainEnd(x)

Next ==
  \/ \E c \in Coros : Enter(c) \/ Suspend(c) \/ Leave(c) \/ Free(c) \/ Fail(c) \/ Finish(c)
  \/ \E x \in Contexts : Drain(x) \/ \E c \in Coros : Spawn(x, c) \/ Answer(x, c)
  \/ MainQuit

Spec == Init /\ [][Next]_vars

-----------------------------------------------------------------------------
InSeq(q) == {q[i] : i \in DOMAIN q}

\* Every variable stays in its type.
TypeOK ==
  /\ run \in Seq(Contexts) /\ run # <<>>
  /\ slot \in Serials \cup {Nil}
  /\ mem \in [Serials -> {"new", "live", "freed"}]
  /\ current \in [Serials -> Coros \cup {Nil}] /\ ref \in [Serials -> Nat]
  /\ waiters \in [Serials -> Seq(Coros)]
  /\ closed \in [Serials -> BOOLEAN] /\ draining \in [Serials -> BOOLEAN]
  /\ call \in [Coros -> Calls] /\ at \in [Coros -> {"out", "queued", "in", "failed"}]
  /\ held \in [Coros -> Serials \cup {Nil}]
  /\ depth \in [Coros -> Nat]
  /\ drain \in [Contexts -> [on : Serials \cup {Nil}, list : Seq(Coros)]]
  /\ uses \in [Coros -> Nat]

\* One owner: a coroutine inside the lock is the one current names, its depth is
\* the lock's count, and a lock without an owner counts nothing (coro.h:178-179).
OneOwner ==
  /\ \A c \in Coros : at[c] = "in" <=> depth[c] > 0
  /\ \A c \in Coros : at[c] = "in" => current[held[c]] = c /\ ref[held[c]] = depth[c]
  /\ \A s \in Serials : current[s] # Nil => at[current[s]] = "in" /\ held[current[s]] = s
  /\ \A s \in Serials : current[s] = Nil => ref[s] = 0

\* Whoever is still going to touch a lock finds it alive: the next call through
\* the slot, its owner, those in its queue, and the free that wakes them.  (A call
\* that was refused only compares its pointer with the slot.)
NoUseAfterFree ==
  /\ slot # Nil => mem[slot] = "live"
  /\ \A c \in Coros : at[c] \in {"in", "queued"} => mem[held[c]] = "live"
  /\ \A x \in Contexts : InDrain(x) => mem[drain[x].on] = "live"

\* A lock that was closed is kept only as long as somebody has still to free it,
\* and one that was never closed is the slot's: none leaks.
NoLeak ==
  \A s \in Serials : mem[s] = "live" =>
    IF closed[s] THEN current[s] # Nil \/ draining[s] ELSE slot = s

\* A waiting coroutine is in exactly one queue, once, and waits for a lock that
\* somebody holds or is being freed: a wake is on its way.
OneQueue ==
  \A c \in Coros : at[c] = "queued" =>
    \/ /\ c \in InSeq(waiters[held[c]]) /\ current[held[c]] # Nil
       /\ \A x \in Contexts : c \notin InSeq(drain[x].list)
    \/ /\ c \notin InSeq(waiters[held[c]])
       /\ \E x \in Contexts : drain[x].on = held[c] /\ c \in InSeq(drain[x].list)

\* Once the lock is closed nobody gets it any more, neither those in its queue nor
\* those that come while it is being freed or still held (coro.h:166-168).
ClosedForGood ==
  [][\A s \in Serials : closed[s] => current'[s] \in {current[s], Nil}]_vars
=============================================================================
